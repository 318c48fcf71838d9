------------------------------ MODULE SendQueue ------------------------------
(***************************************************************************)
(* The outgoing message queue (internal/bot/sendq.go) together with the    *)
(* shutdown sequence of cmd/bot/main.go.                                   *)
(*                                                                         *)
(* Producers are the goroutines that call Enqueue (the trade workers).     *)
(* One sender goroutine ranges over the channel sendCh.  The main          *)
(* goroutine waits for a signal, polls the queue until it is empty or 30   *)
(* seconds have passed, then takes the mutex, sets sendDone, closes the    *)
(* channel and returns from main, which ends every other goroutine.        *)
(*                                                                         *)
(* A step is one operation another goroutine can observe: locking,         *)
(* reading sendDone, the non-blocking channel send, unlocking.  Time is    *)
(* the single flag "late": the 30 s deadline of DrainAndClose has passed.  *)
(***************************************************************************)
EXTENDS Naturals, Sequences, FiniteSets

CONSTANTS
    Producers,  \* goroutines that call Enqueue
    Messages,   \* distinct messages; each is built and enqueued once
    Cap,        \* sendQueueCap (20000 in the code)
    NoMsg,      \* no message in hand
    Main,       \* the main goroutine, as owner of the mutex
    Nobody      \* the mutex is free

ASSUME SendQueueAssumption ==
    /\ Cap \in Nat \ {0}
    /\ NoMsg \notin Messages
    /\ Main \notin Producers
    /\ Nobody \notin Producers \cup {Main}

VARIABLES
    run,        \* "up", or how the process ended
    sendCh,     \* contents of the channel
    closed,     \* close(sendCh) was called
    sendMu,     \* owner of the mutex
    sendDone,   \* the flag Enqueue checks
    pc,         \* where each producer is inside Enqueue
    params,     \* the argument of that call
    senderPc,   \* where the sender is in the body of its loop
    inHand,     \* the message it has taken off the channel, or NoMsg
    mainPc,     \* where main is in the shutdown sequence
    late,       \* the deadline of DrainAndClose has passed
    dropped,    \* SendQueueDropped
    fresh,      \* messages no call has been made for yet
    accepted,   \* history: messages put on the channel, in order
    handed,     \* history: messages handed to SendMessage, in order
    backlog     \* history: Len(accepted) when the signal arrived

producerVars == <<pc, params, fresh>>
mainVars     == <<mainPc, late, backlog>>
senderVars   == <<senderPc, inHand, handed>>
vars == <<run, sendCh, closed, sendMu, sendDone, dropped, accepted,
          pc, params, fresh, mainPc, late, backlog, senderPc, inHand, handed>>

ProducerPc == {"idle", "lock", "check", "select", "unlock"}
SenderPc   == {"range", "took", "sending"}
MainPc     == {"serving", "draining", "lock", "flag", "close", "unlock", "return"}

TypeOK ==
    /\ run \in {"up", "exited", "killed", "panicked"}
    /\ sendCh \in Seq(Messages)
    /\ Len(sendCh) <= Cap
    /\ closed \in BOOLEAN
    /\ sendMu \in Producers \cup {Main, Nobody}
    /\ sendDone \in BOOLEAN
    /\ pc \in [Producers -> ProducerPc]
    /\ params \in [Producers -> Messages \cup {NoMsg}]
    /\ \A p \in Producers : pc[p] # "idle" => params[p] \in Messages
    /\ senderPc \in SenderPc
    /\ inHand \in Messages \cup {NoMsg}
    /\ senderPc = "range" <=> inHand = NoMsg
    /\ mainPc \in MainPc
    /\ late \in BOOLEAN
    /\ dropped \in Nat
    /\ fresh \subseteq Messages
    /\ accepted \in Seq(Messages)
    /\ handed \in Seq(Messages)
    /\ backlog \in Nat

Init ==
    /\ run = "up"
    /\ sendCh = <<>>
    /\ closed = FALSE
    /\ sendMu = Nobody
    /\ sendDone = FALSE
    /\ pc = [p \in Producers |-> "idle"]
    /\ params = [p \in Producers |-> NoMsg]
    /\ senderPc = "range"
    /\ inHand = NoMsg
    /\ mainPc = "serving"
    /\ late = FALSE
    /\ dropped = 0
    /\ fresh = Messages
    /\ accepted = <<>>
    /\ handed = <<>>
    /\ backlog = 0

-----------------------------------------------------------------------------
(* Enqueue.                                                                *)

\* SendAlert has built a message and calls Enqueue with it.
Call(p) ==
    /\ run = "up"
    /\ pc[p] = "idle"
    /\ \E m \in fresh :
          /\ params' = [params EXCEPT ![p] = m]
          /\ fresh' = fresh \ {m}
    /\ pc' = [pc EXCEPT ![p] = "lock"]
    /\ UNCHANGED <<run, sendCh, closed, sendMu, sendDone, dropped, accepted,
                   mainVars, senderVars>>

\* sendMu.Lock()
Lock(p) ==
    /\ run = "up"
    /\ pc[p] = "lock"
    /\ sendMu = Nobody
    /\ sendMu' = p
    /\ pc' = [pc EXCEPT ![p] = "check"]
    /\ UNCHANGED <<run, sendCh, closed, sendDone, dropped, accepted, params,
                   fresh, mainVars, senderVars>>

\* The same with the test dropped: the channel is used after the shutdown.
CheckDoneUnguarded(p) ==
    /\ run = "up"
    /\ pc[p] = "check"
    /\ pc' = [pc EXCEPT ![p] = "select"]
    /\ UNCHANGED <<run, sendCh, closed, sendMu, sendDone, dropped, accepted,
                   params, fresh, mainVars, senderVars>>

\* if sendDone { return }, the return running the deferred Unlock.
CheckDone(p) ==
    /\ run = "up"
    /\ pc[p] = "check"
    /\ pc' = [pc EXCEPT ![p] = IF sendDone THEN "unlock" ELSE "select"]
    /\ UNCHANGED <<run, sendCh, closed, sendMu, sendDone, dropped, accepted,
                   params, fresh, mainVars, senderVars>>

\* select { case sendCh <- params: default: SendQueueDropped.Inc() }.
\* A send on a closed channel panics and takes the process down.
PutOneTooMany(p) ==  \* an off-by-one in the test for a full queue
    /\ ~closed
    /\ Len(sendCh) <= Cap
    /\ sendCh' = Append(sendCh, params[p])
    /\ accepted' = Append(accepted, params[p])
    /\ UNCHANGED <<run, dropped>>

Put(p) ==
    /\ ~closed
    /\ Len(sendCh) < Cap
    /\ sendCh' = Append(sendCh, params[p])
    /\ accepted' = Append(accepted, params[p])
    /\ UNCHANGED <<run, dropped>>

Discard ==
    /\ ~closed
    /\ Len(sendCh) >= Cap
    /\ dropped' = dropped + 1
    /\ UNCHANGED <<run, sendCh, accepted>>

\* A full queue making room by forgetting its oldest message.
DiscardOldest(p) ==
    /\ ~closed
    /\ Len(sendCh) >= Cap
    /\ dropped' = dropped + 1
    /\ sendCh' = Append(Tail(sendCh), params[p])
    /\ accepted' = Append(accepted, params[p])
    /\ UNCHANGED run

Panic ==
    /\ closed
    /\ run' = "panicked"
    /\ UNCHANGED <<sendCh, accepted, dropped>>

SelectDroppingOldest(p) ==
    /\ run = "up"
    /\ pc[p] = "select"
    /\ Put(p) \/ DiscardOldest(p) \/ Panic
    /\ pc' = [pc EXCEPT ![p] = "unlock"]
    /\ UNCHANGED <<closed, sendMu, sendDone, params, fresh, mainVars, senderVars>>

Select(p) ==
    /\ run = "up"
    /\ pc[p] = "select"
    /\ Put(p) \/ Discard \/ Panic
    /\ pc' = [pc EXCEPT ![p] = "unlock"]
    /\ UNCHANGED <<closed, sendMu, sendDone, params, fresh, mainVars, senderVars>>

\* A return that leaves the mutex locked.
UnlockForgotten(p) ==
    /\ run = "up"
    /\ pc[p] = "unlock"
    /\ pc' = [pc EXCEPT ![p] = "idle"]
    /\ UNCHANGED <<run, sendCh, closed, sendMu, sendDone, dropped, accepted,
                   params, fresh, mainVars, senderVars>>

\* The deferred sendMu.Unlock().
Unlock(p) ==
    /\ run = "up"
    /\ pc[p] = "unlock"
    /\ sendMu' = Nobody
    /\ pc' = [pc EXCEPT ![p] = "idle"]
    /\ UNCHANGED <<run, sendCh, closed, sendDone, dropped, accepted,
                   params, fresh, mainVars, senderVars>>

-----------------------------------------------------------------------------
(* The sender goroutine: for params := range sendCh.  The loop ends when   *)
(* the channel is closed and empty; closing does not discard what is       *)
(* queued.                                                                 *)

\* Another goroutine can run, and main can return, between any two of these.
SenderStep(from, to) ==
    /\ run = "up"
    /\ senderPc = from
    /\ senderPc' = to
    /\ UNCHANGED <<run, closed, sendMu, sendDone, dropped, accepted,
                   producerVars, mainVars>>

\* The range takes the oldest message off the channel; SendMessage has not
\* been called with it yet.
Receive ==
    /\ SenderStep("range", "took")
    /\ sendCh # <<>>
    /\ inHand' = Head(sendCh)
    /\ sendCh' = Tail(sendCh)
    /\ UNCHANGED handed

\* The 15 s context is made and SendMessage is called.
CallSendMessage ==
    /\ SenderStep("took", "sending")
    /\ handed' = Append(handed, inHand)
    /\ UNCHANGED <<inHand, sendCh>>

\* Without a timeout of its own a hanging call ends with the process only.
SendReturnsUntimed ==
    /\ SenderStep("sending", "range")
    /\ late
    /\ inHand' = NoMsg
    /\ UNCHANGED <<sendCh, handed>>

\* SendMessage returns, at the latest when its 15 s context expires, and the
\* rest of sendInterval is slept.  An error is only logged: nothing is sent
\* again, so success and failure leave the same state.
SendReturns ==
    /\ SenderStep("sending", "range")
    /\ inHand' = NoMsg
    /\ UNCHANGED <<sendCh, handed>>

-----------------------------------------------------------------------------
(* The main goroutine: wait for the signal, DrainAndClose, return.         *)

MainStep(from, to) ==
    /\ run = "up"
    /\ mainPc = from
    /\ mainPc' = to

\* SIGINT or SIGTERM is received; DrainAndClose starts its deadline.
Signal ==
    /\ MainStep("serving", "draining")
    /\ backlog' = Len(accepted)
    /\ UNCHANGED <<run, sendCh, closed, sendMu, sendDone, dropped, accepted,
                   producerVars, late, senderVars>>

\* 30 seconds have passed.
DeadlinePasses ==
    /\ run = "up"
    /\ mainPc = "draining"
    /\ ~late
    /\ late' = TRUE
    /\ UNCHANGED <<run, sendCh, closed, sendMu, sendDone, dropped, accepted,
                   producerVars, mainPc, backlog, senderVars>>

\* The loop stops after one look at the queue, whatever it saw.
DrainDoneAtOnce ==
    /\ MainStep("draining", "lock")
    /\ UNCHANGED <<run, sendCh, closed, sendMu, sendDone, dropped, accepted,
                   producerVars, late, backlog, senderVars>>

\* The polling loop ends: len(sendCh) is 0, or the deadline has passed.
DrainDone ==
    /\ MainStep("draining", "lock")
    /\ Len(sendCh) = 0 \/ late
    /\ UNCHANGED <<run, sendCh, closed, sendMu, sendDone, dropped, accepted,
                   producerVars, late, backlog, senderVars>>

\* The flag set and the channel closed without waiting for the mutex.
MainLockNotWaiting ==
    /\ MainStep("lock", "flag")
    /\ sendMu' = Main
    /\ UNCHANGED <<run, sendCh, closed, sendDone, dropped, accepted,
                   producerVars, late, backlog, senderVars>>

MainLock ==
    /\ MainStep("lock", "flag")
    /\ sendMu = Nobody
    /\ sendMu' = Main
    /\ UNCHANGED <<run, sendCh, closed, sendDone, dropped, accepted,
                   producerVars, late, backlog, senderVars>>

SetDone ==
    /\ MainStep("flag", "close")
    /\ sendDone' = TRUE
    /\ UNCHANGED <<run, sendCh, closed, sendMu, dropped, accepted,
                   producerVars, late, backlog, senderVars>>

CloseChannel ==
    /\ MainStep("close", "unlock")
    /\ closed' = TRUE
    /\ UNCHANGED <<run, sendCh, sendMu, sendDone, dropped, accepted,
                   producerVars, late, backlog, senderVars>>

MainUnlock ==
    /\ MainStep("unlock", "return")
    /\ sendMu' = Nobody
    /\ UNCHANGED <<run, sendCh, closed, sendDone, dropped, accepted,
                   producerVars, late, backlog, senderVars>>

\* main returns: every goroutine stops where it is, the sender included.
ProcessExit ==
    /\ run = "up"
    /\ mainPc = "return"
    /\ run' = "exited"
    /\ UNCHANGED <<sendCh, closed, sendMu, sendDone, dropped, accepted,
                   producerVars, mainVars, senderVars>>

\* The HTTP goroutine's log.Fatal, or SIGKILL: no draining at all.
Kill ==
    /\ run = "up"
    /\ run' = "killed"
    /\ UNCHANGED <<sendCh, closed, sendMu, sendDone, dropped, accepted,
                   producerVars, mainVars, senderVars>>

-----------------------------------------------------------------------------
Enqueue(p) == Call(p) \/ Lock(p) \/ CheckDone(p) \/ Select(p) \/ Unlock(p)

Sender == Receive \/ CallSendMessage \/ SendReturns

Shutdown ==
    \/ Signal
    \/ DeadlinePasses
    \/ DrainDone
    \/ MainLock
    \/ SetDone
    \/ CloseChannel
    \/ MainUnlock
    \/ ProcessExit

Next ==
    \/ \E p \in Producers : Enqueue(p)
    \/ Sender
    \/ Shutdown
    \/ Kill

Spec == Init /\ [][Next]_vars

\* Goroutines that can run do run; a Go mutex in starvation mode is handed to
\* its longest waiter, so nobody waiting for it is passed over forever; time
\* passes, so the deadline comes and SendMessage returns.  Nobody has to call
\* Enqueue, send a signal or kill the process.
Fairness ==
    /\ \A p \in Producers :
          /\ SF_vars(Lock(p))
          /\ WF_vars(CheckDone(p) \/ Select(p) \/ Unlock(p))
    /\ WF_vars(Sender)
    /\ SF_vars(MainLock)
    /\ WF_vars(DeadlinePasses)
    /\ WF_vars(DrainDone \/ SetDone \/ CloseChannel \/ MainUnlock \/ ProcessExit)

FairSpec == Spec /\ Fairness

-----------------------------------------------------------------------------
(* Properties.                                                             *)

\* "The mutex prevents send-on-closed-channel panics" (sendq.go:58): however
\* Enqueue calls interleave with DrainAndClose, none sends on the closed
\* channel.
NoPanic == run # "panicked"

\* What has left the channel, oldest first: the messages SendMessage was
\* called with and the one the sender is about to call it with.
Taken == IF senderPc = "took" THEN Append(handed, inHand) ELSE handed

\* The sender hands Telegram exactly the messages the queue accepted, in the
\* order they were accepted, none twice and none skipped, and what remains is
\* the one message it has just taken and those still queued, in that order.
FifoDelivery ==
    /\ Len(accepted) = Len(Taken) + Len(sendCh)
    /\ \A i \in 1..Len(Taken) : Taken[i] = accepted[i]
    /\ \A i \in 1..Len(sendCh) : sendCh[i] = accepted[Len(Taken) + i]

\* What a graceful shutdown does guarantee: unless the 30 s deadline cut the
\* drain short, SendMessage has been called with every message that was queued
\* or with the sender when the signal arrived, but for at most one: the last of
\* them may have left the channel and not been handed on when the process ends.
BacklogHanded ==
    run = "exited" /\ ~late =>
        \/ Len(handed) >= backlog
        \/ senderPc = "took" /\ Len(handed) + 1 = backlog

\* The number of messages SendMessage has returned for.
Returned == Len(handed) - (IF senderPc = "sending" THEN 1 ELSE 0)

\* What the comment on DrainAndClose claims (sendq.go:72-73, "so in-flight
\* messages are not lost"): when the drain finished in time, the process does
\* not exit before SendMessage has returned for each message that was queued or
\* with the sender when the signal arrived.
InFlightNotLost ==
    run = "exited" /\ ~late => Returned >= backlog

\* A queue that was shut stays as it is but for what the sender removes: after
\* DrainAndClose has set the flag no Enqueue that was already under way adds a
\* message or counts a drop.
ShutIsFinal ==
    [][sendDone => UNCHANGED <<accepted, dropped>>]_vars

\* The promise to callers: an offer/take/close queue (module Outbox).
Promise == INSTANCE Outbox WITH
    Message <- Messages, open <- ~sendDone, queue <- sendCh, taken <- Taken

ImplementsOutbox == Promise!Spec

\* A goroutine that calls Enqueue always gets out of it again: the queue being
\* full, the sender stuck in SendMessage or a shutdown never blocks it.
EnqueueReturns ==
    \A p \in Producers : pc[p] # "idle" ~> (pc[p] = "idle" \/ run # "up")

\* Every queued message is eventually handed to Telegram while the process
\* lives.
QueuedIsHanded ==
    \A m \in Messages :
        (\E i \in 1..Len(sendCh) : sendCh[i] = m)
            ~> ((\E i \in 1..Len(handed) : handed[i] = m) \/ run # "up")

\* A signal ends the process, whatever the producers and Telegram do.
ShutdownCompletes == mainPc = "draining" ~> run # "up"
=============================================================================
