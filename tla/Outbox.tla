------------------------------- MODULE Outbox -------------------------------
(***************************************************************************)
(* What internal/bot/sendq.go promises the rest of the bot: a bounded      *)
(* first-in first-out queue of outgoing Telegram messages.  An offer never *)
(* waits; when the queue is full the offered message is lost and counted   *)
(* (SendQueueDropped).  Once the queue is shut, nothing is added or        *)
(* counted any more, while what is already queued may still be taken.      *)
(*                                                                         *)
(* SendQueue implements this specification with a mutex, a flag and a      *)
(* channel; AlertPipeline uses its Offer and Take steps directly.          *)
(***************************************************************************)
EXTENDS Naturals, Sequences

CONSTANTS
    Message,    \* what can be queued (telego.SendMessageParams)
    Cap         \* sendQueueCap, at least 1

VARIABLES
    open,       \* offers are still taken
    queue,      \* messages waiting for the sender, oldest first
    taken,      \* messages the sender has removed, oldest first
    dropped     \* SendQueueDropped

vars == <<open, queue, taken, dropped>>

Init ==
    /\ open = TRUE
    /\ queue = <<>>
    /\ taken = <<>>
    /\ dropped = 0

\* The queue has room for one more message.
HasRoom == Len(queue) < Cap

\* A message is offered to an open queue: it is queued or counted as dropped.
Accept(m) ==
    /\ open
    /\ HasRoom
    /\ queue' = Append(queue, m)
    /\ UNCHANGED <<open, taken, dropped>>

Drop ==
    /\ open
    /\ ~HasRoom
    /\ dropped' = dropped + 1
    /\ UNCHANGED <<open, queue, taken>>

Offer(m) == Accept(m) \/ Drop

\* The sender removes the oldest message, also after the queue was shut.
Take ==
    /\ queue # <<>>
    /\ queue' = Tail(queue)
    /\ taken' = Append(taken, Head(queue))
    /\ UNCHANGED <<open, dropped>>

Close ==
    /\ open
    /\ open' = FALSE
    /\ UNCHANGED <<queue, taken, dropped>>

Next ==
    \/ \E m \in Message : Offer(m)
    \/ Take
    \/ Close

Spec == Init /\ [][Next]_vars
=============================================================================
