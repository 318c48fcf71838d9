-------------------------- MODULE SendQueueProofs --------------------------
(***************************************************************************)
(* Theorems about SendQueue for any number of producers and messages and   *)
(* any queue capacity: its types, the absence of a send on the closed      *)
(* channel, first-in first-out delivery, what a graceful shutdown has      *)
(* handed to SendMessage, and that the queue implements Outbox.            *)
(*                                                                         *)
(* The argument rests on the inductive invariant IInv.  Mutex says which   *)
(* program counters hold the mutex; Phases ties the flag and the channel's *)
(* state to main's program counter.  Together they give that a producer    *)
(* about to send sees an open channel, although it read sendDone one step  *)
(* earlier.                                                                *)
(***************************************************************************)
EXTENDS SendQueue, SequenceTheorems, TLAPS

\* A producer past Lock owns the mutex, and so does main inside DrainAndClose.
Mutex ==
    /\ \A p \in Producers : pc[p] \in {"check", "select", "unlock"} <=> sendMu = p
    /\ mainPc \in {"flag", "close", "unlock"} <=> sendMu = Main

\* The flag and the channel follow main's program counter; a producer that
\* has passed the test of the flag still finds it unset.
Phases ==
    /\ sendDone <=> mainPc \in {"close", "unlock", "return"}
    /\ closed <=> mainPc \in {"unlock", "return"}
    /\ \A p \in Producers : pc[p] = "select" => ~sendDone
    /\ run = "exited" => mainPc = "return"

\* Until the drain has ended the backlog is accepted; afterwards it has left the
\* channel, unless the deadline passed.
Drained ==
    /\ mainPc = "serving" => backlog = 0
    /\ backlog <= Len(accepted)
    /\ mainPc \in {"lock", "flag", "close", "unlock", "return"} =>
          late \/ Len(Taken) >= backlog

IInv == TypeOK /\ Mutex /\ Phases /\ NoPanic /\ FifoDelivery /\ Drained

-----------------------------------------------------------------------------

LEMMA InitIInv == Init => IInv
  <1> SUFFICES ASSUME Init PROVE IInv
    OBVIOUS
  <1>1. TypeOK
    <2>1. /\ pc \in [Producers -> ProducerPc]
          /\ params \in [Producers -> Messages \cup {NoMsg}]
          /\ \A p \in Producers : pc[p] # "idle" => params[p] \in Messages
      BY DEF Init, ProducerPc
    <2>2. sendCh \in Seq(Messages) /\ Len(sendCh) <= Cap
      BY SendQueueAssumption DEF Init
    <2>3. accepted \in Seq(Messages) /\ handed \in Seq(Messages)
      BY DEF Init
    <2> QED
      BY <2>1, <2>2, <2>3 DEF Init, TypeOK, MainPc, SenderPc
  <1>2. Mutex /\ Phases /\ NoPanic
    BY SendQueueAssumption DEF Init, Mutex, Phases, NoPanic
  <1>3. FifoDelivery /\ Drained
    BY DEF Init, FifoDelivery, Drained, Taken
  <1> QED
    BY <1>1, <1>2, <1>3 DEF IInv

\* The types are kept by every step.
LEMMA TypeStep == TypeOK /\ [Next]_vars => TypeOK'
  <1> SUFFICES ASSUME TypeOK, [Next]_vars PROVE TypeOK'
    OBVIOUS
  <1> USE SendQueueAssumption DEF TypeOK, ProducerPc, MainPc, SenderPc,
          producerVars, mainVars, senderVars
  <1>1. ASSUME NEW p \in Producers, Call(p) PROVE TypeOK'
    BY <1>1 DEF Call
  <1>2. ASSUME NEW p \in Producers, Lock(p) PROVE TypeOK'
    BY <1>2 DEF Lock
  <1>3. ASSUME NEW p \in Producers, CheckDone(p) PROVE TypeOK'
    BY <1>3 DEF CheckDone
  <1>4. ASSUME NEW p \in Producers, Select(p) PROVE TypeOK'
    <2>1. params[p] \in Messages
      BY <1>4 DEF Select
    <2>2. CASE Put(p)
      BY <1>4, <2>1, <2>2 DEF Select, Put
    <2>3. CASE Discard
      BY <1>4, <2>3 DEF Select, Discard
    <2>4. CASE Panic
      BY <1>4, <2>4 DEF Select, Panic
    <2> QED
      BY <1>4, <2>2, <2>3, <2>4 DEF Select
  <1>5. ASSUME NEW p \in Producers, Unlock(p) PROVE TypeOK'
    BY <1>5 DEF Unlock
  <1>6. CASE Receive
    <2>1. Head(sendCh) \in Messages /\ Head(sendCh) # NoMsg
      BY <1>6 DEF Receive
    <2> QED
      BY <1>6, <2>1 DEF Receive, SenderStep
  <1>7. CASE CallSendMessage
    <2>1. senderPc = "took" /\ inHand \in Messages /\ inHand # NoMsg
      BY <1>7 DEF CallSendMessage, SenderStep
    <2>2. handed' \in Seq(Messages)
      BY <1>7, <2>1 DEF CallSendMessage
    <2> QED
      BY <1>7, <2>1, <2>2 DEF CallSendMessage, SenderStep
  <1>7a. CASE SendReturns
    BY <1>7a DEF SendReturns, SenderStep
  <1>8. CASE Shutdown
    <2>1. CASE Signal
      BY <2>1 DEF Signal, MainStep
    <2>2. CASE DeadlinePasses
      BY <2>2 DEF DeadlinePasses, MainStep
    <2>3. CASE DrainDone
      BY <2>3 DEF DrainDone, MainStep
    <2>4. CASE MainLock
      BY <2>4 DEF MainLock, MainStep
    <2>5. CASE SetDone
      BY <2>5 DEF SetDone, MainStep
    <2>6. CASE CloseChannel
      BY <2>6 DEF CloseChannel, MainStep
    <2>7. CASE MainUnlock
      BY <2>7 DEF MainUnlock, MainStep
    <2>8. CASE ProcessExit
      BY <2>8 DEF ProcessExit, MainStep
    <2> QED
      BY <1>8, <2>1, <2>2, <2>3, <2>4, <2>5, <2>6, <2>7, <2>8 DEF Shutdown
  <1>9. CASE Kill
    BY <1>9 DEF Kill
  <1>10. CASE UNCHANGED vars
    BY <1>10 DEF vars
  <1> QED
    BY <1>1, <1>2, <1>3, <1>4, <1>5, <1>6, <1>7, <1>7a, <1>8, <1>9, <1>10
       DEF Next, Enqueue, Sender

\* The mutex has one owner, the one whose program counter is inside.
LEMMA MutexStep == TypeOK /\ Mutex /\ [Next]_vars => Mutex'
  <1> SUFFICES ASSUME TypeOK, Mutex, [Next]_vars PROVE Mutex'
    OBVIOUS
  <1> USE SendQueueAssumption DEF TypeOK, Mutex, ProducerPc, MainPc,
          producerVars, mainVars, senderVars
  <1>1. ASSUME NEW p \in Producers, Enqueue(p) PROVE Mutex'
    BY <1>1 DEF Enqueue, Call, Lock, CheckDone, Select, Unlock
  <1>2. CASE Sender
    BY <1>2 DEF Sender, Receive, CallSendMessage, SendReturns, SenderStep
  <1>3. CASE Shutdown
    BY <1>3 DEF Shutdown, Signal, DeadlinePasses, DrainDone, MainLock, SetDone,
       CloseChannel, MainUnlock, ProcessExit, MainStep
  <1>4. CASE Kill
    BY <1>4 DEF Kill
  <1>5. CASE UNCHANGED vars
    BY <1>5 DEF vars
  <1> QED
    BY <1>1, <1>2, <1>3, <1>4, <1>5 DEF Next

\* Only main, holding the mutex, sets the flag and closes the channel, so no
\* producer is between its test and its send when that happens.
LEMMA PhasesStep == TypeOK /\ Mutex /\ Phases /\ [Next]_vars => Phases'
  <1> SUFFICES ASSUME TypeOK, Mutex, Phases, [Next]_vars PROVE Phases'
    OBVIOUS
  <1> USE SendQueueAssumption DEF TypeOK, Mutex, Phases, ProducerPc, MainPc,
          producerVars, mainVars, senderVars
  <1>1. ASSUME NEW p \in Producers, Enqueue(p) PROVE Phases'
    BY <1>1 DEF Enqueue, Call, Lock, CheckDone, Select, Put, Discard, Panic, Unlock
  <1>2. CASE Sender
    BY <1>2 DEF Sender, Receive, CallSendMessage, SendReturns, SenderStep
  <1>3. CASE Shutdown
    BY <1>3 DEF Shutdown, Signal, DeadlinePasses, DrainDone, MainLock, SetDone,
       CloseChannel, MainUnlock, ProcessExit, MainStep
  <1>4. CASE Kill
    BY <1>4 DEF Kill
  <1>5. CASE UNCHANGED vars
    BY <1>5 DEF vars
  <1> QED
    BY <1>1, <1>2, <1>3, <1>4, <1>5 DEF Next

\* A producer about to send has an open channel in front of it.
LEMMA SelectIsOpen ==
    ASSUME TypeOK, Phases, NEW p \in Producers, pc[p] = "select"
    PROVE  ~sendDone /\ ~closed
  BY DEF TypeOK, Phases

LEMMA NoPanicStep == IInv /\ [Next]_vars => NoPanic'
  <1> SUFFICES ASSUME IInv, [Next]_vars PROVE NoPanic'
    OBVIOUS
  <1> USE DEF IInv, NoPanic
  <1>1. ASSUME NEW p \in Producers, Select(p) PROVE NoPanic'
    BY <1>1, SelectIsOpen DEF Select, Put, Discard, Panic
  <1>2. ASSUME NEW p \in Producers, Call(p) \/ Lock(p) \/ CheckDone(p) \/ Unlock(p)
        PROVE  NoPanic'
    BY <1>2 DEF Call, Lock, CheckDone, Unlock
  <1>3. CASE Sender
    BY <1>3 DEF Sender, Receive, CallSendMessage, SendReturns, SenderStep
  <1>4. CASE Shutdown
    BY <1>4 DEF Shutdown, Signal, DeadlinePasses, DrainDone, MainLock, SetDone,
       CloseChannel, MainUnlock, ProcessExit, MainStep
  <1>5. CASE Kill
    BY <1>5 DEF Kill
  <1>6. CASE UNCHANGED vars
    BY <1>6 DEF vars
  <1> QED
    BY <1>1, <1>2, <1>3, <1>4, <1>5, <1>6 DEF Next, Enqueue

\* What has left the channel is a sequence of messages, which the call of
\* SendMessage and its return leave as it is.
LEMMA TakenType == TypeOK => Taken \in Seq(Messages) /\ Len(Taken) \in Nat
  <1>1. ASSUME TypeOK PROVE Taken \in Seq(Messages)
    <2>1. CASE senderPc = "took"
      <3>1. inHand \in Messages
        BY <1>1, <2>1 DEF TypeOK
      <3> QED
        BY <1>1, <2>1, <3>1, AppendProperties DEF TypeOK, Taken
    <2>2. CASE senderPc # "took"
      BY <1>1, <2>2 DEF TypeOK, Taken
    <2> QED
      BY <2>1, <2>2
  <1> QED
    BY <1>1, LenProperties

LEMMA CallKeepsTaken == CallSendMessage \/ SendReturns => Taken' = Taken
  BY DEF CallSendMessage, SendReturns, SenderStep, Taken

LEMMA ReceiveGrowsTaken == Receive => Taken' = Append(Taken, Head(sendCh))
  BY DEF Receive, SenderStep, Taken

\* Nothing but a send and a receive touches the channel and what was accepted
\* or taken.
LEMMA OnlyPutAndReceive ==
    ASSUME IInv, [Next]_vars
    PROVE  \/ \E p \in Producers : Select(p) /\ Put(p)
           \/ Receive
           \/ UNCHANGED <<sendCh, accepted, Taken>>
  <1> USE DEF producerVars, mainVars, senderVars, Taken
  <1>1. ASSUME NEW p \in Producers, Select(p), ~Put(p)
        PROVE  UNCHANGED <<sendCh, accepted, Taken>>
    BY <1>1 DEF Select, Discard, Panic
  <1>2. ASSUME NEW p \in Producers, Call(p) \/ Lock(p) \/ CheckDone(p) \/ Unlock(p)
        PROVE  UNCHANGED <<sendCh, accepted, Taken>>
    BY <1>2 DEF Call, Lock, CheckDone, Unlock
  <1>3. CASE CallSendMessage \/ SendReturns
    BY <1>3, CallKeepsTaken DEF CallSendMessage, SendReturns, SenderStep
  <1>4. CASE Shutdown
    BY <1>4 DEF Shutdown, Signal, DeadlinePasses, DrainDone, MainLock, SetDone,
       CloseChannel, MainUnlock, ProcessExit, MainStep
  <1>5. CASE Kill
    BY <1>5 DEF Kill
  <1>6. CASE UNCHANGED vars
    BY <1>6 DEF vars
  <1> QED
    BY <1>1, <1>2, <1>3, <1>4, <1>5, <1>6 DEF Next, Enqueue, Sender

LEMMA FifoStep == IInv /\ [Next]_vars => FifoDelivery'
  <1> SUFFICES ASSUME IInv, [Next]_vars PROVE FifoDelivery'
    OBVIOUS
  <1> USE DEF IInv, TypeOK, FifoDelivery
  <1>1. ASSUME NEW p \in Producers, Select(p), Put(p) PROVE FifoDelivery'
    <2>1. /\ params[p] \in Messages
          /\ sendCh' = Append(sendCh, params[p])
          /\ accepted' = Append(accepted, params[p])
          /\ Taken' = Taken
      BY <1>1 DEF Select, Put, senderVars, Taken
    <2>2. /\ Len(sendCh') = Len(sendCh) + 1
          /\ \A i \in 1..Len(sendCh) : sendCh'[i] = sendCh[i]
          /\ sendCh'[Len(sendCh) + 1] = params[p]
      BY <2>1, AppendProperties
    <2>3. /\ Len(accepted') = Len(accepted) + 1
          /\ \A i \in 1..Len(accepted) : accepted'[i] = accepted[i]
          /\ accepted'[Len(accepted) + 1] = params[p]
      BY <2>1, AppendProperties
    <2>4. Len(accepted) \in Nat /\ Len(Taken) \in Nat /\ Len(sendCh) \in Nat
      BY TakenType
    <2>5. ASSUME NEW i \in 1..Len(Taken') PROVE Taken'[i] = accepted'[i]
      <3>1. i \in 1..Len(Taken) /\ i \in 1..Len(accepted)
        BY <2>1, <2>4
      <3> QED
        BY <2>1, <2>3, <3>1
    <2>6. ASSUME NEW i \in 1..Len(sendCh')
          PROVE  sendCh'[i] = accepted'[Len(Taken') + i]
      <3>1. CASE i = Len(sendCh) + 1
        <4>1. Len(Taken') + i = Len(accepted) + 1
          BY <2>1, <2>4, <3>1
        <4> QED
          BY <2>2, <2>3, <3>1, <4>1
      <3>2. CASE i # Len(sendCh) + 1
        <4>1. i \in 1..Len(sendCh) /\ Len(Taken) + i \in 1..Len(accepted)
          BY <2>2, <2>4, <3>2
        <4> QED
          BY <2>1, <2>2, <2>3, <4>1
      <3> QED
        BY <3>1, <3>2
    <2>7. Len(accepted') = Len(Taken') + Len(sendCh')
      BY <2>1, <2>2, <2>3, <2>4
    <2> HIDE DEF IInv, TypeOK
    <2> QED
      BY <2>5, <2>6, <2>7
  <1>2. CASE Receive
    <2>1. /\ sendCh # <<>>
          /\ sendCh' = Tail(sendCh)
          /\ Taken' = Append(Taken, Head(sendCh))
          /\ accepted' = accepted
      BY <1>2, ReceiveGrowsTaken DEF Receive, SenderStep
    <2>2. /\ Head(sendCh) = accepted[Len(Taken) + 1]
          /\ Len(sendCh') = Len(sendCh) - 1
          /\ Len(Taken') = Len(Taken) + 1
          /\ \A i \in 1..Len(Taken) : Taken'[i] = Taken[i]
          /\ Taken'[Len(Taken) + 1] = Head(sendCh)
      BY <2>1, TakenType
    <2>3. \A i \in 1..Len(Taken') : Taken'[i] = accepted'[i]
      BY <2>1, <2>2, TakenType
    <2>4. \A i \in 1..Len(sendCh') : sendCh'[i] = sendCh[i + 1]
      BY <2>1
    <2>5. Len(accepted') = Len(Taken') + Len(sendCh')
      <3>1. /\ Len(sendCh) \in Nat /\ Len(Taken) \in Nat
            /\ Len(accepted) = Len(Taken) + Len(sendCh)
        BY TakenType
      <3> HIDE DEF IInv, TypeOK
      <3> QED
        BY <2>1, <2>2, <3>1
    <2>6. ASSUME NEW i \in 1..Len(sendCh')
          PROVE  sendCh'[i] = accepted'[Len(Taken') + i]
      <3>1. i + 1 \in 1..Len(sendCh) /\ Len(Taken) + (i + 1) = Len(Taken') + i
        BY <2>1, <2>2, TakenType
      <3> QED
        BY <2>1, <2>4, <3>1
    <2> HIDE DEF IInv, TypeOK
    <2> QED
      BY <2>3, <2>5, <2>6
  <1>3. CASE UNCHANGED <<sendCh, accepted, Taken>>
    BY <1>3
  <1> QED
    BY <1>1, <1>2, <1>3, OnlyPutAndReceive

\* The histories only grow.
LEMMA HistoriesGrow ==
    ASSUME IInv, [Next]_vars
    PROVE  Len(accepted') >= Len(accepted) /\ Len(Taken') >= Len(Taken)
  <1> USE DEF IInv, TypeOK
  <1>1. ASSUME NEW p \in Producers, Select(p), Put(p)
        PROVE  Len(accepted') >= Len(accepted) /\ Taken' = Taken
    BY <1>1 DEF Select, Put, senderVars, Taken
  <1>2. ASSUME Receive
        PROVE  accepted' = accepted /\ Len(Taken') = Len(Taken) + 1
    <2>1. sendCh # <<>> /\ Taken' = Append(Taken, Head(sendCh))
      BY <1>2, ReceiveGrowsTaken DEF Receive
    <2>2. Head(sendCh) \in Messages /\ Taken \in Seq(Messages)
      BY <2>1, TakenType
    <2> QED
      BY <1>2, <2>1, <2>2, AppendProperties DEF Receive, SenderStep
  <1>3. Len(Taken) \in Nat /\ Len(accepted) \in Nat
    BY TakenType
  <1> QED
    BY <1>1, <1>2, <1>3, OnlyPutAndReceive

\* The drain loop ends with an empty queue or a passed deadline, and what was
\* taken off the channel stays taken.
LEMMA DrainedStep == IInv /\ [Next]_vars => Drained'
  <1> SUFFICES ASSUME IInv, [Next]_vars PROVE Drained'
    OBVIOUS
  <1> USE DEF IInv, TypeOK, Drained, FifoDelivery, producerVars, mainVars, senderVars
  <1>1. CASE UNCHANGED mainVars
    BY <1>1, HistoriesGrow
  <1>2. CASE Signal
    BY <1>2 DEF Signal, MainStep
  <1>3. CASE DeadlinePasses
    BY <1>3 DEF DeadlinePasses
  <1>4. CASE DrainDone
    BY <1>4, TakenType DEF DrainDone, MainStep, Taken
  <1>5. CASE MainLock \/ SetDone \/ CloseChannel \/ MainUnlock
    BY <1>5 DEF MainLock, SetDone, CloseChannel, MainUnlock, MainStep, Taken
  <1>6. ASSUME NEW p \in Producers, Enqueue(p) PROVE UNCHANGED mainVars
    BY <1>6 DEF Enqueue, Call, Lock, CheckDone, Select, Unlock
  <1>7. CASE Sender \/ ProcessExit \/ Kill \/ UNCHANGED vars
    BY <1>1, <1>7 DEF Sender, Receive, CallSendMessage, SendReturns, SenderStep, ProcessExit, Kill, vars
  <1> QED
    BY <1>1, <1>2, <1>3, <1>4, <1>5, <1>6, <1>7 DEF Next, Shutdown

LEMMA Invariance == Spec => []IInv
  <1>1. IInv /\ [Next]_vars => IInv'
    BY TypeStep, MutexStep, PhasesStep, NoPanicStep, FifoStep, DrainedStep DEF IInv
  <1> QED
    BY InitIInv, <1>1, PTL DEF Spec

-----------------------------------------------------------------------------

\* Every variable keeps its type and the channel never exceeds its capacity.
THEOREM TypeCorrect == Spec => []TypeOK
  <1>1. IInv => TypeOK
    BY DEF IInv
  <1> QED
    BY Invariance, <1>1, PTL

\* Enqueue never sends on the channel DrainAndClose closed (sendq.go:58).
THEOREM NeverPanics == Spec => []NoPanic
  <1>1. IInv => NoPanic
    BY DEF IInv
  <1> QED
    BY Invariance, <1>1, PTL

\* SendMessage is called with the accepted messages in order, each once.
THEOREM DeliveryIsFifo == Spec => []FifoDelivery
  <1>1. IInv => FifoDelivery
    BY DEF IInv
  <1> QED
    BY Invariance, <1>1, PTL

\* A shutdown that met its deadline has called SendMessage with the backlog it
\* found, but for at most the last message of it, which the sender holds.
THEOREM ShutdownHandsOverBacklog == Spec => []BacklogHanded
  <1>1. ASSUME IInv, run = "exited", ~late
        PROVE  \/ Len(handed) >= backlog
               \/ senderPc = "took" /\ Len(handed) + 1 = backlog
    <2>1. Len(Taken) >= backlog
      BY <1>1 DEF IInv, Phases, Drained
    <2>2. Len(handed) \in Nat /\ backlog \in Nat
      BY <1>1 DEF IInv, TypeOK
    <2>3. CASE senderPc # "took"
      BY <2>1, <2>3 DEF Taken
    <2>4. CASE senderPc = "took"
      <3>1. inHand \in Messages /\ handed \in Seq(Messages)
        BY <1>1, <2>4 DEF IInv, TypeOK
      <3>2. Len(Taken) = Len(handed) + 1
        BY <2>4, <3>1, AppendProperties DEF Taken
      <3> QED
        BY <2>1, <2>2, <2>4, <3>2
    <2> QED
      BY <2>3, <2>4
  <1>2. IInv => BacklogHanded
    BY <1>1 DEF BacklogHanded
  <1> QED
    BY Invariance, <1>2, PTL

-----------------------------------------------------------------------------
(* Refinement: every step is an offer, a take, a close or a stutter.       *)

\* A send is an Offer, because the queue is still open when it happens.
LEMMA SelectOffers ==
    ASSUME IInv, NEW p \in Producers, Select(p), run' # "panicked"
    PROVE  Promise!Offer(params[p])
  <1>1. ~sendDone /\ ~closed
    BY SelectIsOpen DEF IInv, Select
  <1>2. UNCHANGED <<sendDone, Taken>>
    BY DEF Taken, Select, mainVars, senderVars, Put, Discard, Panic
  <1>3. CASE Put(p)
    BY <1>1, <1>2, <1>3
       DEF Put, Promise!Offer, Promise!Accept, Promise!HasRoom
  <1>4. CASE Discard
    <2>1. ~(Len(sendCh) < Cap)
      BY <1>4, SendQueueAssumption DEF Discard, IInv, TypeOK
    <2> QED
      BY <1>1, <1>2, <1>4, <2>1
         DEF Discard, Promise!Offer, Promise!Drop, Promise!HasRoom
  <1> QED
    BY <1>1, <1>3, <1>4 DEF Select, Panic

LEMMA ReceiveTakes == Receive => Promise!Take
  BY ReceiveGrowsTaken
     DEF Receive, SenderStep, Promise!Take, producerVars, mainVars

LEMMA SetDoneCloses == IInv /\ SetDone => Promise!Close
  BY DEF IInv, TypeOK, Phases, SetDone, MainStep, Promise!Close,
     senderVars, Taken

\* Every other step leaves the abstract queue alone.
LEMMA RestStutters ==
    ASSUME \/ \E p \in Producers : Call(p) \/ Lock(p) \/ CheckDone(p) \/ Unlock(p)
           \/ CallSendMessage \/ SendReturns
           \/ Signal \/ DeadlinePasses \/ DrainDone \/ MainLock
           \/ CloseChannel \/ MainUnlock \/ ProcessExit
           \/ Kill
           \/ UNCHANGED vars
    PROVE  UNCHANGED Promise!vars
  <1> USE DEF Promise!vars, producerVars, mainVars, senderVars, Taken
  <1>1. ASSUME NEW p \in Producers, Call(p) \/ Lock(p) \/ CheckDone(p) \/ Unlock(p)
        PROVE  UNCHANGED Promise!vars
    BY <1>1 DEF Call, Lock, CheckDone, Unlock
  <1>2. CASE CallSendMessage \/ SendReturns \/ Kill \/ ProcessExit \/ UNCHANGED vars
    BY <1>2, CallKeepsTaken
       DEF CallSendMessage, SendReturns, SenderStep, Kill, ProcessExit, vars
  <1>3. CASE Signal \/ DeadlinePasses \/ DrainDone
    BY <1>3 DEF Signal, DeadlinePasses, DrainDone, MainStep
  <1>4. CASE MainLock \/ CloseChannel \/ MainUnlock
    BY <1>4 DEF MainLock, CloseChannel, MainUnlock, MainStep
  <1> QED
    BY <1>1, <1>2, <1>3, <1>4

LEMMA StepSimulates == IInv /\ IInv' /\ [Next]_vars => [Promise!Next]_(Promise!vars)
  <1> SUFFICES ASSUME IInv, IInv', [Next]_vars
               PROVE  Promise!Next \/ UNCHANGED Promise!vars
    OBVIOUS
  <1>1. ASSUME NEW p \in Producers, Select(p) PROVE Promise!Next
    <2>1. params[p] \in Messages
      BY <1>1 DEF IInv, TypeOK, Select
    <2>2. Promise!Offer(params[p])
      BY <1>1, SelectOffers DEF IInv, NoPanic
    <2> QED
      BY <2>1, <2>2 DEF Promise!Next
  <1>2. CASE Receive
    BY <1>2, ReceiveTakes DEF Promise!Next
  <1>3. CASE SetDone
    BY <1>3, SetDoneCloses DEF Promise!Next
  <1>4. CASE ~Receive /\ ~SetDone /\ \A p \in Producers : ~Select(p)
    BY <1>4, RestStutters DEF Next, Enqueue, Sender, Shutdown
  <1> QED
    BY <1>1, <1>2, <1>3, <1>4

\* The mutex, the flag and the channel together behave like the bounded lossy
\* queue that the rest of the bot relies on.
THEOREM QueueImplementsOutbox == Spec => ImplementsOutbox
  <1>1. Init => Promise!Init
    BY DEF Init, Promise!Init, Taken
  <1> QED
    BY <1>1, StepSimulates, Invariance, PTL
       DEF Spec, ImplementsOutbox, Promise!Spec

\* Nothing is queued or counted once the shutdown has set its flag.
THEOREM ShutQueueIsFinal == Spec => ShutIsFinal
  <1>1. ASSUME IInv, [Next]_vars, sendDone
        PROVE  UNCHANGED <<accepted, dropped>>
    <2> USE DEF producerVars, mainVars, senderVars
    <2>1. ASSUME NEW p \in Producers, Select(p) PROVE FALSE
      BY <1>1, <2>1, SelectIsOpen DEF IInv, Select
    <2>2. ASSUME NEW p \in Producers, Call(p) \/ Lock(p) \/ CheckDone(p) \/ Unlock(p)
          PROVE  UNCHANGED <<accepted, dropped>>
      BY <2>2 DEF Call, Lock, CheckDone, Unlock
    <2>3. CASE Sender \/ Kill \/ UNCHANGED vars
      BY <2>3 DEF Sender, Receive, CallSendMessage, SendReturns, SenderStep, Kill, vars
    <2>4. CASE Shutdown
      BY <2>4 DEF Shutdown, Signal, DeadlinePasses, DrainDone, MainLock, SetDone,
         CloseChannel, MainUnlock, ProcessExit, MainStep
    <2> QED
      BY <1>1, <2>1, <2>2, <2>3, <2>4 DEF Next, Enqueue
  <1>2. IInv /\ [Next]_vars => [sendDone => UNCHANGED <<accepted, dropped>>]_vars
    BY <1>1
  <1> QED
    BY <1>2, Invariance, PTL DEF Spec, ShutIsFinal
=============================================================================
