--------------------------- MODULE ReconnectProofs ---------------------------
(***************************************************************************)
(* Theorems about Reconnect for any times and any bound.                   *)
(*                                                                         *)
(* InTime bounds calm in every place the loop can be while the server is   *)
(* up: each bound is the sum of what may have passed before, and the       *)
(* timeouts keep the time that is added there below the next sum.          *)
(***************************************************************************)
EXTENDS Reconnect, FoldTheorems, TLAPS

\* Where the loop is, and how long the server can have been up by then.
InTime ==
    server = "up" =>
        \/ Delivering /\ silent < Watchdog
        \/ pc = "dial" /\ ~current /\ calm <= elapsed
        \/ pc = "session" /\ ~current /\ calm <= Handshake + silent
        \/ pc = "sleep" /\ calm + wait <= Handshake + Watchdog + MaxBackoff
        \/ pc = "dial" /\ current /\ calm <= Handshake + Watchdog + MaxBackoff + elapsed

IInv == TypeOK /\ InTime

LEMMA Times ==
    /\ Base \in Nat /\ MaxBackoff \in Nat /\ Healthy \in Nat /\ Handshake \in Nat
    /\ Watchdog \in Nat /\ MaxShorts \in Nat /\ Worst \in Nat
    /\ 0 < Base /\ 0 < Watchdog /\ 0 < MaxShorts
    /\ Base <= MaxBackoff /\ Handshake <= Watchdog /\ Handshake <= Healthy
  <1>1. /\ Base \in Nat /\ MaxBackoff \in Nat /\ Healthy \in Nat /\ Handshake \in Nat
        /\ Watchdog \in Nat /\ MaxShorts \in Nat
        /\ Base # 0 /\ Watchdog # 0 /\ MaxShorts # 0
    BY ReconnectAssumption
  <1> QED
    BY <1>1, ReconnectAssumption DEF Worst

LEMMA InitIInv == Init => IInv
  <1> SUFFICES ASSUME Init PROVE TypeOK /\ InTime
    BY DEF IInv
  <1> USE Times
  <1>1. TypeOK
    <2>1. /\ elapsed \in 0..Healthy + 1 /\ silent \in 0..Watchdog
          /\ backoff \in Base..MaxBackoff /\ wait \in 0..MaxBackoff
          /\ shorts \in 0..MaxShorts /\ elapsed <= Handshake
      BY DEF Init
    <2>2. calm \in 0..Worst + 1
      BY DEF Init
    <2> QED
      BY <2>1, <2>2 DEF Init, TypeOK
  <1>2. InTime
    BY DEF Init, InTime
  <1> QED
    BY <1>1, <1>2

LEMMA EndStep ==
    ASSUME TypeOK, End
    PROVE  TypeOK' /\ wait' <= MaxBackoff
  BY Times DEF Worst, TypeOK, End, AtMost, Servers

LEMMA TypeStep == TypeOK /\ [Next]_vars => TypeOK'
  <1> SUFFICES ASSUME TypeOK, [Next]_vars PROVE TypeOK'
    OBVIOUS
  <1> USE Times
  <1>1. CASE DialFails \/ ReadFails \/ WatchdogExpires
    BY <1>1, EndStep DEF DialFails, ReadFails, WatchdogExpires
  <1>2. CASE Connect
    BY <1>2 DEF Connect, TypeOK
  <1>3. CASE Message
    BY <1>3 DEF Message, Delivering, TypeOK
  <1>4. CASE Wake
    BY <1>4 DEF Wake, TypeOK
  <1>5. CASE Disturb
    <2>1. calm' \in 0..Worst + 1
      BY <1>5 DEF Disturb
    <2> QED
      BY <1>5, <2>1 DEF Disturb, TypeOK
  <1>6. CASE Tick
    <2>1. elapsed' \in 0..Healthy + 1 /\ calm' \in 0..Worst + 1
      BY <1>6 DEF Tick, TypeOK, AtMost, Worst
    <2>2. silent' \in 0..Watchdog /\ wait' \in 0..MaxBackoff
      BY <1>6 DEF Tick, TypeOK, AtMost
    <2>3. pc = "dial" => elapsed' <= Handshake
      BY <1>6 DEF Tick, TypeOK, AtMost
    <2> QED
      BY <1>6, <2>1, <2>2, <2>3 DEF Tick, TypeOK
  <1>7. CASE UNCHANGED vars
    BY <1>7 DEF vars, TypeOK
  <1> QED
    BY <1>1, <1>2, <1>3, <1>4, <1>5, <1>6, <1>7 DEF Next, StartSocket

LEMMA InTimeStep == TypeOK /\ TypeOK' /\ InTime /\ [Next]_vars => InTime'
  <1> SUFFICES ASSUME TypeOK, TypeOK', InTime, [Next]_vars, server' = "up"
               PROVE  InTime'
    BY DEF InTime
  <1> USE Times
  <1>1. CASE DialFails
    \* The dial was under way when the server came up.
    <2>1. End /\ pc = "dial"
      BY <1>1 DEF DialFails
    <2>2. server = "up" /\ ~current
      BY <1>1 DEF DialFails, End
    <2>3. calm <= elapsed /\ elapsed <= Handshake
      BY <2>1, <2>2 DEF InTime, Delivering, TypeOK
    <2>4. calm' = calm /\ pc' = "sleep"
      BY <2>1 DEF End
    <2>5. calm' + wait' <= Handshake + Watchdog + MaxBackoff
      <3>1. wait' <= MaxBackoff /\ wait' \in Nat
        BY <2>1, EndStep DEF TypeOK
      <3>2. calm \in Nat /\ elapsed \in Nat /\ silent \in Nat
        BY DEF TypeOK
      <3>3. calm' + wait' = calm + wait'
        BY <2>4
      <3>4. calm + wait' <= Handshake + Watchdog + MaxBackoff
        <4> DEFINE w == wait'
        <4>1. w \in Nat /\ w <= MaxBackoff
          BY <3>1
        <4> HIDE DEF w
        <4>2. calm + w <= Handshake + Watchdog + MaxBackoff
          BY <2>3, <3>2, <4>1
        <4> QED
          BY <4>2 DEF w
      <3> QED
        BY <3>3, <3>4
    <2> QED
      BY <2>4, <2>5 DEF InTime
  <1>2. CASE ReadFails \/ WatchdogExpires
    \* A session that delivers does not end.
    <2>1. End /\ pc = "session" /\ server = "up"
      BY <1>2 DEF ReadFails, WatchdogExpires, End
    <2>2. ~Delivering \/ ~(silent < Watchdog)
      BY <1>2 DEF ReadFails, WatchdogExpires, TypeOK
    <2>3. calm <= Handshake + silent /\ silent <= Watchdog
      BY <2>1, <2>2 DEF InTime, TypeOK
    <2>4. calm' = calm /\ pc' = "sleep"
      BY <2>1 DEF End
    <2>5. calm' + wait' <= Handshake + Watchdog + MaxBackoff
      <3>1. wait' <= MaxBackoff /\ wait' \in Nat
        BY <2>1, EndStep DEF TypeOK
      <3>2. calm \in Nat /\ elapsed \in Nat /\ silent \in Nat
        BY DEF TypeOK
      <3>3. calm' + wait' = calm + wait'
        BY <2>4
      <3>4. calm + wait' <= Handshake + Watchdog + MaxBackoff
        <4> DEFINE w == wait'
        <4>1. w \in Nat /\ w <= MaxBackoff
          BY <3>1
        <4> HIDE DEF w
        <4>2. calm + w <= Handshake + Watchdog + MaxBackoff
          BY <2>3, <3>2, <4>1
        <4> QED
          BY <4>2 DEF w
      <3> QED
        BY <3>3, <3>4
    <2> QED
      BY <2>4, <2>5 DEF InTime
  <1>3. CASE Connect
    BY <1>3 DEF Connect, InTime, Delivering, TypeOK
  <1>4. CASE Message
    BY <1>4 DEF Message, InTime, Delivering
  <1>5. CASE Wake
    BY <1>5 DEF Wake, InTime, Delivering, TypeOK
  <1>6. CASE Disturb
    BY <1>6 DEF Disturb, InTime, Delivering, TypeOK
  <1>7. CASE Tick
    BY <1>7 DEF Tick, InTime, Delivering, TypeOK, AtMost, Worst
  <1>8. CASE UNCHANGED vars
    BY <1>8 DEF vars, InTime, Delivering
  <1> QED
    BY <1>1, <1>2, <1>3, <1>4, <1>5, <1>6, <1>7, <1>8 DEF Next, StartSocket

LEMMA Invariance == Spec => []IInv
  <1>1. IInv /\ [Next]_vars => IInv'
    BY TypeStep, InTimeStep DEF IInv
  <1> QED
    BY InitIInv, <1>1, PTL DEF Spec

-----------------------------------------------------------------------------
(* The backoff.                                                            *)

\* The powers that the pause goes through.
LEMMA Doubling ==
    /\ Doubled \in [Nat -> Nat]
    /\ Doubled[0] = Base
    /\ \A n \in Nat : Doubled[n + 1] = 2 * Doubled[n]
  <1> DEFINE h == [m \in Nat |-> 2 * m]
             Rule(d) == d = [n \in Nat |-> IF n = 0 THEN Base ELSE 2 * d[n - 1]]
  <1>1. Base \in Nat /\ h \in [Nat -> Nat]
    BY Times
  <1> HIDE DEF h
  <1>2. PICK f \in [Nat -> Nat] : Iterates(f, Base, h)
    BY <1>1, NumberRecursion
  <1>3. Rule(f)
    <2>1. f[0] = Base
      BY <1>2 DEF Iterates
    <2>2. ASSUME NEW n \in Nat, n # 0 PROVE f[n] = 2 * f[n - 1]
      <3>1. n - 1 \in Nat /\ (n - 1) + 1 = n
        BY <2>2
      <3>2. f[(n - 1) + 1] = h[f[n - 1]]
        BY <1>2, <3>1 DEF Iterates
      <3>3. f[n - 1] \in Nat
        BY <1>2, <3>1
      <3> QED
        BY <3>1, <3>2, <3>3 DEF h
    <2> QED
      BY <1>2, <2>1, <2>2
  <1>4. Rule(Doubled)
    <2>1. Doubled = CHOOSE d : Rule(d)
      BY DEF Doubled
    <2> HIDE DEF Rule
    <2> QED
      BY <1>3, <2>1
  <1>5. Doubled[0] = Base
    BY <1>4
  <1>6. ASSUME NEW n \in Nat PROVE Doubled[n + 1] = 2 * Doubled[n]
    <2>1. n + 1 \in Nat /\ n + 1 # 0 /\ (n + 1) - 1 = n
      OBVIOUS
    <2>2. Doubled[n + 1] = 2 * Doubled[(n + 1) - 1]
      BY <1>4, <2>1
    <2> QED
      BY <2>1, <2>2
  <1>7. \A n \in Nat : Doubled[n] \in Nat
    <2> DEFINE G == {n \in Nat : Doubled[n] \in Nat}
    <2>1. 0 \in G
      BY <1>1, <1>5
    <2>2. \A n \in Nat : n \in G => n + 1 \in G
      BY <1>6
    <2> HIDE DEF G
    <2>3. \A n \in Nat : n \in G
      BY <2>1, <2>2, NumberInduction
    <2> QED
      BY <2>3 DEF G
  <1>8. Doubled = [n \in Nat |-> Doubled[n]]
    BY <1>4
  <1> QED
    BY <1>5, <1>6, <1>7, <1>8

\* A short session doubles the pause up to its limit, and from MaxShorts on the
\* pause is at the limit whatever is counted.
LEMMA EndFollowsHistory ==
    ASSUME TypeOK, BackoffFollowsHistory, End
    PROVE  BackoffFollowsHistory'
  <1> DEFINE d == Doubled[shorts]
  <1>1. /\ shorts \in Nat /\ shorts <= MaxShorts /\ backoff \in Nat
        /\ MaxBackoff \in Nat /\ MaxShorts \in Nat /\ Base <= MaxBackoff /\ Base \in Nat
    BY Times DEF TypeOK
  <1>2. d \in Nat /\ backoff = AtMost(d, MaxBackoff)
    BY <1>1, Doubling DEF BackoffFollowsHistory
  <1>3. CASE elapsed > Healthy
    <2>1. backoff' = Base /\ shorts' = 0
      BY <1>3 DEF End
    <2> QED
      BY <1>1, <2>1, Doubling DEF BackoffFollowsHistory, AtMost
  <1>4. CASE ~(elapsed > Healthy)
    <2>1. backoff' = AtMost(backoff * 2, MaxBackoff) /\ shorts' = AtMost(shorts + 1, MaxShorts)
      BY <1>4 DEF End
    <2>2. CASE shorts < MaxShorts
      <3>1. shorts' = shorts + 1
        BY <1>1, <2>1, <2>2 DEF AtMost
      <3>2. Doubled[shorts'] = 2 * d
        BY <1>1, <3>1, Doubling
      <3> HIDE DEF d
      <3>3. AtMost(backoff * 2, MaxBackoff) = AtMost(2 * d, MaxBackoff)
        BY <1>1, <1>2 DEF AtMost
      <3> QED
        BY <2>1, <3>2, <3>3 DEF BackoffFollowsHistory
    <2>3. CASE ~(shorts < MaxShorts)
      <3>1. shorts' = MaxShorts /\ shorts = MaxShorts
        BY <1>1, <2>1, <2>3 DEF AtMost
      <3>2. MaxBackoff <= d
        BY <3>1, ReconnectAssumption
      <3> HIDE DEF d
      <3>3. backoff = MaxBackoff /\ AtMost(d, MaxBackoff) = MaxBackoff
        BY <1>1, <1>2, <3>2 DEF AtMost
      <3>4. backoff' = MaxBackoff
        BY <1>1, <2>1, <3>3 DEF AtMost
      <3>5. Doubled[shorts'] = d
        BY <3>1 DEF d
      <3> QED
        BY <3>3, <3>4, <3>5 DEF BackoffFollowsHistory
    <2> QED
      BY <1>1, <2>2, <2>3
  <1> QED
    BY <1>3, <1>4

LEMMA HistoryStep ==
    TypeOK /\ BackoffFollowsHistory /\ [Next]_vars => BackoffFollowsHistory'
  <1> SUFFICES ASSUME TypeOK, BackoffFollowsHistory, [Next]_vars
               PROVE  BackoffFollowsHistory'
    OBVIOUS
  <1>1. CASE DialFails \/ ReadFails \/ WatchdogExpires
    BY <1>1, EndFollowsHistory DEF DialFails, ReadFails, WatchdogExpires
  <1>2. CASE Connect \/ Message \/ Wake \/ Disturb \/ Tick \/ UNCHANGED vars
    <2>1. UNCHANGED <<backoff, shorts>>
      BY <1>2 DEF Connect, Message, Wake, Disturb, Tick, vars
    <2> QED
      BY <2>1 DEF BackoffFollowsHistory
  <1> QED
    BY <1>1, <1>2 DEF Next, StartSocket

-----------------------------------------------------------------------------

\* The loop's variables keep their types: no dial outlives its timeout and no
\* session runs without a read deadline.
THEOREM ReconnectTypeCorrect == Spec => []TypeOK
  <1>1. IInv => TypeOK
    BY DEF IInv
  <1> QED
    BY Invariance, <1>1, PTL

\* Whatever the order of failures, a server that has been up for longer than
\* Worst delivers.
THEOREM FeedReturns == Spec => []FeedIsBackInTime
  <1>1. IInv => FeedIsBackInTime
    BY Times DEF IInv, InTime, FeedIsBackInTime, TypeOK, Worst
  <1> QED
    BY Invariance, <1>1, PTL

\* The pause before a connection is the first one doubled once for every short
\* session since the last healthy one, and never more than the limit, however the
\* sessions ended.
THEOREM BackoffIsHistory == Spec => []BackoffFollowsHistory
  <1>1. Init => BackoffFollowsHistory
    BY Times, Doubling DEF Init, BackoffFollowsHistory, AtMost
  <1>2. IInv => TypeOK
    BY DEF IInv
  <1> QED
    BY Invariance, HistoryStep, <1>1, <1>2, PTL DEF Spec
=============================================================================
