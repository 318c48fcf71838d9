------------------------ MODULE AlertPipelineProofs ------------------------
(***************************************************************************)
(* Theorems about AlertPipeline for any users, trades, settings, channel   *)
(* capacities and number of workers: its types, what the alerts that reach *)
(* the queue are about and who asked for them, the audience of the loop,   *)
(* and the balance of the counters.                                        *)
(***************************************************************************)
EXTENDS AlertPipeline, FiniteSetTheorems, SequenceTheorems, TLAPS

-----------------------------------------------------------------------------
(* Sequences as sets.                                                      *)

LEMMA ElementsOfSeq ==
    ASSUME NEW S, NEW s \in Seq(S)
    PROVE  Elements(s) \subseteq S
  BY DEF Elements

LEMMA ElementsOfAppend ==
    ASSUME NEW S, NEW s \in Seq(S), NEW e \in S
    PROVE  /\ Append(s, e) \in Seq(S)
           /\ Elements(Append(s, e)) = Elements(s) \cup {e}
  <1>1. /\ Append(s, e) \in Seq(S)
        /\ Len(Append(s, e)) = Len(s) + 1
        /\ Append(s, e)[Len(s) + 1] = e
        /\ \A i \in 1..Len(s) : Append(s, e)[i] = s[i]
    OBVIOUS
  <1>2. 1..(Len(s) + 1) = (1..Len(s)) \cup {Len(s) + 1}
    OBVIOUS
  <1> QED
    BY <1>1, <1>2, Zenon DEF Elements

LEMMA ElementsOfTail ==
    ASSUME NEW S, NEW s \in Seq(S), s # <<>>
    PROVE  /\ Head(s) \in S /\ Tail(s) \in Seq(S)
           /\ Len(Tail(s)) = Len(s) - 1
           /\ Head(s) \in Elements(s)
           /\ Elements(Tail(s)) \subseteq Elements(s)
  <1>1. /\ Tail(s) \in Seq(S)
        /\ Len(Tail(s)) = Len(s) - 1
        /\ Len(s) \in Nat \ {0}
        /\ \A i \in 1..(Len(s) - 1) : Tail(s)[i] = s[i + 1]
        /\ Head(s) = s[1] /\ Head(s) \in S
    OBVIOUS
  <1>2. ASSUME NEW i \in 1..(Len(s) - 1) PROVE i + 1 \in 1..Len(s)
    BY <1>1
  <1>3. Head(s) \in Elements(s)
    BY <1>1 DEF Elements
  <1>4. Elements(Tail(s)) \subseteq Elements(s)
    BY <1>1, <1>2 DEF Elements
  <1> QED
    BY <1>1, <1>3, <1>4

-----------------------------------------------------------------------------
(* The invariant behind the types and OnlySoundAlerts.                     *)

DbOK ==
    /\ users \subseteq Chats
    /\ settings \in [Chats -> Settings]
    /\ watch \subseteq users \X Wallets
    /\ edits \in 0..MaxEdits

CachesOK ==
    /\ subSnap = NoSnapshot \/ subSnap \in Views
    /\ subCache \in Views
    /\ followSnap = NoSnapshot \/ followSnap \subseteq Chats \X Wallets
    /\ followCache \subseteq Chats \X Wallets

FeedOK ==
    /\ feed \subseteq Trades
    /\ jobs \in Seq(Trades) /\ Len(jobs) <= JobsCap

\* What a worker has learnt about its trade, and what it has tested.
WorkersOK ==
    /\ pc \in [Workers -> Pc]
    /\ trade \in [Workers -> Trades \cup {NoTrade}]
    /\ followers \in [Workers -> SUBSET Chats]
    /\ meta \in [Workers -> Categories \cup {NoMeta}]
    /\ count \in [Workers -> Nat]
    /\ subs \in [Workers -> Views]
    /\ todo \in [Workers -> SUBSET Chats]
    /\ \A w \in Workers :
          /\ todo[w] \subseteq DOMAIN subs[w]
          /\ pc[w] # "idle" =>
                trade[w] \in Trades /\ ~trade[w].banned /\ ~Unusable(trade[w])
          /\ pc[w] \in {"count", "stats", "loop"} => meta[w] \in Categories
          /\ pc[w] \in {"stats", "loop"} => count[w] \in Counts \ {999}

QueueOK ==
    /\ open \in BOOLEAN
    /\ queue \in Seq(Messages) /\ Len(queue) <= QueueCap
    /\ taken \in Seq(Messages)
    /\ dropped \in Nat

CountersOK == metrics \in [Counters -> Nat]

TypeInv ==
    DbOK /\ CachesOK /\ FeedOK /\ WorkersOK /\ QueueOK /\ CountersOK

IInv == TypeInv /\ OnlySoundAlerts

LEMMA TypeInvType == TypeInv => TypeOK
  BY DEF TypeInv, DbOK, CachesOK, FeedOK, WorkersOK, QueueOK, CountersOK, TypeOK

LEMMA NoSubsIsView == NoSubs \in Views /\ DOMAIN NoSubs = {}
  <1>1. NoSubs \in [{} -> Settings]
    BY DEF NoSubs
  <1> QED
    BY <1>1 DEF Views, NoSubs

LEMMA SubscribersAreView == DbOK => AllSubscribers \in Views
  <1> SUFFICES ASSUME DbOK PROVE AllSubscribers \in Views
    OBVIOUS
  <1>1. AllSubscribers \in [users -> Settings]
    BY DEF DbOK, AllSubscribers
  <1> QED
    BY <1>1 DEF DbOK, Views

LEMMA ViewOfChats ==
    ASSUME NEW v \in Views
    PROVE  DOMAIN v \subseteq Chats /\ \A c \in DOMAIN v : v[c] \in Settings
  BY DEF Views

-----------------------------------------------------------------------------

LEMMA InitIInv == Init => IInv
  <1> SUFFICES ASSUME Init PROVE IInv
    OBVIOUS
  <1>1. DbOK
    BY PipelineAssumption DEF Init, Db!Init, DbOK
  <1>2. CachesOK
    BY <1>1, NoSubsIsView, SubscribersAreView DEF Init, Db!Init, CachesOK
  <1>3. FeedOK
    BY PipelineAssumption DEF Init, FeedOK
  <1>4. WorkersOK
    BY NoSubsIsView DEF Init, WorkersOK, Pc
  <1>5. QueueOK
    BY PipelineAssumption DEF Init, QueueOK
  <1>6. CountersOK
    BY DEF Init, CountersOK
  <1>7. OnlySoundAlerts
    BY DEF Init, OnlySoundAlerts, Alerts, Elements
  <1> QED
    BY <1>1, <1>2, <1>3, <1>4, <1>5, <1>6, <1>7 DEF IInv, TypeInv

-----------------------------------------------------------------------------
(* What each kind of step leaves alone.                                    *)

LEMMA IncOK ==
    ASSUME CountersOK, NEW names, Inc(names)
    PROVE  CountersOK'
  BY DEF CountersOK, Inc

\* The queue grows by the offered message at most, and shrinks from its head.
LEMMA EnqueueAdds ==
    ASSUME QueueOK, NEW m \in Messages, Enqueue(m)
    PROVE  QueueOK' /\ Alerts' \subseteq Alerts \cup {m}
  <1>1. CASE Box!Accept(m)
    <2>1. /\ queue' = Append(queue, m) /\ UNCHANGED <<open, taken, dropped>>
          /\ Len(queue) < QueueCap
      BY <1>1 DEF Box!Accept, Box!HasRoom
    <2>2. /\ queue' \in Seq(Messages) /\ Len(queue') = Len(queue) + 1
          /\ Elements(queue') = Elements(queue) \cup {m}
      BY <2>1, ElementsOfAppend DEF QueueOK
    <2>3. Len(queue') <= QueueCap
      BY <2>1, <2>2, PipelineAssumption DEF QueueOK
    <2> QED
      BY <2>1, <2>2, <2>3 DEF QueueOK, Alerts
  <1>2. CASE Box!Drop
    BY <1>2 DEF Box!Drop, QueueOK, Alerts
  <1>3. CASE UNCHANGED queueVars
    BY <1>3 DEF queueVars, QueueOK, Alerts
  <1> QED
    BY <1>1, <1>2, <1>3 DEF Enqueue, Box!Offer

LEMMA TakeKeeps ==
    ASSUME QueueOK, Box!Take
    PROVE  QueueOK' /\ Alerts' \subseteq Alerts
  <1>1. /\ queue # <<>> /\ queue' = Tail(queue)
        /\ taken' = Append(taken, Head(queue)) /\ UNCHANGED <<open, dropped>>
    BY DEF Box!Take
  <1>2. /\ Head(queue) \in Messages /\ Tail(queue) \in Seq(Messages)
        /\ Len(Tail(queue)) = Len(queue) - 1
        /\ Head(queue) \in Elements(queue)
        /\ Elements(Tail(queue)) \subseteq Elements(queue)
    BY <1>1, ElementsOfTail DEF QueueOK
  <1>3. /\ taken' \in Seq(Messages)
        /\ Elements(taken') = Elements(taken) \cup {Head(queue)}
    BY <1>1, <1>2, ElementsOfAppend DEF QueueOK
  <1>4. Len(queue') <= QueueCap
    BY <1>1, <1>2, PipelineAssumption DEF QueueOK
  <1> QED
    BY <1>1, <1>2, <1>3, <1>4 DEF QueueOK, Alerts

LEMMA CloseKeeps ==
    ASSUME QueueOK, Box!Close
    PROVE  QueueOK' /\ Alerts' = Alerts
  BY DEF QueueOK, Box!Close, Alerts

LEMMA SoundKept ==
    ASSUME OnlySoundAlerts, Alerts' \subseteq Alerts
    PROVE  OnlySoundAlerts'
  BY DEF OnlySoundAlerts, Unusable

LEMMA QueueUnchanged ==
    ASSUME UNCHANGED queueVars
    PROVE  (QueueOK => QueueOK') /\ Alerts' = Alerts
  BY DEF queueVars, QueueOK, Alerts, Elements

LEMMA WorkersUnchanged ==
    ASSUME WorkersOK, UNCHANGED workerVars
    PROVE  WorkersOK'
  BY DEF WorkersOK, workerVars

-----------------------------------------------------------------------------
(* Every step keeps the invariant.                                         *)

LEMMA EditsKeep == ASSUME IInv, UserEdits PROVE IInv'
  <1> USE DEF IInv, TypeInv
  <1>1. Edit
    BY DEF UserEdits, Subscribe, Unsubscribe, SaveSettings, Follow, Unfollow
  <1>2. /\ edits < MaxEdits /\ edits' = edits + 1
        /\ UNCHANGED <<cacheVars, feed, jobs, workerVars, queueVars, metrics>>
    BY <1>1 DEF Edit
  <1>3. edits' \in 0..MaxEdits
    BY <1>2, PipelineAssumption DEF DbOK
  <1>4. /\ users' \subseteq Chats
        /\ settings' \in [Chats -> Settings]
        /\ watch' \subseteq users' \X Wallets
    <2>1. PICK c \in Chats :
            \/ Subscribe(c) \/ Unsubscribe(c) \/ SaveSettings(c)
            \/ \E x \in Wallets : Follow(c, x) \/ Unfollow(c, x)
      BY DEF UserEdits
    <2>2. CASE Subscribe(c)
      BY <2>2 DEF Subscribe, Db!Subscribe, DbOK
    <2>3. CASE Unsubscribe(c)
      BY <2>3 DEF Unsubscribe, Db!Unsubscribe, DbOK, Settings
    <2>4. CASE SaveSettings(c)
      BY <2>4 DEF SaveSettings, Db!SaveSettings, DbOK, Settings
    <2>5. ASSUME NEW x \in Wallets, Follow(c, x) \/ Unfollow(c, x)
          PROVE  <1>4
      BY <2>5 DEF Follow, Unfollow, Db!Follow, Db!Unfollow, DbOK
    <2> QED
      BY <2>1, <2>2, <2>3, <2>4, <2>5
  <1>5. CachesOK' /\ FeedOK' /\ CountersOK'
    BY <1>2 DEF cacheVars, CachesOK, FeedOK, CountersOK
  <1> QED
    BY <1>2, <1>3, <1>4, <1>5, QueueUnchanged, WorkersUnchanged, SoundKept DEF DbOK

LEMMA RefreshesKeep == ASSUME IInv, CacheRefreshes PROVE IInv'
  <1> USE DEF IInv, TypeInv
  <1>1. UNCHANGED <<dbVars, feed, jobs, workerVars, queueVars, metrics>>
    BY DEF CacheRefreshes, SubQuery, SubPublish, FollowQuery, FollowPublish, CacheStep
  <1>2. CachesOK'
    <2>1. CASE SubQuery
      BY <2>1, SubscribersAreView DEF SubQuery, CachesOK
    <2>2. CASE SubPublish
      BY <2>2 DEF SubPublish, CachesOK
    <2>3. CASE FollowQuery
      BY <2>3 DEF FollowQuery, CachesOK, DbOK
    <2>4. CASE FollowPublish
      BY <2>4 DEF FollowPublish, CachesOK
    <2> QED
      BY <2>1, <2>2, <2>3, <2>4 DEF CacheRefreshes
  <1>3. DbOK' /\ FeedOK' /\ CountersOK'
    BY <1>1 DEF dbVars, DbOK, FeedOK, CountersOK
  <1> QED
    BY <1>1, <1>2, <1>3, QueueUnchanged, WorkersUnchanged, SoundKept

LEMMA ReceiveKeeps == ASSUME IInv, NEW t \in Trades, Receive(t) PROVE IInv'
  <1> USE DEF IInv, TypeInv
  <1>1. /\ feed' = feed \ {t}
        /\ UNCHANGED <<dbVars, cacheVars, workerVars, queueVars>>
    BY DEF Receive, Deliver
  <1>2. FeedOK' /\ CountersOK'
    <2>1. CASE Len(jobs) < JobsCap /\ jobs' = Append(jobs, t) /\ Inc({"WSMessages"})
      <3>1. jobs' \in Seq(Trades) /\ Len(jobs') = Len(jobs) + 1
        BY <2>1 DEF FeedOK
      <3>2. Len(jobs') <= JobsCap
        BY <2>1, <3>1, PipelineAssumption DEF FeedOK
      <3> QED
        BY <1>1, <2>1, <3>1, <3>2, IncOK DEF FeedOK
    <2>2. CASE Inc({"WSMessages", "WSDropped"}) /\ UNCHANGED jobs
      BY <1>1, <2>2, IncOK DEF FeedOK
    <2> QED
      BY <2>1, <2>2 DEF Receive
  <1>3. DbOK' /\ CachesOK'
    BY <1>1 DEF dbVars, cacheVars, DbOK, CachesOK
  <1> QED
    BY <1>1, <1>2, <1>3, QueueUnchanged, WorkersUnchanged, SoundKept

LEMMA SenderKeeps == ASSUME IInv, Send \/ ShutQueue PROVE IInv'
  <1> USE DEF IInv, TypeInv
  <1>1. UNCHANGED <<dbVars, cacheVars, feed, jobs, workerVars, metrics>>
    BY DEF Send, ShutQueue
  <1>2. QueueOK' /\ OnlySoundAlerts'
    BY TakeKeeps, CloseKeeps, SoundKept DEF Send, ShutQueue
  <1>3. DbOK' /\ CachesOK' /\ FeedOK' /\ CountersOK'
    BY <1>1 DEF dbVars, cacheVars, DbOK, CachesOK, FeedOK, CountersOK
  <1> QED
    BY <1>1, <1>2, <1>3, WorkersUnchanged

LEMMA EndTradeKeeps ==
    ASSUME WorkersOK, NEW w \in Workers, EndTrade(w)
    PROVE  WorkersOK'
  BY NoSubsIsView DEF WorkersOK, EndTrade, Pc

LEMMA TakeTradeKeeps == ASSUME IInv, NEW w \in Workers, Take(w) PROVE IInv'
  <1> USE DEF IInv, TypeInv
  <1>1. /\ jobs # <<>> /\ jobs' = Tail(jobs)
        /\ UNCHANGED <<dbVars, cacheVars, feed, queueVars>>
    BY DEF Take, WorkerStep
  <1>2. Head(jobs) \in Trades /\ FeedOK'
    <2>1. /\ Head(jobs) \in Trades /\ Tail(jobs) \in Seq(Trades)
          /\ Len(Tail(jobs)) = Len(jobs) - 1
      BY <1>1, ElementsOfTail DEF FeedOK
    <2>2. Len(jobs') <= JobsCap
      BY <1>1, <2>1, PipelineAssumption DEF FeedOK
    <2> QED
      BY <1>1, <2>1, <2>2 DEF FeedOK
  <1>3. WorkersOK' /\ CountersOK'
    <2>1. CASE Skip(Head(jobs))
      BY <2>1, WorkersUnchanged DEF Skip, CountersOK
    <2>2. CASE FilterVolume(Head(jobs)) \/ FilterBanWord(Head(jobs))
      BY <2>2, WorkersUnchanged, IncOK DEF FilterVolume, FilterBanWord
    <2>3. CASE Keep(w, Head(jobs))
      <3>1. CountersOK'
        BY <2>3, IncOK DEF Keep
      <3>2. GetFollowers(Head(jobs).wallet) \subseteq Chats
        BY DEF GetFollowers
      <3> QED
        BY <1>2, <2>3, <3>1, <3>2 DEF Keep, WorkersOK, Pc
    <2> QED
      BY <2>1, <2>2, <2>3 DEF Take
  <1>4. DbOK' /\ CachesOK'
    BY <1>1 DEF dbVars, cacheVars, DbOK, CachesOK
  <1> QED
    BY <1>1, <1>2, <1>3, <1>4, QueueUnchanged, SoundKept

LEMMA CallsKeep ==
    ASSUME IInv, NEW w \in Workers, Meta(w) \/ TradeCount(w) \/ StartAlert(w)
    PROVE  IInv'
  <1> USE DEF IInv, TypeInv
  <1>1. UNCHANGED <<dbVars, cacheVars, feed, jobs, queueVars>>
    BY DEF Meta, TradeCount, StartAlert, WorkerStep
  <1>2. WorkersOK' /\ CountersOK'
    <2>1. CASE Meta(w)
      <3>1. PICK m \in GetMeta :
              HasMeta(w, m) \/ (m = NoMeta /\ EndTrade(w) /\ Inc({"FilteredNoMeta"}))
        BY <2>1 DEF Meta
      <3>2. CASE HasMeta(w, m)
        <4>1. m \in Categories
          BY <3>2 DEF HasMeta, GetMeta
        <4> QED
          BY <2>1, <3>2, <4>1 DEF Meta, WorkerStep, HasMeta, WorkersOK, CountersOK, Pc
      <3> QED
        BY <3>1, <3>2, EndTradeKeeps, IncOK
    <2>2. CASE TradeCount(w)
      <3>1. PICK n \in Counts :
              \/ n # 999 /\ HasCount(w, n)
              \/ n = 999 /\ EndTrade(w) /\ Inc({"FilteredAPIErr"})
        BY <2>2 DEF TradeCount, GetTradeCount
      <3>2. CASE n # 999 /\ HasCount(w, n)
        BY <2>2, <3>2, PipelineAssumption
           DEF TradeCount, WorkerStep, HasCount, WorkersOK, CountersOK, Pc
      <3> QED
        BY <3>1, <3>2, EndTradeKeeps, IncOK
    <2>3. CASE StartAlert(w)
      <3>1. subCache \in Views /\ DOMAIN subCache \subseteq Chats
        BY ViewOfChats DEF CachesOK
      <3> QED
        BY <2>3, <3>1 DEF StartAlert, WorkerStep, WorkersOK, CountersOK, Pc
    <2> QED
      BY <2>1, <2>2, <2>3
  <1>3. DbOK' /\ CachesOK' /\ FeedOK'
    BY <1>1 DEF dbVars, cacheVars, DbOK, CachesOK, FeedOK
  <1> QED
    BY <1>1, <1>2, <1>3, QueueUnchanged, SoundKept

\* What Visit passes to Enqueue is a sound message.
LEMMA AlertIsSound ==
    ASSUME WorkersOK, NEW w \in Workers, pc[w] = "loop", NEW c \in todo[w]
    PROVE  /\ Alert(w, c) \in Messages
           /\ ~Alert(w, c).trade.banned /\ ~Unusable(Alert(w, c).trade)
           /\ Alert(w, c).count # 999
  <1>1. /\ c \in Chats /\ trade[w] \in Trades /\ meta[w] \in Categories
        /\ count[w] \in Counts /\ count[w] # 999
        /\ ~trade[w].banned /\ ~Unusable(trade[w])
    BY DEF WorkersOK
  <1>2. (c \in followers[w]) \in BOOLEAN
    OBVIOUS
  <1>3. Alert(w, c) \in Messages
    BY <1>1, <1>2, Zenon DEF Alert, Messages
  <1>4. Alert(w, c).trade = trade[w] /\ Alert(w, c).count = count[w]
    BY DEF Alert
  <1> QED
    BY <1>1, <1>3, <1>4

LEMMA VisitKeeps == ASSUME IInv, NEW w \in Workers, Visit(w) PROVE IInv'
  <1> USE DEF IInv, TypeInv
  <1>1. /\ pc[w] = "loop"
        /\ UNCHANGED <<dbVars, cacheVars, feed, jobs, pc, trade, followers, meta, count, subs>>
    BY DEF Visit, WorkerStep
  <1>2. PICK c \in todo[w] :
          /\ todo' = [todo EXCEPT ![w] = @ \ {c}]
          /\ \/ Enqueue(Alert(w, c)) /\ Inc({"PerfectAlerts"})
             \/ UNCHANGED <<queueVars, metrics>>
    BY DEF Visit
  <1>3. WorkersOK'
    BY <1>1, <1>2 DEF WorkersOK
  <1>4. QueueOK' /\ OnlySoundAlerts' /\ CountersOK'
    <2>1. CASE Enqueue(Alert(w, c)) /\ Inc({"PerfectAlerts"})
      <3>1. /\ Alert(w, c) \in Messages
            /\ ~Alert(w, c).trade.banned /\ ~Unusable(Alert(w, c).trade)
            /\ Alert(w, c).count # 999
        BY <1>1, <1>2, AlertIsSound
      <3>2. QueueOK' /\ Alerts' \subseteq Alerts \cup {Alert(w, c)}
        BY <2>1, <3>1, EnqueueAdds
      <3>3. OnlySoundAlerts'
        BY <3>1, <3>2 DEF OnlySoundAlerts, Unusable
      <3> QED
        BY <2>1, <3>2, <3>3, IncOK
    <2>2. CASE UNCHANGED <<queueVars, metrics>>
      BY <2>2, QueueUnchanged, SoundKept DEF CountersOK
    <2> QED
      BY <1>2, <2>1, <2>2
  <1>5. DbOK' /\ CachesOK' /\ FeedOK'
    BY <1>1 DEF dbVars, cacheVars, DbOK, CachesOK, FeedOK
  <1> QED
    BY <1>3, <1>4, <1>5

LEMMA FinishKeeps == ASSUME IInv, NEW w \in Workers, Finish(w) PROVE IInv'
  <1> USE DEF IInv, TypeInv
  <1>1. /\ EndTrade(w) /\ UNCHANGED <<dbVars, cacheVars, feed, jobs, queueVars>>
        /\ metrics' = [metrics EXCEPT !["WorkerDuration"] = @ + 1,
                                      !["FollowAlerts"] = @ + Cardinality(followers[w])]
    BY DEF Finish, WorkerStep
  <1>2. Cardinality(followers[w]) \in Nat
    BY PipelineAssumption, FS_Subset, FS_CardinalityType DEF WorkersOK
  <1>3. CountersOK'
    BY <1>1, <1>2 DEF CountersOK, Counters
  <1>4. DbOK' /\ CachesOK' /\ FeedOK'
    BY <1>1 DEF dbVars, cacheVars, DbOK, CachesOK, FeedOK
  <1> QED
    BY <1>1, <1>3, <1>4, EndTradeKeeps, QueueUnchanged, SoundKept

LEMMA StepKeeps == IInv /\ [Next]_vars => IInv'
  <1> SUFFICES ASSUME IInv, [Next]_vars PROVE IInv'
    OBVIOUS
  <1>1. CASE Next
    BY <1>1, EditsKeep, RefreshesKeep, ReceiveKeeps, SenderKeeps, TakeTradeKeeps,
       CallsKeep, VisitKeeps, FinishKeeps DEF Next, Work
  <1>2. CASE UNCHANGED vars
    <2>1. UNCHANGED <<dbVars, cacheVars, feed, jobs, workerVars, queueVars, metrics>>
      BY <1>2 DEF vars
    <2>2. DbOK' /\ CachesOK' /\ FeedOK' /\ CountersOK'
      BY <2>1 DEF IInv, TypeInv, dbVars, cacheVars, DbOK, CachesOK, FeedOK, CountersOK
    <2> QED
      BY <2>1, <2>2, QueueUnchanged, WorkersUnchanged, SoundKept DEF IInv, TypeInv
  <1> QED
    BY <1>1, <1>2

LEMMA Invariance == Spec => []IInv
  BY InitIInv, StepKeeps, PTL DEF Spec

\* The variables keep their types, the channels their capacities and the bound
\* histories their bounds.
THEOREM PipelineTypeCorrect == Spec => []TypeOK
  <1>1. IInv => TypeOK
    BY TypeInvType DEF IInv
  <1> QED
    BY Invariance, <1>1, PTL

\* No alert is about a banned market, an unusable price or an API error, on any
\* of the paths around the filters that a follower opens.
THEOREM AlertsAreSound == Spec => []OnlySoundAlerts
  <1>1. IInv => OnlySoundAlerts
    BY DEF IInv
  <1> QED
    BY Invariance, <1>1, PTL

-----------------------------------------------------------------------------
(* Why every alert is justified: each copy of a settings row or of a       *)
(* watchlist row, in a cache, on its way there or in a worker, was in the  *)
(* database at some time.                                                  *)

Held(view) == \A c \in DOMAIN view : <<c, view[c]>> \in held

Remembered ==
    /\ watch \subseteq followed
    /\ followCache \subseteq followed
    /\ followSnap # NoSnapshot => followSnap \subseteq followed
    /\ \A c \in users : <<c, settings[c]>> \in held
    /\ Held(subCache)
    /\ subSnap # NoSnapshot => Held(subSnap)
    /\ \A w \in Workers :
          /\ Held(subs[w])
          /\ pc[w] # "idle" =>
                \A c \in followers[w] : <<c, trade[w].wallet>> \in followed

Justified(m) ==
    /\ m.isWatch => <<m.chat, m.trade.wallet>> \in followed
    /\ ~m.isWatch => \E s \in Settings : <<m.chat, s>> \in held /\ Wants(s, m)

JInv == Remembered /\ \A m \in Alerts : Justified(m)

\* What the loop does not filter is what the settings ask for.
LEMMA UnfilteredIsWanted ==
    ASSUME NEW s \in Settings, NEW m \in Messages
    PROVE  ~Filtered(s, m.trade, m.count, m.meta) <=> Wants(s, m)
  <1>1. s \in SettingsType
    BY PipelineAssumption DEF Settings, DefaultSettings, SettingsType
  <1>2. s.min \in Nat /\ s.trades \in Nat /\ s.odds \in Nat
    BY <1>1 DEF SettingsType
  <1>3. m.trade.size \in Nat /\ m.trade.price \in Int /\ m.count \in Nat
    BY PipelineAssumption DEF Messages, TradeType
  <1>4. m.trade.size * m.trade.price \in Int /\ s.odds * m.trade.price \in Int
    BY <1>2, <1>3
  <1> QED
    BY <1>2, <1>3, <1>4 DEF Filtered, Wants, Volume

\* Histories only grow, and what they justified stays justified.
LEMMA StaysJustified ==
    ASSUME NEW m, Justified(m), held \subseteq held', followed \subseteq followed'
    PROVE  Justified(m)'
  BY DEF Justified, Wants

LEMMA StaysHeld ==
    ASSUME NEW v, Held(v), held \subseteq held'
    PROVE  \A c \in DOMAIN v : <<c, v[c]>> \in held'
  BY DEF Held

LEMMA InitJInv == Init => JInv
  <1> SUFFICES ASSUME Init PROVE JInv
    OBVIOUS
  <1>1. Held(NoSubs)
    BY DEF Held, NoSubs
  <1>2. Held(AllSubscribers) /\ \A c \in users : <<c, settings[c]>> \in held
    BY DEF Init, Db!Init, Held, AllSubscribers
  <1>3. Remembered
    BY <1>1, <1>2 DEF Init, Db!Init, Remembered
  <1>4. Alerts = {}
    BY DEF Init, Alerts, Elements
  <1> QED
    BY <1>3, <1>4 DEF JInv

\* Steps that leave database, caches and workers alone.
LEMMA RememberedUnchanged ==
    ASSUME Remembered, UNCHANGED <<dbVars, cacheVars, workerVars>>
    PROVE  Remembered'
  BY DEF Remembered, Held, dbVars, cacheVars, workerVars

LEMMA EditsRemember == ASSUME IInv, JInv, UserEdits PROVE JInv'
  <1>1. Edit
    BY DEF UserEdits, Subscribe, Unsubscribe, SaveSettings, Follow, Unfollow
  <1>2. /\ held' = held \cup {<<c, settings'[c]>> : c \in users'}
        /\ followed' = followed \cup watch'
        /\ UNCHANGED <<cacheVars, workerVars, queueVars>>
    BY <1>1 DEF Edit
  <1>3. /\ held \subseteq held' /\ followed \subseteq followed'
        /\ watch' \subseteq followed'
        /\ \A c \in users' : <<c, settings'[c]>> \in held'
    BY <1>2
  <1>4. Remembered'
    <2>1. /\ Held(subCache)'
          /\ (subSnap # NoSnapshot => Held(subSnap))'
          /\ \A w \in Workers : Held(subs[w])'
      BY <1>2, <1>3 DEF JInv, Remembered, Held, cacheVars, workerVars
    <2>2. (followCache \subseteq followed /\ (followSnap # NoSnapshot => followSnap \subseteq followed))'
      BY <1>2, <1>3 DEF JInv, Remembered, cacheVars
    <2>3. \A w \in Workers : (pc[w] # "idle" =>
                \A c \in followers[w] : <<c, trade[w].wallet>> \in followed)'
      BY <1>2, <1>3 DEF JInv, Remembered, workerVars
    <2> QED
      BY <1>3, <2>1, <2>2, <2>3 DEF Remembered
  <1>5. Alerts' = Alerts
    BY <1>2, QueueUnchanged
  <1> QED
    BY <1>3, <1>4, <1>5, StaysJustified DEF JInv

LEMMA RefreshesRemember == ASSUME IInv, JInv, CacheRefreshes PROVE JInv'
  <1>1. UNCHANGED <<dbVars, workerVars, queueVars>>
    BY DEF CacheRefreshes, SubQuery, SubPublish, FollowQuery, FollowPublish, CacheStep
  <1>2. UNCHANGED <<users, settings, watch, held, followed>>
    BY <1>1 DEF dbVars
  <1>3. Held(AllSubscribers)
    BY DEF JInv, Remembered, Held, AllSubscribers
  <1>4. /\ Held(subCache)'
        /\ (subSnap # NoSnapshot => Held(subSnap))'
        /\ (followCache \subseteq followed)'
        /\ (followSnap # NoSnapshot => followSnap \subseteq followed)'
    <2>1. CASE SubQuery
      BY <1>2, <1>3, <2>1 DEF SubQuery, JInv, Remembered, Held
    <2>2. CASE SubPublish
      BY <1>2, <2>2 DEF SubPublish, JInv, Remembered, Held
    <2>3. CASE FollowQuery
      BY <1>2, <2>3 DEF FollowQuery, JInv, Remembered, Held
    <2>4. CASE FollowPublish
      BY <1>2, <2>4 DEF FollowPublish, JInv, Remembered, Held
    <2> QED
      BY <2>1, <2>2, <2>3, <2>4 DEF CacheRefreshes
  <1>5. Remembered'
    BY <1>1, <1>2, <1>4 DEF JInv, Remembered, Held, workerVars
  <1>6. Alerts' = Alerts
    BY <1>1, QueueUnchanged
  <1> QED
    BY <1>2, <1>5, <1>6, StaysJustified DEF JInv

\* The steps of a worker but Visit: it reads from the caches and forgets.
LEMMA WorkersRemember ==
    ASSUME IInv, JInv, NEW w \in Workers,
           Take(w) \/ Meta(w) \/ TradeCount(w) \/ StartAlert(w) \/ Finish(w)
    PROVE  JInv'
  <1>1. UNCHANGED <<dbVars, cacheVars, queueVars>>
    BY DEF Take, Meta, TradeCount, StartAlert, Finish, WorkerStep
  <1>2. UNCHANGED <<users, settings, watch, held, followed, followCache, followSnap,
                    subCache, subSnap>>
    BY <1>1 DEF dbVars, cacheVars
  <1>3. Held(NoSubs)
    BY DEF Held, NoSubs
  <1>4. \A v \in Workers :
          /\ Held(subs[v])'
          /\ (pc[v] # "idle" =>
                \A c \in followers[v] : <<c, trade[v].wallet>> \in followed)'
    <2> USE DEF IInv, TypeInv, WorkersOK, JInv, Remembered
    <2>1. CASE EndTrade(w)
      BY <1>2, <1>3, <2>1 DEF EndTrade, Held
    <2>2. CASE UNCHANGED workerVars
      BY <1>2, <2>2 DEF workerVars, Held
    <2>3. CASE Keep(w, Head(jobs))
      <3>1. \A c \in GetFollowers(Head(jobs).wallet) :
              <<c, Head(jobs).wallet>> \in followed
        BY DEF GetFollowers
      <3> QED
        BY <1>2, <2>3, <3>1 DEF Keep, Held
    <2>4. ASSUME NEW m, HasMeta(w, m), pc[w] = "meta"
          PROVE  <1>4
      BY <1>2, <2>4 DEF HasMeta, Held
    <2>5. ASSUME NEW n, HasCount(w, n), pc[w] = "count"
          PROVE  <1>4
      BY <1>2, <2>5 DEF HasCount, Held
    <2>6. CASE StartAlert(w)
      BY <1>2, <2>6 DEF StartAlert, WorkerStep, Held
    <2> QED
      BY <2>1, <2>2, <2>3, <2>4, <2>5, <2>6
         DEF Take, Skip, FilterVolume, FilterBanWord, Meta, TradeCount, Finish, WorkerStep
  <1>5. Remembered'
    BY <1>2, <1>4 DEF JInv, Remembered, Held
  <1>6. Alerts' = Alerts
    BY <1>1, QueueUnchanged
  <1> QED
    BY <1>2, <1>5, <1>6, StaysJustified DEF JInv

LEMMA VisitJustifies == ASSUME IInv, JInv, NEW w \in Workers, Visit(w) PROVE JInv'
  <1> USE DEF IInv, TypeInv
  <1>1. /\ pc[w] = "loop"
        /\ UNCHANGED <<dbVars, cacheVars, pc, trade, followers, meta, count, subs>>
    BY DEF Visit, WorkerStep
  <1>2. UNCHANGED <<held, followed>>
    BY <1>1 DEF dbVars
  <1>3. Remembered'
    BY <1>1 DEF JInv, Remembered, Held, dbVars, cacheVars
  <1>4. PICK c \in todo[w] :
          \/ /\ Enqueue(Alert(w, c))
             /\ c \in followers[w] \/ ~Filtered(subs[w][c], trade[w], count[w], meta[w])
          \/ UNCHANGED queueVars
    BY DEF Visit
  <1>5. CASE /\ Enqueue(Alert(w, c))
             /\ c \in followers[w] \/ ~Filtered(subs[w][c], trade[w], count[w], meta[w])
    <2> DEFINE m == Alert(w, c)
    <2>1. m \in Messages
      BY <1>1, AlertIsSound
    <2>2. /\ m.chat = c /\ m.trade = trade[w] /\ m.meta = meta[w] /\ m.count = count[w]
          /\ m.isWatch <=> c \in followers[w]
      BY DEF Alert
    <2>3. c \in DOMAIN subs[w] /\ subs[w][c] \in Settings /\ <<c, subs[w][c]>> \in held
      BY ViewOfChats DEF WorkersOK, JInv, Remembered, Held
    <2>4. Justified(m)
      <3>1. CASE c \in followers[w]
        BY <1>1, <2>2, <3>1 DEF Justified, JInv, Remembered
      <3>2. CASE c \notin followers[w]
        <4>1. Wants(subs[w][c], m)
          BY <1>5, <2>1, <2>2, <2>3, <3>2, UnfilteredIsWanted
        <4> QED
          BY <2>2, <2>3, <3>2, <4>1 DEF Justified
      <3> QED
        BY <3>1, <3>2
    <2>5. Alerts' \subseteq Alerts \cup {m}
      BY <1>5, <2>1, EnqueueAdds
    <2> QED
      BY <1>2, <1>3, <2>4, <2>5, StaysJustified DEF JInv
  <1>6. CASE UNCHANGED queueVars
    <2>1. Alerts' = Alerts
      BY <1>6, QueueUnchanged
    <2> QED
      BY <1>2, <1>3, <2>1, StaysJustified DEF JInv
  <1> QED
    BY <1>4, <1>5, <1>6

LEMMA RestRemembers ==
    ASSUME IInv, JInv,
           (\E t \in Trades : Receive(t)) \/ Send \/ ShutQueue \/ UNCHANGED vars
    PROVE  JInv'
  <1>1. UNCHANGED <<dbVars, cacheVars, workerVars>>
    BY DEF Receive, Deliver, Send, ShutQueue, vars
  <1>2. Alerts' \subseteq Alerts
    <2>1. CASE (\E t \in Trades : Receive(t)) \/ UNCHANGED vars
      BY <2>1, QueueUnchanged DEF Receive, Deliver, vars
    <2>2. CASE Send \/ ShutQueue
      BY <2>2, TakeKeeps, CloseKeeps DEF Send, ShutQueue, IInv, TypeInv
    <2> QED
      BY <2>1, <2>2
  <1>3. UNCHANGED <<held, followed>>
    BY <1>1 DEF dbVars
  <1> QED
    BY <1>1, <1>2, <1>3, RememberedUnchanged, StaysJustified DEF JInv

LEMMA JustifiedInvariance == Spec => []JInv
  <1>1. IInv /\ JInv /\ [Next]_vars => JInv'
    BY EditsRemember, RefreshesRemember, WorkersRemember, VisitJustifies, RestRemembers
       DEF Next, Work
  <1> QED
    BY InitJInv, <1>1, Invariance, PTL DEF Spec

\* However stale and inconsistent the caches are, an alert is one that the
\* database asked for at some time: a follow of that wallet, or a subscription
\* whose settings it satisfies.
THEOREM AlertsAreJustified == Spec => []AlertsJustified
  <1>1. JInv => AlertsJustified
    BY DEF JInv, Justified, AlertsJustified
  <1> QED
    BY JustifiedInvariance, <1>1, PTL

-----------------------------------------------------------------------------
(* Why the audience is exact: a trade is in one place at a time, so only   *)
(* its own worker has sent what was sent about it, to subscribers it has   *)
(* visited.                                                                *)

Unseen(t) == \A e \in sent : e[2] # t

WithWorker(t) == \E w \in Workers : pc[w] # "idle" /\ trade[w] = t

OnePlace ==
    /\ \A t \in feed : Unseen(t) /\ t \notin Elements(jobs) /\ ~WithWorker(t)
    /\ \A t \in Elements(jobs) : Unseen(t) /\ ~WithWorker(t)
    /\ \A i, j \in 1..Len(jobs) : jobs[i] = jobs[j] => i = j
    /\ \A v, w \in Workers :
          pc[v] # "idle" /\ pc[w] # "idle" /\ trade[v] = trade[w] => v = w

\* What was sent went to a subscriber already visited, under his header.
Visited(w, e) ==
    /\ e[1] \in DOMAIN subs[w] \ todo[w]
    /\ e = <<e[1], trade[w], e[1] \in followers[w]>>

Unvisited ==
    \A w \in Workers :
        /\ pc[w] \in {"meta", "count", "stats"} => Unseen(trade[w])
        /\ pc[w] = "loop" => \A e \in sent : e[2] = trade[w] => Visited(w, e)

Exact(w) ==
    pc[w] = "loop" =>
        \A c \in DOMAIN subs[w] \ todo[w] :
            (c \in followers[w] \/ Wants(subs[w][c], Alert(w, c)))
                <=> <<c, trade[w], c \in followers[w]>> \in sent

AInv == OnePlace /\ Unvisited /\ \A w \in Workers : Exact(w)

LEMMA InitAInv == Init => AInv
  BY DEF Init, AInv, OnePlace, Unvisited, Unseen, WithWorker, Exact, Elements

LEMMA AInvUnchanged ==
    ASSUME AInv, UNCHANGED <<feed, jobs, workerVars, sent>>
    PROVE  AInv'
  BY DEF AInv, OnePlace, Unvisited, Visited, Unseen, WithWorker, Exact, Elements,
         Alert, Wants, workerVars

\* Nothing but the feed and the jobs channel changes.
LEMMA ReceiveMoves == ASSUME IInv, AInv, NEW t \in Trades, Receive(t) PROVE AInv'
  <1>1. /\ t \in feed /\ feed' = feed \ {t}
        /\ UNCHANGED <<workerVars, sent>>
    BY DEF Receive, Deliver
  <1>2. Unvisited' /\ \A w \in Workers : Exact(w)'
    BY <1>1 DEF AInv, Unvisited, Visited, Unseen, Exact, Alert, Wants, workerVars
  <1>3. \A x : (Unseen(x)' <=> Unseen(x)) /\ (WithWorker(x)' <=> WithWorker(x))
    BY <1>1 DEF Unseen, WithWorker, workerVars
  <1>4. \A v, w \in Workers :
          (pc[v] # "idle" /\ pc[w] # "idle" /\ trade[v] = trade[w] => v = w)'
    BY <1>1 DEF AInv, OnePlace, workerVars
  <1>5. CASE jobs' = Append(jobs, t)
    <2>1. Elements(jobs') = Elements(jobs) \cup {t}
      BY <1>5, ElementsOfAppend DEF IInv, TypeInv, FeedOK
    <2>2. \A i, j \in 1..Len(jobs') : jobs'[i] = jobs'[j] => i = j
      <3>1. /\ Len(jobs) \in Nat /\ Len(jobs') = Len(jobs) + 1
            /\ jobs'[Len(jobs) + 1] = t
            /\ \A i \in 1..Len(jobs) : jobs'[i] = jobs[i] /\ jobs[i] # t
        BY <1>1, <1>5 DEF AInv, OnePlace, Elements, IInv, TypeInv, FeedOK
      <3>2. \A i \in 1..(Len(jobs) + 1) : i \in 1..Len(jobs) \/ i = Len(jobs) + 1
        BY <3>1
      <3> QED
        BY <3>1, <3>2 DEF AInv, OnePlace
    <2> QED
      BY <1>1, <1>2, <1>3, <1>4, <2>1, <2>2 DEF AInv, OnePlace
  <1>6. CASE UNCHANGED jobs
    BY <1>1, <1>2, <1>3, <1>4, <1>6 DEF AInv, OnePlace, Elements
  <1> QED
    BY <1>5, <1>6 DEF Receive

\* The head of the jobs channel goes to worker w, or nowhere.
LEMMA TakeMoves == ASSUME IInv, AInv, NEW w \in Workers, Take(w) PROVE AInv'
  <1> DEFINE h == Head(jobs)
  <1>1. /\ jobs # <<>> /\ jobs' = Tail(jobs) /\ pc[w] = "idle"
        /\ UNCHANGED <<feed, sent>>
    BY DEF Take, WorkerStep
  <1>2. /\ h \in Elements(jobs) /\ Elements(jobs') \subseteq Elements(jobs)
        /\ h \notin Elements(jobs')
        /\ \A i, j \in 1..Len(jobs') : jobs'[i] = jobs'[j] => i = j
    <2>1. /\ h \in Elements(jobs) /\ Elements(jobs') \subseteq Elements(jobs)
      BY <1>1, ElementsOfTail DEF IInv, TypeInv, FeedOK
    <2>2. /\ Len(jobs) \in Nat \ {0} /\ Len(jobs') = Len(jobs) - 1
          /\ h = jobs[1]
          /\ \A i \in 1..Len(jobs') : jobs'[i] = jobs[i + 1] /\ i + 1 \in 1..Len(jobs)
      BY <1>1 DEF IInv, TypeInv, FeedOK
    <2>3. \A i, j \in 1..Len(jobs') : jobs'[i] = jobs'[j] => i = j
      BY <2>2 DEF AInv, OnePlace
    <2>4. \A i \in 1..Len(jobs') : jobs'[i] # h
      BY <2>2 DEF AInv, OnePlace
    <2> QED
      BY <2>1, <2>3, <2>4 DEF Elements
  <1>3. \A x : Unseen(x)' <=> Unseen(x)
    BY <1>1 DEF Unseen
  <1>4. CASE UNCHANGED workerVars
    BY <1>1, <1>2, <1>3, <1>4
       DEF AInv, OnePlace, Unvisited, Visited, WithWorker, Exact, Alert, Wants,
          workerVars
  <1>5. CASE Keep(w, h)
    <2>1. /\ pc' = [pc EXCEPT ![w] = "meta"] /\ trade' = [trade EXCEPT ![w] = h]
          /\ followers' = [followers EXCEPT ![w] = GetFollowers(h.wallet)]
          /\ UNCHANGED <<meta, count, subs, todo>>
      BY <1>5 DEF Keep
    <2>2. /\ pc'[w] = "meta" /\ trade'[w] = h
          /\ \A v \in Workers \ {w} :
                pc'[v] = pc[v] /\ trade'[v] = trade[v] /\ followers'[v] = followers[v]
      BY <2>1 DEF IInv, TypeInv, WorkersOK
    <2>3. Unseen(h) /\ ~WithWorker(h) /\ h \notin feed
      BY <1>2 DEF AInv, OnePlace
    <2>4. \A x : x # h /\ ~WithWorker(x) => ~WithWorker(x)'
      BY <2>2 DEF WithWorker
    <2>5. \A u, v \in Workers :
            (pc[u] # "idle" /\ pc[v] # "idle" /\ trade[u] = trade[v] => u = v)'
      BY <2>2, <2>3 DEF AInv, OnePlace, WithWorker
    <2>6. OnePlace'
      BY <1>1, <1>2, <1>3, <2>3, <2>4, <2>5 DEF AInv, OnePlace
    <2>7. Unvisited'
      BY <1>1, <1>3, <2>1, <2>2, <2>3 DEF AInv, Unvisited, Visited
    <2>8. ASSUME NEW v \in Workers PROVE Exact(v)'
      BY <1>1, <2>1, <2>2 DEF AInv, Exact, Alert, Wants
    <2> QED
      BY <2>6, <2>7, <2>8 DEF AInv
  <1> QED
    BY <1>4, <1>5 DEF Take, Skip, FilterVolume, FilterBanWord

\* The calls and the end of a trade: nothing is sent.
LEMMA CallsMove ==
    ASSUME IInv, AInv, NEW w \in Workers,
           Meta(w) \/ TradeCount(w) \/ StartAlert(w) \/ Finish(w)
    PROVE  AInv'
  <1>1. pc[w] # "idle" /\ UNCHANGED <<feed, jobs, sent>>
    BY DEF Meta, TradeCount, StartAlert, Finish, WorkerStep
  <1>2. \A x : Unseen(x)' <=> Unseen(x)
    BY <1>1 DEF Unseen
  <1>3. CASE EndTrade(w)
    <2>1. /\ pc'[w] = "idle"
          /\ \A v \in Workers \ {w} :
                /\ pc'[v] = pc[v] /\ trade'[v] = trade[v] /\ followers'[v] = followers[v]
                /\ meta'[v] = meta[v] /\ count'[v] = count[v]
                /\ subs'[v] = subs[v] /\ todo'[v] = todo[v]
      BY <1>3 DEF EndTrade, IInv, TypeInv, WorkersOK
    <2>2. \A x : WithWorker(x)' => WithWorker(x)
      BY <2>1 DEF WithWorker
    <2>3. OnePlace'
      BY <1>1, <1>2, <2>1, <2>2 DEF AInv, OnePlace, Elements
    <2>4. Unvisited'
      BY <1>1, <1>2, <2>1 DEF AInv, Unvisited, Visited
    <2>5. ASSUME NEW v \in Workers PROVE Exact(v)'
      BY <1>1, <2>1 DEF AInv, Exact, Alert, Wants
    <2> QED
      BY <2>3, <2>4, <2>5 DEF AInv
  <1>4. ASSUME NEW n, \/ pc[w] = "meta" /\ HasMeta(w, n)
                      \/ pc[w] = "count" /\ HasCount(w, n)
                      \/ StartAlert(w)
        PROVE  AInv'
    <2>1. /\ pc[w] \in {"meta", "count", "stats"}
          /\ pc'[w] \in {"count", "stats", "loop"}
          /\ pc'[w] = "loop" => todo'[w] = DOMAIN subs'[w]
          /\ UNCHANGED <<trade, followers>>
          /\ \A v \in Workers \ {w} :
                /\ pc'[v] = pc[v] /\ meta'[v] = meta[v] /\ count'[v] = count[v]
                /\ subs'[v] = subs[v] /\ todo'[v] = todo[v]
      BY <1>4 DEF HasMeta, HasCount, StartAlert, WorkerStep, IInv, TypeInv, WorkersOK
    <2>2. \A x : WithWorker(x)' <=> WithWorker(x)
      BY <2>1 DEF WithWorker
    <2>3. OnePlace'
      BY <1>1, <1>2, <2>1, <2>2 DEF AInv, OnePlace, Elements
    <2>4. Unvisited'
      BY <1>1, <1>2, <2>1 DEF AInv, Unvisited, Visited, Unseen
    <2>5. ASSUME NEW v \in Workers PROVE Exact(v)'
      BY <1>1, <2>1 DEF AInv, Exact, Alert, Wants
    <2> QED
      BY <2>3, <2>4, <2>5 DEF AInv
  <1> QED
    BY <1>3, <1>4 DEF Meta, TradeCount, StartAlert, Finish, WorkerStep

\* One subscriber leaves todo: it was sent the alert, or filtered, but not both.
LEMMA VisitMoves == ASSUME IInv, AInv, NEW w \in Workers, Visit(w) PROVE AInv'
  <1>1. /\ pc[w] = "loop"
        /\ UNCHANGED <<feed, jobs, pc, trade, followers, meta, count, subs>>
    BY DEF Visit, WorkerStep
  <1>2. PICK c \in todo[w] :
          /\ todo' = [todo EXCEPT ![w] = @ \ {c}]
          /\ \/ /\ c \in followers[w]
                   \/ ~Filtered(subs[w][c], trade[w], count[w], meta[w])
                /\ sent' = sent \cup {<<c, trade[w], c \in followers[w]>>}
             \/ /\ c \notin followers[w]
                /\ Filtered(subs[w][c], trade[w], count[w], meta[w])
                /\ UNCHANGED sent
    BY DEF Visit
  <1> DEFINE e == <<c, trade[w], c \in followers[w]>>
  <1>3. /\ todo'[w] = todo[w] \ {c}
        /\ \A v \in Workers \ {w} : todo'[v] = todo[v]
    BY <1>2 DEF IInv, TypeInv, WorkersOK
  <1>4. sent \subseteq sent' /\ sent' \subseteq sent \cup {e}
    BY <1>2
  <1>5. \A x : Unseen(x) /\ x # trade[w] => Unseen(x)'
    BY <1>4 DEF Unseen
  <1>6. \A x : WithWorker(x)' <=> WithWorker(x)
    BY <1>1 DEF WithWorker
  <1>7. WithWorker(trade[w]) /\ \A v \in Workers \ {w} : pc[v] # "idle" => trade[v] # trade[w]
    BY <1>1 DEF WithWorker, AInv, OnePlace
  <1>8. OnePlace'
    BY <1>1, <1>5, <1>6, <1>7 DEF AInv, OnePlace, Elements
  <1>9. Unvisited'
    <2>1. ASSUME NEW v \in Workers, pc[v] \in {"meta", "count", "stats"}
          PROVE  Unseen(trade[v])'
      BY <1>1, <1>5, <1>7, <2>1 DEF AInv, Unvisited
    <2>2. ASSUME NEW v \in Workers, pc[v] = "loop", NEW x \in sent', x[2] = trade[v]
          PROVE  Visited(v, x)'
      <3>1. CASE x \in sent
        <4>1. Visited(v, x)
          BY <2>2, <3>1 DEF AInv, Unvisited
        <4>2. todo'[v] \subseteq todo[v]
          BY <1>3
        <4> QED
          BY <1>1, <4>1, <4>2 DEF Visited
      <3>2. CASE x = e
        <4>1. x[1] = c /\ v = w
          BY <1>7, <2>2, <3>2
        <4>2. c \in DOMAIN subs[w] /\ c \notin todo'[w]
          BY <1>2, <1>3 DEF IInv, TypeInv, WorkersOK
        <4>3. x = <<x[1], trade[w], x[1] \in followers[w]>>
          BY <3>2, <4>1
        <4> QED
          BY <1>1, <4>1, <4>2, <4>3 DEF Visited
      <3> QED
        BY <1>4, <3>1, <3>2
    <2> QED
      BY <1>1, <2>1, <2>2 DEF Unvisited
  <1>10. ASSUME NEW v \in Workers PROVE Exact(v)'
    <2> SUFFICES ASSUME pc[v] = "loop", NEW d \in DOMAIN subs[v] \ todo'[v]
                 PROVE  (d \in followers[v] \/ Wants(subs[v][d], Alert(v, d)))
                          <=> <<d, trade[v], d \in followers[v]>> \in sent'
      BY <1>1 DEF Exact, Alert, Wants
    <2> DEFINE f == <<d, trade[v], d \in followers[v]>>
    <2>1. CASE v # w \/ d # c
      <3>1. d \in DOMAIN subs[v] \ todo[v]
        BY <1>3, <2>1
      <3>2. f # e
        BY <1>7, <2>1
      <3> QED
        BY <1>4, <3>1, <3>2, Zenon DEF AInv, Exact
    <2>2. CASE v = w /\ d = c
      <3>1. f \notin sent
        BY <1>1, <1>2, <2>2 DEF AInv, Unvisited, Visited
      <3>2. /\ Alert(w, c) \in Messages
            /\ Alert(w, c).trade = trade[w] /\ Alert(w, c).meta = meta[w]
            /\ Alert(w, c).count = count[w]
        BY <1>1, AlertIsSound DEF IInv, TypeInv, Alert
      <3>3. subs[w][c] \in Settings
        BY ViewOfChats DEF IInv, TypeInv, WorkersOK
      <3>4. ~Filtered(subs[w][c], trade[w], count[w], meta[w])
              <=> Wants(subs[w][c], Alert(w, c))
        BY <3>2, <3>3, UnfilteredIsWanted
      <3> QED
        BY <1>2, <2>2, <3>1, <3>4
    <2> QED
      BY <2>1, <2>2
  <1> QED
    BY <1>8, <1>9, <1>10 DEF AInv

LEMMA AudienceInvariance == Spec => []AInv
  <1>1. IInv /\ AInv /\ [Next]_vars => AInv'
    <2> SUFFICES ASSUME IInv, AInv, [Next]_vars PROVE AInv'
      OBVIOUS
    <2>1. CASE UserEdits \/ CacheRefreshes \/ Send \/ ShutQueue \/ UNCHANGED vars
      <3>1. UNCHANGED <<feed, jobs, workerVars, sent>>
        BY <2>1 DEF UserEdits, Subscribe, Unsubscribe, SaveSettings, Follow, Unfollow,
           Edit, CacheRefreshes, SubQuery, SubPublish, FollowQuery, FollowPublish,
           CacheStep, Send, ShutQueue, vars
      <3> QED
        BY <3>1, AInvUnchanged
    <2> QED
      BY <2>1, ReceiveMoves, TakeMoves, CallsMove, VisitMoves DEF Next, Work
  <1> QED
    BY InitAInv, <1>1, Invariance, PTL DEF Spec

\* When the loop is over, the chats alerted about its trade are the followers of
\* the wallet and those whose settings ask for the alert, and nobody else.
THEOREM AudienceIsReached == Spec => []AudienceIsExact
  <1>1. ASSUME AInv, NEW w \in Workers, pc[w] = "loop", todo[w] = {}
        PROVE  {e \in sent : e[2] = trade[w]} =
                  {<<c, trade[w], c \in followers[w]>> : c \in
                     {d \in DOMAIN subs[w] :
                        d \in followers[w] \/ Wants(subs[w][d], Alert(w, d))}}
    <2> DEFINE Audience == {d \in DOMAIN subs[w] :
                              d \in followers[w] \/ Wants(subs[w][d], Alert(w, d))}
               msg(c) == <<c, trade[w], c \in followers[w]>>
    <2>1. \A c \in DOMAIN subs[w] : c \in Audience <=> msg(c) \in sent
      BY <1>1, Zenon DEF AInv, Exact
    <2>2. ASSUME NEW e \in sent, e[2] = trade[w]
          PROVE  \E c \in Audience : e = msg(c)
      <3>1. e[1] \in DOMAIN subs[w] /\ e = msg(e[1])
        BY <1>1, <2>2, Zenon DEF AInv, Unvisited, Visited
      <3>2. msg(e[1]) \in sent
        BY <3>1
      <3>3. e[1] \in Audience
        BY <2>1, <3>1, <3>2, Zenon
      <3> QED
        BY <3>1, <3>3
    <2>3. ASSUME NEW c \in Audience PROVE msg(c) \in sent /\ msg(c)[2] = trade[w]
      BY <2>1
    <2> HIDE DEF Audience, msg
    <2>4. {e \in sent : e[2] = trade[w]} = {msg(c) : c \in Audience}
      BY <2>2, <2>3
    <2> QED
      BY <2>4 DEF Audience, msg
  <1>2. AInv => AudienceIsExact
    BY <1>1 DEF AudienceIsExact
  <1> QED
    BY AudienceInvariance, <1>2, PTL

-----------------------------------------------------------------------------
(* Why the dashboard adds up.                                              *)

\* A message that left the feed is on the jobs channel, was dropped, or has been
\* counted by one worker at most.
FeedBalance ==
    metrics["WSDropped"] + Len(jobs) + metrics["FilteredVolume"]
        + metrics["WhaleEvents"] <= metrics["WSMessages"]

EventsBalance ==
    metrics["WhaleEvents"] =
        metrics["FilteredBanWord"] + metrics["FilteredNoMeta"]
          + metrics["FilteredAPIErr"] + metrics["WorkerDuration"]
          + Cardinality(Busy)

AlertsBalance == open => metrics["PerfectAlerts"] = Len(queue) + Len(taken) + dropped

LEMMA BusyIsFinite == IsFiniteSet(Busy) /\ Cardinality(Busy) \in Nat
  BY PipelineAssumption, FS_Subset, FS_CardinalityType DEF Busy

LEMMA BusyGrows ==
    ASSUME WorkersOK, NEW w \in Workers, pc[w] = "idle",
           pc' = [pc EXCEPT ![w] = "meta"]
    PROVE  Cardinality(Busy') = Cardinality(Busy) + 1
  <1>1. Busy' = Busy \cup {w} /\ w \notin Busy
    BY DEF Busy, WorkersOK
  <1> QED
    BY <1>1, BusyIsFinite, FS_AddElement

LEMMA BusyShrinks ==
    ASSUME WorkersOK, NEW w \in Workers, pc[w] # "idle",
           pc' = [pc EXCEPT ![w] = "idle"]
    PROVE  Cardinality(Busy') = Cardinality(Busy) - 1
  <1>1. Busy' = Busy \ {w} /\ w \in Busy
    BY DEF Busy, WorkersOK
  <1> QED
    BY <1>1, BusyIsFinite, FS_RemoveElement

LEMMA BusyKept ==
    ASSUME WorkersOK, NEW w \in Workers, pc[w] # "idle",
           NEW at, at # "idle", pc' = [pc EXCEPT ![w] = at]
    PROVE  Busy' = Busy
  BY DEF Busy, WorkersOK

\* A queued message adds one to queue, taken and dropped together; taking one
\* moves it.
LEMMA OfferCounts ==
    ASSUME QueueOK, CountersOK, AlertsBalance, NEW m \in Messages, Enqueue(m),
           Inc({"PerfectAlerts"})
    PROVE  AlertsBalance'
  <1>1. metrics'["PerfectAlerts"] = metrics["PerfectAlerts"] + 1
    BY DEF Inc, Counters
  <1>2. metrics["PerfectAlerts"] \in Nat
    BY DEF CountersOK, Counters
  <1>3. CASE Box!Accept(m)
    <2>1. Len(queue') = Len(queue) + 1 /\ Len(queue) \in Nat /\ Len(taken) \in Nat
      BY <1>3 DEF Box!Accept, QueueOK
    <2>2. UNCHANGED <<open, taken, dropped>>
      BY <1>3 DEF Box!Accept
    <2> QED
      BY <1>1, <1>2, <2>1, <2>2 DEF AlertsBalance, QueueOK
  <1>4. CASE Box!Drop
    <2>1. dropped' = dropped + 1 /\ UNCHANGED <<open, queue, taken>>
      BY <1>4 DEF Box!Drop
    <2>2. Len(queue) \in Nat /\ Len(taken) \in Nat
      BY DEF QueueOK
    <2> QED
      BY <1>1, <1>2, <2>1, <2>2 DEF AlertsBalance, QueueOK
  <1>5. CASE ~open /\ UNCHANGED queueVars
    BY <1>5 DEF queueVars, AlertsBalance
  <1> QED
    BY <1>3, <1>4, <1>5 DEF Enqueue, Box!Offer

LEMMA TakeCounts ==
    ASSUME QueueOK, AlertsBalance, Box!Take, UNCHANGED metrics
    PROVE  AlertsBalance'
  <1>1. /\ queue # <<>> /\ queue' = Tail(queue)
        /\ taken' = Append(taken, Head(queue)) /\ UNCHANGED <<open, dropped>>
    BY DEF Box!Take
  <1>2. Len(queue') = Len(queue) - 1 /\ Len(taken') = Len(taken) + 1
    BY <1>1 DEF QueueOK
  <1>3. Len(queue) \in Nat /\ Len(taken) \in Nat
    BY DEF QueueOK
  <1> QED
    BY <1>1, <1>2, <1>3 DEF AlertsBalance, QueueOK

\* A step that moves worker w and counts what it filters.
LEMMA WorkCounts ==
    ASSUME IInv, EventsBalance, NEW w \in Workers, Work(w)
    PROVE  EventsBalance'
  <1> USE DEF IInv, TypeInv
  <1>1. \A n \in Counters : metrics[n] \in Nat
    BY DEF CountersOK
  <1>2. Cardinality(Busy) \in Nat
    BY BusyIsFinite
  <1>3. CASE UNCHANGED <<metrics, pc>>
    BY <1>3 DEF EventsBalance, Busy
  <1>4. CASE pc' = pc /\ (Inc({"FilteredVolume"}) \/ Inc({"PerfectAlerts"}))
    <2>1. Busy' = Busy
      BY <1>4 DEF Busy
    <2>2. \A n \in {"WhaleEvents", "FilteredBanWord", "FilteredNoMeta",
                    "FilteredAPIErr", "WorkerDuration"} : metrics'[n] = metrics[n]
      BY <1>1, <1>4 DEF Inc, Counters
    <2> QED
      BY <2>1, <2>2 DEF EventsBalance
  <1>5. CASE pc' = pc /\ Inc({"WhaleEvents", "FilteredBanWord"})
    <2>1. Busy' = Busy
      BY <1>5 DEF Busy
    <2>2. /\ metrics'["WhaleEvents"] = metrics["WhaleEvents"] + 1
          /\ metrics'["FilteredBanWord"] = metrics["FilteredBanWord"] + 1
          /\ metrics'["FilteredNoMeta"] = metrics["FilteredNoMeta"]
          /\ metrics'["FilteredAPIErr"] = metrics["FilteredAPIErr"]
          /\ metrics'["WorkerDuration"] = metrics["WorkerDuration"]
      BY <1>1, <1>5 DEF Inc, Counters
    <2> QED
      BY <1>1, <1>2, <2>1, <2>2 DEF EventsBalance, Counters
  <1>6. CASE pc[w] = "idle" /\ Keep(w, Head(jobs))
    <2>1. Cardinality(Busy') = Cardinality(Busy) + 1
      BY <1>6, BusyGrows DEF Keep
    <2>2. /\ metrics'["WhaleEvents"] = metrics["WhaleEvents"] + 1
          /\ metrics'["FilteredBanWord"] = metrics["FilteredBanWord"]
          /\ metrics'["FilteredNoMeta"] = metrics["FilteredNoMeta"]
          /\ metrics'["FilteredAPIErr"] = metrics["FilteredAPIErr"]
          /\ metrics'["WorkerDuration"] = metrics["WorkerDuration"]
      BY <1>1, <1>6 DEF Keep, Inc, Counters
    <2> QED
      BY <1>1, <1>2, <2>1, <2>2 DEF EventsBalance, Counters
  <1>7. CASE \E at \in {"count", "stats", "loop"} :
               pc[w] # "idle" /\ pc' = [pc EXCEPT ![w] = at] /\ UNCHANGED metrics
    BY <1>7, BusyKept DEF EventsBalance
  <1>8. CASE pc[w] # "idle" /\ EndTrade(w)
               /\ (Inc({"FilteredNoMeta"}) \/ Inc({"FilteredAPIErr"}))
    <2>1. Cardinality(Busy') = Cardinality(Busy) - 1
      BY <1>8, BusyShrinks DEF EndTrade
    <2>2. /\ metrics'["WhaleEvents"] = metrics["WhaleEvents"]
          /\ metrics'["FilteredBanWord"] = metrics["FilteredBanWord"]
          /\ metrics'["WorkerDuration"] = metrics["WorkerDuration"]
      BY <1>1, <1>8 DEF Inc, Counters
    <2>3. \/ /\ metrics'["FilteredNoMeta"] = metrics["FilteredNoMeta"] + 1
             /\ metrics'["FilteredAPIErr"] = metrics["FilteredAPIErr"]
          \/ /\ metrics'["FilteredNoMeta"] = metrics["FilteredNoMeta"]
             /\ metrics'["FilteredAPIErr"] = metrics["FilteredAPIErr"] + 1
      BY <1>1, <1>8 DEF Inc, Counters
    <2> QED
      BY <1>1, <1>2, <2>1, <2>2, <2>3 DEF EventsBalance, Counters
  <1>9. CASE Finish(w)
    <2>1. Cardinality(Busy') = Cardinality(Busy) - 1
      BY <1>9, BusyShrinks DEF Finish, WorkerStep, EndTrade
    <2>2. /\ metrics'["WhaleEvents"] = metrics["WhaleEvents"]
          /\ metrics'["FilteredBanWord"] = metrics["FilteredBanWord"]
          /\ metrics'["FilteredNoMeta"] = metrics["FilteredNoMeta"]
          /\ metrics'["FilteredAPIErr"] = metrics["FilteredAPIErr"]
          /\ metrics'["WorkerDuration"] = metrics["WorkerDuration"] + 1
      BY <1>9 DEF Finish, CountersOK, Counters
    <2> QED
      BY <1>1, <1>2, <2>1, <2>2 DEF EventsBalance, Counters
  <1>10. CASE Take(w)
    BY <1>3, <1>4, <1>5, <1>6, <1>10
       DEF Take, WorkerStep, Skip, FilterVolume, FilterBanWord, workerVars
  <1>11. CASE Meta(w) \/ TradeCount(w) \/ StartAlert(w)
    BY <1>7, <1>8, <1>11
       DEF Meta, TradeCount, StartAlert, WorkerStep, HasMeta, HasCount
  <1>12. CASE Visit(w)
    BY <1>3, <1>4, <1>12 DEF Visit
  <1> QED
    BY <1>9, <1>10, <1>11, <1>12 DEF Work

LEMMA BalanceKept == IInv /\ EventsBalance /\ AlertsBalance /\ [Next]_vars => EventsBalance' /\ AlertsBalance'
  <1> SUFFICES ASSUME IInv, EventsBalance, AlertsBalance, [Next]_vars
               PROVE  EventsBalance' /\ AlertsBalance'
    OBVIOUS
  <1> USE DEF IInv, TypeInv
  <1>1. CASE UserEdits \/ CacheRefreshes \/ UNCHANGED vars
    <2>1. UNCHANGED <<pc, open, queue, taken, dropped, metrics>>
      BY <1>1 DEF UserEdits, Subscribe, Unsubscribe, SaveSettings, Follow, Unfollow,
         Edit, CacheRefreshes, SubQuery, SubPublish, FollowQuery, FollowPublish,
         CacheStep, vars, workerVars, queueVars
    <2> QED
      BY <2>1 DEF EventsBalance, AlertsBalance, Busy
  <1>2. ASSUME NEW t \in Trades, Receive(t) PROVE EventsBalance' /\ AlertsBalance'
    <2>1. UNCHANGED <<pc, open, queue, taken, dropped>>
      BY <1>2 DEF Receive, Deliver, workerVars, queueVars
    <2>2. \A n \in Counters \ {"WSMessages", "WSDropped"} : metrics'[n] = metrics[n]
      BY <1>2 DEF Receive, Inc, CountersOK
    <2> QED
      BY <2>1, <2>2 DEF EventsBalance, AlertsBalance, Busy, Counters
  <1>3. ASSUME NEW w \in Workers, Work(w) PROVE AlertsBalance'
    <2>1. CASE Visit(w)
      <3>1. PICK c \in todo[w] :
              \/ Enqueue(Alert(w, c)) /\ Inc({"PerfectAlerts"})
              \/ UNCHANGED <<queueVars, metrics>>
        BY <2>1 DEF Visit
      <3>2. Alert(w, c) \in Messages
        BY <2>1, AlertIsSound DEF Visit, WorkerStep
      <3>3. CASE UNCHANGED <<queueVars, metrics>>
        BY <3>3 DEF AlertsBalance, queueVars
      <3> QED
        BY <3>1, <3>2, <3>3, OfferCounts
    <2>2. CASE ~Visit(w)
      <3>1. UNCHANGED <<open, queue, taken, dropped>>
        BY <1>3, <2>2 DEF Work, Take, Meta, TradeCount, StartAlert, Finish, queueVars
      <3>2. metrics'["PerfectAlerts"] = metrics["PerfectAlerts"]
        BY <1>3, <2>2 DEF Work, Take, Skip, FilterVolume, FilterBanWord, Keep, Meta,
           HasMeta, TradeCount, HasCount, StartAlert, Finish, Inc, CountersOK, Counters
      <3> QED
        BY <3>1, <3>2 DEF AlertsBalance
    <2> QED
      BY <2>1, <2>2
  <1>4. CASE Send \/ ShutQueue
    <2>1. UNCHANGED <<pc, metrics>>
      BY <1>4 DEF Send, ShutQueue, workerVars
    <2>2. AlertsBalance'
      BY <1>4, <2>1, TakeCounts DEF Send, ShutQueue, Box!Close, AlertsBalance
    <2> QED
      BY <2>1, <2>2 DEF EventsBalance, Busy
  <1> QED
    BY <1>1, <1>2, <1>3, <1>4, WorkCounts DEF Next

LEMMA FeedBalanceKept == IInv /\ FeedBalance /\ [Next]_vars => FeedBalance'
  <1> SUFFICES ASSUME IInv, FeedBalance, [Next]_vars PROVE FeedBalance'
    OBVIOUS
  <1>1. /\ metrics["WSDropped"] \in Nat /\ metrics["FilteredVolume"] \in Nat
        /\ metrics["WhaleEvents"] \in Nat /\ metrics["WSMessages"] \in Nat
        /\ jobs \in Seq(Trades) /\ Len(jobs) \in Nat
    BY DEF IInv, TypeInv, CountersOK, Counters, FeedOK
  <1> DEFINE Fed == {"WSDropped", "FilteredVolume", "WhaleEvents", "WSMessages"}
  <1>2. ASSUME NEW t \in Trades, Receive(t) PROVE FeedBalance'
    <2>1. /\ metrics'["FilteredVolume"] = metrics["FilteredVolume"]
          /\ metrics'["WhaleEvents"] = metrics["WhaleEvents"]
          /\ metrics'["WSMessages"] = metrics["WSMessages"] + 1
          /\ \/ /\ metrics'["WSDropped"] = metrics["WSDropped"]
                /\ jobs' = Append(jobs, t)
             \/ /\ metrics'["WSDropped"] = metrics["WSDropped"] + 1
                /\ jobs' = jobs
      BY <1>1, <1>2 DEF Receive, Inc, Counters
    <2>2. CASE jobs' = jobs /\ metrics'["WSDropped"] = metrics["WSDropped"] + 1
      BY <1>1, <2>1, <2>2 DEF FeedBalance
    <2>3. CASE jobs' = Append(jobs, t) /\ metrics'["WSDropped"] = metrics["WSDropped"]
      <3>1. Len(jobs') = Len(jobs) + 1
        BY <1>1, <2>3, AppendProperties
      <3> QED
        BY <1>1, <2>1, <2>3, <3>1 DEF FeedBalance
    <2> QED
      BY <2>1, <2>2, <2>3
  <1>3. ASSUME NEW w \in Workers, Take(w) PROVE FeedBalance'
    <2>1. Len(jobs') = Len(jobs) - 1
      BY <1>1, <1>3 DEF Take
    <2>2. /\ metrics'["WSDropped"] = metrics["WSDropped"]
          /\ metrics'["WSMessages"] = metrics["WSMessages"]
          /\ \/ /\ metrics'["FilteredVolume"] = metrics["FilteredVolume"]
                /\ metrics'["WhaleEvents"] = metrics["WhaleEvents"]
             \/ /\ metrics'["FilteredVolume"] = metrics["FilteredVolume"] + 1
                /\ metrics'["WhaleEvents"] = metrics["WhaleEvents"]
             \/ /\ metrics'["FilteredVolume"] = metrics["FilteredVolume"]
                /\ metrics'["WhaleEvents"] = metrics["WhaleEvents"] + 1
      BY <1>1, <1>3
         DEF Take, Skip, FilterVolume, FilterBanWord, Keep, Inc, Counters
    <2>3. /\ metrics["WSDropped"] \in Nat /\ metrics["FilteredVolume"] \in Nat
          /\ metrics["WhaleEvents"] \in Nat /\ metrics["WSMessages"] \in Nat
          /\ Len(jobs) \in Nat
      BY <1>1
    <2> QED
      BY <2>1, <2>2, <2>3, SMTT(30) DEF FeedBalance
  <1>4. ASSUME UNCHANGED jobs, \A n \in Fed : metrics'[n] = metrics[n]
        PROVE  FeedBalance'
    BY <1>4 DEF FeedBalance
  <1>5. ASSUME NEW w \in Workers, Meta(w) \/ TradeCount(w) \/ StartAlert(w)
        PROVE  FeedBalance'
    <2>1. \A n \in Fed : metrics'[n] = metrics[n]
      BY <1>1, <1>5
         DEF Meta, TradeCount, StartAlert, HasMeta, HasCount, Inc, Counters
    <2> QED
      BY <1>4, <1>5, <2>1 DEF Meta, TradeCount, StartAlert
  <1>6. ASSUME NEW w \in Workers, Visit(w) \/ Finish(w) PROVE FeedBalance'
    <2>1. \A n \in Fed : metrics'[n] = metrics[n]
      BY <1>1, <1>6 DEF Visit, Finish, Inc, Counters, IInv, TypeInv, CountersOK
    <2> QED
      BY <1>4, <1>6, <2>1 DEF Visit, Finish
  <1>7. CASE UserEdits \/ CacheRefreshes \/ Send \/ ShutQueue \/ UNCHANGED vars
    <2>1. UNCHANGED <<jobs, metrics>>
      BY <1>7 DEF UserEdits, Subscribe, Unsubscribe, SaveSettings, Follow, Unfollow,
         Edit, CacheRefreshes, SubQuery, SubPublish, FollowQuery, FollowPublish,
         CacheStep, Send, ShutQueue, vars
    <2> QED
      BY <1>4, <2>1
  <1> QED
    BY <1>2, <1>3, <1>5, <1>6, <1>7 DEF Next, Work

\* No message is counted at two ends, each whale event is filtered, being worked
\* on or finished, and until the queue is shut each counted alert is queued, taken
\* or dropped.
THEOREM DashboardAddsUp == Spec => []MetricsBalance
  <1>1. Init => FeedBalance /\ EventsBalance /\ AlertsBalance
    <2> SUFFICES ASSUME Init PROVE FeedBalance /\ EventsBalance /\ AlertsBalance
      OBVIOUS
    <2>1. Busy = {}
      BY DEF Init, Busy
    <2> QED
      BY <2>1, FS_EmptySet
         DEF Init, FeedBalance, EventsBalance, AlertsBalance, Counters
  <1>2. FeedBalance /\ EventsBalance /\ AlertsBalance => MetricsBalance
    BY DEF FeedBalance, EventsBalance, AlertsBalance, MetricsBalance
  <1> QED
    BY <1>1, <1>2, FeedBalanceKept, BalanceKept, Invariance, PTL DEF Spec
=============================================================================
