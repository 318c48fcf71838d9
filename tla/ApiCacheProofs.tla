--------------------------- MODULE ApiCacheProofs ---------------------------
(***************************************************************************)
(* Theorems about ApiCache for any tasks, lifetimes, tag tables and        *)
(* closed positions.                                                       *)
(*                                                                         *)
(* Freshness is age against remaining lifetime: an entry is written by a   *)
(* task that saw at most one tick, so age and remaining lifetime together  *)
(* never exceed the lifetime and one tick (MetaKept, CountKept,            *)
(* StatsKept), and a task adds at most its own tick to what it read        *)
(* (Carries).  A count inside the statistics is bounded by both lifetimes. *)
(***************************************************************************)
EXTENDS ApiCache, FoldTheorems, TLAPS

\* The tick that the task has seen.
Seen(p) == IF tick[p] THEN 1 ELSE 0

Lifetime(m) == IF m.cat = Nil THEN NilTTL ELSE MetaTTL

\* The entries in Redis.
MetaKept ==
    metaEntry # NoEntry =>
        /\ metaEntry.value.age + metaEntry.ttl <= Lifetime(metaEntry.value) + 1
        /\ ~metaEntry.value.cut

CountKept ==
    countEntry # NoEntry =>
        countEntry.value.real /\ countEntry.value.age + countEntry.ttl <= CountTTL + 1

\* The losses come after all wins.
Flattering(s) == s.wins = Wins \/ s.losses = 0

StatsKept ==
    statsEntry # NoEntry =>
        /\ statsEntry.value.count.age + statsEntry.ttl <= CountTTL + StatsTTL + 1
        /\ ~statsEntry.value.cut
        /\ Flattering(statsEntry.value)

\* The worker has passed the filter by count.
Filtered(p) == pc[p] = "GetWalletStats" \/ pc[p] = "send" \/ inStats[p]

\* Where a task keeps what.
Flags(p) ==
    /\ pc[p] = "idle" => ~late[p]
    /\ pc[p] \in {"idle", "GetMeta", "fetchMeta", "SetMeta", "GetWalletStats"} => ~inStats[p]
    /\ pc[p] \in {"pages", "SetStats"} => inStats[p]
    /\ pc[p] = "pages" => page[p] < MaxPages
    /\ pc[p] # "pages" => page[p] = 0

\* What a task carries is as old as the entry it came from and its own tick.
CarriesMeta(p) ==
    pc[p] = "SetMeta" => meta[p].age <= Seen(p) /\ (meta[p].cut => late[p])

CarriesCount(p) ==
    /\ pc[p] = "SetCount" => Counted(p).real /\ Counted(p).age <= Seen(p)
    /\ trade[p] /\ Filtered(p) => count[p].real /\ count[p].age <= CountTTL + Seen(p)

CarriesStats(p) ==
    /\ pc[p] \in {"pages", "SetStats"} => stats[p].count.age <= CountTTL + Seen(p)
    /\ pc[p] = "SetStats" /\ stats[p].cut => late[p]
    /\ pc[p] = "send" => stats[p].count.age <= CountTTL + StatsTTL + Seen(p)
    /\ pc[p] \in {"SetStats", "send"} => Flattering(stats[p])

Carries(p) == Flags(p) /\ CarriesMeta(p) /\ CarriesCount(p) /\ CarriesStats(p)

IInv ==
    /\ TypeOK
    /\ MetaKept /\ CountKept /\ StatsKept
    /\ \A p \in Tasks : Carries(p)

-----------------------------------------------------------------------------
(* The category of a market.                                               *)

\* A set of numbers that is not empty has its minimum.
LEMMA MinIsMember ==
    ASSUME NEW S \in SUBSET Nat, S # {}
    PROVE  Min(S) \in S
  BY LeastNumber DEF Min

LEMMA FirstSport ==
    ASSUME NEW ts, SelectInSeq(ts, Sport) # 0
    PROVE  Sport(ts[SelectInSeq(ts, Sport)])
  <1> DEFINE I == {i \in 1..Len(ts) : Sport(ts[i])}
  <1>1. I \in SUBSET Nat
    OBVIOUS
  <1>2. I # {} /\ SelectInSeq(ts, Sport) = Min(I)
    BY DEF SelectInSeq
  <1>3. Min(I) \in I
    BY <1>1, <1>2, MinIsMember
  <1> QED
    BY <1>2, <1>3

LEMMA FirstTopic ==
    ASSUME NEW ts, SelectInSeq(ts, Topic) # 0
    PROVE  Topic(ts[SelectInSeq(ts, Topic)])
  <1> DEFINE I == {i \in 1..Len(ts) : Topic(ts[i])}
  <1>1. I \in SUBSET Nat
    OBVIOUS
  <1>2. I # {} /\ SelectInSeq(ts, Topic) = Min(I)
    BY DEF SelectInSeq
  <1>3. Min(I) \in I
    BY <1>1, <1>2, MinIsMember
  <1> QED
    BY <1>2, <1>3

LEMMA ResolveType ==
    ASSUME NEW ts
    PROVE  Resolve(ts) \subseteq Categories \cup {Nil}
  <1>1. SelectInSeq(ts, Sport) # 0 => SportTagIDs[ts[SelectInSeq(ts, Sport)].id] \in Categories
    BY FirstSport DEF Sport, Categories, Range
  <1>2. SelectInSeq(ts, Topic) # 0 => ts[SelectInSeq(ts, Topic)].slug \in Categories
    BY FirstTopic DEF Topic, Categories
  <1>3. \A f \in Fragments : SeriesToSport[f] \in Categories
    BY ApiCacheAssumption DEF Categories, Range
  <1>4. "other" \in Categories
    BY DEF Categories
  <1> QED
    BY <1>1, <1>2, <1>3, <1>4 DEF Resolve, Category

-----------------------------------------------------------------------------
(* Types.                                                                  *)

LocalsOK ==
    /\ pc \in [Tasks -> Pc]
    /\ trade \in [Tasks -> BOOLEAN]
    /\ late \in [Tasks -> BOOLEAN]
    /\ tick \in [Tasks -> BOOLEAN]
    /\ inStats \in [Tasks -> BOOLEAN]
    /\ page \in [Tasks -> 0..MaxPages]
    /\ meta \in [Tasks -> Meta]
    /\ count \in [Tasks -> TradeCount]
    /\ stats \in [Tasks -> WalletStats]
    /\ \A p \in Tasks : late[p] => trade[p]

MetaEntryOK ==
    /\ metaEntry \in {NoEntry} \cup Live(Meta, MetaTTL)
    /\ metaEntry # NoEntry /\ metaEntry.value.cat = Nil => metaEntry.ttl <= NilTTL

EntriesOK ==
    /\ MetaEntryOK
    /\ countEntry \in {NoEntry} \cup Live(TradeCount, CountTTL)
    /\ statsEntry \in {NoEntry} \cup Live(WalletStats, StatsTTL)

LEMMA TypeParts == TypeOK <=> tags \in TagLists /\ EntriesOK /\ LocalsOK
  BY DEF TypeOK, EntriesOK, MetaEntryOK, LocalsOK

LEMMA TypeAfter ==
    ASSUME TypeOK, UNCHANGED tags, LocalsOK',
           MetaEntryOK' \/ UNCHANGED metaEntry,
           countEntry' \in {NoEntry} \cup Live(TradeCount, CountTTL) \/ UNCHANGED countEntry,
           statsEntry' \in {NoEntry} \cup Live(WalletStats, StatsTTL) \/ UNCHANGED statsEntry
    PROVE  TypeOK'
  BY DEF TypeOK, MetaEntryOK, LocalsOK

LEMMA Bounds ==
    /\ MetaTTL \in Nat /\ NilTTL \in Nat /\ CountTTL \in Nat /\ StatsTTL \in Nat
    /\ PageSize \in Nat /\ MaxPages \in Nat
    /\ MetaTTL > 0 /\ NilTTL > 0 /\ CountTTL > 0 /\ StatsTTL > 0
    /\ PageSize > 0 /\ MaxPages > 0 /\ NilTTL <= MetaTTL
    /\ Wins \in Nat /\ Even \in Nat /\ Losses \in Nat
    /\ Old \in Nat /\ Old > 0
  BY ApiCacheAssumption DEF Old

LEMMA Defaults ==
    /\ NoMeta \in Meta /\ APIError \in TradeCount /\ NoStats \in WalletStats
    /\ \A c \in Categories \cup {Nil}, b \in BOOLEAN : [cat |-> c, age |-> 0, cut |-> b] \in Meta
    /\ [real |-> TRUE, age |-> 0] \in TradeCount
  <1>1. 0 \in 0..Old /\ 0 \in 0..Wins /\ 0 \in 0..Losses
    BY Bounds
  <1>2. NoMeta \in Meta /\ APIError \in TradeCount /\ [real |-> TRUE, age |-> 0] \in TradeCount
    BY <1>1 DEF NoMeta, Meta, APIError, TradeCount
  <1>3. NoStats \in WalletStats
    BY <1>1, <1>2 DEF NoStats, WalletStats
  <1>4. \A c \in Categories \cup {Nil}, b \in BOOLEAN : [cat |-> c, age |-> 0, cut |-> b] \in Meta
    BY <1>1 DEF Meta
  <1> QED
    BY <1>2, <1>3, <1>4

LEMMA GotoType ==
    ASSUME LocalsOK, NEW p \in Tasks, NEW at \in Pc, Goto(p, at)
    PROVE  pc' \in [Tasks -> Pc] /\ pc'[p] = at
  BY DEF Goto, LocalsOK

LEMMA EndType ==
    ASSUME LocalsOK, NEW p \in Tasks, End(p)
    PROVE  LocalsOK'
  <1>1. pc' \in [Tasks -> Pc]
    BY GotoType DEF End, Pc
  <1>2. 0 \in 0..MaxPages
    BY Bounds
  <1>3. /\ meta' \in [Tasks -> Meta] /\ count' \in [Tasks -> TradeCount]
        /\ stats' \in [Tasks -> WalletStats] /\ page' \in [Tasks -> 0..MaxPages]
    BY <1>2, Defaults DEF End, LocalsOK
  <1>4. /\ trade' \in [Tasks -> BOOLEAN] /\ late' \in [Tasks -> BOOLEAN]
        /\ tick' \in [Tasks -> BOOLEAN] /\ inStats' \in [Tasks -> BOOLEAN]
    BY DEF End, LocalsOK
  <1>5. \A q \in Tasks : late'[q] => trade'[q]
    BY DEF End, LocalsOK
  <1> QED
    BY <1>1, <1>3, <1>4, <1>5 DEF LocalsOK

\* Nothing but the program counter, the count and the statistics.
LEMMA PutType ==
    ASSUME LocalsOK, NEW p \in Tasks, NEW n \in TradeCount, Put(p, n)
    PROVE  count' \in [Tasks -> TradeCount] /\ stats' \in [Tasks -> WalletStats]
  <1>1. [stats[p] EXCEPT !.count = n] \in WalletStats
    BY DEF LocalsOK, WalletStats
  <1> QED
    BY <1>1 DEF Put, LocalsOK

LEMMA HasMetaType ==
    ASSUME LocalsOK, NEW p \in Tasks, NEW m, HasMeta(p, m)
    PROVE  LocalsOK'
  <1>1. CASE End(p)
    BY <1>1, EndType
  <1>2. CASE /\ Goto(p, "GetTradeCount")
             /\ meta' = [meta EXCEPT ![p] = NoMeta]
             /\ UNCHANGED <<trade, late, tick, inStats, page, count, stats>>
    <2>1. pc' \in [Tasks -> Pc]
      BY <1>2, GotoType DEF Pc
    <2> QED
      BY <1>2, <2>1, Defaults DEF LocalsOK
  <1> QED
    BY <1>1, <1>2 DEF HasMeta

LEMMA HasCountType ==
    ASSUME LocalsOK, NEW p \in Tasks, NEW n \in TradeCount, HasCount(p, n)
    PROVE  LocalsOK'
  <1>1. CASE End(p)
    BY <1>1, EndType
  <1>2. ASSUME Put(p, n), NEW at \in Pc, Goto(p, at),
               UNCHANGED <<trade, late, tick, inStats, page, meta>>
        PROVE  LocalsOK'
    <2>1. pc' \in [Tasks -> Pc]
      BY <1>2, GotoType
    <2>2. count' \in [Tasks -> TradeCount] /\ stats' \in [Tasks -> WalletStats]
      BY <1>2, PutType
    <2> QED
      BY <1>2, <2>1, <2>2 DEF LocalsOK
  <1>3. "pages" \in Pc /\ "GetWalletStats" \in Pc
    BY DEF Pc
  <1> QED
    BY <1>1, <1>2, <1>3 DEF HasCount

LEMMA EntryType ==
    ASSUME NEW p \in Tasks, NEW values, NEW ttl \in Nat, ttl > 0, NEW life \in 1..ttl,
           NEW entry \in {NoEntry} \cup Live(values, ttl), NEW v \in values
    PROVE  Set(p, entry, v, life) \in {NoEntry} \cup Live(values, ttl)
  BY DEF Set, Live

\* A task begins.
LEMMA BeginType ==
    ASSUME TypeOK, NEW p \in Tasks, Trade(p) \/ Press(p), Flags(p)
    PROVE  TypeOK'
  <1>1. pc' \in [Tasks -> Pc]
    BY GotoType, TypeParts DEF Trade, Press, Begin, Pc
  <1>2. trade' \in [Tasks -> BOOLEAN] /\ \A q \in Tasks : late[q] => trade'[q]
    BY DEF Trade, Press, Begin, TypeOK, Flags
  <1> QED
    BY <1>1, <1>2 DEF Trade, Press, Begin, TypeOK, redis

LEMMA MissMetaType ==
    ASSUME LocalsOK, NEW p \in Tasks, MissMeta(p)
    PROVE  LocalsOK'
  <1>1. pc' \in [Tasks -> Pc]
    BY GotoType DEF MissMeta, Pc
  <1> QED
    BY <1>1 DEF MissMeta, LocalsOK, locals

LEMMA GetMetaType ==
    ASSUME TypeOK, NEW p \in Tasks, GetMeta(p) \/ FetchMeta(p) \/ SetMeta(p)
    PROVE  TypeOK'
  <1>1. CASE GetMeta(p)
    <2>1. LocalsOK'
      BY <1>1, TypeParts, HasMetaType, MissMetaType DEF GetMeta
    <2>2. UNCHANGED <<tags, redis>>
      BY <1>1 DEF GetMeta, MissMeta, redis
    <2> QED
      BY <2>1, <2>2, TypeAfter DEF redis
  <1>2. CASE FetchMeta(p)
    <2>1. pc' \in [Tasks -> Pc]
      BY <1>2, GotoType, TypeParts DEF FetchMeta, Pc
    <2>2. ASSUME NEW c \in Resolve(tags) \cup Resolve(<<>>)
          PROVE  [cat |-> c, age |-> 0, cut |-> FALSE] \in Meta
      BY <2>2, ResolveType, Defaults
    <2>3. [cat |-> Nil, age |-> 0, cut |-> late[p]] \in Meta
      BY Defaults DEF TypeOK
    <2>4. \E m \in Meta : meta' = [meta EXCEPT ![p] = m]
      BY <1>2, <2>2, <2>3 DEF FetchMeta
    <2>5. meta' \in [Tasks -> Meta]
      BY <2>4 DEF TypeOK
    <2> QED
      BY <1>2, <2>1, <2>5 DEF FetchMeta, TypeOK, redis
  <1>3. CASE SetMeta(p)
    <2>1. LocalsOK'
      BY <1>3, TypeParts, HasMetaType DEF SetMeta
    <2>2. meta[p] \in Meta
      BY DEF TypeOK
    <2>3. MetaEntryOK'
      <3>1. CASE late[p]
        BY <1>3, <3>1, TypeParts DEF SetMeta, Set, EntriesOK, MetaEntryOK
      <3>2. CASE ~late[p]
        <4> DEFINE life == IF meta[p].cat = Nil THEN NilTTL ELSE MetaTTL
        <4>1. life \in 1..MetaTTL /\ (meta[p].cat = Nil => life = NilTTL)
          BY Bounds
        <4>2. metaEntry' = [value |-> meta[p], ttl |-> life]
          BY <1>3, <3>2 DEF SetMeta, Set
        <4>3. metaEntry' \in Live(Meta, MetaTTL)
          BY <2>2, <4>1, <4>2 DEF Live
        <4>4. metaEntry'.value.cat = Nil => metaEntry'.ttl <= NilTTL
          BY <4>1, <4>2, Bounds
        <4> QED
          BY <4>3, <4>4 DEF MetaEntryOK
      <3> QED
        BY <3>1, <3>2
    <2> QED
      BY <1>3, <2>1, <2>3, TypeAfter DEF SetMeta
  <1> QED
    BY <1>1, <1>2, <1>3

LEMMA CountedType ==
    ASSUME TypeOK, NEW p \in Tasks
    PROVE  Counted(p) \in TradeCount
  BY DEF Counted, TypeOK, WalletStats

LEMMA CountType ==
    ASSUME TypeOK, NEW p \in Tasks, GetTradeCount(p) \/ FetchCount(p) \/ SetCount(p), CountKept
    PROVE  TypeOK'
  <1>1. CASE GetTradeCount(p)
    <2>1. CASE Hit(p, countEntry) /\ HasCount(p, countEntry.value)
      <3>1. countEntry.value \in TradeCount
        BY <2>1 DEF Hit, TypeOK, Live
      <3>2. LocalsOK'
        BY <2>1, <3>1, HasCountType, TypeParts
      <3> QED
        BY <1>1, <3>2, TypeAfter DEF GetTradeCount, redis
    <2>2. CASE Goto(p, "fetchCount") /\ UNCHANGED locals
      <3>1. pc' \in [Tasks -> Pc]
        BY <2>2, GotoType, TypeParts DEF Pc
      <3> QED
        BY <1>1, <2>2, <3>1 DEF GetTradeCount, TypeOK, redis, locals
    <2> QED
      BY <1>1, <2>1, <2>2 DEF GetTradeCount
  <1>2. CASE FetchCount(p)
    <2>1. CASE Answered(p, [real |-> TRUE, age |-> 0])
      <3>1. pc' \in [Tasks -> Pc]
        BY <2>1, GotoType, TypeParts DEF Answered, Pc
      <3>2. count' \in [Tasks -> TradeCount] /\ stats' \in [Tasks -> WalletStats]
        BY <2>1, PutType, TypeParts, Defaults DEF Answered
      <3> QED
        BY <1>2, <2>1, <3>1, <3>2 DEF FetchCount, Answered, TypeOK, redis
    <2>2. CASE HasCount(p, APIError)
      <3>1. LocalsOK'
        BY <2>2, HasCountType, Defaults, TypeParts
      <3> QED
        BY <1>2, <3>1, TypeAfter DEF FetchCount, redis
    <2> QED
      BY <1>2, <2>1, <2>2 DEF FetchCount
  <1>3. CASE SetCount(p)
    <2>1. LocalsOK'
      BY <1>3, CountedType, HasCountType, TypeParts DEF SetCount
    <2>2. CountTTL \in 1..CountTTL
      BY Bounds
    <2>3. countEntry' \in {NoEntry} \cup Live(TradeCount, CountTTL)
      BY <1>3, <2>2, CountedType, EntryType, Bounds DEF SetCount, TypeOK
    <2> QED
      BY <1>3, <2>1, <2>3, TypeAfter DEF SetCount
  <1> QED
    BY <1>1, <1>2, <1>3

-----------------------------------------------------------------------------
(* The pages of closed positions.                                          *)

LEMMA ReadType ==
    ASSUME NEW k \in Nat
    PROVE  Read(k) \in Nat /\ Read(k) <= Wins + Even + Losses
  <1>1. k * PageSize \in Nat
    BY Bounds
  <1> QED
    BY <1>1, Bounds DEF Read

\* The losses are read after all wins.
LEMMA ClosedPositions ==
    ASSUME NEW k \in Nat
    PROVE  /\ WinsRead(k) \in 0..Wins /\ LossesRead(k) \in 0..Losses
           /\ WinsRead(k) = Wins \/ LossesRead(k) = 0
  BY ReadType, Bounds DEF WinsRead, LossesRead

LEMMA ClosedType ==
    ASSUME TypeOK, NEW p \in Tasks, NEW k \in Nat, NEW cut \in BOOLEAN
    PROVE  /\ [Closed(p, k) EXCEPT !.cut = cut] \in WalletStats
           /\ [Closed(p, k) EXCEPT !.cut = cut].count = stats[p].count
           /\ [Closed(p, k) EXCEPT !.cut = cut].wins = WinsRead(k)
           /\ [Closed(p, k) EXCEPT !.cut = cut].losses = LossesRead(k)
           /\ [Closed(p, k) EXCEPT !.cut = cut].cut = cut
  <1>1. stats[p] \in WalletStats
    BY DEF TypeOK
  <1> QED
    BY <1>1, ClosedPositions DEF Closed, WalletStats

LEMMA MergeType ==
    ASSUME TypeOK, NEW p \in Tasks, NEW k \in Nat, NEW cut \in BOOLEAN, Merge(p, k, cut)
    PROVE  /\ stats' \in [Tasks -> WalletStats] /\ stats'[p] = [Closed(p, k) EXCEPT !.cut = cut]
           /\ page' \in [Tasks -> 0..MaxPages] /\ page'[p] = 0
           /\ pc' \in [Tasks -> Pc] /\ pc'[p] = "SetStats"
  <1>1. [Closed(p, k) EXCEPT !.cut = cut] \in WalletStats
    BY ClosedType
  <1>2. 0 \in 0..MaxPages
    BY Bounds
  <1> QED
    BY <1>1, <1>2, GotoType, TypeParts DEF Merge, TypeOK, Pc

LEMMA StatsType ==
    ASSUME TypeOK, NEW p \in Tasks, Flags(p), GetWalletStats(p) \/ NextPage(p) \/ SetStats(p)
    PROVE  TypeOK'
  <1>1. CASE GetWalletStats(p)
    <2>1. pc' \in [Tasks -> Pc]
      BY <1>1, GotoType, TypeParts DEF GetWalletStats, Pc
    <2>2. Hit(p, statsEntry) => statsEntry.value \in WalletStats
      BY DEF Hit, TypeOK, Live
    <2>3. stats' \in [Tasks -> WalletStats] /\ inStats' \in [Tasks -> BOOLEAN]
      BY <1>1, <2>2 DEF GetWalletStats, TypeOK
    <2> QED
      BY <1>1, <2>1, <2>3 DEF GetWalletStats, TypeOK, redis
  <1>2. CASE NextPage(p)
    <2>1. page[p] \in Nat /\ page[p] + 1 \in Nat /\ page[p] + 1 \in 0..MaxPages
      BY <1>2, Bounds DEF NextPage, Flags, TypeOK
    <2>2. /\ pc' \in [Tasks -> Pc]
          /\ page' \in [Tasks -> 0..MaxPages] /\ stats' \in [Tasks -> WalletStats]
      <3>1. CASE page' = [page EXCEPT ![p] = page[p] + 1] /\ UNCHANGED <<pc, stats>>
        BY <2>1, <3>1 DEF TypeOK
      <3>2. CASE Merge(p, page[p] + 1, FALSE)
        BY <2>1, <3>2, MergeType
      <3>3. CASE Merge(p, page[p], late[p])
        <4>1. late[p] \in BOOLEAN
          BY DEF TypeOK
        <4> QED
          BY <2>1, <3>3, <4>1, MergeType
      <3> QED
        BY <1>2, <3>1, <3>2, <3>3 DEF NextPage
    <2> QED
      BY <1>2, <2>2 DEF NextPage, TypeOK, redis
  <1>3. CASE SetStats(p)
    <2>1. pc' \in [Tasks -> Pc]
      BY <1>3, GotoType, TypeParts DEF SetStats, Pc
    <2>2. StatsTTL \in 1..StatsTTL /\ stats[p] \in WalletStats
      BY Bounds DEF TypeOK
    <2>3. statsEntry' \in {NoEntry} \cup Live(WalletStats, StatsTTL)
      BY <1>3, <2>2, EntryType, Bounds DEF SetStats, TypeOK
    <2> QED
      BY <1>3, <2>1, <2>3 DEF SetStats, TypeOK, locals
  <1> QED
    BY <1>1, <1>2, <1>3

LEMMA SendType ==
    ASSUME TypeOK, NEW p \in Tasks, Send(p) \/ Deadline(p)
    PROVE  TypeOK'
  <1>1. CASE Send(p)
    <2>1. LocalsOK'
      BY <1>1, EndType, TypeParts DEF Send
    <2> QED
      BY <1>1, <2>1, TypeAfter DEF Send, redis
  <1>2. CASE Deadline(p)
    BY <1>2 DEF Deadline, TypeOK, redis
  <1> QED
    BY <1>1, <1>2

-----------------------------------------------------------------------------
(* A tick.                                                                 *)

LEMMA OlderType ==
    ASSUME NEW n \in 0..Old
    PROVE  Older(n) \in 0..Old /\ Older(n) <= n + 1
  BY Bounds DEF Older

LEMMA OlderMetaType ==
    ASSUME NEW m \in Meta
    PROVE  /\ OlderMeta(m) \in Meta /\ OlderMeta(m).age <= m.age + 1
           /\ OlderMeta(m).cat = m.cat /\ OlderMeta(m).cut = m.cut
  <1>1. Older(m.age) \in 0..Old /\ Older(m.age) <= m.age + 1
    BY OlderType DEF Meta
  <1> QED
    BY <1>1 DEF OlderMeta, Meta

LEMMA OlderCountType ==
    ASSUME NEW n \in TradeCount
    PROVE  /\ OlderCount(n) \in TradeCount /\ OlderCount(n).age <= n.age + 1
           /\ OlderCount(n).real = n.real
  <1>1. Older(n.age) \in 0..Old /\ Older(n.age) <= n.age + 1
    BY OlderType DEF TradeCount
  <1>2. n.age \in Nat
    BY DEF TradeCount
  <1> QED
    BY <1>1, <1>2 DEF OlderCount, TradeCount

LEMMA OlderStatsType ==
    ASSUME NEW s \in WalletStats
    PROVE  /\ OlderStats(s) \in WalletStats /\ OlderStats(s).count = OlderCount(s.count)
           /\ OlderStats(s).wins = s.wins /\ OlderStats(s).losses = s.losses
           /\ OlderStats(s).cut = s.cut
  <1>1. OlderCount(s.count) \in TradeCount
    BY OlderCountType DEF WalletStats
  <1> QED
    BY <1>1 DEF OlderStats, WalletStats

LEMMA AfterType ==
    ASSUME NEW values, NEW ttl \in Nat, NEW entry \in {NoEntry} \cup Live(values, ttl),
           NEW v, entry # NoEntry => v \in values, After(entry, v) # NoEntry
    PROVE  /\ entry # NoEntry /\ entry.ttl \in 1..ttl /\ entry.ttl > 1
           /\ After(entry, v) \in Live(values, ttl)
           /\ After(entry, v).value = v /\ After(entry, v).ttl = entry.ttl - 1
  <1>1. entry # NoEntry /\ v \in values /\ entry \in Live(values, ttl) /\ entry.ttl # 1
    BY DEF After
  <1>2. entry.ttl \in 1..ttl /\ entry.ttl - 1 \in 1..ttl
    BY <1>1 DEF Live
  <1>3. After(entry, v) = [value |-> v, ttl |-> entry.ttl - 1]
    BY <1>1 DEF After
  <1> QED
    BY <1>1, <1>2, <1>3 DEF Live

LEMMA TickType ==
    ASSUME TypeOK, Tick
    PROVE  TypeOK'
  <1>1. MetaEntryOK'
    <2>1. CASE metaEntry' = NoEntry
      BY <2>1 DEF MetaEntryOK
    <2>2. CASE metaEntry' # NoEntry
      <3>0. metaEntry # NoEntry => metaEntry.value \in Meta
        BY DEF TypeOK, Live
      <3>1. metaEntry # NoEntry => OlderMeta(metaEntry.value) \in Meta
        BY <3>0, OlderMetaType
      <3>2. /\ metaEntry # NoEntry /\ metaEntry.ttl \in 1..MetaTTL
            /\ metaEntry' \in Live(Meta, MetaTTL)
            /\ metaEntry'.value = OlderMeta(metaEntry.value)
            /\ metaEntry'.ttl = metaEntry.ttl - 1
        BY <2>2, <3>1, AfterType, Bounds DEF Tick, TypeOK
      <3>3. metaEntry'.value.cat = metaEntry.value.cat
        BY <3>0, <3>2, OlderMetaType
      <3>4. metaEntry.value.cat = Nil => metaEntry.ttl <= NilTTL
        BY <3>2 DEF TypeOK
      <3>5. metaEntry'.value.cat = Nil => metaEntry'.ttl <= NilTTL
        BY <3>2, <3>3, <3>4, Bounds
      <3> QED
        BY <3>2, <3>5 DEF MetaEntryOK
    <2> QED
      BY <2>1, <2>2
  <1>2. countEntry' \in {NoEntry} \cup Live(TradeCount, CountTTL)
    <2>1. countEntry # NoEntry => OlderCount(countEntry.value) \in TradeCount
      BY OlderCountType DEF TypeOK, Live
    <2> QED
      BY <2>1, AfterType, Bounds DEF Tick, TypeOK
  <1>3. statsEntry' \in {NoEntry} \cup Live(WalletStats, StatsTTL)
    <2>1. statsEntry # NoEntry => OlderStats(statsEntry.value) \in WalletStats
      BY OlderStatsType DEF TypeOK, Live
    <2> QED
      BY <2>1, AfterType, Bounds DEF Tick, TypeOK
  <1>4. LocalsOK'
    <2>1. meta' \in [Tasks -> Meta]
      BY OlderMetaType, Defaults DEF Tick, TypeOK
    <2>2. count' \in [Tasks -> TradeCount]
      BY OlderCountType DEF Tick, TypeOK
    <2>3. stats' \in [Tasks -> WalletStats]
      BY OlderStatsType DEF Tick, TypeOK
    <2>4. tick' \in [Tasks -> BOOLEAN]
      BY DEF Tick
    <2> QED
      BY <2>1, <2>2, <2>3, <2>4 DEF Tick, TypeOK, LocalsOK
  <1> QED
    BY <1>1, <1>2, <1>3, <1>4, TypeAfter DEF Tick

-----------------------------------------------------------------------------
(* What the steps of one task do to what the tasks carry.                  *)

\* Nothing of a task changes.
Still(p) ==
    /\ pc'[p] = pc[p] /\ trade'[p] = trade[p] /\ late'[p] = late[p] /\ tick'[p] = tick[p]
    /\ inStats'[p] = inStats[p] /\ page'[p] = page[p] /\ meta'[p] = meta[p]
    /\ count'[p] = count[p] /\ stats'[p] = stats[p]

LEMMA CarriesStill ==
    ASSUME NEW p \in Tasks, Carries(p), Still(p)
    PROVE  Carries(p)'
  <1>1. Flags(p)'
    BY DEF Carries, Flags, Still
  <1>2. CarriesMeta(p)'
    BY DEF Carries, CarriesMeta, Still, Seen
  <1>3. CarriesCount(p)'
    BY DEF Carries, CarriesCount, Still, Seen, Counted, Filtered
  <1>4. CarriesStats(p)'
    BY DEF Carries, CarriesStats, Still, Seen, Flattering
  <1> QED
    BY <1>1, <1>2, <1>3, <1>4 DEF Carries

\* A step of one task leaves the others alone.
LEMMA OthersStill ==
    ASSUME TypeOK, NEW p \in Tasks, NEW q \in Tasks, q # p,
           Trade(p) \/ Press(p) \/ Step(p)
    PROVE  Still(q)
  <1>1. ASSUME End(p) PROVE Still(q)
    BY <1>1 DEF End, Goto, TypeOK, Still
  <1>2. ASSUME NEW m, HasMeta(p, m) PROVE Still(q)
    BY <1>1, <1>2 DEF HasMeta, Goto, TypeOK, Still
  <1>3. ASSUME NEW n, HasCount(p, n) PROVE Still(q)
    BY <1>1, <1>3 DEF HasCount, Put, Goto, TypeOK, Still
  <1>4. Trade(p) \/ Press(p) => Still(q)
    BY DEF Trade, Press, Begin, Goto, TypeOK, Still
  <1>5. GetMeta(p) => Still(q)
    BY <1>2 DEF GetMeta, MissMeta, locals, Goto, TypeOK, Still
  <1>6. FetchMeta(p) => Still(q)
    BY DEF FetchMeta, Goto, TypeOK, Still
  <1>7. SetMeta(p) => Still(q)
    BY <1>2 DEF SetMeta
  <1>8. GetTradeCount(p) => Still(q)
    BY <1>3 DEF GetTradeCount, locals, Goto, TypeOK, Still
  <1>9. FetchCount(p) => Still(q)
    BY <1>3 DEF FetchCount, Answered, Put, Goto, TypeOK, Still
  <1>10. SetCount(p) => Still(q)
    BY <1>3 DEF SetCount
  <1>11. GetWalletStats(p) => Still(q)
    BY DEF GetWalletStats, Goto, TypeOK, Still
  <1>12. NextPage(p) => Still(q)
    BY DEF NextPage, Merge, Goto, TypeOK, Still
  <1>13. SetStats(p) => Still(q)
    BY DEF SetStats, locals, Goto, TypeOK, Still
  <1>14. Send(p) \/ Deadline(p) => Still(q)
    BY <1>1 DEF Send, Deadline, TypeOK, Still
  <1> QED
    BY <1>4, <1>5, <1>6, <1>7, <1>8, <1>9, <1>10, <1>11, <1>12, <1>13, <1>14 DEF Step

\* A task that is over carries nothing.
LEMMA EndCarries ==
    ASSUME TypeOK, NEW p \in Tasks, End(p)
    PROVE  Carries(p)'
  <1>1. /\ pc'[p] = "idle" /\ ~late'[p] /\ ~inStats'[p] /\ page'[p] = 0
    BY DEF End, Goto, TypeOK
  <1> QED
    BY <1>1 DEF Carries, Flags, CarriesMeta, CarriesCount, CarriesStats, Filtered

LEMMA BeginCarries ==
    ASSUME TypeOK, NEW p \in Tasks, Carries(p), Trade(p) \/ Press(p)
    PROVE  Carries(p)'
  <1>1. pc[p] = "idle" /\ ~inStats[p] /\ page[p] = 0
    BY DEF Carries, Flags, Trade, Press, Begin
  <1>2. /\ pc'[p] \in {"GetMeta", "GetWalletStats"} /\ inStats'[p] = inStats[p]
        /\ page'[p] = page[p]
    BY DEF Trade, Press, Begin, Goto, TypeOK
  <1>3. pc'[p] = "GetWalletStats" => ~trade'[p]
    BY DEF Trade, Press, Begin, Goto, TypeOK
  <1> QED
    BY <1>1, <1>2, <1>3 DEF Carries, Flags, CarriesMeta, CarriesCount, CarriesStats, Filtered

-----------------------------------------------------------------------------
(* GetMeta.                                                                *)

LEMMA HasMetaCarries ==
    ASSUME TypeOK, NEW p \in Tasks, Carries(p), pc[p] \in {"GetMeta", "SetMeta"},
           NEW m, HasMeta(p, m)
    PROVE  Carries(p)'
  <1>1. CASE End(p)
    BY <1>1, EndCarries
  <1>2. CASE /\ Goto(p, "GetTradeCount")
             /\ UNCHANGED <<trade, late, tick, inStats, page, count, stats>>
    <2>1. pc'[p] = "GetTradeCount"
      BY <1>2 DEF Goto, TypeOK
    <2>2. ~inStats[p] /\ page[p] = 0
      BY DEF Carries, Flags
    <2> QED
      BY <1>2, <2>1, <2>2
         DEF Carries, Flags, CarriesMeta, CarriesCount, CarriesStats, Filtered
  <1> QED
    BY <1>1, <1>2 DEF HasMeta

LEMMA MetaCarries ==
    ASSUME TypeOK, NEW p \in Tasks, Carries(p), GetMeta(p) \/ FetchMeta(p) \/ SetMeta(p)
    PROVE  Carries(p)'
  <1>1. CASE GetMeta(p)
    <2>1. CASE MissMeta(p)
      <3>1. pc'[p] = "fetchMeta" /\ ~inStats[p] /\ page[p] = 0
        BY <1>1, <2>1 DEF GetMeta, MissMeta, Goto, TypeOK, Carries, Flags
      <3> QED
        BY <2>1, <3>1 DEF MissMeta, locals,
               Carries, Flags, CarriesMeta, CarriesCount, CarriesStats, Filtered
    <2> QED
      BY <1>1, <2>1, HasMetaCarries DEF GetMeta
  <1>2. CASE FetchMeta(p)
    <2>1. pc'[p] = "SetMeta" /\ ~inStats[p] /\ page[p] = 0
      BY <1>2 DEF FetchMeta, Goto, TypeOK, Carries, Flags
    <2>2. Flags(p)' /\ CarriesCount(p)' /\ CarriesStats(p)'
      BY <1>2, <2>1 DEF FetchMeta, Flags, CarriesCount, CarriesStats, Filtered
    <2>3. \/ \E c : meta'[p] = [cat |-> c, age |-> 0, cut |-> FALSE]
          \/ meta'[p] = [cat |-> Nil, age |-> 0, cut |-> late[p]]
      BY <1>2 DEF FetchMeta, TypeOK
    <2>4. meta'[p].age = 0 /\ (meta'[p].cut => late[p]) /\ late' = late
      <3>1. late' = late
        BY <1>2 DEF FetchMeta
      <3>2. ASSUME NEW c, meta'[p] = [cat |-> c, age |-> 0, cut |-> FALSE]
            PROVE  meta'[p].age = 0 /\ ~meta'[p].cut
        BY <3>2
      <3>3. ASSUME meta'[p] = [cat |-> Nil, age |-> 0, cut |-> late[p]]
            PROVE  meta'[p].age = 0 /\ (meta'[p].cut => late[p])
        BY <3>3
      <3> QED
        BY <2>3, <3>1, <3>2, <3>3, Zenon
    <2>5. CarriesMeta(p)'
      BY <2>4 DEF CarriesMeta, Seen
    <2> QED
      BY <2>2, <2>5 DEF Carries
  <1>3. CASE SetMeta(p)
    BY <1>3, HasMetaCarries DEF SetMeta
  <1> QED
    BY <1>1, <1>2, <1>3

LEMMA MetaStaysKept ==
    ASSUME TypeOK, NEW p \in Tasks, Carries(p), MetaKept,
           GetMeta(p) \/ FetchMeta(p) \/ SetMeta(p)
    PROVE  MetaKept'
  <1>1. CASE UNCHANGED metaEntry
    BY <1>1 DEF MetaKept, Lifetime
  <1>2. CASE SetMeta(p) /\ ~late[p]
    <2>1. metaEntry' = [value |-> meta[p], ttl |-> Lifetime(meta[p])]
      BY <1>2 DEF SetMeta, Set, Lifetime
    <2>2. meta[p].age <= 1 /\ ~meta[p].cut
      BY <1>2 DEF SetMeta, Carries, CarriesMeta, Seen, TypeOK, Meta
    <2>3. meta[p].age \in Nat /\ Lifetime(meta[p]) \in Nat
      BY Bounds DEF TypeOK, Meta, Lifetime
    <2> QED
      BY <2>1, <2>2, <2>3 DEF MetaKept, Lifetime
  <1> QED
    BY <1>1, <1>2 DEF GetMeta, MissMeta, FetchMeta, SetMeta, Set, redis

-----------------------------------------------------------------------------
(* GetTradeCount.                                                          *)

LEMMA HitCount ==
    ASSUME TypeOK, CountKept, NEW p \in Tasks, Hit(p, countEntry)
    PROVE  /\ countEntry.value \in TradeCount /\ countEntry.value.real
           /\ countEntry.value.age <= CountTTL
  <1>1. countEntry \in Live(TradeCount, CountTTL) /\ countEntry # NoEntry
    BY DEF Hit, TypeOK
  <1>2. /\ countEntry.value \in TradeCount /\ countEntry.ttl >= 1 /\ countEntry.ttl \in Nat
        /\ countEntry.value.age \in Nat
    BY <1>1, Bounds DEF Live, TradeCount
  <1>3. countEntry.value.real /\ countEntry.value.age + countEntry.ttl <= CountTTL + 1
    BY <1>1 DEF CountKept
  <1> QED
    BY <1>2, <1>3, Bounds

\* Where the answer goes, and that everything else stays.
LEMMA PutCarries ==
    ASSUME TypeOK, NEW p \in Tasks, NEW n \in TradeCount, Put(p, n)
    PROVE  /\ inStats[p] => stats'[p].count = n /\ count'[p] = count[p]
           /\ ~inStats[p] => count'[p] = n /\ stats'[p] = stats[p]
  BY DEF Put, TypeOK, WalletStats

LEMMA HasCountCarries ==
    ASSUME TypeOK, NEW p \in Tasks, Carries(p),
           pc[p] \in {"GetTradeCount", "fetchCount", "SetCount"},
           NEW n \in TradeCount, n.age <= CountTTL + Seen(p), HasCount(p, n)
    PROVE  Carries(p)'
  <1>1. CASE inStats[p] /\ HasCount(p, n)
    <2>1. /\ pc'[p] = "pages" /\ page'[p] = 0 /\ inStats'[p] /\ tick'[p] = tick[p]
          /\ trade'[p] = trade[p] /\ Seen(p)' = Seen(p)
          /\ stats'[p].count = n /\ count'[p] = count[p]
      BY <1>1, PutCarries DEF HasCount, Goto, TypeOK, Carries, Flags, Seen
    <2>2. Flags(p)' /\ CarriesMeta(p)'
      BY <2>1, Bounds DEF Flags, CarriesMeta
    <2>3. CarriesStats(p)'
      BY <2>1 DEF CarriesStats
    <2>4. CarriesCount(p)'
      BY <1>1, <2>1 DEF Carries, CarriesCount, Filtered
    <2> QED
      BY <2>2, <2>3, <2>4 DEF Carries
  <1>2. CASE ~inStats[p] /\ n.real /\ HasCount(p, n)
    <2>1. /\ pc'[p] = "GetWalletStats" /\ page'[p] = 0 /\ ~inStats'[p] /\ tick'[p] = tick[p]
          /\ Seen(p)' = Seen(p) /\ count'[p] = n
      BY <1>2, PutCarries DEF HasCount, Goto, TypeOK, Carries, Flags, Seen
    <2>2. Flags(p)' /\ CarriesMeta(p)' /\ CarriesStats(p)'
      BY <2>1 DEF Flags, CarriesMeta, CarriesStats
    <2>3. CarriesCount(p)'
      BY <1>2, <2>1 DEF CarriesCount
    <2> QED
      BY <2>2, <2>3 DEF Carries
  <1>3. CASE End(p)
    BY <1>3, EndCarries
  <1> QED
    BY <1>1, <1>2, <1>3 DEF HasCount

LEMMA CountCarries ==
    ASSUME TypeOK, CountKept, NEW p \in Tasks, Carries(p),
           GetTradeCount(p) \/ FetchCount(p) \/ SetCount(p)
    PROVE  Carries(p)'
  <1>0. Seen(p) \in Nat
    BY DEF Seen
  <1>1. CASE GetTradeCount(p)
    <2>1. CASE Hit(p, countEntry) /\ HasCount(p, countEntry.value)
      <3>1. countEntry.value \in TradeCount /\ countEntry.value.age <= CountTTL + Seen(p)
        BY <1>0, <2>1, HitCount, Bounds DEF TradeCount
      <3> QED
        BY <1>1, <2>1, <3>1, HasCountCarries DEF GetTradeCount
    <2>2. CASE Goto(p, "fetchCount") /\ UNCHANGED locals
      <3>1. pc'[p] = "fetchCount" /\ page[p] = 0
        BY <1>1, <2>2 DEF GetTradeCount, Goto, TypeOK, Carries, Flags
      <3> QED
        BY <1>1, <2>2, <3>1 DEF GetTradeCount, locals, Seen,
               Carries, Flags, CarriesMeta, CarriesCount, CarriesStats, Filtered
    <2> QED
      BY <1>1, <2>1, <2>2 DEF GetTradeCount
  <1>2. CASE FetchCount(p)
    <2>1. CASE Answered(p, [real |-> TRUE, age |-> 0])
      <3> DEFINE n == [real |-> TRUE, age |-> 0]
      <3>1. n \in TradeCount /\ n.real /\ n.age = 0
        BY Defaults
      <3>2. /\ pc'[p] = "SetCount" /\ page'[p] = 0 /\ inStats'[p] = inStats[p]
            /\ trade'[p] = trade[p] /\ tick'[p] = tick[p] /\ Seen(p)' = Seen(p)
        BY <1>2, <2>1 DEF FetchCount, Answered, Goto, TypeOK, Carries, Flags, Seen
      <3>3. Put(p, n)
        BY <2>1 DEF Answered
      <3>4. Counted(p)' = n /\ (inStats[p] => count'[p] = count[p])
        BY <3>1, <3>2, <3>3, PutCarries DEF Counted
      <3>5. Flags(p)' /\ CarriesMeta(p)' /\ CarriesStats(p)'
        BY <3>2 DEF Flags, CarriesMeta, CarriesStats
      <3>6. CarriesCount(p)'
        BY <1>0, <3>1, <3>2, <3>4 DEF Carries, CarriesCount, Filtered
      <3> QED
        BY <3>5, <3>6 DEF Carries
    <2>2. CASE HasCount(p, APIError)
      <3>1. APIError \in TradeCount /\ APIError.age <= CountTTL + Seen(p)
        BY <1>0, Defaults, Bounds DEF APIError
      <3> QED
        BY <1>2, <2>2, <3>1, HasCountCarries DEF FetchCount
    <2> QED
      BY <1>2, <2>1, <2>2 DEF FetchCount
  <1>3. CASE SetCount(p)
    <2>1. Counted(p) \in TradeCount /\ Counted(p).age <= Seen(p)
      BY <1>3, CountedType DEF SetCount, Carries, CarriesCount
    <2>2. Counted(p).age <= CountTTL + Seen(p)
      BY <1>0, <2>1, Bounds DEF TradeCount
    <2> QED
      BY <1>3, <2>1, <2>2, HasCountCarries DEF SetCount
  <1> QED
    BY <1>1, <1>2, <1>3

LEMMA CountStaysKept ==
    ASSUME TypeOK, NEW p \in Tasks, Carries(p), CountKept,
           GetTradeCount(p) \/ FetchCount(p) \/ SetCount(p)
    PROVE  CountKept'
  <1>1. CASE UNCHANGED countEntry
    BY <1>1 DEF CountKept
  <1>2. CASE SetCount(p) /\ ~late[p]
    <2>1. countEntry' = [value |-> Counted(p), ttl |-> CountTTL]
      BY <1>2 DEF SetCount, Set
    <2>2. Counted(p).real /\ Counted(p).age <= 1 /\ Counted(p).age \in Nat
      BY <1>2, CountedType DEF SetCount, Carries, CarriesCount, Seen, TradeCount
    <2> QED
      BY <2>1, <2>2, Bounds DEF CountKept
  <1> QED
    BY <1>1, <1>2 DEF GetTradeCount, FetchCount, SetCount, Set, redis

-----------------------------------------------------------------------------
(* GetWalletStats.                                                         *)

LEMMA HitStats ==
    ASSUME TypeOK, StatsKept, NEW p \in Tasks, Hit(p, statsEntry)
    PROVE  /\ statsEntry.value.count.age <= CountTTL + StatsTTL
           /\ Flattering(statsEntry.value)
  <1>1. statsEntry \in Live(WalletStats, StatsTTL) /\ statsEntry # NoEntry
    BY DEF Hit, TypeOK
  <1>2. statsEntry.value.count \in TradeCount /\ statsEntry.ttl >= 1 /\ statsEntry.ttl \in Nat
    BY <1>1, Bounds DEF Live, WalletStats
  <1>3. statsEntry.value.count.age \in Nat
    BY <1>2 DEF TradeCount
  <1>4. statsEntry.value.count.age + statsEntry.ttl <= CountTTL + StatsTTL + 1
    BY <1>1 DEF StatsKept
  <1> QED
    BY <1>1, <1>2, <1>3, <1>4, Bounds DEF StatsKept

LEMMA MergeCarries ==
    ASSUME TypeOK, NEW p \in Tasks, Carries(p), pc[p] = "pages",
           NEW k \in Nat, NEW cut \in BOOLEAN, cut => late[p], Merge(p, k, cut),
           UNCHANGED <<trade, late, tick, inStats, count>>
    PROVE  Carries(p)'
  <1>1. /\ pc'[p] = "SetStats" /\ page'[p] = 0 /\ inStats[p] /\ Seen(p)' = Seen(p)
    BY MergeType DEF Carries, Flags, Seen
  <1>2. /\ stats'[p].count = stats[p].count /\ stats'[p].wins = WinsRead(k)
        /\ stats'[p].losses = LossesRead(k) /\ stats'[p].cut = cut
    <2>1. stats'[p] = [Closed(p, k) EXCEPT !.cut = cut]
      BY MergeType
    <2>2. /\ [Closed(p, k) EXCEPT !.cut = cut].count = stats[p].count
          /\ [Closed(p, k) EXCEPT !.cut = cut].wins = WinsRead(k)
          /\ [Closed(p, k) EXCEPT !.cut = cut].losses = LossesRead(k)
          /\ [Closed(p, k) EXCEPT !.cut = cut].cut = cut
      BY ClosedType
    <2> QED
      BY <2>1, <2>2, Zenon
  <1>3. stats'[p].wins = Wins \/ stats'[p].losses = 0
    BY <1>2, ClosedPositions
  <1>4. stats'[p].count.age <= CountTTL + Seen(p)
    BY <1>2 DEF Carries, CarriesStats
  <1>5. stats'[p].cut => late'[p]
    <2>1. late' = late
      OBVIOUS
    <2> QED
      BY <1>2, <2>1, Zenon
  <1>6. CarriesStats(p)'
    BY <1>1, <1>3, <1>4, <1>5 DEF CarriesStats, Flattering
  <1>7. Flags(p)' /\ CarriesMeta(p)' /\ CarriesCount(p)'
    BY <1>1 DEF Carries, Flags, CarriesMeta, CarriesCount, Filtered
  <1> QED
    BY <1>6, <1>7 DEF Carries

LEMMA StatsCarries ==
    ASSUME TypeOK, StatsKept, NEW p \in Tasks, Carries(p),
           GetWalletStats(p) \/ NextPage(p) \/ SetStats(p)
    PROVE  Carries(p)'
  <1>0. Seen(p) \in Nat
    BY DEF Seen
  <1>1. CASE GetWalletStats(p)
    <2>1. /\ page'[p] = 0 /\ Seen(p)' = Seen(p) /\ trade'[p] = trade[p]
          /\ count'[p] = count[p] /\ ~inStats[p] /\ Filtered(p) /\ late'[p] = late[p]
      BY <1>1 DEF GetWalletStats, Carries, Flags, Filtered, Seen
    <2>2. CarriesCount(p)' /\ CarriesMeta(p)'
      BY <1>1, <2>1 DEF GetWalletStats, Goto, TypeOK, Carries, CarriesCount, CarriesMeta
    <2>3. CASE Hit(p, statsEntry) /\ stats' = [stats EXCEPT ![p] = statsEntry.value]
               /\ Goto(p, "send") /\ UNCHANGED inStats
      <3>1. pc'[p] = "send" /\ stats'[p] = statsEntry.value
        BY <2>3 DEF Goto, TypeOK
      <3>2. Flags(p)'
        BY <2>1, <3>1 DEF Flags
      <3>3. statsEntry.value.count.age \in Nat
        BY <2>3 DEF Hit, TypeOK, Live, WalletStats, TradeCount
      <3>4. stats'[p].count.age <= CountTTL + StatsTTL + Seen(p)'
        BY <1>0, <2>1, <2>3, <3>1, <3>3, HitStats, Bounds
      <3>5. Flattering(stats[p])'
        BY <2>3, <3>1, HitStats DEF Flattering
      <3>6. CarriesStats(p)'
        BY <3>1, <3>4, <3>5 DEF CarriesStats
      <3> QED
        BY <2>2, <3>2, <3>6 DEF Carries
    <2>4. CASE inStats' = [inStats EXCEPT ![p] = TRUE] /\ Goto(p, "GetTradeCount")
      <3>1. pc'[p] = "GetTradeCount"
        BY <2>4 DEF Goto, TypeOK
      <3>2. Flags(p)' /\ CarriesStats(p)'
        BY <2>1, <3>1 DEF Flags, CarriesStats
      <3> QED
        BY <2>2, <3>2 DEF Carries
    <2> QED
      BY <1>1, <2>3, <2>4 DEF GetWalletStats
  <1>2. CASE NextPage(p)
    <2>1. page[p] \in Nat /\ page[p] < MaxPages /\ inStats[p] /\ pc[p] = "pages"
      BY <1>2, Bounds DEF NextPage, Carries, Flags, TypeOK
    <2>2. page[p] + 1 \in Nat
      BY <2>1
    <2>3. UNCHANGED <<trade, late, tick, inStats, count, meta>>
      BY <1>2 DEF NextPage
    <2>4. CASE page[p] + 1 # MaxPages /\ page' = [page EXCEPT ![p] = page[p] + 1]
               /\ UNCHANGED <<pc, stats>>
      <3>1. page'[p] = page[p] + 1 /\ page'[p] < MaxPages
        BY <2>1, <2>4, Bounds DEF TypeOK
      <3>2. Flags(p)'
        BY <2>1, <2>3, <2>4, <3>1 DEF Carries, Flags
      <3>3. CarriesMeta(p)' /\ CarriesCount(p)' /\ CarriesStats(p)'
        BY <2>1, <2>3, <2>4
           DEF Carries, CarriesMeta, CarriesCount, CarriesStats, Filtered, Seen
      <3> QED
        BY <3>2, <3>3 DEF Carries
    <2>5. CASE Merge(p, page[p] + 1, FALSE)
      BY <2>1, <2>2, <2>3, <2>5, MergeCarries
    <2>6. CASE Merge(p, page[p], late[p])
      <3>1. late[p] \in BOOLEAN
        BY DEF TypeOK
      <3> QED
        BY <2>1, <2>3, <2>6, <3>1, MergeCarries
    <2> QED
      BY <1>2, <2>4, <2>5, <2>6 DEF NextPage
  <1>3. CASE SetStats(p)
    <2>1. pc'[p] = "send" /\ inStats[p] /\ page[p] = 0
      BY <1>3 DEF SetStats, Goto, TypeOK, Carries, Flags
    <2>2. Flags(p)' /\ CarriesMeta(p)' /\ CarriesCount(p)'
      BY <1>3, <2>1 DEF SetStats, locals, Carries, Flags, CarriesMeta, CarriesCount, Filtered, Seen
    <2>3. stats[p].count.age <= CountTTL + Seen(p) /\ Flattering(stats[p])
      BY <1>3 DEF SetStats, Carries, CarriesStats
    <2>4. stats[p].count.age \in Nat
      BY DEF TypeOK, WalletStats, TradeCount
    <2>5. stats[p].count.age <= CountTTL + StatsTTL + Seen(p)
      BY <1>0, <2>3, <2>4, Bounds
    <2>6. stats' = stats /\ tick' = tick
      BY <1>3 DEF SetStats, locals
    <2>7. CarriesStats(p)'
      BY <2>1, <2>3, <2>5, <2>6 DEF CarriesStats, Seen, Flattering
    <2> QED
      BY <2>2, <2>7 DEF Carries
  <1> QED
    BY <1>1, <1>2, <1>3

LEMMA StatsStayKept ==
    ASSUME TypeOK, NEW p \in Tasks, Carries(p), StatsKept,
           GetWalletStats(p) \/ NextPage(p) \/ SetStats(p)
    PROVE  StatsKept'
  <1>1. CASE UNCHANGED statsEntry
    BY <1>1 DEF StatsKept, Flattering
  <1>2. CASE SetStats(p) /\ ~late[p]
    <2>1. statsEntry' = [value |-> stats[p], ttl |-> StatsTTL]
      BY <1>2 DEF SetStats, Set
    <2>2. ~stats[p].cut /\ Flattering(stats[p]) /\ stats[p].count.age <= CountTTL + 1
      <3>1. CarriesStats(p) /\ pc[p] = "SetStats"
        BY <1>2 DEF SetStats, Carries
      <3>2. ~stats[p].cut
        BY <1>2, <3>1, Zenon DEF CarriesStats
      <3>3. Flattering(stats[p]) /\ stats[p].count.age <= CountTTL + Seen(p)
        BY <3>1 DEF CarriesStats
      <3>4. Seen(p) \in 0..1 /\ stats[p].count.age \in Nat
        BY DEF Seen, TypeOK, WalletStats, TradeCount
      <3> QED
        BY <3>2, <3>3, <3>4, Bounds
    <2>3. stats[p].count.age \in Nat
      BY DEF TypeOK, WalletStats, TradeCount
    <2>4. stats[p].count.age + StatsTTL <= CountTTL + StatsTTL + 1
      BY <2>2, <2>3, Bounds
    <2> QED
      BY <2>1, <2>2, <2>4 DEF StatsKept, Flattering
  <1> QED
    BY <1>1, <1>2 DEF GetWalletStats, NextPage, SetStats, Set, redis

LEMMA SendCarries ==
    ASSUME TypeOK, NEW p \in Tasks, Carries(p), Send(p) \/ Deadline(p)
    PROVE  Carries(p)'
  <1>1. CASE Send(p)
    BY <1>1, EndCarries DEF Send
  <1>2. CASE Deadline(p)
    <2>1. late'[p] /\ pc[p] # "idle"
      BY <1>2 DEF Deadline, TypeOK
    <2>2. UNCHANGED <<pc, trade, tick, inStats, page, meta, count, stats>>
      BY <1>2 DEF Deadline
    <2>3. Flags(p)'
      BY <2>1, <2>2 DEF Carries, Flags
    <2>4. CarriesMeta(p)'
      BY <2>1, <2>2 DEF Carries, CarriesMeta, Seen
    <2>5. CarriesCount(p)'
      BY <2>2 DEF Carries, CarriesCount, Filtered, Counted, Seen
    <2>6. CarriesStats(p)'
      BY <2>1, <2>2 DEF Carries, CarriesStats, Flattering, Seen
    <2> QED
      BY <2>3, <2>4, <2>5, <2>6 DEF Carries
  <1> QED
    BY <1>1, <1>2

-----------------------------------------------------------------------------
(* A tick makes every value at most one older, and takes one from the      *)
(* remaining lifetime of an entry.                                         *)

LEMMA TickKeepsMeta ==
    ASSUME TypeOK, MetaKept, Tick
    PROVE  MetaKept'
  <1> SUFFICES ASSUME metaEntry' # NoEntry
               PROVE  /\ metaEntry'.value.age + metaEntry'.ttl <= Lifetime(metaEntry'.value) + 1
                      /\ ~metaEntry'.value.cut
    BY DEF MetaKept, Lifetime
  <1>1. metaEntry # NoEntry => metaEntry.value \in Meta
    BY DEF TypeOK, Live
  <1>2. metaEntry # NoEntry => OlderMeta(metaEntry.value) \in Meta
    BY <1>1, OlderMetaType
  <1>3. /\ metaEntry # NoEntry /\ metaEntry.ttl \in Nat
        /\ metaEntry'.value = OlderMeta(metaEntry.value)
        /\ metaEntry'.ttl = metaEntry.ttl - 1
    BY <1>2, AfterType, Bounds DEF Tick, TypeOK
  <1>4. /\ metaEntry'.value.age <= metaEntry.value.age + 1
        /\ metaEntry'.value.cat = metaEntry.value.cat
        /\ metaEntry'.value.cut = metaEntry.value.cut
    BY <1>1, <1>3, OlderMetaType
  <1>5. metaEntry.value.age \in Nat /\ metaEntry'.value.age \in Nat
    BY <1>1, <1>2, <1>3 DEF Meta
  <1>6. Lifetime(metaEntry'.value) = Lifetime(metaEntry.value) /\ Lifetime(metaEntry.value) \in Nat
    BY <1>4, Bounds DEF Lifetime
  <1>7. metaEntry.value.age + metaEntry.ttl <= Lifetime(metaEntry.value) + 1
    BY <1>3 DEF MetaKept
  <1>8. ~metaEntry'.value.cut
    BY <1>3, <1>4, Zenon DEF MetaKept
  <1> QED
    BY <1>3, <1>4, <1>5, <1>6, <1>7, <1>8

LEMMA TickKeepsCount ==
    ASSUME TypeOK, CountKept, Tick
    PROVE  CountKept'
  <1> SUFFICES ASSUME countEntry' # NoEntry
               PROVE  /\ countEntry'.value.real
                      /\ countEntry'.value.age + countEntry'.ttl <= CountTTL + 1
    BY DEF CountKept
  <1>1. countEntry # NoEntry => countEntry.value \in TradeCount
    BY DEF TypeOK, Live
  <1>2. countEntry # NoEntry => OlderCount(countEntry.value) \in TradeCount
    BY <1>1, OlderCountType
  <1>3. /\ countEntry # NoEntry /\ countEntry.ttl \in Nat
        /\ countEntry'.value = OlderCount(countEntry.value)
        /\ countEntry'.ttl = countEntry.ttl - 1
    BY <1>2, AfterType, Bounds DEF Tick, TypeOK
  <1>4. /\ countEntry'.value.age <= countEntry.value.age + 1
        /\ countEntry'.value.real = countEntry.value.real
    BY <1>1, <1>3, OlderCountType
  <1>5. countEntry.value.age \in Nat /\ countEntry'.value.age \in Nat
    BY <1>1, <1>2, <1>3 DEF TradeCount
  <1>6. countEntry.value.age + countEntry.ttl <= CountTTL + 1
    BY <1>3 DEF CountKept
  <1>7. countEntry'.value.real
    BY <1>3, <1>4, Zenon DEF CountKept
  <1> QED
    BY <1>3, <1>4, <1>5, <1>6, <1>7, Bounds

LEMMA TickKeepsStats ==
    ASSUME TypeOK, StatsKept, Tick
    PROVE  StatsKept'
  <1> SUFFICES ASSUME statsEntry' # NoEntry
               PROVE  /\ statsEntry'.value.count.age + statsEntry'.ttl
                            <= CountTTL + StatsTTL + 1
                      /\ ~statsEntry'.value.cut
                      /\ Flattering(statsEntry'.value)
    BY DEF StatsKept, Flattering
  <1>1. statsEntry # NoEntry => statsEntry.value \in WalletStats
    BY DEF TypeOK, Live
  <1>2. statsEntry # NoEntry => OlderStats(statsEntry.value) \in WalletStats
    BY <1>1, OlderStatsType
  <1>3. /\ statsEntry # NoEntry /\ statsEntry.ttl \in Nat
        /\ statsEntry'.value = OlderStats(statsEntry.value)
        /\ statsEntry'.ttl = statsEntry.ttl - 1
    BY <1>2, AfterType, Bounds DEF Tick, TypeOK
  <1>4. /\ statsEntry'.value.count = OlderCount(statsEntry.value.count)
        /\ statsEntry'.value.wins = statsEntry.value.wins
        /\ statsEntry'.value.losses = statsEntry.value.losses
        /\ statsEntry'.value.cut = statsEntry.value.cut
    BY <1>1, <1>3, OlderStatsType
  <1>5. statsEntry.value.count \in TradeCount
    BY <1>1, <1>3 DEF WalletStats
  <1>6. /\ statsEntry.value.count.age \in Nat /\ statsEntry'.value.count.age \in Nat
        /\ statsEntry'.value.count.age <= statsEntry.value.count.age + 1
    BY <1>4, <1>5, OlderCountType DEF TradeCount
  <1>7. statsEntry.value.count.age + statsEntry.ttl <= CountTTL + StatsTTL + 1
    BY <1>3 DEF StatsKept
  <1>8. ~statsEntry'.value.cut
    BY <1>3, <1>4, Zenon DEF StatsKept
  <1>9. Flattering(statsEntry'.value)
    BY <1>3, <1>4 DEF StatsKept, Flattering
  <1> QED
    BY <1>3, <1>6, <1>7, <1>8, <1>9, Bounds

LEMMA TickCarries ==
    ASSUME TypeOK, Tick, NEW p \in Tasks, Carries(p)
    PROVE  Carries(p)'
  <1>1. /\ Seen(p) = 0 /\ (pc[p] # "idle" => Seen(p)' = 1)
        /\ UNCHANGED <<pc, trade, late, inStats, page>>
    BY DEF Tick, Seen
  <1>2. /\ meta[p] \in Meta /\ count[p] \in TradeCount
        /\ stats[p] \in WalletStats /\ stats[p].count \in TradeCount
    BY DEF TypeOK, WalletStats
  <1>3. meta'[p].age <= meta[p].age + 1 /\ meta'[p].cut = meta[p].cut
    <2>1. CASE meta[p] = NoMeta
      <3>1. meta'[p] = meta[p] /\ meta[p].age \in Nat
        BY <1>2, <2>1 DEF Tick, Meta
      <3> QED
        BY <3>1
    <2>2. CASE meta[p] # NoMeta
      BY <1>2, <2>2, OlderMetaType DEF Tick
    <2> QED
      BY <2>1, <2>2
  <1>4. /\ count'[p].real = count[p].real /\ count'[p].age <= count[p].age + 1
        /\ count'[p].age \in Nat /\ count[p].age \in Nat
    <2>1. count'[p] = OlderCount(count[p])
      BY DEF Tick
    <2> QED
      BY <1>2, <2>1, OlderCountType DEF TradeCount
  <1>5. stats'[p] = OlderStats(stats[p])
    BY DEF Tick
  <1>6. /\ stats'[p].count = OlderCount(stats[p].count)
        /\ stats'[p].wins = stats[p].wins /\ stats'[p].losses = stats[p].losses
        /\ stats'[p].cut = stats[p].cut
    BY <1>2, <1>5, OlderStatsType
  <1>7. /\ stats'[p].count.real = stats[p].count.real
        /\ stats'[p].count.age <= stats[p].count.age + 1
        /\ stats'[p].count.age \in Nat /\ stats[p].count.age \in Nat
    BY <1>2, <1>6, OlderCountType DEF TradeCount
  <1>8. Flags(p)'
    BY <1>1 DEF Carries, Flags
  <1>9. CarriesMeta(p)'
    <2> SUFFICES ASSUME pc[p] = "SetMeta"
                 PROVE  meta'[p].age <= Seen(p)' /\ (meta'[p].cut => late[p])
      BY <1>1 DEF CarriesMeta
    <2>1. meta[p].age <= Seen(p) /\ (meta[p].cut => late[p])
      BY DEF Carries, CarriesMeta
    <2>2. meta'[p].cut => late[p]
      BY <1>3, <2>1, Zenon
    <2>3. meta[p].age \in Nat /\ meta'[p].age \in Nat
      BY <1>2, TickType DEF Meta, TypeOK
    <2> QED
      BY <1>1, <1>3, <2>1, <2>2, <2>3
  <1>10. CarriesCount(p)'
    <2>1. CASE pc[p] = "SetCount"
      <3>1. Counted(p).real /\ Counted(p).age <= 0
        BY <1>1, <2>1 DEF Carries, CarriesCount
      <3>2. Counted(p)'.real = Counted(p).real /\ Counted(p)'.age <= Counted(p).age + 1
        BY <1>1, <1>4, <1>7 DEF Counted
      <3>3. Counted(p)'.real
        BY <3>1, <3>2, Zenon
      <3>4. Counted(p)'.age <= Seen(p)'
        BY <1>1, <1>4, <1>7, <2>1, <3>1, <3>2 DEF Counted
      <3>5. trade[p] /\ inStats[p] => count'[p].real /\ count'[p].age <= CountTTL + Seen(p)'
        <4> SUFFICES ASSUME trade[p], inStats[p]
                     PROVE  count'[p].real /\ count'[p].age <= CountTTL + Seen(p)'
          OBVIOUS
        <4>1. count[p].real /\ count[p].age <= CountTTL + Seen(p)
          BY DEF Carries, CarriesCount, Filtered
        <4>2. count'[p].real
          BY <1>4, <4>1, Zenon
        <4> QED
          BY <1>1, <1>4, <2>1, <4>1, <4>2, Bounds
      <3> QED
        BY <1>1, <2>1, <3>3, <3>4, <3>5 DEF CarriesCount, Filtered
    <2>2. CASE pc[p] # "SetCount"
      <3> SUFFICES ASSUME trade[p], Filtered(p)
                   PROVE  count'[p].real /\ count'[p].age <= CountTTL + Seen(p)'
        BY <1>1, <2>2 DEF CarriesCount, Filtered
      <3>1. count[p].real /\ count[p].age <= CountTTL + Seen(p) /\ pc[p] # "idle"
        BY DEF Carries, CarriesCount, Filtered, Flags
      <3>2. count'[p].real
        BY <1>4, <3>1, Zenon
      <3> QED
        BY <1>1, <1>4, <3>1, <3>2, Bounds
    <2> QED
      BY <2>1, <2>2
  <1>11. CarriesStats(p)'
    <2>1. pc[p] \in {"pages", "SetStats"} => stats'[p].count.age <= CountTTL + Seen(p)'
      BY <1>1, <1>7, Bounds DEF Carries, CarriesStats
    <2>2. pc[p] = "SetStats" /\ stats'[p].cut => late[p]
      BY <1>6, Zenon DEF Carries, CarriesStats
    <2>3. pc[p] = "send" => stats'[p].count.age <= CountTTL + StatsTTL + Seen(p)'
      BY <1>1, <1>7, Bounds DEF Carries, CarriesStats
    <2>4. pc[p] \in {"SetStats", "send"} => Flattering(stats[p])'
      BY <1>6 DEF Carries, CarriesStats, Flattering
    <2> QED
      BY <1>1, <2>1, <2>2, <2>3, <2>4 DEF CarriesStats
  <1> QED
    BY <1>8, <1>9, <1>10, <1>11 DEF Carries

-----------------------------------------------------------------------------
(* The invariant.                                                          *)

LEMMA InitIInv == Init => IInv
  <1> SUFFICES ASSUME Init PROVE IInv
    OBVIOUS
  <1>1. TypeOK
    <2>1. 0 \in 0..MaxPages /\ "idle" \in Pc
      BY Bounds DEF Pc
    <2> QED
      BY <2>1, Defaults DEF Init, TypeOK
  <1>2. MetaKept /\ CountKept /\ StatsKept
    BY DEF Init, MetaKept, CountKept, StatsKept
  <1>3. \A p \in Tasks : Carries(p)
    BY DEF Init, Carries, Flags, CarriesMeta, CarriesCount, CarriesStats, Filtered
  <1> QED
    BY <1>1, <1>2, <1>3 DEF IInv

\* A step leaves alone the entries it is not about.
LEMMA OtherEntries ==
    ASSUME IInv, NEW p \in Tasks, Trade(p) \/ Press(p) \/ Step(p)
    PROVE  MetaKept' /\ CountKept' /\ StatsKept'
  <1>1. GetMeta(p) \/ FetchMeta(p) \/ SetMeta(p) => UNCHANGED <<countEntry, statsEntry>>
    BY DEF GetMeta, FetchMeta, SetMeta, redis
  <1>2. GetTradeCount(p) \/ FetchCount(p) \/ SetCount(p) => UNCHANGED <<metaEntry, statsEntry>>
    BY DEF GetTradeCount, FetchCount, SetCount, redis
  <1>3. GetWalletStats(p) \/ NextPage(p) \/ SetStats(p) => UNCHANGED <<metaEntry, countEntry>>
    BY DEF GetWalletStats, NextPage, SetStats, redis
  <1>4. Trade(p) \/ Press(p) \/ Send(p) \/ Deadline(p) => UNCHANGED redis
    BY DEF Trade, Press, Begin, Send, Deadline, redis
  <1>5. UNCHANGED metaEntry => MetaKept'
    BY DEF IInv, MetaKept, Lifetime
  <1>6. UNCHANGED countEntry => CountKept'
    BY DEF IInv, CountKept
  <1>7. UNCHANGED statsEntry => StatsKept'
    BY DEF IInv, StatsKept, Flattering
  <1>8. MetaKept'
    BY <1>2, <1>3, <1>4, <1>5, MetaStaysKept DEF IInv, Step, redis
  <1>9. CountKept'
    BY <1>1, <1>3, <1>4, <1>6, CountStaysKept DEF IInv, Step, redis
  <1>10. StatsKept'
    BY <1>1, <1>2, <1>4, <1>7, StatsStayKept DEF IInv, Step, redis
  <1> QED
    BY <1>8, <1>9, <1>10

LEMMA TaskStep ==
    ASSUME IInv, NEW p \in Tasks, Trade(p) \/ Press(p) \/ Step(p)
    PROVE  IInv'
  <1>1. TypeOK /\ CountKept /\ StatsKept /\ Carries(p) /\ Flags(p)
    BY DEF IInv, Carries
  <1>2. TypeOK'
    BY <1>1, BeginType, GetMetaType, CountType, StatsType, SendType DEF Step
  <1>3. Carries(p)'
    BY <1>1, BeginCarries, MetaCarries, CountCarries, StatsCarries, SendCarries DEF Step
  <1>4. ASSUME NEW q \in Tasks, q # p PROVE Carries(q)'
    BY <1>1, <1>4, OthersStill, CarriesStill DEF IInv
  <1> QED
    BY <1>2, <1>3, <1>4, OtherEntries DEF IInv

LEMMA TickStep ==
    ASSUME IInv, Tick
    PROVE  IInv'
  BY TickType, TickKeepsMeta, TickKeepsCount, TickKeepsStats, TickCarries DEF IInv

LEMMA StutterStep ==
    ASSUME IInv, UNCHANGED vars
    PROVE  IInv'
  <1>1. TypeOK'
    BY DEF IInv, TypeOK, vars, redis, locals
  <1>2. MetaKept' /\ CountKept' /\ StatsKept'
    BY DEF IInv, MetaKept, CountKept, StatsKept, Lifetime, Flattering, vars, redis
  <1>3. \A p \in Tasks : Carries(p)'
    BY CarriesStill DEF IInv, Still, vars, locals
  <1> QED
    BY <1>1, <1>2, <1>3 DEF IInv

LEMMA StepIInv == IInv /\ [Next]_vars => IInv'
  <1> SUFFICES ASSUME IInv, [Next]_vars PROVE IInv'
    OBVIOUS
  <1> QED
    BY TaskStep, TickStep, StutterStep DEF Next

LEMMA Invariance == Spec => []IInv
  BY InitIInv, StepIInv, PTL DEF Spec

-----------------------------------------------------------------------------
(* Theorems.                                                               *)

\* Every entry and every local variable is what the code can hold there; the
\* entry of an invalid market never outlives its shorter lifetime.
THEOREM TypeCorrect == Spec => []TypeOK
  <1>1. IInv => TypeOK
    BY DEF IInv
  <1> QED
    BY <1>1, Invariance, PTL

\* A category is at most as old as the lifetime of its entry (GetMeta does not
\* renew the entry it reads).
THEOREM CategoriesExpire == Spec => []MetaIsFresh
  <1>1. IInv => MetaIsFresh
    <2> SUFFICES ASSUME IInv, metaEntry # NoEntry
                 PROVE  metaEntry.value.age <= Lifetime(metaEntry.value)
      BY DEF MetaIsFresh, Lifetime
    <2>1. metaEntry \in Live(Meta, MetaTTL)
      BY DEF IInv, TypeOK
    <2>2. metaEntry.value.age \in Nat /\ metaEntry.ttl \in Nat /\ metaEntry.ttl >= 1
      BY <2>1, Bounds DEF Live, Meta
    <2>3. Lifetime(metaEntry.value) \in Nat
      BY Bounds DEF Lifetime
    <2>4. metaEntry.value.age + metaEntry.ttl <= Lifetime(metaEntry.value) + 1
      BY DEF IInv, MetaKept
    <2> QED
      BY <2>2, <2>3, <2>4
  <1> QED
    BY <1>1, Invariance, PTL

\* The count a worker filters by is real and fresh, the one it shows is not older
\* than both lifetimes, and no error is kept as the entry of a count.  (Of an
\* error in the statistics only the age is bounded.)
THEOREM CountsExpire == Spec => []CountsAreFresh
  <1>1. IInv => CountsAreFresh
    <2> SUFFICES ASSUME IInv PROVE CountsAreFresh
      OBVIOUS
    <2>1. countEntry # NoEntry => countEntry.value.real
      BY DEF IInv, CountKept
    <2>2. ASSUME NEW p \in Shown
          PROVE  /\ trade[p] => count[p].real /\ count[p].age <= CountTTL + 1
                 /\ stats[p].count.age <= CountTTL + StatsTTL + 1
      <3>1. p \in Tasks /\ pc[p] = "send" /\ Seen(p) \in 0..1
        BY DEF Shown, Seen
      <3>2. CarriesCount(p) /\ CarriesStats(p)
        BY <3>1 DEF IInv, Carries
      <3>3. count[p].age \in Nat /\ stats[p].count.age \in Nat
        BY <3>1 DEF IInv, TypeOK, TradeCount, WalletStats
      <3>4. trade[p] => count[p].real /\ count[p].age <= CountTTL + Seen(p)
        BY <3>1, <3>2 DEF CarriesCount, Filtered
      <3>5. stats[p].count.age <= CountTTL + StatsTTL + Seen(p)
        BY <3>1, <3>2 DEF CarriesStats
      <3> QED
        BY <3>1, <3>3, <3>4, <3>5, Bounds
    <2> QED
      BY <2>1, <2>2 DEF CountsAreFresh
  <1> QED
    BY <1>1, Invariance, PTL

\* What a task missed because its own deadline passed is not cached.
THEOREM DeadlinesAreNotCached == Spec => []CutShortIsNotCached
  <1>1. IInv => CutShortIsNotCached
    BY DEF IInv, MetaKept, StatsKept, CutShortIsNotCached
  <1> QED
    BY <1>1, Invariance, PTL

LEMMA ShareOfWins ==
    ASSUME NEW s \in WalletStats, Flattering(s)
    PROVE  s.wins * (Wins + Losses) >= Wins * (s.wins + s.losses)
  <1>1. s.wins \in Nat /\ s.losses \in Nat /\ s.wins <= Wins /\ s.losses <= Losses
    BY Bounds DEF WalletStats
  <1>2. CASE s.wins = Wins
    <2>1. Wins * (Wins + s.losses) <= Wins * (Wins + Losses)
      BY <1>1, Bounds
    <2> QED
      BY <1>2, <2>1
  <1>3. CASE s.losses = 0
    <2>1. s.wins * (Wins + Losses) = s.wins * Wins + s.wins * Losses
      BY <1>1, Bounds
    <2>2. s.wins * Losses >= 0 /\ s.wins * Losses \in Nat /\ s.wins * Wins \in Nat
      BY <1>1, Bounds
    <2>3. Wins * (s.wins + s.losses) = s.wins * Wins
      BY <1>1, <1>3, Bounds
    <2> QED
      BY <2>1, <2>2, <2>3
  <1> QED
    BY <1>2, <1>3 DEF Flattering

\* Missing pages never make the share of wins smaller than it is.
THEOREM PagesFlatter == Spec => []RateNeverUnderstated
  <1>1. IInv => RateNeverUnderstated
    <2> SUFFICES ASSUME IInv PROVE RateNeverUnderstated
      OBVIOUS
    <2>1. ASSUME NEW p \in Shown PROVE stats[p] \in WalletStats /\ Flattering(stats[p])
      BY DEF Shown, IInv, TypeOK, Carries, CarriesStats
    <2>2. statsEntry # NoEntry => statsEntry.value \in WalletStats /\ Flattering(statsEntry.value)
      BY DEF IInv, TypeOK, StatsKept, Live
    <2>3. \A s \in {stats[p] : p \in Shown} \cup
                   (IF statsEntry = NoEntry THEN {} ELSE {statsEntry.value}) :
              s \in WalletStats /\ Flattering(s)
      BY <2>1, <2>2
    <2> QED
      BY <2>3, ShareOfWins DEF RateNeverUnderstated
  <1> QED
    BY <1>1, Invariance, PTL
=============================================================================
