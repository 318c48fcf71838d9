------------------------------ MODULE ApiCache ------------------------------
(***************************************************************************)
(* The Polymarket API clients over their Redis caches: GetMeta             *)
(* (internal/polymarket/markets.go), GetTradeCount and GetWalletStats      *)
(* (internal/polymarket/trades.go), on internal/cache/redis.go.            *)
(*                                                                         *)
(* One market and one wallet are followed, as every entry is keyed by one  *)
(* of them.  A task is a trade that a worker processes (category, count,   *)
(* statistics, under a deadline of 45 s) or a press of the statistics      *)
(* button (statistics only, no deadline).  A step is one access to Redis   *)
(* or one remote call.  Calls fail at will, after the 10 s of the HTTP     *)
(* client for instance; after the deadline calls fail and nothing reaches  *)
(* Redis, because the same context is passed to both.  Until then Redis is *)
(* taken to answer.                                                        *)
(*                                                                         *)
(* Time passes in ticks.  A task lasts less than a tick, so it sees one    *)
(* end at most.  A value is known by its age: what it was sampled from     *)
(* held that many ticks ago.                                               *)
(***************************************************************************)
EXTENDS Naturals, SequencesExt

CONSTANTS
    Tasks,          \* goroutines in these functions at one time
    MetaTTL,        \* lifetime of a market's category (12 h), in ticks
    NilTTL,         \* of the entry of an invalid market (30 min)
    CountTTL,       \* of a trade count (10 min)
    StatsTTL,       \* of a wallet's statistics (15 min)
    TagLists,       \* tags a market may have, sequences of [id, slug]
    Fragments,      \* series fragments its slug contains
    BlackTags,      \* tag ids of markets to be dropped
    SportTagIDs,    \* [ids of sport tags -> categories]
    SeriesToSport,  \* [series fragments -> categories]
    NonSportSlugs,  \* keys of nonSportEmojis
    Wins, Even, Losses,     \* closed positions of the wallet
    PageSize,       \* positions on a page (50)
    MaxPages,       \* pages read at most (20)
    Nil,            \* no category: the market is dropped
    NoEntry

\* The keys of AllCategories that a market can be given.
Categories == Range(SportTagIDs) \cup Range(SeriesToSport) \cup NonSportSlugs \cup {"other"}

ASSUME ApiCacheAssumption ==
    /\ {MetaTTL, NilTTL, CountTTL, StatsTTL, PageSize, MaxPages} \subseteq Nat \ {0}
    /\ NilTTL <= MetaTTL
    /\ {Wins, Even, Losses} \subseteq Nat
    /\ Fragments \subseteq DOMAIN SeriesToSport
    /\ Nil \notin Categories

VARIABLES
    tags,           \* the market's tags
    metaEntry, countEntry, statsEntry,  \* Redis
    pc,             \* where each task is
    trade,          \* it is a trade, not a press of the button
    late,           \* its deadline has passed
    tick,           \* a tick has ended since it began
    inStats,        \* it runs GetTradeCount on behalf of GetWalletStats
    page,           \* pages of closed positions it has read
    meta, count, stats      \* its local variables

redis  == <<metaEntry, countEntry, statsEntry>>
locals == <<trade, late, tick, inStats, page, meta, count, stats>>
vars   == <<tags, redis, pc, locals>>

\* Ages that only a fault could reach are not told apart.
Old == MetaTTL + CountTTL + StatsTTL + 3

Older(n) == IF n >= Old THEN n ELSE n + 1

\* A category (or Nil) with the age of the answer; cut: the answer was an
\* error because the deadline had passed.
Meta == [cat : Categories \cup {Nil}, age : 0..Old, cut : BOOLEAN]

\* A trade count; 999 in the code when ~real.
TradeCount == [real : BOOLEAN, age : 0..Old]

\* WalletStats.  The P&L comes from one more call and depends on nothing else.
WalletStats == [count : TradeCount, wins : 0..Wins, losses : 0..Losses, cut : BOOLEAN]

Live(values, ttl) == [value : values, ttl : 1..ttl]

APIError == [real |-> FALSE, age |-> 0]

NoMeta  == [cat |-> Nil, age |-> 0, cut |-> FALSE]
NoStats == [count |-> APIError, wins |-> 0, losses |-> 0, cut |-> FALSE]

Pc == {"idle", "GetMeta", "fetchMeta", "SetMeta", "GetTradeCount", "fetchCount",
       "SetCount", "GetWalletStats", "pages", "SetStats", "send"}

TypeOK ==
    /\ tags \in TagLists
    /\ metaEntry \in {NoEntry} \cup Live(Meta, MetaTTL)
    /\ metaEntry # NoEntry /\ metaEntry.value.cat = Nil => metaEntry.ttl <= NilTTL
    /\ countEntry \in {NoEntry} \cup Live(TradeCount, CountTTL)
    /\ statsEntry \in {NoEntry} \cup Live(WalletStats, StatsTTL)
    /\ pc \in [Tasks -> Pc]
    /\ trade \in [Tasks -> BOOLEAN]
    /\ late \in [Tasks -> BOOLEAN]
    /\ tick \in [Tasks -> BOOLEAN]
    /\ inStats \in [Tasks -> BOOLEAN]
    /\ page \in [Tasks -> 0..MaxPages]
    /\ meta \in [Tasks -> Meta]
    /\ count \in [Tasks -> TradeCount]
    /\ stats \in [Tasks -> WalletStats]
    /\ \A p \in Tasks : late[p] => trade[p]

Init ==
    /\ tags \in TagLists
    /\ metaEntry = NoEntry
    /\ countEntry = NoEntry
    /\ statsEntry = NoEntry
    /\ pc = [p \in Tasks |-> "idle"]
    /\ trade = [p \in Tasks |-> FALSE]
    /\ late = [p \in Tasks |-> FALSE]
    /\ tick = [p \in Tasks |-> FALSE]
    /\ inStats = [p \in Tasks |-> FALSE]
    /\ page = [p \in Tasks |-> 0]
    /\ meta = [p \in Tasks |-> NoMeta]
    /\ count = [p \in Tasks |-> APIError]
    /\ stats = [p \in Tasks |-> NoStats]

-----------------------------------------------------------------------------
(* Resolving a market's category (fetchMeta after the two calls).          *)

Black(t) == t.id \in BlackTags
Sport(t) == t.id \in DOMAIN SportTagIDs
Topic(t) == t.slug \in NonSportSlugs

\* Priorities: a sport by the first tag that has one, a sport by the slug (the
\* table is a map, so any fragment may be met first), a topic by the first tag
\* that has one, "other".
Category(ts) ==
    LET sport == SelectInSeq(ts, Sport)
        topic == SelectInSeq(ts, Topic)
    IN  IF sport # 0 THEN {SportTagIDs[ts[sport].id]}
        ELSE IF Fragments # {} THEN {SeriesToSport[f] : f \in Fragments}
        ELSE IF topic # 0 THEN {ts[topic].slug}
        ELSE {"other"}

Blacklisted(ts) == \E i \in 1..Len(ts) : Black(ts[i])

\* What fetchMeta makes of the tags it decoded.
Resolve(ts) == IF Blacklisted(ts) THEN {Nil} ELSE Category(ts)

-----------------------------------------------------------------------------
(* Redis and the beginning and end of a task.                              *)

\* The write does not depend on the deadline.
SetAnyway(p, entry, v, ttl) == [value |-> v, ttl |-> ttl]

\* SetJSON and SetString: nothing is stored after the deadline.
Set(p, entry, v, ttl) == IF late[p] THEN entry ELSE [value |-> v, ttl |-> ttl]

\* GetJSON and GetString: an error of Redis is a miss, as after the deadline.
Hit(p, entry) == entry # NoEntry /\ ~late[p]

Goto(p, at) == pc' = [pc EXCEPT ![p] = at]

Begin(p, isTrade, at) ==
    /\ pc[p] = "idle"
    /\ Goto(p, at)
    /\ trade' = [trade EXCEPT ![p] = isTrade]
    /\ UNCHANGED <<tags, redis, late, tick, inStats, page, meta, count, stats>>

\* A trade has passed the ban-word filter.
Trade(p) == Begin(p, TRUE, "GetMeta")

\* stats:<wallet>
Press(p) == Begin(p, FALSE, "GetWalletStats")

\* The task is over; its variables are gone.
End(p) ==
    /\ Goto(p, "idle")
    /\ trade' = [trade EXCEPT ![p] = FALSE]
    /\ late' = [late EXCEPT ![p] = FALSE]
    /\ tick' = [tick EXCEPT ![p] = FALSE]
    /\ inStats' = [inStats EXCEPT ![p] = FALSE]
    /\ page' = [page EXCEPT ![p] = 0]
    /\ meta' = [meta EXCEPT ![p] = NoMeta]
    /\ count' = [count EXCEPT ![p] = APIError]
    /\ stats' = [stats EXCEPT ![p] = NoStats]

\* SendAlert, or the reply with the statistics.
Send(p) ==
    /\ pc[p] = "send"
    /\ End(p)
    /\ UNCHANGED <<tags, redis>>

-----------------------------------------------------------------------------
(* GetMeta.                                                                *)

\* The worker drops the trade without a category and goes on with one (what
\* depends on it is in AlertPipeline).
HasMeta(p, m) ==
    \/ /\ m.cat # Nil
       /\ Goto(p, "GetTradeCount")
       /\ meta' = [meta EXCEPT ![p] = NoMeta]
       /\ UNCHANGED <<trade, late, tick, inStats, page, count, stats>>
    \/ m.cat = Nil /\ End(p)

MissMeta(p) ==
    /\ ~Hit(p, metaEntry)
    /\ Goto(p, "fetchMeta")
    /\ UNCHANGED <<metaEntry, locals>>

\* An answer from the cache renews its entry.
GetMetaSliding(p) ==
    /\ pc[p] = "GetMeta"
    /\ \/ /\ Hit(p, metaEntry)
          /\ HasMeta(p, metaEntry.value)
          /\ metaEntry' = [metaEntry EXCEPT !.ttl =
                              IF metaEntry.value.cat = Nil THEN NilTTL ELSE MetaTTL]
       \/ MissMeta(p)
    /\ UNCHANGED <<tags, countEntry, statsEntry>>

GetMeta(p) ==
    /\ pc[p] = "GetMeta"
    /\ \/ Hit(p, metaEntry) /\ HasMeta(p, metaEntry.value) /\ UNCHANGED metaEntry
       \/ MissMeta(p)
    /\ UNCHANGED <<tags, countEntry, statsEntry>>

\* fetchMeta: two calls.  The body of the second is decoded without looking at
\* the error, so it may as well hold no tags.  An inactive or closed market and
\* any other failure are Nil.
FetchMeta(p) ==
    /\ pc[p] = "fetchMeta"
    /\ \/ /\ ~late[p]
          /\ \E c \in Resolve(tags) \cup Resolve(<<>>) :
                meta' = [meta EXCEPT ![p] = [cat |-> c, age |-> 0, cut |-> FALSE]]
       \/ meta' = [meta EXCEPT ![p] = [cat |-> Nil, age |-> 0, cut |-> late[p]]]
    /\ Goto(p, "SetMeta")
    /\ UNCHANGED <<tags, redis, trade, late, tick, inStats, page, count, stats>>

\* One lifetime for both kinds of entry.
SetMetaOneLifetime(p) ==
    /\ pc[p] = "SetMeta"
    /\ metaEntry' = Set(p, metaEntry, meta[p], MetaTTL)
    /\ HasMeta(p, meta[p])
    /\ UNCHANGED <<tags, countEntry, statsEntry>>

\* An invalid market gets the shorter lifetime.
SetMeta(p) ==
    /\ pc[p] = "SetMeta"
    /\ metaEntry' = Set(p, metaEntry, meta[p],
                        IF meta[p].cat = Nil THEN NilTTL ELSE MetaTTL)
    /\ HasMeta(p, meta[p])
    /\ UNCHANGED <<tags, countEntry, statsEntry>>

-----------------------------------------------------------------------------
(* GetTradeCount, for the worker or within GetWalletStats.                 *)

\* Where the caller keeps the count, and what it was.
Put(p, n) ==
    IF inStats[p] THEN stats' = [stats EXCEPT ![p].count = n] /\ UNCHANGED count
                  ELSE count' = [count EXCEPT ![p] = n] /\ UNCHANGED stats

Counted(p) == IF inStats[p] THEN stats[p].count ELSE count[p]

\* The caller goes on: a worker drops the trade when the count is an error.
HasCount(p, n) ==
    \/ /\ inStats[p]
       /\ Put(p, n)
       /\ Goto(p, "pages")
       /\ UNCHANGED <<trade, late, tick, inStats, page, meta>>
    \/ /\ ~inStats[p] /\ n.real
       /\ Put(p, n)
       /\ Goto(p, "GetWalletStats")
       /\ UNCHANGED <<trade, late, tick, inStats, page, meta>>
    \/ ~inStats[p] /\ ~n.real /\ End(p)

GetTradeCount(p) ==
    /\ pc[p] = "GetTradeCount"
    /\ \/ Hit(p, countEntry) /\ HasCount(p, countEntry.value)
       \/ ~Hit(p, countEntry) /\ Goto(p, "fetchCount") /\ UNCHANGED locals
    /\ UNCHANGED <<tags, redis>>

Answered(p, n) ==
    /\ Put(p, n)
    /\ Goto(p, "SetCount")
    /\ UNCHANGED <<trade, late, tick, inStats, page, meta>>

\* An error is stored like a count.
FetchCountKeepingErrors(p) ==
    /\ pc[p] = "fetchCount"
    /\ \/ ~late[p] /\ Answered(p, [real |-> TRUE, age |-> 0])
       \/ Answered(p, APIError)
    /\ UNCHANGED <<tags, redis>>

\* An error is returned at once and not stored.
FetchCount(p) ==
    /\ pc[p] = "fetchCount"
    /\ \/ ~late[p] /\ Answered(p, [real |-> TRUE, age |-> 0])
       \/ HasCount(p, APIError)
    /\ UNCHANGED <<tags, redis>>

SetCount(p) ==
    /\ pc[p] = "SetCount"
    /\ countEntry' = Set(p, countEntry, Counted(p), CountTTL)
    /\ HasCount(p, Counted(p))
    /\ UNCHANGED <<tags, metaEntry, statsEntry>>

-----------------------------------------------------------------------------
(* GetWalletStats.                                                         *)

GetWalletStats(p) ==
    /\ pc[p] = "GetWalletStats"
    /\ \/ /\ Hit(p, statsEntry)
          /\ stats' = [stats EXCEPT ![p] = statsEntry.value]
          /\ Goto(p, "send")
          /\ UNCHANGED inStats
       \/ /\ ~Hit(p, statsEntry)
          /\ inStats' = [inStats EXCEPT ![p] = TRUE]
          /\ Goto(p, "GetTradeCount")
          /\ UNCHANGED stats
    /\ UNCHANGED <<tags, redis, trade, late, tick, page, meta, count>>

\* Positions on the first k pages; the API lists the largest profits first.
Read(k) ==
    LET n == Wins + Even + Losses IN IF k * PageSize < n THEN k * PageSize ELSE n

WinsRead(k) == IF Read(k) < Wins THEN Read(k) ELSE Wins

LossesRead(k) == IF Read(k) < Wins + Even THEN 0 ELSE Read(k) - Wins - Even

\* The pages are numbered from 1.
ClosedFromSecond(p, k) ==
    [stats[p] EXCEPT !.wins = WinsRead(k + 1) - WinsRead(1),
                     !.losses = LossesRead(k + 1) - LossesRead(1)]

\* The wins and losses of the first k pages.
Closed(p, k) == [stats[p] EXCEPT !.wins = WinsRead(k), !.losses = LossesRead(k)]

\* The loop over the pages ends, with what it has counted so far: both
\* goroutines are done and their results are merged.
Merge(p, k, cut) ==
    /\ stats' = [stats EXCEPT ![p] = [Closed(p, k) EXCEPT !.cut = cut]]
    /\ page' = [page EXCEPT ![p] = 0]
    /\ Goto(p, "SetStats")

\* The next page: one of several, the last one, or an error.
NextPage(p) ==
    LET k == page[p] + 1
        last == Read(k) - Read(page[p]) < PageSize \/ k = MaxPages
    IN  /\ pc[p] = "pages"
        /\ \/ /\ ~late[p] /\ ~last
              /\ page' = [page EXCEPT ![p] = k]
              /\ UNCHANGED <<pc, stats>>
           \/ ~late[p] /\ last /\ Merge(p, k, FALSE)
           \/ Merge(p, page[p], late[p])
        /\ UNCHANGED <<tags, redis, trade, late, tick, inStats, meta, count>>

\* The statistics are stored whatever is missing from them.
SetStats(p) ==
    /\ pc[p] = "SetStats"
    /\ statsEntry' = Set(p, statsEntry, stats[p], StatsTTL)
    /\ Goto(p, "send")
    /\ UNCHANGED <<tags, metaEntry, countEntry, locals>>

-----------------------------------------------------------------------------
(* Time.                                                                   *)

\* The 45 seconds of a trade are over.
Deadline(p) ==
    /\ pc[p] # "idle"
    /\ trade[p] /\ ~late[p]
    /\ late' = [late EXCEPT ![p] = TRUE]
    /\ UNCHANGED <<tags, redis, pc, trade, tick, inStats, page, meta, count, stats>>

OlderMeta(m) == [m EXCEPT !.age = Older(@)]

OlderCount(n) == IF n.real THEN [n EXCEPT !.age = Older(@)] ELSE n

OlderStats(s) == [s EXCEPT !.count = OlderCount(@)]

\* Redis drops an entry at the end of its lifetime.
After(entry, value) ==
    IF entry = NoEntry \/ entry.ttl = 1 THEN NoEntry
    ELSE [value |-> value, ttl |-> entry.ttl - 1]

Tick ==
    /\ \A p \in Tasks : ~tick[p]
    /\ tick' = [p \in Tasks |-> pc[p] # "idle"]
    /\ metaEntry' = After(metaEntry, OlderMeta(metaEntry.value))
    /\ countEntry' = After(countEntry, OlderCount(countEntry.value))
    /\ statsEntry' = After(statsEntry, OlderStats(statsEntry.value))
    /\ meta' = [p \in Tasks |-> IF meta[p] = NoMeta THEN NoMeta ELSE OlderMeta(meta[p])]
    /\ count' = [p \in Tasks |-> OlderCount(count[p])]
    /\ stats' = [p \in Tasks |-> OlderStats(stats[p])]
    /\ UNCHANGED <<tags, pc, trade, late, inStats, page>>

-----------------------------------------------------------------------------
Step(p) ==
    \/ GetMeta(p) \/ FetchMeta(p) \/ SetMeta(p)
    \/ GetTradeCount(p) \/ FetchCount(p) \/ SetCount(p)
    \/ GetWalletStats(p) \/ NextPage(p) \/ SetStats(p)
    \/ Send(p) \/ Deadline(p)

Next ==
    \/ \E p \in Tasks : Trade(p) \/ Press(p) \/ Step(p)
    \/ Tick

Spec == Init /\ [][Next]_vars

-----------------------------------------------------------------------------
(* Properties.                                                             *)

Shown == {p \in Tasks : pc[p] = "send"}

\* "Wallet stats cached 15 minutes, trade counts 10 minutes" (README:63): the
\* count a worker filters by is real and no older than its lifetime and the
\* time of the task, and an error is not kept as a count, so the wallet's next
\* trade asks again.  The count in the statistics may itself have come from the
\* cache, so what is shown can be as old as both lifetimes together; it may also
\* be an error (999), which then stays in the statistics for their lifetime.
CountsAreFresh ==
    /\ countEntry # NoEntry => countEntry.value.real
    /\ \A p \in Shown :
          /\ trade[p] => count[p].real /\ count[p].age <= CountTTL + 1
          /\ stats[p].count.age <= CountTTL + StatsTTL + 1

\* A failure, or a market that closed, is acted on for one lifetime of its entry
\* however often it is asked for: a market that is valid again gets its alerts
\* back after NilTTL, a market that closed loses them after MetaTTL.
MetaIsFresh ==
    metaEntry # NoEntry =>
        metaEntry.value.age <= IF metaEntry.value.cat = Nil THEN NilTTL ELSE MetaTTL

\* Statistics that miss pages flatter the wallet, they never wrong it: the
\* share of wins is at least the true one, because the losses come last.
RateNeverUnderstated ==
    \A s \in {stats[p] : p \in Shown} \cup
             (IF statsEntry = NoEntry THEN {} ELSE {statsEntry.value}) :
        s.wins * (Wins + Losses) >= Wins * (s.wins + s.losses)

\* What one trade misses because its own 45 seconds ran out is not kept for
\* others: no negative entry and no short statistics come from a deadline.
CutShortIsNotCached ==
    /\ metaEntry # NoEntry => ~metaEntry.value.cut
    /\ statsEntry # NoEntry => ~statsEntry.value.cut

\* GetMeta "returns nil when the market should be dropped (inactive, closed,
\* blacklisted tag)" (markets.go:14-15): no alert is about a blacklisted market.
BlacklistedIsDropped ==
    \A p \in Shown : trade[p] => ~Blacklisted(tags)
=============================================================================
