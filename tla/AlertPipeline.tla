--------------------------- MODULE AlertPipeline ---------------------------
(***************************************************************************)
(* From a trade on the WebSocket to the messages of its alert:             *)
(* internal/tracker (websocket.go, worker.go, follow_cache.go),            *)
(* internal/bot (sub_cache.go, SendAlert in alerts.go), the tables they    *)
(* read as specified by module Database, and the outgoing queue as         *)
(* specified by module Outbox.                                             *)
(*                                                                         *)
(* Two caches stand between the database and the workers.  Each refresh    *)
(* queries the database and publishes the result later; a worker reads the *)
(* followers of a trade when it takes it and the subscribers only once the *)
(* Polymarket API has answered, so the two need not agree with each other  *)
(* or with the database.                                                   *)
(*                                                                         *)
(* Prices are in cents, odds and volumes in hundredths, so that the code's *)
(* products and quotients are compared exactly in integers.                *)
(***************************************************************************)
EXTENDS Naturals, Integers, Sequences, FiniteSets

CONSTANTS
    Chats,          \* users
    Wallets,        \* traders
    Workers,        \* worker goroutines (32 in the code)
    Trades,         \* trades the feed can carry (records, see TradeType)
    Options,        \* settings users choose (records, see SettingsType)
    Categories,     \* market categories
    Counts,         \* results of GetTradeCount, 999 when the API failed
    MinWhaleAmount, \* global floor, in dollars
    JobsCap,        \* bufferSize (5000 in the code)
    QueueCap,       \* sendQueueCap (20000 in the code)
    MaxEdits,       \* bound: changes users make to the database
    MaxReceived,    \* bound: messages the feed delivers
    NoMeta,         \* GetMeta returned nil
    NoSnapshot      \* no refresh is under way

\* COALESCE defaults of AllSubscribers; an empty category set means all.
DefaultSettings == [min |-> 1000, trades |-> 5, odds |-> 115, cats |-> {}]

Settings == Options \cup {DefaultSettings}

TradeType == [id : STRING, wallet : Wallets, price : Int, size : Nat,
              banned : BOOLEAN, isTrade : BOOLEAN]

SettingsType == [min : Nat, trades : Nat, odds : Nat, cats : SUBSET STRING]

ASSUME PipelineAssumption ==
    /\ Trades \subseteq TradeType
    /\ Options \subseteq SettingsType
    /\ Counts \subseteq Nat
    /\ IsFiniteSet(Chats)
    /\ IsFiniteSet(Workers)
    /\ {MinWhaleAmount, MaxEdits, MaxReceived} \subseteq Nat
    /\ JobsCap \in Nat \ {0}
    /\ QueueCap \in Nat \ {0}
    /\ NoMeta \notin Categories

VARIABLES
    \* the database
    users,          \* subscribed chats
    settings,       \* the settings each chat has, or would have
    watch,          \* <<chat, wallet>> rows of the watchlist
    \* the caches
    subSnap,        \* result of AllSubscribers not yet published
    subCache,       \* published subscribers, [subset of Chats -> Settings]
    followSnap,     \* result of GetAllWatchedWallets not yet published
    followCache,    \* published watchlist rows
    \* the feed and the workers
    feed,           \* trades the feed has still to deliver
    jobs,           \* contents of the jobs channel
    pc,             \* where each worker is
    trade,          \* the trade it processes
    followers,      \* result of GetFollowers for that trade
    meta,           \* its market category
    count,          \* the trader's trade count
    subs,           \* the subscribers SendAlert reads
    todo,           \* chats of subs the loop has still to visit
    \* the outgoing queue (module Outbox)
    open, queue, taken, dropped,
    \* counters and history
    metrics,        \* the Prometheus counters
    edits,          \* changes made to the database so far
    held,           \* history: <<chat, settings>> a subscriber ever had
    followed,       \* history: <<chat, wallet>> that was ever in the watchlist
    sent            \* history: <<chat, trade, isWatch>> passed to Enqueue

dbVars     == <<users, settings, watch, edits, held, followed>>
cacheVars  == <<subSnap, subCache, followSnap, followCache>>
workerVars == <<pc, trade, followers, meta, count, subs, todo>>
queueVars  == <<open, queue, taken, dropped>>
vars == <<dbVars, cacheVars, feed, jobs, workerVars, queueVars, metrics, sent>>

\* A message of an alert: who gets it, about what, and under which header.
Messages == [chat : Chats, trade : Trades, meta : Categories, count : Counts,
             isWatch : BOOLEAN]

Box == INSTANCE Outbox WITH Message <- Messages, Cap <- QueueCap

Db == INSTANCE Database

Counters == {"WSMessages", "WSDropped", "FilteredVolume", "WhaleEvents",
             "FilteredBanWord", "FilteredNoMeta", "FilteredAPIErr",
             "WorkerDuration", "PerfectAlerts", "FollowAlerts"}

Pc == {"idle", "meta", "count", "stats", "loop"}

Views == UNION {[C -> Settings] : C \in SUBSET Chats}

NoSubs == [c \in {} |-> DefaultSettings]

NoTrade == [id |-> "none"]

TypeOK ==
    /\ users \subseteq Chats
    /\ settings \in [Chats -> Settings]
    /\ watch \subseteq users \X Wallets
    /\ subSnap = NoSnapshot \/ subSnap \in Views
    /\ subCache \in Views
    /\ followSnap = NoSnapshot \/ followSnap \subseteq Chats \X Wallets
    /\ followCache \subseteq Chats \X Wallets
    /\ feed \subseteq Trades
    /\ jobs \in Seq(Trades) /\ Len(jobs) <= JobsCap
    /\ pc \in [Workers -> Pc]
    /\ \A w \in Workers : pc[w] # "idle" => trade[w] \in Trades
    /\ followers \in [Workers -> SUBSET Chats]
    /\ \A w \in Workers : subs[w] \in Views /\ todo[w] \subseteq DOMAIN subs[w]
    /\ open \in BOOLEAN
    /\ queue \in Seq(Messages) /\ Len(queue) <= QueueCap
    /\ taken \in Seq(Messages)
    /\ dropped \in Nat
    /\ metrics \in [Counters -> Nat]
    /\ edits \in 0..MaxEdits

-----------------------------------------------------------------------------
(* The database.                                                           *)

\* The settings of every chat, subscribed or not.
AllSubscribersUnjoined == [c \in Chats |-> settings[c]]

\* AllSubscribers: every user, with the defaults where no row exists.
AllSubscribers == [c \in users |-> settings[c]]

\* The process starts on the database earlier runs left.  StartSubCache has
\* loaded the subscribers, unless that query failed; the follow cache is
\* empty until StartFollowCache, after the workers have started, fills it.
Init ==
    /\ Db!Init
    /\ subSnap = NoSnapshot
    /\ subCache \in {AllSubscribers, NoSubs}
    /\ followSnap = NoSnapshot
    /\ followCache = {}
    /\ feed \in {F \in SUBSET Trades : Cardinality(F) <= MaxReceived}
    /\ jobs = <<>>
    /\ pc = [w \in Workers |-> "idle"]
    /\ trade = [w \in Workers |-> NoTrade]
    /\ followers = [w \in Workers |-> {}]
    /\ meta = [w \in Workers |-> NoMeta]
    /\ count = [w \in Workers |-> 0]
    /\ subs = [w \in Workers |-> NoSubs]
    /\ todo = [w \in Workers |-> {}]
    /\ open = TRUE
    /\ queue = <<>>
    /\ taken = <<>>
    /\ dropped = 0
    /\ metrics = [n \in Counters |-> 0]
    /\ edits = 0
    /\ held = {<<c, settings[c]>> : c \in users}
    /\ followed = watch
    /\ sent = {}

\* A handler changes the database; the histories remember what was there.
Edit ==
    /\ edits < MaxEdits
    /\ edits' = edits + 1
    /\ held' = held \cup {<<c, settings'[c]>> : c \in users'}
    /\ followed' = followed \cup watch'
    /\ UNCHANGED <<cacheVars, feed, jobs, workerVars, queueVars, metrics, sent>>

\* /start
Subscribe(c) ==
    /\ c \notin users
    /\ Db!Subscribe(c)
    /\ Edit

\* /stop
Unsubscribe(c) ==
    /\ c \in users
    /\ Db!Unsubscribe(c)
    /\ Edit

\* UpsertSettings (module Settings has its steps)
SaveSettings(c) ==
    /\ \E s \in Options : s # settings[c] /\ Db!SaveSettings(c, s)
    /\ Edit

\* AddWatch and RemoveWatch (module Watchlist has their steps)
Follow(c, x) ==
    /\ <<c, x>> \notin watch
    /\ Db!Follow(c, x)
    /\ Edit

Unfollow(c, x) ==
    /\ <<c, x>> \in watch
    /\ Db!Unfollow(c, x)
    /\ Edit

UserEdits ==
    \E c \in Chats :
        \/ Subscribe(c)
        \/ Unsubscribe(c)
        \/ SaveSettings(c)
        \/ \E x \in Wallets : Follow(c, x) \/ Unfollow(c, x)

-----------------------------------------------------------------------------
(* The caches: one goroutine each, query then publish.  A failed query     *)
(* leaves the published value alone.  The queries run under                *)
(* context.Background(), so nothing bounds the time they take: one that    *)
(* hangs is a query step that never comes.                                 *)

CacheStep == UNCHANGED <<dbVars, feed, jobs, workerVars, queueVars, metrics, sent>>

SubQuery ==
    /\ subSnap = NoSnapshot
    /\ subSnap' = AllSubscribers
    /\ UNCHANGED <<subCache, followSnap, followCache>>
    /\ CacheStep

\* A refresh that adds to the published list what the query returned.
SubPublishMerging ==
    /\ subSnap # NoSnapshot
    /\ subCache' = [c \in DOMAIN subSnap \cup DOMAIN subCache |->
                       IF c \in DOMAIN subCache THEN subCache[c] ELSE subSnap[c]]
    /\ subSnap' = NoSnapshot
    /\ UNCHANGED <<followSnap, followCache>>
    /\ CacheStep

SubPublish ==
    /\ subSnap # NoSnapshot
    /\ subCache' = subSnap
    /\ subSnap' = NoSnapshot
    /\ UNCHANGED <<followSnap, followCache>>
    /\ CacheStep

FollowQuery ==
    /\ followSnap = NoSnapshot
    /\ followSnap' = watch
    /\ UNCHANGED <<subSnap, subCache, followCache>>
    /\ CacheStep

FollowPublish ==
    /\ followSnap # NoSnapshot
    /\ followCache' = followSnap
    /\ followSnap' = NoSnapshot
    /\ UNCHANGED <<subSnap, subCache>>
    /\ CacheStep

CacheRefreshes == SubQuery \/ SubPublish \/ FollowQuery \/ FollowPublish

-----------------------------------------------------------------------------
(* The feed.                                                               *)

Inc(names) == metrics' = [n \in Counters |-> metrics[n] + (IF n \in names THEN 1 ELSE 0)]

Deliver(t) ==
    /\ t \in feed
    /\ feed' = feed \ {t}
    /\ UNCHANGED <<dbVars, cacheVars, workerVars, queueVars, sent>>

\* A test of the channel that is one message late.
ReceiveOneTooMany(t) ==
    /\ Deliver(t)
    /\ \/ /\ Len(jobs) <= JobsCap
          /\ jobs' = Append(jobs, t)
          /\ Inc({"WSMessages"})
       \/ /\ Len(jobs) > JobsCap
          /\ Inc({"WSMessages", "WSDropped"})
          /\ UNCHANGED jobs

\* StartSocket puts a message on the jobs channel, or drops it when the
\* channel is full.  A lost connection loses messages for good: they never
\* leave the feed.
Receive(t) ==
    /\ Deliver(t)
    /\ \/ /\ Len(jobs) < JobsCap
          /\ jobs' = Append(jobs, t)
          /\ Inc({"WSMessages"})
       \/ /\ Len(jobs) >= JobsCap
          /\ Inc({"WSMessages", "WSDropped"})
          /\ UNCHANGED jobs

-----------------------------------------------------------------------------
(* A worker.                                                               *)

\* Dollars times 100, as the price is in cents.
Volume(t) == t.size * t.price

GetFollowers(x) == {c \in Chats : <<c, x>> \in followCache}

\* No payload of type "trades", or a price no odds can be computed from.
Unusable(t) == ~t.isTrade \/ t.price <= 0 \/ t.price > 100

BelowFloor(t) ==
    /\ GetFollowers(t.wallet) = {}
    /\ Volume(t) < 100 * MinWhaleAmount

WorkerStep(w, at) ==
    /\ pc[w] = at
    /\ UNCHANGED <<dbVars, cacheVars, feed>>

\* The worker reads the next message: it skips what it cannot use, counts what
\* the volume or the ban-word filter stops, or keeps the trade and its
\* followers.
Skip(t) ==
    /\ Unusable(t)
    /\ UNCHANGED <<metrics, workerVars>>

FilterVolume(t) ==
    /\ ~Unusable(t)
    /\ BelowFloor(t)
    /\ Inc({"FilteredVolume"})
    /\ UNCHANGED workerVars

FilterBanWord(t) ==
    /\ ~Unusable(t) /\ ~BelowFloor(t)
    /\ t.banned
    /\ Inc({"WhaleEvents", "FilteredBanWord"})
    /\ UNCHANGED workerVars

Keep(w, t) ==
    /\ ~Unusable(t) /\ ~BelowFloor(t)
    /\ ~t.banned
    /\ Inc({"WhaleEvents"})
    /\ pc' = [pc EXCEPT ![w] = "meta"]
    /\ trade' = [trade EXCEPT ![w] = t]
    /\ followers' = [followers EXCEPT ![w] = GetFollowers(t.wallet)]
    /\ UNCHANGED <<meta, count, subs, todo>>

Take(w) ==
    /\ WorkerStep(w, "idle")
    /\ jobs # <<>>
    /\ jobs' = Tail(jobs)
    /\ \/ Skip(Head(jobs))
       \/ FilterVolume(Head(jobs))
       \/ FilterBanWord(Head(jobs))
       \/ Keep(w, Head(jobs))
    /\ UNCHANGED <<queueVars, sent>>

\* The loop body ends; its variables are gone.
EndTrade(w) ==
    /\ pc' = [pc EXCEPT ![w] = "idle"]
    /\ trade' = [trade EXCEPT ![w] = NoTrade]
    /\ followers' = [followers EXCEPT ![w] = {}]
    /\ meta' = [meta EXCEPT ![w] = NoMeta]
    /\ count' = [count EXCEPT ![w] = 0]
    /\ subs' = [subs EXCEPT ![w] = NoSubs]
    /\ todo' = [todo EXCEPT ![w] = {}]

\* What GetMeta can return: a category, or nil for a market to be dropped, an
\* unknown one or an API error.
GetMeta == Categories \cup {NoMeta}

\* A category: the worker goes on to the trade count.
HasMeta(w, m) ==
    /\ m # NoMeta
    /\ meta' = [meta EXCEPT ![w] = m]
    /\ pc' = [pc EXCEPT ![w] = "count"]
    /\ UNCHANGED <<trade, followers, count, subs, todo, metrics>>

\* A nil category ends the trade without a trace.
MetaUncounted(w) ==
    /\ WorkerStep(w, "meta")
    /\ \E m \in GetMeta :
          HasMeta(w, m) \/ (m = NoMeta /\ EndTrade(w) /\ UNCHANGED metrics)
    /\ UNCHANGED <<jobs, queueVars, sent>>

Meta(w) ==
    /\ WorkerStep(w, "meta")
    /\ \E m \in GetMeta :
          HasMeta(w, m) \/ (m = NoMeta /\ EndTrade(w) /\ Inc({"FilteredNoMeta"}))
    /\ UNCHANGED <<jobs, queueVars, sent>>

\* What GetTradeCount can return; 999 stands for an API error.
GetTradeCount == Counts

\* A count: the worker goes on to the statistics.
HasCount(w, n) ==
    /\ count' = [count EXCEPT ![w] = n]
    /\ pc' = [pc EXCEPT ![w] = "stats"]
    /\ UNCHANGED <<trade, followers, meta, subs, todo, metrics>>

\* The API's error value is passed on as a trade count.
TradeCountUnchecked(w) ==
    /\ WorkerStep(w, "count")
    /\ \E n \in GetTradeCount : HasCount(w, n)
    /\ UNCHANGED <<jobs, queueVars, sent>>

\* An error drops the trade, for followers too.
TradeCount(w) ==
    /\ WorkerStep(w, "count")
    /\ \E n \in GetTradeCount :
          \/ n # 999 /\ HasCount(w, n)
          \/ n = 999 /\ EndTrade(w) /\ Inc({"FilteredAPIErr"})
    /\ UNCHANGED <<jobs, queueVars, sent>>

\* SendAlert waits for somebody to subscribe.
StartAlertWaiting(w) ==
    /\ WorkerStep(w, "stats")
    /\ DOMAIN subCache # {}
    /\ subs' = [subs EXCEPT ![w] = subCache]
    /\ todo' = [todo EXCEPT ![w] = DOMAIN subCache]
    /\ pc' = [pc EXCEPT ![w] = "loop"]
    /\ UNCHANGED <<trade, followers, meta, count, metrics, jobs, queueVars, sent>>

\* GetWalletStats has answered; SendAlert reads the subscriber cache.
StartAlert(w) ==
    /\ WorkerStep(w, "stats")
    /\ subs' = [subs EXCEPT ![w] = subCache]
    /\ todo' = [todo EXCEPT ![w] = DOMAIN subCache]
    /\ pc' = [pc EXCEPT ![w] = "loop"]
    /\ UNCHANGED <<trade, followers, meta, count, metrics, jobs, queueVars, sent>>

\* The per-user filters.  odds < MinOdds is 1/price < odds/100.
Filtered(s, t, n, cat) ==
    \/ Volume(t) < 100 * s.min
    \/ n > s.trades
    \/ 10000 < s.odds * t.price
    \/ s.cats # {} /\ cat \notin s.cats

Alert(w, c) == [chat |-> c, trade |-> trade[w], meta |-> meta[w],
                count |-> count[w], isWatch |-> c \in followers[w]]

\* Enqueue never waits, and does not say whether the message was queued,
\* dropped because the queue is full, or refused because it was shut.
Enqueue(m) == Box!Offer(m) \/ (~open /\ UNCHANGED queueVars)

\* The loop left at the first subscriber whose filters stop the alert.
VisitUntilFiltered(w) ==
    /\ WorkerStep(w, "loop")
    /\ \E c \in todo[w] :
          \/ /\ c \in followers[w]
                \/ ~Filtered(subs[w][c], trade[w], count[w], meta[w])
             /\ todo' = [todo EXCEPT ![w] = @ \ {c}]
             /\ Enqueue(Alert(w, c))
             /\ Inc({"PerfectAlerts"})
             /\ sent' = sent \cup {<<c, trade[w], c \in followers[w]>>}
          \/ /\ c \notin followers[w]
             /\ Filtered(subs[w][c], trade[w], count[w], meta[w])
             /\ todo' = [todo EXCEPT ![w] = {}]
             /\ UNCHANGED <<queueVars, metrics, sent>>
    /\ UNCHANGED <<jobs, pc, trade, followers, meta, count, subs>>

\* One round of the loop over the subscribers, in the order the query gave.
Visit(w) ==
    /\ WorkerStep(w, "loop")
    /\ \E c \in todo[w] :
          /\ todo' = [todo EXCEPT ![w] = @ \ {c}]
          /\ \/ /\ c \in followers[w]
                   \/ ~Filtered(subs[w][c], trade[w], count[w], meta[w])
                /\ Enqueue(Alert(w, c))
                /\ Inc({"PerfectAlerts"})
                /\ sent' = sent \cup {<<c, trade[w], c \in followers[w]>>}
             \/ /\ c \notin followers[w]
                /\ Filtered(subs[w][c], trade[w], count[w], meta[w])
                /\ UNCHANGED <<queueVars, metrics, sent>>
    /\ UNCHANGED <<jobs, pc, trade, followers, meta, count, subs>>

\* The loop is over; FollowAlerts grows by the number of followers.
Finish(w) ==
    /\ WorkerStep(w, "loop")
    /\ todo[w] = {}
    /\ metrics' = [metrics EXCEPT !["WorkerDuration"] = @ + 1,
                                  !["FollowAlerts"] = @ + Cardinality(followers[w])]
    /\ EndTrade(w)
    /\ UNCHANGED <<jobs, queueVars, sent>>

Work(w) ==
    \/ Take(w)
    \/ Meta(w)
    \/ TradeCount(w)
    \/ StartAlert(w)
    \/ Visit(w)
    \/ Finish(w)

-----------------------------------------------------------------------------
\* The sender goroutine takes a message off the channel.
Send ==
    /\ Box!Take
    /\ UNCHANGED <<dbVars, cacheVars, feed, jobs, workerVars, metrics, sent>>

\* The shutdown's drain has ended (module SendQueue has its steps): for the
\* rest of the process's life the workers run on against a shut queue.
ShutQueue ==
    /\ Box!Close
    /\ UNCHANGED <<dbVars, cacheVars, feed, jobs, workerVars, metrics, sent>>

Next ==
    \/ UserEdits
    \/ CacheRefreshes
    \/ \E t \in Trades : Receive(t)
    \/ \E w \in Workers : Work(w)
    \/ Send
    \/ ShutQueue

Spec == Init /\ [][Next]_vars

\* Workers, the sender and the two refreshers keep running.  A worker's calls
\* share a context of 45 seconds and SendMessage has one of 15 (sendq.go:40), so
\* these steps come to an end.  What a refresh has read it publishes; that its
\* query ends is not assumed, as nothing in the code sees to it.  Users and the
\* feed owe nothing.
Fairness ==
    /\ \A w \in Workers : WF_vars(Work(w))
    /\ WF_vars(Send)
    /\ WF_vars(SubPublish)
    /\ WF_vars(FollowPublish)

FairSpec == Spec /\ Fairness

-----------------------------------------------------------------------------
(* Properties.                                                             *)

Elements(s) == {s[i] : i \in 1..Len(s)}

\* The alerts that reached the queue.
Alerts == Elements(queue) \cup Elements(taken)

\* The settings s ask for the alert m: at least the amount, at most the number
\* of trades ("inclusive upper bound", alerts.go:129), a payout of at least the
\* odds, one of the categories.
Wants(s, m) ==
    /\ m.trade.size * m.trade.price >= 100 * s.min
    /\ m.count <= s.trades
    /\ s.odds * m.trade.price <= 10000
    /\ s.cats = {} \/ m.meta \in s.cats

\* However stale the caches are and however they disagree, nobody gets an
\* alert that nothing in the database ever asked for: a "your whale" alert goes
\* to someone who followed that wallet at some time, any other alert to someone
\* who was subscribed with settings that ask for it.
AlertsJustified ==
    \A m \in Alerts :
        /\ m.isWatch => <<m.chat, m.trade.wallet>> \in followed
        /\ ~m.isWatch => \E s \in Settings : <<m.chat, s>> \in held /\ Wants(s, m)

\* What no alert is ever about, for followers too: a banned market, an
\* unusable price, an API error taken for a trade count.
OnlySoundAlerts ==
    \A m \in Alerts :
        ~m.trade.banned /\ ~Unusable(m.trade) /\ m.count # 999

\* When the loop over the subscribers is over, the chats alerted about the trade
\* are exactly its audience: of the subscribers the worker read, the followers of
\* the wallet, whatever their settings, and those whose settings ask for the
\* alert.  Nobody is skipped or added because of another subscriber, and each
\* has got the header that is meant for him.
AudienceIsExact ==
    \A w \in Workers : pc[w] = "loop" /\ todo[w] = {} =>
        {e \in sent : e[2] = trade[w]} =
            {<<c, trade[w], c \in followers[w]>> : c \in
                {d \in DOMAIN subs[w] :
                    d \in followers[w] \/ Wants(subs[w][d], Alert(w, d))}}

Busy == {w \in Workers : pc[w] # "idle"}

\* The dashboard adds up: no message of the feed is counted at two ends (dropped,
\* waiting, filtered by volume, a whale event; what a worker cannot use has no
\* counter), each whale event is filtered, being worked on or finished, and until
\* the queue is shut each counted alert is queued, taken or dropped.  (A counter
\* is one step with what it counts; a scrape between the two sees each worker at
\* most one event behind.)
MetricsBalance ==
    /\ metrics["WSDropped"] + Len(jobs) + metrics["FilteredVolume"]
            + metrics["WhaleEvents"] <= metrics["WSMessages"]
    /\ metrics["WhaleEvents"] =
          metrics["FilteredBanWord"] + metrics["FilteredNoMeta"]
            + metrics["FilteredAPIErr"] + metrics["WorkerDuration"]
            + Cardinality(Busy)
    /\ open => metrics["PerfectAlerts"] = Len(queue) + Len(taken) + dropped

\* Every trade put on the jobs channel is finished: no worker stays stuck.
TradesAreFinished == <>[](jobs = <<>> /\ Busy = {})

\* Once users stop changing things the workers see the database as it is, if the
\* database goes on answering the refreshers: nothing an earlier refresh read
\* stays behind or overwrites it later.  (A query that hangs ends the refreshes
\* for good, since sub_cache.go:21 and follow_cache.go:31 set no timeout.)
CachesConverge ==
    []<><<SubQuery>>_vars /\ []<><<FollowQuery>>_vars =>
        <>[](subCache = AllSubscribers /\ followCache = watch)
=============================================================================
