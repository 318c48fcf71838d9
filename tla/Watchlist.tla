----------------------------- MODULE Watchlist -----------------------------
(***************************************************************************)
(* Following wallets: internal/db/watchlist.go, the watchlist and users    *)
(* tables of internal/db/db.go, and the handlers that change them          *)
(* (watch:add, watch:del, the Mini App's add_watch and delete_watches,     *)
(* /start and /stop) in internal/bot/handlers.go.                          *)
(*                                                                         *)
(* Every update runs in a goroutine of its own, so the requests of one     *)
(* user overlap.  PostgreSQL runs each statement at READ COMMITTED: the    *)
(* INSERT ... SELECT ... WHERE COUNT < 10 of AddWatch counts in the        *)
(* snapshot taken when the statement starts, and inserts later.  A         *)
(* statement holds one of the pool's connections while it runs, and the    *)
(* workers' RegisterAlert, the cache refreshes and the redirects take       *)
(* connections of the same pool.                                           *)
(*                                                                         *)
(* Wallets are written in different spellings (letter case); Canon is      *)
(* strings.ToLower.  Input that is no wallet address is refused by walletRe *)
(* before any of this and is left out.                                     *)
(***************************************************************************)
EXTENDS Naturals, Sequences, FiniteSets

CONSTANTS
    Handlers,       \* handler goroutines alive at one time
    Chats,          \* users
    Spellings,      \* wallet addresses as they are typed or received
    Canon,          \* [Spellings -> Spellings], the lower-case spelling
    MaxWatchlist,   \* MaxWatchlistSize (10 in the code)
    Conns,          \* SetMaxOpenConns (20 in the code)
    NoChat, NoWallet

ASSUME WatchlistAssumption ==
    /\ IsFiniteSet(Handlers)
    /\ IsFiniteSet(Spellings)
    /\ Canon \in [Spellings -> Spellings]
    /\ \A w \in Spellings : Canon[Canon[w]] = Canon[w]
    /\ MaxWatchlist \in Nat \ {0}
    /\ Conns \in Nat \ {0}
    /\ NoChat \notin Chats
    /\ NoWallet \notin Spellings

VARIABLES
    users,      \* chat ids of the users table
    rows,       \* <<chat, wallet>> pairs of the watchlist table
    conns,      \* handlers whose statement holds a connection
    others,     \* connections held by the rest of the program
    pc,         \* where each handler is
    chat,       \* the chat it serves
    wallet,     \* the wallet it adds, as typed
    todo,       \* the wallets it still has to remove, as typed
    room,       \* AddWatch: the COUNT of its snapshot was below the limit
    reply,      \* what the user is told
    asked,      \* history: the wallets the request is about
    alone,      \* history: no other request of the chat overlapped so far
    failed      \* history: a statement of the request failed

vars == <<users, rows, conns, others, pc, chat, wallet, todo, room, reply,
          asked, alone, failed>>

Pc == {"idle", "count", "insert", "exists", "delete", "reply"}

Replies == {"none", "added", "full", "error", "removed"}

TypeOK ==
    /\ users \subseteq Chats
    /\ rows \subseteq Chats \X Spellings
    /\ conns \subseteq Handlers
    /\ others \in Nat
    /\ Cardinality(conns) + others <= Conns
    /\ pc \in [Handlers -> Pc]
    /\ chat \in [Handlers -> Chats \cup {NoChat}]
    /\ wallet \in [Handlers -> Spellings \cup {NoWallet}]
    /\ todo \in [Handlers -> Seq(Spellings)]
    /\ room \in [Handlers -> BOOLEAN]
    /\ reply \in [Handlers -> Replies]
    /\ asked \in [Handlers -> SUBSET Spellings]
    /\ alone \in [Handlers -> BOOLEAN]
    /\ failed \in [Handlers -> BOOLEAN]
    /\ \A h \in Handlers :
          pc[h] # "idle" => chat[h] \in Chats
    /\ \A h \in Handlers :
          pc[h] \in {"count", "insert", "exists"} => wallet[h] \in Spellings

\* Users may already exist when the process starts; the lists start empty.
Init ==
    /\ users \in SUBSET Chats
    /\ rows = {}
    /\ conns = {}
    /\ others = 0
    /\ pc = [h \in Handlers |-> "idle"]
    /\ chat = [h \in Handlers |-> NoChat]
    /\ wallet = [h \in Handlers |-> NoWallet]
    /\ todo = [h \in Handlers |-> <<>>]
    /\ room = [h \in Handlers |-> FALSE]
    /\ reply = [h \in Handlers |-> "none"]
    /\ asked = [h \in Handlers |-> {}]
    /\ alone = [h \in Handlers |-> FALSE]
    /\ failed = [h \in Handlers |-> FALSE]

-----------------------------------------------------------------------------
(* The tables.                                                             *)

Watched(c) == {w \in Spellings : <<c, w>> \in rows}

Count(c) == Cardinality(Watched(c))

\* The row a request of h is about, in the spelling it was typed in ...
TypedRow(h, w) == <<chat[h], w>>

\* ... and in lower case, as AddWatch and RemoveWatch store and look it up.
Row(h, w) == <<chat[h], Canon[w]>>

\* A statement can start when the pool has a connection for it.
ConnFree == Cardinality(conns) + others < Conns

-----------------------------------------------------------------------------
(* Requests.                                                               *)

Busy(c) == {h \in Handlers : pc[h] # "idle" /\ chat[h] = c}

\* The update dispatcher starts a goroutine for a request of chat c.
Request(h, c, at) ==
    /\ pc[h] = "idle"
    /\ pc' = [pc EXCEPT ![h] = at]
    /\ chat' = [chat EXCEPT ![h] = c]
    /\ alone' = [g \in Handlers |->
                    IF g = h THEN Busy(c) = {}
                    ELSE alone[g] /\ g \notin Busy(c)]

\* watch:add and add_watch.
RequestAdd(h) ==
    /\ \E c \in Chats : Request(h, c, "count")
    /\ \E w \in Spellings :
          /\ wallet' = [wallet EXCEPT ![h] = w]
          /\ asked' = [asked EXCEPT ![h] = {w}]
    /\ UNCHANGED <<users, rows, conns, todo, room, reply, failed>>

\* watch:del with one wallet, delete_watches with several.
RequestRemove(h) ==
    /\ \E c \in Chats : Request(h, c, "delete")
    /\ \E w, x \in Spellings :
          /\ todo' = [todo EXCEPT ![h] = IF w = x THEN <<w>> ELSE <<w, x>>]
          /\ asked' = [asked EXCEPT ![h] = {w, x}]
    /\ UNCHANGED <<users, rows, conns, wallet, room, reply, failed>>

Answer(h, r) ==
    /\ pc' = [pc EXCEPT ![h] = "reply"]
    /\ reply' = [reply EXCEPT ![h] = r]

-----------------------------------------------------------------------------
(* AddWatch.                                                               *)

\* The COUNT sees one row too few.
AddCountOffByOne(h) ==
    /\ pc[h] = "count"
    /\ ConnFree
    /\ conns' = conns \cup {h}
    /\ room' = [room EXCEPT ![h] = Count(chat[h]) <= MaxWatchlist]
    /\ pc' = [pc EXCEPT ![h] = "insert"]
    /\ UNCHANGED <<users, rows, chat, wallet, todo, reply, asked, alone, failed>>

\* A statement that does not wait for a connection of the pool.
AddCountNoPool(h) ==
    /\ pc[h] = "count"
    /\ conns' = conns \cup {h}
    /\ room' = [room EXCEPT ![h] = Count(chat[h]) < MaxWatchlist]
    /\ pc' = [pc EXCEPT ![h] = "insert"]
    /\ UNCHANGED <<users, rows, chat, wallet, todo, reply, asked, alone, failed>>

\* The INSERT ... SELECT starts: its snapshot decides the COUNT.
AddCount(h) ==
    /\ pc[h] = "count"
    /\ ConnFree
    /\ conns' = conns \cup {h}
    /\ room' = [room EXCEPT ![h] = Count(chat[h]) < MaxWatchlist]
    /\ pc' = [pc EXCEPT ![h] = "insert"]
    /\ UNCHANGED <<users, rows, chat, wallet, todo, reply, asked, alone, failed>>

\* One row affected.  The foreign key holds: the chat is a user.
AddedRow(h, row) ==
    /\ room[h]
    /\ row \notin rows
    /\ chat[h] \in users
    /\ rows' = rows \cup {row}

\* No row affected, by the limit or by ON CONFLICT DO NOTHING.
NothingAdded(h, row) ==
    /\ ~room[h] \/ row \in rows
    /\ pc' = [pc EXCEPT ![h] = "exists"]
    /\ UNCHANGED <<rows, reply, failed>>

\* The foreign key is violated: the user sent /stop.
NoSuchUser(h, row) ==
    /\ room[h]
    /\ row \notin rows
    /\ chat[h] \notin users
    /\ Answer(h, "error")
    /\ UNCHANGED <<rows, failed>>

\* The statement fails, before or after the row was committed.
InsertFails(h, row) ==
    /\ AddedRow(h, row) \/ UNCHANGED rows
    /\ Answer(h, "error")
    /\ failed' = [failed EXCEPT ![h] = TRUE]

FinishInsert(h, row) ==
    /\ pc[h] = "insert"
    /\ \/ AddedRow(h, row) /\ Answer(h, "added") /\ UNCHANGED failed
       \/ NothingAdded(h, row)
       \/ NoSuchUser(h, row)
       \/ InsertFails(h, row)
    /\ UNCHANGED <<users, chat, wallet, todo, room, asked, alone>>

\* The wallet is stored as it was typed.
AddInsertAsTyped(h) ==
    FinishInsert(h, TypedRow(h, wallet[h])) /\ conns' = conns \ {h}

\* The statement's connection is kept for the rest of AddWatch.
AddInsertKeepsConn(h) ==
    FinishInsert(h, Row(h, wallet[h])) /\ UNCHANGED conns

\* The statement ends and gives its connection back.
AddInsert(h) ==
    FinishInsert(h, Row(h, wallet[h])) /\ conns' = conns \ {h}

\* The second statement, a COUNT of its own, tells a duplicate from the limit.
AddExists(h) ==
    /\ pc[h] = "exists"
    /\ ConnFree
    /\ \/ /\ Row(h, wallet[h]) \in rows
          /\ Answer(h, "added")
          /\ UNCHANGED failed
       \/ /\ Row(h, wallet[h]) \notin rows
          /\ Answer(h, "full")
          /\ UNCHANGED failed
       \/ /\ Answer(h, "error")
          /\ failed' = [failed EXCEPT ![h] = TRUE]
    /\ UNCHANGED <<users, rows, conns, chat, wallet, todo, room, asked, alone>>

-----------------------------------------------------------------------------
(* RemoveWatch, once for each wallet of the request.  An error is logged;  *)
(* the loop goes on and the user is told that all went well.  As anywhere,  *)
(* a statement that failed may have been committed.                        *)

RemoveRow(h, row) ==
    /\ pc[h] = "delete"
    /\ todo[h] # <<>>
    /\ ConnFree
    /\ \/ /\ rows' = rows \ {row}
          /\ UNCHANGED failed
       \/ /\ failed' = [failed EXCEPT ![h] = TRUE]
          /\ rows' \in {rows, rows \ {row}}
    /\ todo' = [todo EXCEPT ![h] = Tail(@)]
    /\ UNCHANGED <<users, conns, pc, chat, wallet, room, reply, asked, alone>>

\* The wallet is looked up as it was typed.
RemoveAsTyped(h) == RemoveRow(h, TypedRow(h, Head(todo[h])))

Remove(h) == RemoveRow(h, Row(h, Head(todo[h])))

RemoveDone(h) ==
    /\ pc[h] = "delete"
    /\ todo[h] = <<>>
    /\ Answer(h, "removed")
    /\ UNCHANGED <<users, rows, conns, chat, wallet, todo, room, asked, alone, failed>>

-----------------------------------------------------------------------------
(* /start and /stop: one statement, an error is logged, the reply is the   *)
(* same.  Deleting the user deletes the watchlist rows (ON DELETE CASCADE). *)

Subscribe(h) ==
    \E c \in Chats :
        /\ Request(h, c, "reply")
        /\ ConnFree
        /\ users' \in {users, users \cup {c}}
        /\ UNCHANGED <<rows, conns, wallet, todo, room, reply, asked, failed>>

\* The rows of the user are left behind.
UnsubscribeNoCascade(h) ==
    \E c \in Chats :
        /\ Request(h, c, "reply")
        /\ ConnFree
        /\ users' \in {users, users \ {c}}
        /\ UNCHANGED <<rows, conns, wallet, todo, room, reply, asked, failed>>

Unsubscribe(h) ==
    \E c \in Chats :
        /\ Request(h, c, "reply")
        /\ ConnFree
        /\ \/ /\ users' = users \ {c}
              /\ rows' = {r \in rows : r[1] # c}
           \/ UNCHANGED <<users, rows>>
        /\ UNCHANGED <<conns, wallet, todo, room, reply, asked, failed>>

\* The reply is sent and the goroutine ends; its variables are gone.
Done(h) ==
    /\ pc[h] = "reply"
    /\ pc' = [pc EXCEPT ![h] = "idle"]
    /\ chat' = [chat EXCEPT ![h] = NoChat]
    /\ wallet' = [wallet EXCEPT ![h] = NoWallet]
    /\ room' = [room EXCEPT ![h] = FALSE]
    /\ reply' = [reply EXCEPT ![h] = "none"]
    /\ asked' = [asked EXCEPT ![h] = {}]
    /\ alone' = [alone EXCEPT ![h] = FALSE]
    /\ failed' = [failed EXCEPT ![h] = FALSE]
    /\ UNCHANGED <<users, rows, conns, todo>>

-----------------------------------------------------------------------------
AddWatch(h) == AddCount(h) \/ AddInsert(h) \/ AddExists(h)

RemoveWatch(h) == Remove(h) \/ RemoveDone(h)

Handle(h) ==
    \/ RequestAdd(h)
    \/ RequestRemove(h)
    \/ AddWatch(h)
    \/ RemoveWatch(h)
    \/ Subscribe(h)
    \/ Unsubscribe(h)
    \/ Done(h)

\* A statement of a worker, a refresh or a redirect starts ...
OthersTake ==
    /\ ConnFree
    /\ others' = others + 1
    /\ UNCHANGED <<users, rows, conns, pc, chat, wallet, todo, room, reply,
                   asked, alone, failed>>

\* ... and ends.
OthersRelease ==
    /\ others > 0
    /\ others' = others - 1
    /\ UNCHANGED <<users, rows, conns, pc, chat, wallet, todo, room, reply,
                   asked, alone, failed>>

Next ==
    \/ \E h \in Handlers : Handle(h) /\ UNCHANGED others
    \/ OthersTake
    \/ OthersRelease

Spec == Init /\ [][Next]_vars

\* What a handler does when it waits for a connection, and when it does not.
Statement(h) == AddCount(h) \/ AddExists(h) \/ Remove(h)
Finish(h) == AddInsert(h) \/ RemoveDone(h) \/ Done(h)

\* A statement that runs ends; database/sql serves waiting goroutines in
\* order, so a goroutine waiting for a connection gets one, however busy the
\* rest of the program keeps the pool.
Fairness ==
    /\ WF_vars(OthersRelease)
    /\ \A h \in Handlers :
          /\ SF_vars(Statement(h) /\ UNCHANGED others)
          /\ WF_vars(Finish(h) /\ UNCHANGED others)

FairSpec == Spec /\ Fairness

-----------------------------------------------------------------------------
(* Properties.                                                             *)

\* Requests of c whose snapshot saw room and that have not inserted yet.
Admitted(c) == {h \in Handlers : pc[h] = "insert" /\ room[h] /\ chat[h] = c}

\* How far concurrent requests can exceed the limit: a list never grows past
\* the limit by more than the other statements the pool can run at once.  With
\* one connection the limit is exact.
OvershootBounded ==
    \A c \in Chats : Count(c) + Cardinality(Admitted(c)) < MaxWatchlist + Conns

\* The limit as AddWatch's comment claims it (watchlist.go:22-23, "The COUNT
\* check and INSERT happen in a single statement - eliminates TOCTOU race"): no
\* list is longer than MaxWatchlistSize.
LimitHolds == \A c \in Chats : Count(c) <= MaxWatchlist

\* One wallet is followed once, however its address was spelled each time, so
\* it takes one place of the list and one removal ends it.
FollowedOnce ==
    \A r, s \in rows : r[1] = s[1] /\ Canon[r[2]] = Canon[s[2]] => r = s

\* A user who sends one request at a time is told the truth: what was added is
\* in the list, what was removed is not, under any spelling, unless a statement
\* failed.
SoleReplyIsTrue ==
    \A h \in Handlers :
        pc[h] = "reply" /\ alone[h] /\ ~failed[h] =>
            /\ reply[h] = "added" =>
                  \E r \in rows : \E w \in asked[h] :
                      r[1] = chat[h] /\ Canon[r[2]] = Canon[w]
            /\ reply[h] = "removed" =>
                  \A r \in rows : \A w \in asked[h] :
                      ~(r[1] = chat[h] /\ Canon[r[2]] = Canon[w])
            /\ reply[h] = "full" => Count(chat[h]) >= MaxWatchlist

\* After /stop nothing is followed, and an AddWatch that was under way cannot
\* bring a row back.
OnlyUsersFollow == \A r \in rows : r[1] \in users

\* The tables as the rest of the program sees them; settings play no part here.
Db == INSTANCE Database WITH
          Wallets <- {Canon[w] : w \in Spellings},
          Settings <- {"any"},
          DefaultSettings <- "any",
          settings <- [c \in Chats |-> "any"],
          watch <- rows

\* However requests overlap, fail and wait for connections, what they do to the
\* tables amounts to one subscription, one cancellation, one wallet followed or
\* one wallet dropped at a time; only users follow, under the lower-case
\* spelling, and leaving ends it all at once.
ImplementsDatabase == Db!Spec

\* Every request is answered: the pool never runs dry for good.
RequestsAreAnswered ==
    \A h \in Handlers : pc[h] # "idle" ~> pc[h] = "idle"
=============================================================================
