-------------------------- MODULE WatchlistProofs --------------------------
(***************************************************************************)
(* Theorems about Watchlist for any number of handlers, users and wallets, *)
(* any limit and any pool size.                                            *)
(*                                                                         *)
(* A request admitted by its snapshot holds a connection until it inserts  *)
(* (Pool), so at most Conns requests can be admitted on a list that has    *)
(* room for one; Count + Admitted therefore stays below limit + Conns,     *)
(* which is inductive because an insert moves one request from the second  *)
(* term to the first.                                                      *)
(***************************************************************************)
EXTENDS Watchlist, FiniteSetTheorems, TLAPS

\* Handlers and tables keep their types; connections are those of the handlers
\* whose INSERT runs and of the rest of the program, never more than the pool has.
Pool ==
    /\ conns = {h \in Handlers : pc[h] = "insert"}
    /\ others \in Nat
    /\ Cardinality(conns) + others <= Conns

\* Only lower-case wallets are stored.
Canonical == \A r \in rows : Canon[r[2]] = r[2]

IInv == TypeOK /\ Pool /\ Canonical /\ OvershootBounded /\ OnlyUsersFollow

-----------------------------------------------------------------------------

LEMMA InitTypes == Init => TypeOK /\ Pool /\ Canonical /\ OnlyUsersFollow
  <1> SUFFICES ASSUME Init PROVE TypeOK /\ Pool /\ Canonical /\ OnlyUsersFollow
    OBVIOUS
  <1>1. Cardinality({}) = 0
    BY FS_EmptySet
  <1>2. /\ pc \in [Handlers -> Pc]
        /\ todo \in [Handlers -> Seq(Spellings)]
        /\ reply \in [Handlers -> Replies]
    BY DEF Init, Pc, Replies
  <1>3. TypeOK
    BY <1>1, <1>2, WatchlistAssumption DEF Init, TypeOK
  <1> QED
    BY <1>1, <1>3, WatchlistAssumption DEF Init, TypeOK, Pool, Canonical, OnlyUsersFollow

\* Starting a request touches no table and no connection.
LEMMA RequestTypes ==
    ASSUME TypeOK, NEW h \in Handlers, NEW c \in Chats, NEW at \in Pc, Request(h, c, at)
    PROVE  /\ pc' \in [Handlers -> Pc]
           /\ chat' \in [Handlers -> Chats \cup {NoChat}]
           /\ alone' \in [Handlers -> BOOLEAN]
           /\ \A g \in Handlers : pc'[g] # "idle" => chat'[g] \in Chats
           /\ pc'[h] = at
           /\ \A g \in Handlers : g # h => pc'[g] = pc[g] /\ chat'[g] = chat[g]
           /\ pc[h] = "idle"
  BY DEF TypeOK, Request, Busy, Pc

\* A handler's step keeps the types.
LEMMA HandlerTypeStep ==
    ASSUME TypeOK, Pool, others' = others, [\E h \in Handlers : Handle(h)]_vars
    PROVE  TypeOK' /\ Pool'
  <1> USE WatchlistAssumption DEF Pool
  <1>0. IsFiniteSet(conns) /\ Cardinality(conns) \in Nat /\ others \in Nat
    BY FS_Subset, FS_CardinalityType DEF TypeOK
  <1>1. ASSUME NEW h \in Handlers, RequestAdd(h) PROVE TypeOK' /\ Pool'
    <2>1. PICK c \in Chats : Request(h, c, "count")
      BY <1>1 DEF RequestAdd
    <2>2. "count" \in Pc
      BY DEF Pc
    <2> QED
      BY <1>1, <2>1, <2>2, RequestTypes DEF RequestAdd, TypeOK
  <1>2. ASSUME NEW h \in Handlers, RequestRemove(h) PROVE TypeOK' /\ Pool'
    <2>1. PICK c \in Chats : Request(h, c, "delete")
      BY <1>2 DEF RequestRemove
    <2>2. "delete" \in Pc
      BY DEF Pc
    <2>3. todo' \in [Handlers -> Seq(Spellings)] /\ asked' \in [Handlers -> SUBSET Spellings]
      BY <1>2 DEF RequestRemove, TypeOK
    <2> QED
      BY <1>2, <2>1, <2>2, <2>3, RequestTypes DEF RequestRemove, TypeOK
  <1>3. ASSUME NEW h \in Handlers, AddCount(h) PROVE TypeOK' /\ Pool'
    <2>1. Cardinality(conns \cup {h}) + others <= Conns
      <3>1. Cardinality(conns \cup {h}) <= Cardinality(conns) + 1
        <4>1. Cardinality(conns \cup {h}) =
                 IF h \in conns THEN Cardinality(conns) ELSE Cardinality(conns) + 1
          BY <1>0, FS_AddElement
        <4> QED
          BY <1>0, <4>1
      <3>2. Cardinality(conns) + others < Conns
        BY <1>3 DEF AddCount, ConnFree
      <3> HIDE DEF Pool
      <3>3. Cardinality(conns \cup {h}) \in Nat
        BY <1>0, FS_AddElement, FS_CardinalityType
      <3> QED
        BY <1>0, <3>1, <3>2, <3>3
    <2>2. pc' \in [Handlers -> Pc]
      BY <1>3 DEF AddCount, TypeOK, Pc
    <2>3. room' \in [Handlers -> BOOLEAN]
      BY <1>3 DEF AddCount, TypeOK
    <2>4. /\ pc[h] = "count"
          /\ pc' = [pc EXCEPT ![h] = "insert"]
          /\ conns' = conns \cup {h}
          /\ UNCHANGED <<users, rows, chat, wallet, todo, reply, asked, alone, failed>>
      BY <1>3 DEF AddCount
    <2>5. Pool'
      BY <2>1, <2>4 DEF TypeOK
    <2> QED
      BY <2>1, <2>2, <2>3, <2>4, <2>5 DEF TypeOK
  <1>4. ASSUME NEW h \in Handlers, AddInsert(h) PROVE TypeOK' /\ Pool'
    <2>1. /\ pc[h] = "insert"
          /\ UNCHANGED <<users, chat, wallet, todo, room, asked, alone>>
          /\ conns' = conns \ {h}
      BY <1>4 DEF AddInsert, FinishInsert
    <2>2. Row(h, wallet[h]) \in Chats \X Spellings
      BY <2>1 DEF Row, TypeOK
    <2>3. rows' \subseteq Chats \X Spellings
      BY <1>4, <2>2 DEF AddInsert, FinishInsert, AddedRow, NothingAdded, NoSuchUser,
         InsertFails, TypeOK
    <2>4. \/ pc' = [pc EXCEPT ![h] = "reply"]
          \/ pc' = [pc EXCEPT ![h] = "exists"]
      BY <1>4 DEF AddInsert, FinishInsert, NothingAdded, NoSuchUser, InsertFails, Answer
    <2>5. reply' \in [Handlers -> Replies] /\ failed' \in [Handlers -> BOOLEAN]
      BY <1>4 DEF AddInsert, FinishInsert, NothingAdded, NoSuchUser, InsertFails,
         Answer, TypeOK, Replies
    <2>6. Cardinality(conns \ {h}) + others <= Conns
      <3>1. /\ Cardinality(conns \ {h}) <= Cardinality(conns)
            /\ Cardinality(conns \ {h}) \in Nat
        BY <1>0, FS_Subset, FS_CardinalityType
      <3> QED
        BY <1>0, <3>1
    <2>7. pc' \in [Handlers -> Pc]
      BY <2>4 DEF TypeOK, Pc
    <2>8. Pool'
      BY <2>1, <2>4, <2>6 DEF TypeOK
    <2> QED
      BY <2>1, <2>3, <2>4, <2>5, <2>6, <2>7, <2>8 DEF TypeOK
  <1>5. ASSUME NEW h \in Handlers, AddExists(h) PROVE TypeOK' /\ Pool'
    <2>1. /\ pc[h] = "exists"
          /\ pc' = [pc EXCEPT ![h] = "reply"]
          /\ UNCHANGED <<users, rows, conns, chat, wallet, todo, room, asked, alone>>
      BY <1>5 DEF AddExists, Answer
    <2>2. reply' \in [Handlers -> Replies] /\ failed' \in [Handlers -> BOOLEAN]
      BY <1>5 DEF AddExists, Answer, TypeOK, Replies
    <2>3. pc' \in [Handlers -> Pc]
      BY <2>1 DEF TypeOK, Pc
    <2> QED
      BY <2>1, <2>2, <2>3 DEF TypeOK
  <1>6. ASSUME NEW h \in Handlers, Remove(h) PROVE TypeOK' /\ Pool'
    <2>1. todo' \in [Handlers -> Seq(Spellings)]
      BY <1>6 DEF Remove, RemoveRow, TypeOK
    <2> QED
      BY <1>6, <2>1 DEF Remove, RemoveRow, TypeOK
  <1>7. ASSUME NEW h \in Handlers, RemoveDone(h) PROVE TypeOK' /\ Pool'
    <2>1. pc' \in [Handlers -> Pc] /\ reply' \in [Handlers -> Replies]
      BY <1>7 DEF RemoveDone, Answer, TypeOK, Pc, Replies
    <2> QED
      BY <1>7, <2>1 DEF RemoveDone, Answer, TypeOK
  <1>8. ASSUME NEW h \in Handlers, Subscribe(h) \/ Unsubscribe(h) PROVE TypeOK' /\ Pool'
    <2>1. PICK c \in Chats : Request(h, c, "reply")
      BY <1>8 DEF Subscribe, Unsubscribe
    <2>2. "reply" \in Pc
      BY DEF Pc
    <2>3. /\ UNCHANGED <<conns, wallet, todo, room, reply, asked, failed>>
          /\ users' \subseteq Chats
          /\ rows' \subseteq rows
      BY <1>8 DEF Subscribe, Unsubscribe, TypeOK
    <2> QED
      BY <2>1, <2>2, <2>3, RequestTypes DEF TypeOK
  <1>9. ASSUME NEW h \in Handlers, Done(h) PROVE TypeOK' /\ Pool'
    <2>1. pc' \in [Handlers -> Pc] /\ reply' \in [Handlers -> Replies]
      BY <1>9 DEF Done, TypeOK, Pc, Replies
    <2> QED
      BY <1>9, <2>1 DEF Done, TypeOK
  <1>10. CASE UNCHANGED vars
    BY <1>10 DEF vars, TypeOK
  <1> QED
    BY <1>1, <1>2, <1>3, <1>4, <1>5, <1>6, <1>7, <1>8, <1>9, <1>10
       DEF Handle, AddWatch, RemoveWatch

\* The rest of the program only takes free connections and gives back its own.
LEMMA OthersTypeStep ==
    ASSUME TypeOK, Pool, OthersTake \/ OthersRelease
    PROVE  TypeOK' /\ Pool'
  <1>1. UNCHANGED <<users, rows, conns, pc, chat, wallet, todo, room, reply,
                    asked, alone, failed>>
    BY DEF OthersTake, OthersRelease
  <1>2. IsFiniteSet(conns) /\ Cardinality(conns) \in Nat /\ Conns \in Nat
    BY WatchlistAssumption, FS_Subset, FS_CardinalityType DEF TypeOK
  <1>3. others' \in Nat /\ Cardinality(conns) + others' <= Conns
    BY <1>2 DEF OthersTake, OthersRelease, ConnFree, Pool
  <1> QED
    BY <1>1, <1>3 DEF TypeOK, Pool

LEMMA TypeStep == TypeOK /\ Pool /\ [Next]_vars => TypeOK' /\ Pool'
  <1> SUFFICES ASSUME TypeOK, Pool, [Next]_vars PROVE TypeOK' /\ Pool'
    OBVIOUS
  <1>1. CASE OthersTake \/ OthersRelease
    BY <1>1, OthersTypeStep
  <1>2. CASE ~(OthersTake \/ OthersRelease)
    <2>1. others' = others /\ [\E h \in Handlers : Handle(h)]_vars
      BY <1>2 DEF Next, vars
    <2> QED
      BY <2>1, HandlerTypeStep
  <1> QED
    BY <1>1, <1>2

-----------------------------------------------------------------------------
(* What a step does to the tables.                                         *)

\* Rows appear only through an admitted INSERT, and users disappear only
\* together with their rows.
LEMMA TableStep ==
    ASSUME TypeOK, [Next]_vars
    PROVE  \/ \E h \in Handlers :
                /\ pc[h] = "insert" /\ pc'[h] # "insert"
                /\ AddedRow(h, Row(h, wallet[h]))
                /\ UNCHANGED <<users, chat, room>>
                /\ \A g \in Handlers : g # h => pc'[g] = pc[g]
           \/ rows' \subseteq rows /\ users \subseteq users'
           \/ \E c \in Chats : rows' = {r \in rows : r[1] # c} /\ users' = users \ {c}
  <1>1. ASSUME NEW h \in Handlers, AddInsert(h), ~(rows' \subseteq rows)
        PROVE  /\ pc[h] = "insert" /\ pc'[h] # "insert"
               /\ AddedRow(h, Row(h, wallet[h]))
               /\ UNCHANGED <<users, chat, room>>
               /\ \A g \in Handlers : g # h => pc'[g] = pc[g]
    <2>1. AddedRow(h, Row(h, wallet[h])) /\ pc' = [pc EXCEPT ![h] = "reply"]
      BY <1>1 DEF AddInsert, FinishInsert, NothingAdded, NoSuchUser, InsertFails, Answer
    <2> QED
      BY <1>1, <2>1 DEF AddInsert, FinishInsert, TypeOK
  <1>2. ASSUME NEW h \in Handlers, AddInsert(h) PROVE users' = users
    BY <1>2 DEF AddInsert, FinishInsert
  <1>3. ASSUME NEW h \in Handlers,
               RequestAdd(h) \/ RequestRemove(h) \/ AddCount(h) \/ AddExists(h)
                 \/ Remove(h) \/ RemoveDone(h) \/ Subscribe(h) \/ Done(h)
        PROVE  rows' \subseteq rows /\ users \subseteq users'
    BY <1>3 DEF RequestAdd, RequestRemove, AddCount, AddExists, Remove, RemoveRow,
       RemoveDone, Subscribe, Done
  <1>4. ASSUME NEW h \in Handlers, Unsubscribe(h)
        PROVE  \/ rows' \subseteq rows /\ users \subseteq users'
               \/ \E c \in Chats : rows' = {r \in rows : r[1] # c} /\ users' = users \ {c}
    BY <1>4 DEF Unsubscribe
  <1>5. CASE UNCHANGED vars \/ OthersTake \/ OthersRelease
    BY <1>5 DEF vars, OthersTake, OthersRelease
  <1> QED
    BY <1>1, <1>2, <1>3, <1>4, <1>5 DEF Next, Handle, AddWatch, RemoveWatch

LEMMA CanonicalStep == TypeOK /\ Canonical /\ [Next]_vars => Canonical'
  <1> SUFFICES ASSUME TypeOK, Canonical, [Next]_vars PROVE Canonical'
    OBVIOUS
  <1>1. ASSUME NEW h \in Handlers, pc[h] = "insert", AddedRow(h, Row(h, wallet[h]))
        PROVE  Canonical'
    <2>1. wallet[h] \in Spellings
      BY <1>1 DEF TypeOK
    <2>2. Row(h, wallet[h])[2] = Canon[wallet[h]]
      BY DEF Row
    <2>3. Canon[Canon[wallet[h]]] = Canon[wallet[h]]
      BY <2>1, WatchlistAssumption
    <2> QED
      BY <1>1, <2>2, <2>3 DEF AddedRow, Canonical
  <1>2. CASE rows' \subseteq rows
    BY <1>2 DEF Canonical
  <1> QED
    BY <1>1, <1>2, TableStep

LEMMA OnlyUsersStep == TypeOK /\ OnlyUsersFollow /\ [Next]_vars => OnlyUsersFollow'
  <1> SUFFICES ASSUME TypeOK, OnlyUsersFollow, [Next]_vars PROVE OnlyUsersFollow'
    OBVIOUS
  <1>1. ASSUME NEW h \in Handlers, AddedRow(h, Row(h, wallet[h])), users' = users
        PROVE  OnlyUsersFollow'
    BY <1>1 DEF AddedRow, Row, OnlyUsersFollow
  <1>2. CASE rows' \subseteq rows /\ users \subseteq users'
    BY <1>2 DEF OnlyUsersFollow
  <1>3. ASSUME NEW c \in Chats, rows' = {r \in rows : r[1] # c}, users' = users \ {c}
        PROVE  OnlyUsersFollow'
    BY <1>3 DEF OnlyUsersFollow
  <1> QED
    BY <1>1, <1>2, <1>3, TableStep

-----------------------------------------------------------------------------
(* The limit.                                                              *)

\* Lists and sets of admitted requests are finite.
LEMMA FiniteCounts ==
    ASSUME NEW c \in Chats
    PROVE  /\ IsFiniteSet(Watched(c)) /\ Count(c) \in Nat
           /\ IsFiniteSet(Admitted(c)) /\ Cardinality(Admitted(c)) \in Nat
  <1>1. IsFiniteSet(Watched(c)) /\ IsFiniteSet(Admitted(c))
    BY WatchlistAssumption, FS_Subset DEF Watched, Admitted
  <1> QED
    BY <1>1, FS_CardinalityType DEF Count

\* What a step does to one list: neither it nor its admitted requests grow, or
\* a request is admitted while there is room, or an admitted request inserts.
LEMMA ListStep ==
    ASSUME TypeOK, Pool, [Next]_vars, NEW c \in Chats
    PROVE  \/ Watched(c)' \subseteq Watched(c) /\ Admitted(c)' \subseteq Admitted(c)
           \/ Watched(c)' = Watched(c) /\ Count(c) < MaxWatchlist
           \/ \E h \in Admitted(c), w \in Spellings :
                 /\ Watched(c)' = Watched(c) \cup {w}
                 /\ Admitted(c)' = Admitted(c) \ {h}
  <1>1. ASSUME NEW h \in Handlers,
               pc[h] = "insert", pc'[h] # "insert",
               AddedRow(h, Row(h, wallet[h])),
               UNCHANGED <<users, chat, room>>,
               \A g \in Handlers : g # h => pc'[g] = pc[g]
        PROVE  \/ Watched(c)' \subseteq Watched(c) /\ Admitted(c)' \subseteq Admitted(c)
               \/ \E w \in Spellings :
                     /\ h \in Admitted(c)
                     /\ Watched(c)' = Watched(c) \cup {w}
                     /\ Admitted(c)' = Admitted(c) \ {h}
    <2>1. Canon[wallet[h]] \in Spellings
      BY <1>1, WatchlistAssumption DEF TypeOK
    <2>2. rows' = rows \cup {<<chat[h], Canon[wallet[h]]>>}
      BY <1>1 DEF AddedRow, Row
    <2>3. Admitted(c)' = Admitted(c) \ {h}
      BY <1>1 DEF Admitted
    <2>4. CASE chat[h] = c
      <3>1. Watched(c)' = Watched(c) \cup {Canon[wallet[h]]}
        BY <2>1, <2>2, <2>4 DEF Watched
      <3>2. h \in Admitted(c)
        BY <1>1, <2>4 DEF Admitted, AddedRow
      <3> QED
        BY <2>1, <2>3, <3>1, <3>2
    <2>5. CASE chat[h] # c
      <3>1. Watched(c)' = Watched(c)
        BY <2>2, <2>5 DEF Watched
      <3> QED
        BY <2>3, <3>1
    <2> QED
      BY <2>4, <2>5
  <1>2. ASSUME NEW h \in Handlers, AddCount(h)
        PROVE  \/ Watched(c)' \subseteq Watched(c) /\ Admitted(c)' \subseteq Admitted(c)
               \/ Watched(c)' = Watched(c) /\ Count(c) < MaxWatchlist
    <2>1. Watched(c)' = Watched(c)
      BY <1>2 DEF AddCount, Watched
    <2>2. CASE chat[h] = c /\ Count(c) < MaxWatchlist
      BY <2>1, <2>2
    <2>3. CASE chat[h] # c \/ ~(Count(c) < MaxWatchlist)
      <3>1. Admitted(c)' \subseteq Admitted(c)
        BY <1>2, <2>3 DEF AddCount, Admitted, TypeOK
      <3> QED
        BY <2>1, <3>1
    <2> QED
      BY <2>2, <2>3
  <1>3. ASSUME \A h \in Handlers : ~AddCount(h)
        PROVE  Admitted(c)' \subseteq Admitted(c)
    <2>1. ASSUME NEW h \in Handlers, AddInsert(h) PROVE Admitted(c)' \subseteq Admitted(c)
      <3>1. /\ UNCHANGED <<chat, room>>
            /\ pc' = [pc EXCEPT ![h] = "reply"] \/ pc' = [pc EXCEPT ![h] = "exists"]
        BY <2>1 DEF AddInsert, FinishInsert, NothingAdded, NoSuchUser, InsertFails, Answer
      <3> QED
        BY <3>1 DEF Admitted, TypeOK
    <2>2. ASSUME NEW h \in Handlers, NEW d \in Chats, NEW at \in Pc \ {"insert"},
                 Request(h, d, at), room' = room
          PROVE  Admitted(c)' \subseteq Admitted(c)
      BY <2>2 DEF Request, Admitted, TypeOK
    <2>3. ASSUME NEW h \in Handlers,
                 RequestAdd(h) \/ RequestRemove(h) \/ Subscribe(h) \/ Unsubscribe(h)
          PROVE  Admitted(c)' \subseteq Admitted(c)
      <3>1. {"count", "delete", "reply"} \subseteq Pc \ {"insert"}
        BY DEF Pc
      <3> QED
        BY <2>2, <2>3, <3>1 DEF RequestAdd, RequestRemove, Subscribe, Unsubscribe
    <2>4. ASSUME NEW h \in Handlers, AddExists(h) \/ Remove(h) \/ RemoveDone(h)
          PROVE  Admitted(c)' \subseteq Admitted(c)
      BY <2>4 DEF AddExists, Remove, RemoveRow, RemoveDone, Answer, Admitted, TypeOK
    <2>5. ASSUME NEW h \in Handlers, Done(h) PROVE Admitted(c)' \subseteq Admitted(c)
      BY <2>5 DEF Done, Admitted, TypeOK
    <2>6. CASE UNCHANGED vars \/ OthersTake \/ OthersRelease
      BY <2>6 DEF vars, OthersTake, OthersRelease, Admitted
    <2> QED
      BY <1>3, <2>1, <2>3, <2>4, <2>5, <2>6 DEF Next, Handle, AddWatch, RemoveWatch
  <1>4. CASE rows' \subseteq rows
    <2>1. Watched(c)' \subseteq Watched(c)
      BY <1>4 DEF Watched
    <2> QED
      BY <1>2, <1>3, <2>1
  <1> QED
    BY <1>1, <1>4, TableStep

LEMMA OvershootStep ==
    TypeOK /\ Pool /\ Pool' /\ OvershootBounded /\ [Next]_vars => OvershootBounded'
  <1> SUFFICES ASSUME TypeOK, Pool, Pool', OvershootBounded, [Next]_vars, NEW c \in Chats
               PROVE  Count(c)' + Cardinality(Admitted(c)') < MaxWatchlist + Conns
    BY DEF OvershootBounded
  <1> DEFINE W == Watched(c)
             A == Admitted(c)
  <1>1. /\ IsFiniteSet(W) /\ Cardinality(W) \in Nat
        /\ IsFiniteSet(A) /\ Cardinality(A) \in Nat
    BY FiniteCounts DEF Count
  <1>2. IsFiniteSet(W') /\ IsFiniteSet(A')
    BY WatchlistAssumption, FS_Subset DEF Watched, Admitted
  <1>3. Cardinality(W') \in Nat /\ Cardinality(A') \in Nat
    BY <1>2, FS_CardinalityType
  <1>4. Cardinality(W) + Cardinality(A) < MaxWatchlist + Conns
    BY DEF OvershootBounded, Count
  <1>5. /\ Count(c)' = Cardinality(W') /\ Count(c) = Cardinality(W)
        /\ Admitted(c)' = A'
    BY DEF Count
  <1>6. MaxWatchlist \in Nat /\ Conns \in Nat
    BY WatchlistAssumption
  <1> HIDE DEF W, A
  <1>7. CASE W' \subseteq W /\ A' \subseteq A
    <2>1. Cardinality(W') <= Cardinality(W) /\ Cardinality(A') <= Cardinality(A)
      BY <1>1, <1>7, FS_Subset
    <2> QED
      BY <1>1, <1>3, <1>4, <1>5, <1>6, <2>1
  <1>8. CASE W' = W /\ Count(c) < MaxWatchlist
    <2>1. A' \subseteq conns'
      BY DEF A, Admitted, Pool
    <2>2. IsFiniteSet(conns')
      BY WatchlistAssumption, FS_Subset DEF Pool
    <2>3. Cardinality(A') <= Cardinality(conns') /\ Cardinality(conns') \in Nat
      BY <2>1, <2>2, FS_Subset, FS_CardinalityType
    <2>4. Cardinality(conns') <= Conns
      BY <2>3, <1>6 DEF Pool
    <2> QED
      BY <1>1, <1>3, <1>5, <1>6, <1>8, <2>3, <2>4
  <1>9. ASSUME NEW h \in A, NEW w \in Spellings, W' = W \cup {w}, A' = A \ {h}
        PROVE  Count(c)' + Cardinality(A') < MaxWatchlist + Conns
    <2>1. Cardinality(W') <= Cardinality(W) + 1
      <3>1. Cardinality(W') = IF w \in W THEN Cardinality(W) ELSE Cardinality(W) + 1
        BY <1>1, <1>9, FS_AddElement
      <3> QED
        BY <1>1, <3>1
    <2>2. Cardinality(A') = Cardinality(A) - 1
      BY <1>1, <1>9, FS_RemoveElement
    <2> QED
      BY <1>1, <1>3, <1>4, <1>5, <1>6, <2>1, <2>2
  <1> QED
    BY <1>7, <1>8, <1>9, ListStep DEF W, A

LEMMA InitOvershoot == Init => OvershootBounded
  <1> SUFFICES ASSUME Init, NEW c \in Chats
               PROVE  Count(c) + Cardinality(Admitted(c)) < MaxWatchlist + Conns
    BY DEF OvershootBounded
  <1>1. Watched(c) = {} /\ Admitted(c) = {}
    BY DEF Init, Watched, Admitted
  <1> QED
    BY <1>1, FS_EmptySet, WatchlistAssumption DEF Count

LEMMA Invariance == Spec => []IInv
  <1>1. Init => IInv
    BY InitTypes, InitOvershoot DEF IInv
  <1>2. IInv /\ [Next]_vars => IInv'
    BY TypeStep, CanonicalStep, OnlyUsersStep, OvershootStep DEF IInv
  <1> QED
    BY <1>1, <1>2, PTL DEF Spec

-----------------------------------------------------------------------------

\* Tables, handlers and the pool keep their types.
THEOREM WatchlistTypeCorrect == Spec => []TypeOK
  <1>1. IInv => TypeOK
    BY DEF IInv
  <1> QED
    BY Invariance, <1>1, PTL

\* No list exceeds MaxWatchlistSize by as much as the pool has connections,
\* however many requests run at once.
THEOREM LimitOvershootIsBounded == Spec => []OvershootBounded
  <1>1. IInv => OvershootBounded
    BY DEF IInv
  <1> QED
    BY Invariance, <1>1, PTL

\* A wallet is stored under one spelling, so it is followed once.
THEOREM WalletIsFollowedOnce == Spec => []FollowedOnce
  <1>1. IInv => FollowedOnce
    <2> SUFFICES ASSUME IInv, NEW r \in rows, NEW s \in rows,
                        r[1] = s[1], Canon[r[2]] = Canon[s[2]]
                 PROVE  r = s
      BY DEF FollowedOnce
    <2>1. r \in Chats \X Spellings /\ s \in Chats \X Spellings
      BY DEF IInv, TypeOK
    <2>2. r[2] = s[2]
      BY DEF IInv, Canonical
    <2> QED
      BY <2>1, <2>2
  <1> QED
    BY Invariance, <1>1, PTL

\* A user who has sent /stop follows nothing.
THEOREM StoppedUsersFollowNothing == Spec => []OnlyUsersFollow
  <1>1. IInv => OnlyUsersFollow
    BY DEF IInv
  <1> QED
    BY Invariance, <1>1, PTL

-----------------------------------------------------------------------------
(* Why a user who sends one request at a time is told the truth: nobody    *)
(* else touches that list (Lone), so what a statement saw still holds when *)
(* the next one runs (Told).                                               *)

Elements(s) == {s[i] : i \in 1..Len(s)}

\* What the goroutine is about, and that it has not answered yet.
Own(h) ==
    /\ pc[h] \in {"count", "insert", "exists"} => asked[h] = {wallet[h]}
    /\ pc[h] = "reply" /\ reply[h] = "added" =>
          asked[h] = {wallet[h]} /\ wallet[h] \in Spellings
    /\ pc[h] # "reply" => reply[h] = "none"

Lone(h) ==
    alone[h] /\ pc[h] # "idle" =>
        \A g \in Handlers \ {h} : pc[g] # "idle" => chat[g] # chat[h]

IsFull(h) == Cardinality(Watched(chat[h])) >= MaxWatchlist

Has(h, w) == Canon[w] \in Watched(chat[h])

Told(h) ==
    alone[h] /\ ~failed[h] =>
        /\ pc[h] = "insert" /\ ~room[h] => IsFull(h)
        /\ pc[h] = "exists" => IsFull(h) \/ Has(h, wallet[h])
        /\ pc[h] = "delete" =>
              \A w \in asked[h] : w \in Elements(todo[h]) \/ ~Has(h, w)
        /\ pc[h] = "reply" /\ reply[h] = "added" => Has(h, wallet[h])
        /\ pc[h] = "reply" /\ reply[h] = "removed" => \A w \in asked[h] : ~Has(h, w)
        /\ pc[h] = "reply" /\ reply[h] = "full" => IsFull(h)

SInv == \A h \in Handlers : Own(h) /\ Lone(h) /\ Told(h)

LEMMA InitSInv == Init => SInv
  BY DEF Init, SInv, Own, Lone, Told

LEMMA SInvUnchanged ==
    ASSUME SInv,
           UNCHANGED <<rows, pc, chat, wallet, todo, room, reply, asked, alone, failed>>
    PROVE  SInv'
  BY DEF SInv, Own, Lone, Told, IsFull, Has, Watched

\* What the step of g leaves to another handler h.
Untouched(h) ==
    /\ pc'[h] = pc[h] /\ chat'[h] = chat[h] /\ wallet'[h] = wallet[h]
    /\ todo'[h] = todo[h] /\ room'[h] = room[h] /\ reply'[h] = reply[h]
    /\ asked'[h] = asked[h] /\ failed'[h] = failed[h]
    /\ alone'[h] => alone[h]

LEMMA RequestOther ==
    ASSUME TypeOK, SInv, NEW g \in Handlers, NEW c \in Chats, NEW at, Request(g, c, at),
           NEW h \in Handlers \ {g}
    PROVE  /\ pc'[h] = pc[h] /\ chat'[h] = chat[h] /\ (alone'[h] => alone[h])
           /\ alone'[h] /\ pc[h] # "idle" => chat[h] # c
           /\ Lone(h)'
  <1>1. /\ pc' = [pc EXCEPT ![g] = at] /\ chat' = [chat EXCEPT ![g] = c]
        /\ alone'[h] = (alone[h] /\ h \notin Busy(c))
    BY DEF Request
  <1>2. /\ pc'[h] = pc[h] /\ chat'[h] = chat[h] /\ chat'[g] = c
        /\ \A k \in Handlers \ {g} : pc'[k] = pc[k] /\ chat'[k] = chat[k]
    BY <1>1 DEF TypeOK
  <1>3. alone'[h] => alone[h]
    BY <1>1
  <1>4. alone'[h] /\ pc[h] # "idle" => chat[h] # c
    BY <1>1 DEF Busy
  <1>5. Lone(h)'
    BY <1>2, <1>3, <1>4 DEF SInv, Lone
  <1> QED
    BY <1>2, <1>3, <1>4, <1>5

\* No step of another goroutine touches the list of a user whose only request
\* is h's.
LEMMA OthersLeave ==
    ASSUME TypeOK, SInv, NEW g \in Handlers, Handle(g), NEW h \in Handlers \ {g}
    PROVE  /\ Untouched(h)
           /\ Lone(h)'
           /\ alone'[h] /\ pc[h] # "idle" => Watched(chat[h])' = Watched(chat[h])
  <1> USE DEF Untouched
  <1>1. CASE RequestAdd(g) \/ RequestRemove(g)
    <2>1. PICK c \in Chats, at \in {"count", "delete"} : Request(g, c, at)
      BY <1>1 DEF RequestAdd, RequestRemove
    <2>2. /\ wallet'[h] = wallet[h] /\ todo'[h] = todo[h] /\ room'[h] = room[h]
          /\ reply'[h] = reply[h] /\ asked'[h] = asked[h] /\ failed'[h] = failed[h]
          /\ rows' = rows
      BY <1>1 DEF RequestAdd, RequestRemove, TypeOK
    <2>3. chat'[h] = chat[h] /\ Watched(chat[h])' = Watched(chat[h])
      BY <2>1, <2>2, RequestOther DEF Watched
    <2> QED
      BY <2>1, <2>2, <2>3, RequestOther
  <1>2. CASE Subscribe(g) \/ Unsubscribe(g)
    <2>1. PICK c \in Chats :
            /\ Request(g, c, "reply")
            /\ rows' = rows \/ rows' = {r \in rows : r[1] # c}
      BY <1>2 DEF Subscribe, Unsubscribe
    <2>2. UNCHANGED <<wallet, todo, room, reply, asked, failed>>
      BY <1>2 DEF Subscribe, Unsubscribe
    <2>3. chat'[h] = chat[h] /\ (alone'[h] /\ pc[h] # "idle" => chat[h] # c)
      BY <2>1, RequestOther
    <2>4. alone'[h] /\ pc[h] # "idle" => Watched(chat[h])' = Watched(chat[h])
      BY <2>1, <2>3 DEF Watched
    <2> QED
      BY <2>1, <2>2, <2>4, RequestOther
  <1>3. CASE AddCount(g) \/ AddInsert(g) \/ AddExists(g) \/ Remove(g) \/ RemoveDone(g)
    <2>1. pc[g] # "idle" /\ UNCHANGED <<chat, wallet, asked, alone>>
      BY <1>3 DEF AddCount, AddInsert, FinishInsert, AddExists, Remove, RemoveRow, RemoveDone
    <2>2. /\ pc'[h] = pc[h] /\ todo'[h] = todo[h] /\ room'[h] = room[h]
          /\ reply'[h] = reply[h] /\ failed'[h] = failed[h]
          /\ \A k \in Handlers \ {g} : pc'[k] = pc[k]
      BY <1>3 DEF AddCount, AddInsert, FinishInsert, AddedRow, NothingAdded, NoSuchUser,
         InsertFails, Answer, AddExists, Remove, RemoveRow, RemoveDone, TypeOK
    <2>3. \E w : rows' = rows \/ rows' = rows \cup {<<chat[g], w>>}
                              \/ rows' = rows \ {<<chat[g], w>>}
      BY <1>3 DEF AddCount, AddInsert, FinishInsert, AddedRow, NothingAdded, NoSuchUser,
         InsertFails, AddExists, Remove, RemoveRow, RemoveDone, Row
    <2>4. alone[h] /\ pc[h] # "idle" => chat[g] # chat[h]
      BY <2>1 DEF SInv, Lone
    <2>5. alone[h] /\ pc[h] # "idle" => Watched(chat[h])' = Watched(chat[h])
      BY <2>1, <2>3, <2>4 DEF Watched
    <2>6. Lone(h)'
      BY <2>1, <2>2, <2>4 DEF SInv, Lone
    <2> QED
      BY <2>1, <2>2, <2>5, <2>6
  <1>4. CASE Done(g)
    <2>1. /\ Untouched(h) /\ pc'[g] = "idle" /\ UNCHANGED <<rows, todo>>
          /\ \A k \in Handlers \ {g} : pc'[k] = pc[k] /\ chat'[k] = chat[k]
      BY <1>4 DEF Done, TypeOK
    <2>2. Lone(h)'
      BY <2>1 DEF SInv, Lone
    <2>3. Watched(chat[h])' = Watched(chat[h])
      BY <2>1 DEF Watched
    <2> QED
      BY <2>1, <2>2, <2>3
  <1> QED
    BY <1>1, <1>2, <1>3, <1>4 DEF Handle, AddWatch, RemoveWatch

LEMMA OthersKept ==
    ASSUME TypeOK, SInv, NEW g \in Handlers, Handle(g), NEW h \in Handlers \ {g}
    PROVE  Own(h)' /\ Lone(h)' /\ Told(h)'
  <1>1. /\ Untouched(h) /\ Lone(h)'
        /\ alone'[h] /\ pc[h] # "idle" => Watched(chat[h])' = Watched(chat[h])
    BY OthersLeave
  <1>2. Own(h)'
    BY <1>1 DEF Untouched, SInv, Own
  <1>3. Told(h)'
    BY <1>1 DEF Untouched, SInv, Told, IsFull, Has
  <1> QED
    BY <1>1, <1>2, <1>3

\* The handler's own step.
LEMMA OwnKept ==
    ASSUME TypeOK, Pool, SInv, NEW h \in Handlers, Handle(h)
    PROVE  Own(h)' /\ Lone(h)' /\ Told(h)'
  <1> USE DEF SInv
  <1>1. ASSUME NEW c \in Chats, NEW at, Request(h, c, at) PROVE Lone(h)'
    BY <1>1 DEF Request, Busy, Lone, TypeOK
  <1>2. CASE RequestAdd(h)
    <2>1. PICK c \in Chats : Request(h, c, "count")
      BY <1>2 DEF RequestAdd
    <2>2. pc[h] = "idle" /\ pc'[h] = "count" /\ reply'[h] = reply[h]
          /\ asked'[h] = {wallet'[h]}
      BY <1>2, <2>1 DEF RequestAdd, Request, TypeOK
    <2> QED
      BY <1>1, <2>1, <2>2 DEF Own, Told
  <1>3. CASE RequestRemove(h)
    <2>1. PICK c \in Chats : Request(h, c, "delete")
      BY <1>3 DEF RequestRemove
    <2>2. PICK w \in Spellings, x \in Spellings :
            /\ todo' = [todo EXCEPT ![h] = IF w = x THEN <<w>> ELSE <<w, x>>]
            /\ asked' = [asked EXCEPT ![h] = {w, x}]
      BY <1>3 DEF RequestRemove
    <2>3. pc[h] = "idle" /\ pc'[h] = "delete" /\ reply'[h] = reply[h]
      BY <1>3, <2>1 DEF RequestRemove, Request, TypeOK
    <2>4. asked'[h] = {w, x} /\ {w, x} \subseteq Elements(todo'[h])
      <3>1. /\ asked'[h] = {w, x}
            /\ todo'[h] = IF w = x THEN <<w>> ELSE <<w, x>>
        BY <2>2 DEF TypeOK
      <3>2. Elements(<<w>>) = {w}
        BY DEF Elements
      <3>3. w \in Elements(<<w, x>>) /\ x \in Elements(<<w, x>>)
        <4>1. /\ <<w, x>>[1] = w /\ <<w, x>>[2] = x
              /\ 1 \in 1..Len(<<w, x>>) /\ 2 \in 1..Len(<<w, x>>)
          OBVIOUS
        <4> QED
          BY <4>1, Zenon DEF Elements
      <3> QED
        BY <3>1, <3>2, <3>3
    <2> QED
      BY <1>1, <2>1, <2>3, <2>4 DEF Own, Told
  <1>4. CASE Subscribe(h) \/ Unsubscribe(h)
    <2>1. PICK c \in Chats : Request(h, c, "reply")
      BY <1>4 DEF Subscribe, Unsubscribe
    <2>2. pc[h] = "idle" /\ pc'[h] = "reply" /\ reply'[h] = reply[h]
      BY <1>4, <2>1 DEF Subscribe, Unsubscribe, Request, TypeOK
    <2> QED
      BY <1>1, <2>1, <2>2 DEF Own, Told
  <1>5. CASE AddCount(h)
    <2>1. /\ pc[h] = "count" /\ pc'[h] = "insert"
          /\ room'[h] = (Count(chat[h]) < MaxWatchlist)
          /\ \A k \in Handlers \ {h} : pc'[k] = pc[k]
          /\ UNCHANGED <<rows, chat, wallet, todo, reply, asked, alone, failed>>
      BY <1>5 DEF AddCount, TypeOK
    <2>2. chat[h] \in Chats /\ Count(chat[h]) \in Nat /\ MaxWatchlist \in Nat
      BY <2>1, FiniteCounts, WatchlistAssumption DEF TypeOK
    <2>3. ~room'[h] => IsFull(h)'
      <3>0. ~room'[h] => ~(Count(chat[h]) < MaxWatchlist)
        BY <2>1, Zenon
      <3>1. ~room'[h] => Count(chat[h]) >= MaxWatchlist
        BY <2>2, <3>0
      <3>2. Watched(chat[h])' = Watched(chat[h])
        BY <2>1 DEF Watched
      <3>3. IsFull(h)' <=> Count(chat[h]) >= MaxWatchlist
        BY <3>2, Zenon DEF IsFull, Count
      <3> QED
        BY <3>1, <3>3
    <2> QED
      BY <2>1, <2>3 DEF Own, Lone, Told
  <1>6. CASE AddInsert(h)
    <2>1. /\ pc[h] = "insert" /\ pc'[h] \in {"exists", "reply"}
          /\ \A k \in Handlers \ {h} : pc'[k] = pc[k]
          /\ UNCHANGED <<users, chat, wallet, todo, room, asked, alone>>
      BY <1>6 DEF AddInsert, FinishInsert, NothingAdded, NoSuchUser, InsertFails,
         Answer, TypeOK
    <2>2. /\ chat[h] \in Chats /\ wallet[h] \in Spellings /\ Canon[wallet[h]] \in Spellings
      BY <2>1, WatchlistAssumption DEF TypeOK
    <2>3. Own(h)' /\ Lone(h)'
      <3>1. \/ pc'[h] = "exists" /\ reply' = reply
            \/ pc'[h] = "reply"
        BY <1>6 DEF AddInsert, FinishInsert, NothingAdded, NoSuchUser,
           InsertFails, Answer, TypeOK
      <3>2. Own(h)'
        BY <2>1, <2>2, <3>1 DEF Own
      <3>3. Lone(h)'
        BY <2>1 DEF Lone
      <3> QED
        BY <3>2, <3>3
    <2>4. CASE AddedRow(h, Row(h, wallet[h])) /\ Answer(h, "added") /\ UNCHANGED failed
      <3>1. Has(h, wallet[h])'
        BY <2>1, <2>2, <2>4 DEF AddedRow, Row, Has, Watched
      <3>2. pc'[h] = "reply" /\ reply'[h] = "added"
        BY <2>4 DEF Answer, TypeOK
      <3> QED
        BY <2>3, <3>1, <3>2 DEF Told
    <2>5. CASE NothingAdded(h, Row(h, wallet[h]))
      <3>1. pc'[h] = "exists" /\ UNCHANGED <<rows, failed>>
        BY <2>5 DEF NothingAdded, TypeOK
      <3>2. Has(h, wallet[h])' <=> Row(h, wallet[h]) \in rows
        BY <2>1, <2>2, <3>1 DEF Has, Watched, Row
      <3>3. IsFull(h)' <=> IsFull(h)
        BY <2>1, <3>1 DEF IsFull, Watched
      <3> QED
        BY <2>1, <2>3, <2>5, <3>1, <3>2, <3>3 DEF Told, NothingAdded
    <2>6. CASE NoSuchUser(h, Row(h, wallet[h]))
      <3>1. pc'[h] = "reply" /\ reply'[h] = "error"
        BY <2>6 DEF NoSuchUser, Answer, TypeOK
      <3> QED
        BY <2>3, <3>1 DEF Told
    <2>7. CASE InsertFails(h, Row(h, wallet[h]))
      <3>1. failed'[h]
        BY <2>7 DEF InsertFails, TypeOK
      <3> QED
        BY <2>3, <3>1 DEF Told
    <2> QED
      BY <1>6, <2>4, <2>5, <2>6, <2>7 DEF AddInsert, FinishInsert
  <1>7. CASE AddExists(h)
    <2>1. /\ pc[h] = "exists" /\ pc'[h] = "reply"
          /\ \A k \in Handlers \ {h} : pc'[k] = pc[k]
          /\ UNCHANGED <<rows, chat, wallet, todo, room, asked, alone>>
          /\ wallet[h] \in Spellings
      BY <1>7 DEF AddExists, Answer, TypeOK
    <2>2. Canon[wallet[h]] \in Spellings
      BY <2>1, WatchlistAssumption
    <2>3. Own(h)' /\ Lone(h)'
      BY <2>1 DEF Own, Lone
    <2>4. Has(h, wallet[h]) <=> Row(h, wallet[h]) \in rows
      BY <2>2 DEF Has, Watched, Row
    <2>5. (Has(h, wallet[h])' <=> Has(h, wallet[h])) /\ (IsFull(h)' <=> IsFull(h))
      BY <2>1 DEF Has, IsFull, Watched
    <2>6. \/ Row(h, wallet[h]) \in rows /\ reply'[h] = "added" /\ UNCHANGED failed
          \/ Row(h, wallet[h]) \notin rows /\ reply'[h] = "full" /\ UNCHANGED failed
          \/ failed'[h]
      BY <1>7 DEF AddExists, Answer, TypeOK
    <2> QED
      BY <2>1, <2>3, <2>4, <2>5, <2>6 DEF Told
  <1>8. CASE Remove(h)
    <2>1. /\ pc[h] = "delete" /\ todo[h] # <<>> /\ todo[h] \in Seq(Spellings)
          /\ todo'[h] = Tail(todo[h])
          /\ UNCHANGED <<pc, chat, wallet, room, reply, asked, alone>>
      BY <1>8 DEF Remove, RemoveRow, TypeOK
    <2>2. Own(h)' /\ Lone(h)'
      BY <2>1 DEF Own, Lone
    <2>3. \/ rows' = rows \ {Row(h, Head(todo[h]))} /\ UNCHANGED failed
          \/ failed'[h]
      BY <1>8 DEF Remove, RemoveRow, TypeOK
    <2>4. CASE rows' = rows \ {Row(h, Head(todo[h]))} /\ UNCHANGED failed
      <3>1. Watched(chat[h])' \subseteq Watched(chat[h]) \ {Canon[Head(todo[h])]}
        BY <2>1, <2>4 DEF Watched, Row
      <3>2. Elements(todo[h]) \subseteq {Head(todo[h])} \cup Elements(Tail(todo[h]))
        <4>1. ASSUME NEW i \in 1..Len(todo[h]), i # 1
              PROVE  i - 1 \in 1..Len(Tail(todo[h])) /\ Tail(todo[h])[i - 1] = todo[h][i]
          BY <2>1, <4>1
        <4>2. Head(todo[h]) = todo[h][1]
          BY <2>1
        <4> QED
          BY <4>1, <4>2 DEF Elements
      <3> QED
        BY <2>1, <2>2, <2>4, <3>1, <3>2 DEF Told, Has
    <2>5. CASE failed'[h]
      BY <2>2, <2>5 DEF Told
    <2> QED
      BY <2>3, <2>4, <2>5
  <1>9. CASE RemoveDone(h)
    <2>1. /\ pc[h] = "delete" /\ todo[h] = <<>>
          /\ pc'[h] = "reply" /\ reply'[h] = "removed"
          /\ \A k \in Handlers \ {h} : pc'[k] = pc[k]
          /\ UNCHANGED <<rows, chat, wallet, todo, room, asked, alone, failed>>
      BY <1>9 DEF RemoveDone, Answer, TypeOK
    <2>2. Elements(todo[h]) = {}
      BY <2>1 DEF Elements
    <2>3. \A w \in asked[h] : Has(h, w)' <=> Has(h, w)
      BY <2>1 DEF Has, Watched
    <2> QED
      BY <2>1, <2>2, <2>3 DEF Own, Lone, Told
  <1>10. CASE Done(h)
    <2>1. pc'[h] = "idle" /\ reply'[h] = "none"
      BY <1>10 DEF Done, TypeOK
    <2> QED
      BY <2>1 DEF Own, Lone, Told
  <1> QED
    BY <1>2, <1>3, <1>4, <1>5, <1>6, <1>7, <1>8, <1>9, <1>10
       DEF Handle, AddWatch, RemoveWatch

\* A user who sends one request at a time is told what became of it: what was
\* added is in the list, what was removed is not, and the list really was full.
THEOREM SoleUserIsToldTheTruth == Spec => []SoleReplyIsTrue
  <1>1. IInv /\ SInv /\ [Next]_vars => SInv'
    <2> SUFFICES ASSUME IInv, SInv, [Next]_vars PROVE SInv'
      OBVIOUS
    <2>1. CASE \E g \in Handlers : Handle(g)
      BY <2>1, OthersKept, OwnKept DEF IInv, SInv
    <2>2. CASE OthersTake \/ OthersRelease \/ UNCHANGED vars
      BY <2>2, SInvUnchanged DEF OthersTake, OthersRelease, vars
    <2> QED
      BY <2>1, <2>2 DEF Next
  <1>2. IInv /\ SInv => SoleReplyIsTrue
    <2> SUFFICES ASSUME IInv, SInv, NEW h \in Handlers,
                        pc[h] = "reply", alone[h], ~failed[h]
                 PROVE  /\ reply[h] = "added" =>
                              \E r \in rows : \E w \in asked[h] :
                                  r[1] = chat[h] /\ Canon[r[2]] = Canon[w]
                        /\ reply[h] = "removed" =>
                              \A r \in rows : \A w \in asked[h] :
                                  ~(r[1] = chat[h] /\ Canon[r[2]] = Canon[w])
                        /\ reply[h] = "full" => Count(chat[h]) >= MaxWatchlist
      BY DEF SoleReplyIsTrue
    <2>1. Own(h) /\ Told(h)
      BY DEF SInv
    <2>2. ASSUME reply[h] = "added"
          PROVE  \E r \in rows : \E w \in asked[h] :
                     r[1] = chat[h] /\ Canon[r[2]] = Canon[w]
      <3>1. /\ <<chat[h], Canon[wallet[h]]>> \in rows /\ wallet[h] \in asked[h]
            /\ wallet[h] \in Spellings
        BY <2>1, <2>2 DEF Own, Told, Has, Watched
      <3>2. Canon[Canon[wallet[h]]] = Canon[wallet[h]]
        BY <3>1, WatchlistAssumption
      <3> QED
        BY <3>1, <3>2
    <2>3. ASSUME reply[h] = "removed", NEW r \in rows, NEW w \in asked[h],
                 r[1] = chat[h], Canon[r[2]] = Canon[w]
          PROVE  FALSE
      <3>1. r \in Chats \X Spellings /\ r[2] = Canon[w]
        BY <2>3 DEF IInv, TypeOK, Canonical
      <3>2. Has(h, w)
        BY <2>3, <3>1 DEF Has, Watched
      <3> QED
        BY <2>1, <2>3, <3>2 DEF Told
    <2>4. reply[h] = "full" => Count(chat[h]) >= MaxWatchlist
      BY <2>1 DEF Told, IsFull, Count
    <2> QED
      BY <2>2, <2>3, <2>4
  <1> QED
    BY InitSInv, <1>1, <1>2, Invariance, PTL DEF Spec

-----------------------------------------------------------------------------
(* What requests do to the tables is what Database allows.                 *)

\* A row of a typed wallet, in the spelling it is stored in.
LEMMA RowIsStored ==
    ASSUME TypeOK, NEW h \in Handlers, pc[h] # "idle", NEW w \in Spellings
    PROVE  chat[h] \in Chats /\ Canon[w] \in {Canon[x] : x \in Spellings}
  BY DEF TypeOK

LEMMA InitIsDatabase == Init => Db!Init
  <1> SUFFICES ASSUME Init PROVE Db!Init
    OBVIOUS
  <1>1. [c \in Chats |-> "any"] \in [Chats -> {"any"}]
    OBVIOUS
  <1> QED
    BY <1>1 DEF Init, Db!Init

LEMMA InsertIsFollow ==
    ASSUME TypeOK, NEW h \in Handlers, AddInsert(h)
    PROVE  Db!Next \/ UNCHANGED Db!vars
  <1>1. CASE AddedRow(h, Row(h, wallet[h]))
    <2>1. /\ pc[h] # "idle" /\ wallet[h] \in Spellings
          /\ users' = users
      BY DEF AddInsert, FinishInsert, TypeOK
    <2>2. chat[h] \in Chats /\ Canon[wallet[h]] \in {Canon[x] : x \in Spellings}
      BY <2>1, RowIsStored
    <2>3. Db!Follow(chat[h], Canon[wallet[h]])
      BY <1>1, <2>1 DEF AddedRow, Row, Db!Follow
    <2> QED
      BY <2>2, <2>3 DEF Db!Next
  <1>2. CASE ~AddedRow(h, Row(h, wallet[h]))
    <2>1. UNCHANGED <<users, rows>>
      BY <1>2 DEF AddInsert, FinishInsert, NothingAdded, NoSuchUser, InsertFails
    <2> QED
      BY <2>1 DEF Db!vars
  <1> QED
    BY <1>1, <1>2

LEMMA RemoveIsUnfollow ==
    ASSUME TypeOK, NEW h \in Handlers, Remove(h)
    PROVE  Db!Next \/ UNCHANGED Db!vars
  <1>1. /\ pc[h] # "idle" /\ Head(todo[h]) \in Spellings
        /\ users' = users
    BY DEF Remove, RemoveRow, TypeOK
  <1>2. CASE rows' = rows \ {Row(h, Head(todo[h]))}
    <2>1. chat[h] \in Chats /\ Canon[Head(todo[h])] \in {Canon[x] : x \in Spellings}
      BY <1>1, RowIsStored
    <2>2. Db!Unfollow(chat[h], Canon[Head(todo[h])])
      BY <1>1, <1>2 DEF Row, Db!Unfollow
    <2> QED
      BY <2>1, <2>2 DEF Db!Next
  <1>3. CASE rows' = rows
    BY <1>1, <1>3 DEF Db!vars
  <1> QED
    BY <1>2, <1>3 DEF Remove, RemoveRow

LEMMA StopIsUnsubscribe ==
    ASSUME NEW h \in Handlers, Unsubscribe(h)
    PROVE  Db!Next \/ UNCHANGED Db!vars
  <1>1. PICK c \in Chats :
            \/ users' = users \ {c} /\ rows' = {r \in rows : r[1] # c}
            \/ UNCHANGED <<users, rows>>
    BY DEF Unsubscribe
  <1>2. [d \in Chats |-> "any"] = [[d \in Chats |-> "any"] EXCEPT ![c] = "any"]
    OBVIOUS
  <1>3. CASE users' = users \ {c} /\ rows' = {r \in rows : r[1] # c}
    <2>1. Db!Unsubscribe(c)
      BY <1>2, <1>3 DEF Db!Unsubscribe
    <2> QED
      BY <2>1 DEF Db!Next
  <1>4. CASE UNCHANGED <<users, rows>>
    BY <1>4 DEF Db!vars
  <1> QED
    BY <1>1, <1>3, <1>4

LEMMA StartIsSubscribe ==
    ASSUME NEW h \in Handlers, Subscribe(h)
    PROVE  Db!Next \/ UNCHANGED Db!vars
  <1>1. PICK c \in Chats : users' \in {users, users \cup {c}} /\ rows' = rows
    BY DEF Subscribe
  <1>2. CASE users' = users \cup {c}
    <2>1. Db!Subscribe(c)
      BY <1>1, <1>2 DEF Db!Subscribe
    <2> QED
      BY <2>1 DEF Db!Next
  <1>3. CASE users' = users
    BY <1>1, <1>3 DEF Db!vars
  <1> QED
    BY <1>1, <1>2, <1>3

\* Every other step leaves the tables alone.
LEMMA RestLeavesTables ==
    ASSUME [Next]_vars,
           \A h \in Handlers : ~(AddInsert(h) \/ Remove(h) \/ Subscribe(h) \/ Unsubscribe(h))
    PROVE  UNCHANGED Db!vars
  <1>1. UNCHANGED <<users, rows>>
    BY DEF Next, vars, Handle, AddWatch, RemoveWatch, RequestAdd, RequestRemove,
       AddCount, AddExists, RemoveDone, Done, OthersTake, OthersRelease
  <1> QED
    BY <1>1 DEF Db!vars

\* However requests overlap and fail, the tables change as if each change were
\* one step: only users follow, under the spelling that is stored, and leaving
\* takes the whole list.
THEOREM WatchlistImplementsDatabase == Spec => ImplementsDatabase
  <1>1. TypeOK /\ [Next]_vars => [Db!Next]_(Db!vars)
    <2> SUFFICES ASSUME TypeOK, [Next]_vars PROVE Db!Next \/ UNCHANGED Db!vars
      OBVIOUS
    <2> QED
      BY InsertIsFollow, RemoveIsUnfollow, StopIsUnsubscribe, StartIsSubscribe,
         RestLeavesTables
  <1> QED
    BY <1>1, InitIsDatabase, WatchlistTypeCorrect, PTL
       DEF Spec, ImplementsDatabase, Db!Spec
=============================================================================
