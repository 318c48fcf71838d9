---------------------------- MODULE ClicksProofs ----------------------------
(***************************************************************************)
(* Theorems about Clicks for any alerts, any number of requests and clicks.*)
(*                                                                         *)
(* A row never changes but for its clicks (RowsStay) and belongs to a fill *)
(* with its short id (Owned), so what a request reads at any time is about *)
(* the message its link is in.  A market click is counted on the row, then *)
(* pending, then stored: each step moves it from one term of               *)
(* EventsMatchClicks to the next.                                          *)
(***************************************************************************)
EXTENDS Clicks, FoldTheorems, TLAPS

\* A row holds a fill with its short id.
Owned ==
    \A s \in Shorts :
        rows[s] # NoRow =>
            \E a \in Alerts :
                /\ Short(a) = s
                /\ rows[s].wallet = Wallet[a]
                /\ rows[s].tx = Tx[a]
                /\ rows[s].market = Market[a]

\* What is about to be stored was read from the row, or could not be read.
ReadFromRow ==
    \A r \in Requests : pc[r] = "insert" => cat[r] \in {Row(r).category, Unread}

\* Nobody is sent anywhere before a row was found.
Untargeted ==
    \A r \in Requests : pc[r] \in {"idle", "find"} => target[r] = NoAlert

\* Market clicks that their row has counted and the counter not yet.
Counting == {r \in Requests : pc[r] = "count" /\ Counts(type[r])}

\* Clicks of a category that are counted and not yet located.
Locating(c) == {r \in Requests : pc[r] = "locate" /\ cat[r] = c}

\* CountersNeverRunAhead with the clicks that are under way.
RowsAhead == MarketClicks + Cardinality(Counting) <= RowClicks

ClicksAhead == \A c \in Labels : located[c] + Cardinality(Locating(c)) <= ClicksOf(c)

IInv == /\ TypeOK /\ Owned /\ ReadFromRow /\ Untargeted
        /\ RedirectGoesHome /\ EventsMatchClicks /\ RowsAhead /\ ClicksAhead

-----------------------------------------------------------------------------
(* Short ids.                                                              *)

LEMMA ShortIsShort == \A a \in Alerts : Short(a) \in Shorts
  BY DEF Shorts

\* Fills with one short id are of one wallet in one transaction.
LEMMA ShortIdentifies ==
    \A a, b \in Alerts : Short(a) = Short(b) => Tx[a] = Tx[b] /\ Wallet[a] = Wallet[b]
  BY DEF Short

-----------------------------------------------------------------------------
(* What a step does to the rows.                                           *)

LEMMA RegisterRow ==
    ASSUME TypeOK, NEW a \in Alerts, RegisterAlert(a)
    PROVE  /\ rows' \in [Shorts -> Rows \cup {NoRow}]
           /\ \/ rows' = rows
              \/ /\ rows[Short(a)] = NoRow
                 /\ \E c \in Category[a] : rows' = [rows EXCEPT ![Short(a)] = NewRow(a, c)]
  <1>1. ASSUME NEW c \in Category[a] PROVE NewRow(a, c) \in Rows
    BY DEF NewRow, Rows, Wallets, Txs, Markets, Labels
  <1> QED
    BY <1>1, ShortIsShort DEF RegisterAlert, TypeOK

LEMMA IncrementRow ==
    ASSUME TypeOK, NEW r \in Requests, link[r] \in Alerts, Row(r) # NoRow, Increment(r)
    PROVE  /\ rows' \in [Shorts -> Rows \cup {NoRow}]
           /\ \A s \in Shorts : s # Short(link[r]) => rows'[s] = rows[s]
           /\ rows'[Short(link[r])] = [Row(r) EXCEPT !.clicks = @ + 1]
           /\ rows'[Short(link[r])] \in Rows
  <1>1. Short(link[r]) \in Shorts
    BY ShortIsShort
  <1>2. Row(r) \in Rows
    BY <1>1 DEF TypeOK, Row
  <1>3. [Row(r) EXCEPT !.clicks = @ + 1] \in Rows
    BY <1>2 DEF Rows
  <1>4. rows' = [rows EXCEPT ![Short(link[r])] = [Row(r) EXCEPT !.clicks = @ + 1]]
    BY DEF Increment, Row
  <1> QED
    BY <1>1, <1>3, <1>4 DEF TypeOK

\* The rows of a step: those of other fills stay as they are.
RowStays(s) ==
    rows[s] # NoRow =>
        /\ rows'[s] # NoRow
        /\ rows'[s].wallet = rows[s].wallet /\ rows'[s].tx = rows[s].tx
        /\ rows'[s].market = rows[s].market /\ rows'[s].category = rows[s].category
        /\ rows'[s].clicks >= rows[s].clicks

LEMMA IncrementStays ==
    ASSUME TypeOK, NEW r \in Requests, link[r] \in Alerts, Row(r) # NoRow, Increment(r),
           NEW s \in Shorts
    PROVE  RowStays(s)
  <1>1. CASE s = Short(link[r])
    <2>1. /\ Row(r) \in Rows /\ Row(r) = rows[s]
          /\ rows'[s] = [rows[s] EXCEPT !.clicks = @ + 1] /\ rows'[s] \in Rows
      BY <1>1, IncrementRow DEF TypeOK, Row
    <2>2. rows'[s] # NoRow
      BY <2>1, ClicksAssumption
    <2> QED
      BY <2>1, <2>2 DEF RowStays, Rows
  <1>2. CASE s # Short(link[r])
    <2>1. rows'[s] = rows[s]
      BY <1>2, IncrementRow
    <2>2. rows[s] # NoRow => rows[s].clicks \in Nat
      BY DEF TypeOK, Rows
    <2> QED
      BY <2>1, <2>2 DEF RowStays
  <1> QED
    BY <1>1, <1>2

LEMMA RowsStay ==
    ASSUME TypeOK, [Next]_vars, NEW s \in Shorts
    PROVE  RowStays(s)
  <1>0. rows[s] # NoRow => rows[s].clicks \in Nat
    BY DEF TypeOK, Rows
  <1>1. ASSUME NEW a \in Alerts, RegisterAlert(a) PROVE RowStays(s)
    <2>1. rows[s] # NoRow => rows'[s] = rows[s]
      <3>1. CASE rows' = rows
        BY <3>1
      <3>2. ASSUME NEW c \in Category[a], rows[Short(a)] = NoRow,
                   rows' = [rows EXCEPT ![Short(a)] = NewRow(a, c)]
            PROVE  rows[s] # NoRow => rows'[s] = rows[s]
        BY <3>2 DEF TypeOK
      <3> QED
        BY <1>1, <3>1, <3>2, RegisterRow
    <2> QED
      BY <1>0, <2>1 DEF RowStays
  <1>2. CASE UNCHANGED rows
    BY <1>0, <1>2 DEF RowStays
  <1>3. ASSUME NEW r \in Requests, IncrementClick(r) PROVE RowStays(s)
    <2>1. link[r] \in Alerts
      BY <1>3 DEF IncrementClick, TypeOK
    <2>2. CASE Row(r) # NoRow /\ Increment(r)
      BY <2>1, <2>2, IncrementStays
    <2>3. CASE UNCHANGED rows
      BY <1>2, <2>3
    <2> QED
      BY <1>3, <2>2, <2>3 DEF IncrementClick
  <1>4. ASSUME NEW r \in Requests,
               Click(r) \/ GetAlertLinks(r) \/ Count(r) \/ Locate(r) \/ Lookup(r) \/ Insert(r)
        PROVE  UNCHANGED rows
    BY <1>4 DEF Click, GetAlertLinks, Count, Locate, Lookup, Insert
  <1>5. Restart \/ UNCHANGED vars => UNCHANGED rows
    BY DEF Restart, vars
  <1> QED
    BY <1>1, <1>2, <1>3, <1>4, <1>5 DEF Next, HandleRedirect

-----------------------------------------------------------------------------
(* Types.                                                                  *)

LEMMA ExceptNat ==
    ASSUME NEW D, NEW f \in [D -> Nat], NEW x, NEW n \in Nat
    PROVE  [f EXCEPT ![x] = n] \in [D -> Nat]
  OBVIOUS

LEMMA InitTypes == Init => TypeOK
  BY ClicksAssumption
     DEF Init, TypeOK, NoClicks, NoneLocated, Pc, Types, Labels

\* Where a request ends, its variables are those of an idle one.
LEMMA EndTypes ==
    ASSUME TypeOK, NEW r \in Requests, End(r)
    PROVE  /\ pc' \in [Requests -> Pc] /\ link' \in [Requests -> Alerts \cup {NoAlert}]
           /\ type' \in [Requests -> Types] /\ target' \in [Requests -> Targets \cup {NoAlert}]
           /\ cat' \in [Requests -> Labels]
           /\ pc'[r] = "idle" /\ target'[r] = NoAlert
           /\ \A q \in Requests : q # r =>
                 /\ pc'[q] = pc[q] /\ link'[q] = link[q] /\ type'[q] = type[q]
                 /\ target'[q] = target[q] /\ cat'[q] = cat[q]
  BY DEF TypeOK, End, Goto, Pc, Types, Labels

\* The same for a request whose row was found.
LEMMA FoundTypes ==
    ASSUME TypeOK, NEW r \in Requests, NEW where \in Targets, Found(r, where)
    PROVE  /\ pc' \in [Requests -> Pc] /\ link' = link /\ type' = type /\ cat' = cat
           /\ target' \in [Requests -> Targets \cup {NoAlert}]
           /\ pc'[r] = "count" /\ target'[r] = where
           /\ \A q \in Requests : q # r => pc'[q] = pc[q] /\ target'[q] = target[q]
  BY DEF TypeOK, Found, Goto, Pc

\* A request that is served: its alert, its row and where the row leads.
LEMMA ServedRow ==
    ASSUME TypeOK, NEW r \in Requests, pc[r] # "idle"
    PROVE  /\ link[r] \in Alerts /\ Short(link[r]) \in Shorts
           /\ Row(r) \in Rows \cup {NoRow}
           /\ Row(r) # NoRow =>
                 /\ Row(r).market \in Targets /\ Row(r).tx \in Targets
                 /\ Row(r).wallet \in Targets /\ Row(r).category \in Labels
           /\ pc[r] # "find" => Row(r) # NoRow
  <1>1. link[r] \in Alerts
    BY DEF TypeOK
  <1>2. Short(link[r]) \in Shorts
    BY <1>1, ShortIsShort
  <1>3. Row(r) \in Rows \cup {NoRow}
    BY <1>2 DEF TypeOK, Row
  <1>4. pc[r] # "find" => Row(r) # NoRow
    BY DEF TypeOK, Row
  <1> QED
    BY <1>1, <1>2, <1>3, <1>4 DEF Rows, Targets

LEMMA TypeStep == TypeOK /\ [Next]_vars => TypeOK'
  <1> SUFFICES ASSUME TypeOK, [Next]_vars PROVE TypeOK'
    OBVIOUS
  <1> USE ClicksAssumption
  \* A row that a request needs is still there.
  <1>0. \A r \in Requests :
           link[r] \in Alerts /\ rows[Short(link[r])] # NoRow => rows'[Short(link[r])] # NoRow
    BY RowsStay, ShortIsShort DEF RowStays
  <1>1. ASSUME NEW a \in Alerts, RegisterAlert(a) PROVE TypeOK'
    <2>1. rows' \in [Shorts -> Rows \cup {NoRow}]
      BY <1>1, RegisterRow
    <2> QED
      BY <1>0, <1>1, <2>1 DEF RegisterAlert, request, TypeOK
  <1>2. ASSUME NEW r \in Requests, Click(r) PROVE TypeOK'
    <2>1. /\ pc' \in [Requests -> Pc] /\ link' \in [Requests -> Alerts \cup {NoAlert}]
          /\ type' \in [Requests -> Types]
      BY <1>2 DEF Click, TypeOK, Pc
    <2>2. begun' \in 0..MaxClicks
      BY <1>2 DEF Click, TypeOK
    <2> QED
      BY <1>2, <2>1, <2>2 DEF Click, TypeOK
  <1>3. ASSUME NEW r \in Requests, pc[r] = "find",
               rows' \in [Shorts -> Rows \cup {NoRow}],
               UNCHANGED <<stored, labels, sent, clicked, located, begun>>,
               End(r) \/ (Row(r) # NoRow /\ \E where \in Targets : Found(r, where))
        PROVE  TypeOK'
    <2>1. CASE End(r)
      BY <1>0, <1>3, <2>1, EndTypes DEF TypeOK
    <2>2. ASSUME NEW where \in Targets, Row(r) # NoRow, Found(r, where) PROVE TypeOK'
      BY <1>0, <1>3, <2>2, FoundTypes DEF TypeOK, Row
    <2> QED
      BY <1>3, <2>1, <2>2
  <1>4. ASSUME NEW r \in Requests, IncrementClick(r) \/ GetAlertLinks(r) PROVE TypeOK'
    <2>1. /\ pc[r] = "find"
          /\ UNCHANGED <<stored, labels, sent, clicked, located, begun>>
      BY <1>4 DEF IncrementClick, GetAlertLinks
    <2>2. End(r) \/ (Row(r) # NoRow /\ \E where \in Targets : Found(r, where))
      BY <1>4, <2>1, ServedRow DEF IncrementClick, GetAlertLinks
    <2>3. rows' \in [Shorts -> Rows \cup {NoRow}]
      <3>1. CASE UNCHANGED rows
        BY <3>1 DEF TypeOK
      <3>2. CASE Row(r) # NoRow /\ Increment(r)
        BY <2>1, <3>2, IncrementRow, ServedRow
      <3> QED
        BY <1>4, <3>1, <3>2 DEF IncrementClick, GetAlertLinks
    <2> QED
      BY <1>3, <2>1, <2>2, <2>3
  <1>5. ASSUME NEW r \in Requests, Count(r) PROVE TypeOK'
    <2>1. pc[r] = "count" /\ UNCHANGED <<rows, stored, labels, sent, located, begun>>
      BY <1>5 DEF Count
    <2>2. PICK c \in {Row(r).category, Unread} :
             /\ clicked' = [clicked EXCEPT ![<<LinkType(type[r]), c>>] = @ + 1]
             /\ \/ End(r)
                \/ /\ cat' = [cat EXCEPT ![r] = c]
                   /\ Goto(r, "locate")
                   /\ UNCHANGED <<link, type, target>>
      BY <1>5 DEF Count
    <2>3. c \in Labels
      BY <2>1, ServedRow DEF Labels
    <2>4. clicked' \in [LinkTypes \X Labels -> Nat]
      <3>1. <<LinkType(type[r]), c>> \in LinkTypes \X Labels
        BY <2>3 DEF TypeOK, LinkType, LinkTypes, Types
      <3> DEFINE x == <<LinkType(type[r]), c>>
      <3>2. clicked[x] \in Nat
        BY <3>1 DEF TypeOK
      <3> HIDE DEF x
      <3>3. clicked' = [clicked EXCEPT ![x] = clicked[x] + 1]
        BY <2>2 DEF x
      <3> DEFINE D == LinkTypes \X Labels
      <3>4. clicked \in [D -> Nat]
        BY DEF TypeOK
      <3> HIDE DEF D
      <3>5. clicked' \in [D -> Nat]
        BY <3>2, <3>3, <3>4, ExceptNat
      <3> QED
        BY <3>5 DEF D
    <2>5. CASE End(r)
      BY <2>1, <2>4, <2>5, EndTypes DEF TypeOK
    <2>6. CASE /\ cat' = [cat EXCEPT ![r] = c]
               /\ Goto(r, "locate")
               /\ UNCHANGED <<link, type, target>>
      <3>1. pc' \in [Requests -> Pc] /\ cat' \in [Requests -> Labels]
        BY <2>3, <2>6 DEF TypeOK, Goto, Pc
      <3> QED
        BY <2>1, <2>4, <2>6, <3>1 DEF TypeOK, Goto
    <2> QED
      BY <2>2, <2>5, <2>6
  <1>6. ASSUME NEW r \in Requests, Locate(r) PROVE TypeOK'
    <2>1. pc' \in [Requests -> Pc] /\ located' \in [Labels -> Nat]
      BY <1>6 DEF Locate, Goto, TypeOK, Pc
    <2> QED
      BY <1>6, <2>1 DEF Locate, Goto, TypeOK
  <1>7. ASSUME NEW r \in Requests, Lookup(r) PROVE TypeOK'
    <2>1. pc' \in [Requests -> Pc] /\ pc[r] = "lookup"
      BY <1>7 DEF Lookup, Goto, TypeOK, Pc
    <2>2. cat' \in [Requests -> Labels]
      BY <1>7, <2>1, ServedRow DEF Lookup, TypeOK, Labels
    <2> QED
      BY <1>7, <2>1, <2>2 DEF Lookup, Goto, TypeOK
  <1>8. ASSUME NEW r \in Requests, Insert(r) PROVE TypeOK'
    <2>1. pc[r] = "insert" /\ End(r) /\ UNCHANGED <<rows, sent, clicked, located, begun>>
      BY <1>8 DEF Insert
    <2>2. stored' \in [Shorts -> Nat] /\ labels' \subseteq Shorts \X Labels
      <3>1. Short(link[r]) \in Shorts /\ cat[r] \in Labels
        BY <2>1, ServedRow DEF TypeOK
      <3>2. stored[Short(link[r])] \in Nat
        BY <3>1 DEF TypeOK
      <3>3. CASE Store(r)
        <4>1. labels' \subseteq Shorts \X Labels
          BY <3>1, <3>3 DEF Store, TypeOK
        <4>2. stored' \in [Shorts -> Nat]
          <5> DEFINE n == IF type[r] = "market" THEN stored[Short(link[r])] + 1
                                                ELSE stored[Short(link[r])]
          <5>1. n \in Nat
            BY <3>2
          <5>2. stored' = [stored EXCEPT ![Short(link[r])] = n]
            BY <3>3 DEF Store
          <5> QED
            BY <5>1, <5>2, ExceptNat DEF TypeOK
        <4> QED
          BY <4>1, <4>2
      <3>4. CASE UNCHANGED <<stored, labels>>
        BY <3>4 DEF TypeOK
      <3> QED
        BY <1>8, <3>3, <3>4 DEF Insert
    <2> QED
      BY <2>1, <2>2, EndTypes DEF TypeOK
  <1>9. CASE Restart
    BY <1>9 DEF Restart, TypeOK, NoClicks, NoneLocated, Pc, Types, Labels
  <1>10. CASE UNCHANGED vars
    BY <1>10 DEF vars, request, TypeOK
  <1> QED
    BY <1>1, <1>2, <1>4, <1>5, <1>6, <1>7, <1>8, <1>9, <1>10 DEF Next, HandleRedirect

-----------------------------------------------------------------------------
(* Whose row it is, and where it leads.                                    *)

\* A row appears only when its alert is registered.
LEMMA NewRows ==
    ASSUME TypeOK, [Next]_vars, NEW s \in Shorts, rows[s] = NoRow, rows'[s] # NoRow
    PROVE  \E a \in Alerts : \E c \in Category[a] : Short(a) = s /\ rows'[s] = NewRow(a, c)
  <1>1. ASSUME NEW a \in Alerts, RegisterAlert(a)
        PROVE  \E c \in Category[a] : Short(a) = s /\ rows'[s] = NewRow(a, c)
    <2>1. PICK c \in Category[a] : rows' = [rows EXCEPT ![Short(a)] = NewRow(a, c)]
      BY <1>1, RegisterRow
    <2> QED
      BY <2>1 DEF TypeOK
  <1>2. ASSUME NEW r \in Requests, IncrementClick(r) PROVE FALSE
    <2>1. Row(r) # NoRow /\ Increment(r) /\ link[r] \in Alerts
      BY <1>2 DEF IncrementClick, TypeOK
    <2>2. s # Short(link[r])
      BY <2>1 DEF Row
    <2> QED
      BY <2>1, <2>2, IncrementRow
  <1>3. ASSUME NEW r \in Requests,
               Click(r) \/ GetAlertLinks(r) \/ Count(r) \/ Locate(r) \/ Lookup(r) \/ Insert(r)
        PROVE  FALSE
    BY <1>3 DEF Click, GetAlertLinks, Count, Locate, Lookup, Insert
  <1>4. ~Restart /\ ~(UNCHANGED vars)
    BY DEF Restart, vars
  <1> QED
    BY <1>1, <1>2, <1>3, <1>4 DEF Next, HandleRedirect

LEMMA OwnedStep == TypeOK /\ Owned /\ [Next]_vars => Owned'
  <1> SUFFICES ASSUME TypeOK, Owned, [Next]_vars, NEW s \in Shorts, rows'[s] # NoRow
               PROVE  \E a \in Alerts :
                         /\ Short(a) = s
                         /\ rows'[s].wallet = Wallet[a]
                         /\ rows'[s].tx = Tx[a]
                         /\ rows'[s].market = Market[a]
    BY DEF Owned, Short, Shorts
  <1>1. CASE rows[s] # NoRow
    BY <1>1, RowsStay DEF RowStays, Owned
  <1>2. CASE rows[s] = NoRow
    <2>1. PICK a \in Alerts : \E c \in Category[a] : Short(a) = s /\ rows'[s] = NewRow(a, c)
      BY <1>2, NewRows
    <2> QED
      BY <2>1 DEF NewRow
  <1> QED
    BY <1>1, <1>2

\* Where a link of alert a of a kind t may lead.
Home(t, a, where) ==
    CASE t \in {"profile", "debank"} -> where = Wallet[a]
      [] t = "pgsan" -> where = Tx[a]
      [] OTHER -> \E b \in Alerts :
                     where = Market[b] /\ Tx[b] = Tx[a] /\ Wallet[b] = Wallet[a]

\* A row that is found leads home.
LEMMA FoundHome ==
    ASSUME TypeOK, Owned, NEW r \in Requests, link[r] \in Alerts, Row(r) # NoRow
    PROVE  /\ Counts(type[r]) => Home(type[r], link[r], Row(r).market)
           /\ ~Counts(type[r]) =>
                 Home(type[r], link[r],
                      IF type[r] = "pgsan" THEN Row(r).tx ELSE Row(r).wallet)
  <1>1. PICK a \in Alerts :
           /\ Short(a) = Short(link[r])
           /\ Row(r).wallet = Wallet[a] /\ Row(r).tx = Tx[a] /\ Row(r).market = Market[a]
    BY ShortIsShort DEF Owned, Row
  <1>2. Tx[a] = Tx[link[r]] /\ Wallet[a] = Wallet[link[r]]
    BY <1>1, ShortIdentifies
  <1>3. type[r] \in Types
    BY DEF TypeOK
  <1>4. CASE Counts(type[r])
    <2>1. type[r] \notin {"profile", "debank", "pgsan"}
      BY <1>3, <1>4 DEF Counts, LinkType, Types
    <2> QED
      BY <1>1, <1>2, <1>4, <2>1 DEF Home
  <1>5. CASE ~Counts(type[r])
    <2>1. type[r] \in {"profile", "debank", "pgsan"}
      BY <1>3, <1>5 DEF Counts, LinkType, Types
    <2> QED
      BY <1>1, <1>2, <1>5, <2>1 DEF Home
  <1> QED
    BY <1>4, <1>5

\* A step leaves a request's destination alone, forgets it, or has found it.
LEMMA TargetStep ==
    ASSUME TypeOK, Owned, Untargeted, [Next]_vars, NEW r \in Requests
    PROVE  \/ target'[r] = NoAlert
           \/ /\ target'[r] = target[r] /\ link'[r] = link[r] /\ type'[r] = type[r]
              /\ pc'[r] \notin {"idle", "find"}
           \/ /\ Home(type'[r], link'[r], target'[r])
              /\ pc'[r] \notin {"idle", "find"}
  <1>1. CASE UNCHANGED request
    BY <1>1 DEF request, Untargeted
  <1>2. ASSUME NEW q \in Requests, End(q) PROVE target'[r] = NoAlert \/ UNCHANGED <<target[r], link[r], type[r], pc[r]>>
    BY <1>2, EndTypes
  <1>3. ASSUME NEW q \in Requests, Click(q)
        PROVE  target'[r] = target[r] /\ (q # r => UNCHANGED <<link[r], type[r], pc[r]>>)
    BY <1>3 DEF Click, TypeOK
  <1>4. ASSUME NEW q \in Requests, pc[q] = "find", ~End(q), IncrementClick(q) \/ GetAlertLinks(q)
        PROVE  \/ q # r /\ UNCHANGED <<target[r], link[r], type[r], pc[r]>>
               \/ /\ q = r /\ Home(type'[r], link'[r], target'[r])
                  /\ pc'[r] \notin {"idle", "find"}
    <2>1. link[q] \in Alerts /\ Row(q) # NoRow
      BY <1>4 DEF IncrementClick, GetAlertLinks, TypeOK
    <2>2. PICK where \in Targets : Found(q, where) /\ Home(type[q], link[q], where)
      BY <1>4, <2>1, FoundHome, ServedRow DEF IncrementClick, GetAlertLinks
    <2> QED
      BY <2>2, FoundTypes
  <1>5. ASSUME NEW q \in Requests, ~End(q),
               Count(q) \/ Locate(q) \/ Lookup(q) \/ Insert(q)
        PROVE  UNCHANGED <<target[r], link[r], type[r]>> /\
               (pc'[r] = pc[r] \/ pc'[r] \notin {"idle", "find"})
    BY <1>5 DEF Count, Locate, Lookup, Insert, Goto, TypeOK
  <1>6. CASE Restart
    BY <1>6 DEF Restart
  <1> QED
    BY <1>1, <1>2, <1>3, <1>4, <1>5, <1>6
       DEF Next, HandleRedirect, RegisterAlert, vars, Untargeted, IncrementClick,
           GetAlertLinks, Click

LEMMA HomeStep ==
    ASSUME TypeOK, Owned, Untargeted, RedirectGoesHome, [Next]_vars
    PROVE  RedirectGoesHome' /\ Untargeted'
  <1>1. ASSUME NEW r \in Requests, target'[r] # NoAlert
        PROVE  Home(type'[r], link'[r], target'[r])
    <2>1. target[r] # NoAlert => Home(type[r], link[r], target[r])
      BY DEF RedirectGoesHome, Home
    <2> QED
      BY <1>1, <2>1, TargetStep
  <1>2. RedirectGoesHome'
    BY <1>1 DEF RedirectGoesHome, Home
  <1>3. Untargeted'
    BY TargetStep DEF Untargeted
  <1> QED
    BY <1>2, <1>3

-----------------------------------------------------------------------------
(* Counting.                                                               *)

LEMMA ReadStep == TypeOK /\ ReadFromRow /\ [Next]_vars => ReadFromRow'
  <1> SUFFICES ASSUME TypeOK, ReadFromRow, [Next]_vars, NEW r \in Requests, pc'[r] = "insert"
               PROVE  cat'[r] \in {rows'[Short(link'[r])].category, Unread}
    BY DEF ReadFromRow, Row
  <1>1. CASE pc[r] = "insert" /\ cat'[r] = cat[r] /\ link'[r] = link[r]
    <2>1. link[r] \in Alerts /\ Row(r) # NoRow /\ Short(link[r]) \in Shorts
      BY <1>1, ServedRow
    <2>2. rows'[Short(link[r])].category = Row(r).category
      BY <2>1, RowsStay DEF RowStays, Row
    <2> QED
      BY <1>1, <2>2 DEF ReadFromRow
  <1>2. CASE UNCHANGED request
    BY <1>1, <1>2 DEF request
  <1>3. ASSUME NEW q \in Requests, End(q)
        PROVE  pc[r] = "insert" /\ cat'[r] = cat[r] /\ link'[r] = link[r]
    BY <1>3, EndTypes
  <1>4. ASSUME NEW q \in Requests, ~End(q),
               Click(q) \/ IncrementClick(q) \/ GetAlertLinks(q) \/ Count(q) \/ Locate(q)
                 \/ Insert(q)
        PROVE  pc[r] = "insert" /\ cat'[r] = cat[r] /\ link'[r] = link[r]
    BY <1>4 DEF Click, IncrementClick, GetAlertLinks, Found, Count, Locate, Insert, Goto, TypeOK
  <1>5. ASSUME NEW q \in Requests, Lookup(q)
        PROVE  \/ pc[r] = "insert" /\ cat'[r] = cat[r] /\ link'[r] = link[r]
               \/ cat'[r] \in {rows'[Short(link'[r])].category, Unread}
    BY <1>5 DEF Lookup, Goto, Row, TypeOK
  <1>6. ~Restart
    BY DEF Restart
  <1> QED
    BY <1>1, <1>2, <1>3, <1>4, <1>5, <1>6 DEF Next, HandleRedirect, RegisterAlert, vars

LEMMA FinitePending ==
    ASSUME NEW s
    PROVE  IsFiniteSet(Pending(s)) /\ Cardinality(Pending(s)) \in Nat
  <1>1. IsFiniteSet(Pending(s))
    BY ClicksAssumption, FS_Subset DEF Pending
  <1> QED
    BY <1>1, FS_CardinalityType

LEMMA ClickedIsNat == ASSUME TypeOK, NEW s \in Shorts PROVE Clicked(s) \in Nat
  BY DEF TypeOK, Clicked, Rows

\* The counter of a row never goes back.
LEMMA ClickedGrows ==
    ASSUME TypeOK, TypeOK', [Next]_vars, NEW s \in Shorts
    PROVE  Clicked(s)' >= Clicked(s)
  <1>1. CASE rows[s] # NoRow
    <2>1. rows'[s] # NoRow /\ rows'[s].clicks >= rows[s].clicks
      BY <1>1, RowsStay DEF RowStays
    <2> QED
      BY <1>1, <2>1 DEF Clicked
  <1>2. CASE rows[s] = NoRow
    <2>1. Clicked(s) = 0
      BY <1>2 DEF Clicked
    <2>2. Clicked(s)' \in Nat
      BY DEF TypeOK, Clicked, Rows
    <2> QED
      BY <2>1, <2>2
  <1> QED
    BY <1>1, <1>2

\* What a step does to the market clicks of one short id: nothing is added to
\* what is pending or stored, or a click is counted and becomes pending, or a
\* pending one is stored.
LEMMA ClickStep ==
    ASSUME TypeOK, [Next]_vars, NEW s \in Shorts
    PROVE  \/ stored'[s] = stored[s] /\ Pending(s)' \subseteq Pending(s)
           \/ \E r \in Requests :
                 /\ stored'[s] = stored[s]
                 /\ Pending(s)' \subseteq Pending(s) \cup {r}
                 /\ Clicked(s)' = Clicked(s) + 1
           \/ \E r \in Pending(s) :
                 /\ stored'[s] = stored[s] + 1
                 /\ Pending(s)' = Pending(s) \ {r}
  <1>1. CASE UNCHANGED <<stored, request>>
    BY <1>1 DEF request, Pending
  <1>2. ASSUME NEW r \in Requests, End(r)
        PROVE  Pending(s)' = Pending(s) \ {r}
    BY <1>2, EndTypes DEF Pending
  <1>3. ASSUME NEW r \in Requests, Click(r)
        PROVE  stored'[s] = stored[s] /\ Pending(s)' \subseteq Pending(s)
    BY <1>3 DEF Click, Pending, TypeOK
  <1>4. ASSUME NEW r \in Requests, IncrementClick(r), ~End(r)
        PROVE  \/ stored'[s] = stored[s] /\ Pending(s)' \subseteq Pending(s)
               \/ /\ stored'[s] = stored[s]
                  /\ Pending(s)' \subseteq Pending(s) \cup {r}
                  /\ Clicked(s)' = Clicked(s) + 1
    <2>1. /\ link[r] \in Alerts /\ Row(r) # NoRow /\ Increment(r) /\ stored' = stored
          /\ Found(r, Row(r).market) /\ Row(r).market \in Targets
      BY <1>4, ServedRow DEF IncrementClick, TypeOK
    <2>2. Pending(s)' \subseteq Pending(s) \cup {r}
      BY <2>1, FoundTypes DEF Pending
    <2>3. CASE s = Short(link[r])
      <3>1. Row(r) \in Rows /\ Row(r) = rows[s]
        BY <2>1, <2>3 DEF TypeOK, Row
      <3>2. rows'[s] = [Row(r) EXCEPT !.clicks = @ + 1] /\ rows'[s] \in Rows
        BY <2>1, <2>3, IncrementRow
      <3>3. rows'[s] # NoRow /\ rows[s] # NoRow
        BY <2>1, <3>1, <3>2, ClicksAssumption
      <3>4. rows'[s].clicks = rows[s].clicks + 1
        BY <3>1, <3>2 DEF Rows
      <3> QED
        BY <2>1, <2>2, <3>3, <3>4 DEF Clicked
    <2>4. CASE s # Short(link[r])
      <3>1. Pending(s)' \subseteq Pending(s)
        BY <2>1, <2>4, FoundTypes DEF Pending
      <3> QED
        BY <2>1, <3>1
    <2> QED
      BY <2>3, <2>4
  <1>5. ASSUME NEW r \in Requests, GetAlertLinks(r), ~End(r)
        PROVE  stored'[s] = stored[s] /\ Pending(s)' \subseteq Pending(s)
    <2>1. type[r] # "market" /\ stored' = stored /\ UNCHANGED <<link, type>>
      BY <1>5 DEF GetAlertLinks, Counts, LinkType, Found
    <2>2. \A q \in Requests : q # r => pc'[q] = pc[q]
      BY <1>5 DEF GetAlertLinks, Found, Goto, TypeOK
    <2> QED
      BY <2>1, <2>2 DEF Pending
  <1>6. ASSUME NEW r \in Requests, ~End(r), Count(r) \/ Locate(r) \/ Lookup(r)
        PROVE  stored'[s] = stored[s] /\ Pending(s)' \subseteq Pending(s)
    BY <1>6 DEF Count, Locate, Lookup, Goto, Pending, TypeOK
  <1>7. ASSUME NEW r \in Requests,
               Click(r) \/ IncrementClick(r) \/ GetAlertLinks(r) \/ Count(r) \/ Locate(r)
                 \/ Lookup(r)
        PROVE  stored' = stored
    BY <1>7 DEF Click, IncrementClick, GetAlertLinks, Count, Locate, Lookup
  <1>8. ASSUME NEW r \in Requests, Insert(r)
        PROVE  \/ stored'[s] = stored[s] /\ Pending(s)' \subseteq Pending(s)
               \/ /\ r \in Pending(s)
                  /\ stored'[s] = stored[s] + 1
                  /\ Pending(s)' = Pending(s) \ {r}
    <2>1. pc[r] = "insert" /\ End(r)
      BY <1>8 DEF Insert
    <2>2. Pending(s)' = Pending(s) \ {r}
      BY <1>2, <2>1
    <2>3. CASE stored'[s] = stored[s]
      BY <2>2, <2>3
    <2>4. CASE stored'[s] # stored[s]
      <3>1. /\ type[r] = "market" /\ Short(link[r]) = s
            /\ stored'[s] = stored[s] + 1
        BY <1>8, <2>4 DEF Insert, Store, TypeOK
      <3> QED
        BY <2>1, <2>2, <3>1 DEF Pending
    <2> QED
      BY <2>3, <2>4
  <1>9. CASE Restart
    BY <1>9 DEF Restart, Pending
  <1> QED
    BY <1>1, <1>2, <1>3, <1>4, <1>5, <1>6, <1>7, <1>8, <1>9
       DEF Next, HandleRedirect, RegisterAlert, vars

LEMMA EventsStep ==
    TypeOK /\ TypeOK' /\ ReadFromRow /\ EventsMatchClicks /\ [Next]_vars
        => EventsMatchClicks'
  <1> SUFFICES ASSUME TypeOK, TypeOK', ReadFromRow, EventsMatchClicks, [Next]_vars
               PROVE  EventsMatchClicks'
    OBVIOUS
  <1>1. ASSUME NEW s \in Shorts
        PROVE  stored'[s] + Cardinality(Pending(s)') <= Clicked(s)'
    <2> DEFINE P == Pending(s)
               Q == Pending(s)'
    <2>1. /\ IsFiniteSet(P) /\ Cardinality(P) \in Nat
          /\ stored[s] \in Nat /\ stored'[s] \in Nat
          /\ stored[s] + Cardinality(P) <= Clicked(s)
      BY FinitePending DEF TypeOK, EventsMatchClicks
    <2>2. IsFiniteSet(Q)
      BY ClicksAssumption, FS_Subset DEF Pending
    <2>3. Cardinality(Q) \in Nat
      BY <2>2, FS_CardinalityType
    <2>4. Clicked(s) \in Nat /\ Clicked(s)' \in Nat /\ Clicked(s)' >= Clicked(s)
      BY ClickedIsNat, ClickedGrows DEF TypeOK, Clicked, Rows
    <2>5. CASE stored'[s] = stored[s] /\ Q \subseteq P
      <3>1. Cardinality(Q) <= Cardinality(P)
        BY <2>1, <2>5, FS_Subset
      <3> HIDE DEF P, Q
      <3> QED
        BY <2>1, <2>3, <2>4, <2>5, <3>1 DEF P, Q
    <2>6. ASSUME NEW r \in Requests, stored'[s] = stored[s], Q \subseteq P \cup {r},
                 Clicked(s)' = Clicked(s) + 1
          PROVE  stored'[s] + Cardinality(Q) <= Clicked(s)'
      <3>1. /\ IsFiniteSet(P \cup {r})
            /\ Cardinality(P \cup {r}) = IF r \in P THEN Cardinality(P) ELSE Cardinality(P) + 1
        BY <2>1, FS_AddElement
      <3>2. Cardinality(Q) <= Cardinality(P \cup {r})
        BY <2>6, <3>1, FS_Subset
      <3> HIDE DEF P, Q
      <3>3. Cardinality(Q) <= Cardinality(P) + 1
        BY <2>1, <2>3, <3>1, <3>2
      <3> QED
        BY <2>1, <2>3, <2>4, <2>6, <3>3
    <2>7. ASSUME NEW r \in P, stored'[s] = stored[s] + 1, Q = P \ {r}
          PROVE  stored'[s] + Cardinality(Q) <= Clicked(s)'
      <3>1. Cardinality(Q) = Cardinality(P) - 1
        BY <2>1, <2>7, FS_RemoveElement
      <3> HIDE DEF P, Q
      <3> QED
        BY <2>1, <2>3, <2>4, <2>7, <3>1
    <2> QED
      BY <2>5, <2>6, <2>7, ClickStep
  <1>2. ASSUME NEW e \in labels'
        PROVE  rows'[e[1]] # NoRow /\ e[2] \in {rows'[e[1]].category, Unread}
    <2>1. CASE e \in labels
      <3>1. e[1] \in Shorts
        BY <2>1 DEF TypeOK
      <3> QED
        BY <2>1, <3>1, RowsStay DEF EventsMatchClicks, RowStays
    <2>2. CASE e \notin labels
      <3>1. PICK r \in Requests : Insert(r) /\ e = <<Short(link[r]), cat[r]>>
        BY <1>2, <2>2 DEF Next, HandleRedirect, RegisterAlert, Click, IncrementClick,
           GetAlertLinks, Count, Locate, Lookup, Insert, Store, Restart, vars
      <3>2. Row(r) # NoRow /\ cat[r] \in {Row(r).category, Unread} /\ rows' = rows
        BY <3>1, ServedRow DEF Insert, ReadFromRow
      <3> QED
        BY <3>1, <3>2 DEF Row
    <2> QED
      BY <2>1, <2>2
  <1> QED
    BY <1>1, <1>2 DEF EventsMatchClicks

-----------------------------------------------------------------------------
(* The counters.                                                           *)

RowCounts == [s \in Shorts |-> Clicked(s)]

MarketCounts == [c \in Labels |-> clicked[<<"market", c>>]]

TypeCounts(c) == [t \in LinkTypes |-> clicked[<<t, c>>]]

LEMMA FiniteDomains == IsFiniteSet(Shorts) /\ IsFiniteSet(Labels) /\ IsFiniteSet(LinkTypes)
  <1>1. IsFiniteSet(Shorts)
    <2> DEFINE f == [a \in Alerts |-> Short(a)]
    <2>1. f \in Surjection(Alerts, Shorts)
      BY DEF Surjection, Shorts
    <2> QED
      BY <2>1, ClicksAssumption, FS_Surjection
  <1>2. IsFiniteSet(LinkTypes)
    <2>1. LinkTypes = ((({} \cup {"market"}) \cup {"profile"}) \cup {"debank"}) \cup {"pgsan"}
      BY DEF LinkTypes, Types
    <2> QED
      BY <2>1, FS_EmptySet, FS_AddElement
  <1> QED
    BY <1>1, <1>2, ClicksAssumption

LEMMA CountsTypes ==
    ASSUME TypeOK
    PROVE  /\ RowCounts \in [Shorts -> Nat]
           /\ MarketCounts \in [Labels -> Nat]
           /\ \A c \in Labels : TypeCounts(c) \in [LinkTypes -> Nat]
  <1>1. RowCounts \in [Shorts -> Nat]
    BY ClickedIsNat DEF RowCounts
  <1>2. "market" \in LinkTypes
    BY DEF LinkTypes, Types
  <1> QED
    BY <1>1, <1>2 DEF TypeOK, MarketCounts, TypeCounts

\* How many requests of a set there can be after one of them has moved.
LEMMA SizeSteps ==
    ASSUME NEW P \in SUBSET Requests, NEW Q \in SUBSET Requests
    PROVE  /\ Cardinality(P) \in Nat /\ Cardinality(Q) \in Nat
           /\ Q \subseteq P => Cardinality(Q) <= Cardinality(P)
           /\ \A r : Q \subseteq P \cup {r} => Cardinality(Q) <= Cardinality(P) + 1
           /\ \A r \in P : Q = P \ {r} => Cardinality(Q) + 1 = Cardinality(P)
           /\ Q = {} => Cardinality(Q) = 0
  <1>1. /\ IsFiniteSet(P) /\ IsFiniteSet(Q)
        /\ Cardinality(P) \in Nat /\ Cardinality(Q) \in Nat
    BY ClicksAssumption, FS_Subset, FS_CardinalityType
  <1>2. Q \subseteq P => Cardinality(Q) <= Cardinality(P)
    BY <1>1, FS_Subset
  <1>3. ASSUME NEW r, Q \subseteq P \cup {r} PROVE Cardinality(Q) <= Cardinality(P) + 1
    <2>1. /\ IsFiniteSet(P \cup {r})
          /\ Cardinality(P \cup {r}) = IF r \in P THEN Cardinality(P) ELSE Cardinality(P) + 1
      BY <1>1, FS_AddElement
    <2>2. Cardinality(Q) <= Cardinality(P \cup {r})
      BY <1>3, <2>1, FS_Subset
    <2> QED
      BY <1>1, <2>1, <2>2
  <1>4. ASSUME NEW r \in P, Q = P \ {r} PROVE Cardinality(Q) + 1 = Cardinality(P)
    <2>1. Cardinality(Q) = Cardinality(P) - 1
      BY <1>1, <1>4, FS_RemoveElement
    <2> QED
      BY <1>1, <2>1
  <1> QED
    BY <1>1, <1>2, <1>3, <1>4, FS_EmptySet

\* A counted click adds one to its row and to no other.
LEMMA IncrementCounts ==
    ASSUME TypeOK, NEW r \in Requests, link[r] \in Alerts, Row(r) # NoRow, Increment(r)
    PROVE  \E s \in Shorts : RowCounts' = OneMore(RowCounts, s)
  <1>1. PICK s \in Shorts : s = Short(link[r])
    BY ShortIsShort
  <1>2. Row(r) \in Rows /\ Row(r) = rows[s]
    BY <1>1 DEF TypeOK, Row
  <1>3. rows'[s] = [rows[s] EXCEPT !.clicks = @ + 1] /\ rows'[s] \in Rows
    BY <1>1, <1>2, IncrementRow
  <1>4. \A x \in Shorts : x # s => rows'[x] = rows[x]
    BY <1>1, IncrementRow
  <1>5. rows'[s] # NoRow /\ rows'[s].clicks = rows[s].clicks + 1
    BY <1>2, <1>3, ClicksAssumption DEF Rows
  <1>6. Clicked(s)' = Clicked(s) + 1
    BY <1>2, <1>5 DEF Clicked
  <1>7. \A x \in Shorts : x # s => Clicked(x)' = Clicked(x)
    BY <1>4 DEF Clicked
  <1>8. RowCounts' = OneMore(RowCounts, s)
    BY <1>1, <1>6, <1>7 DEF RowCounts, OneMore
  <1> QED
    BY <1>1, <1>8

\* What a step does to the market clicks of rows and counters: nothing is added,
\* or a row has counted one more and a request may be about to count it, or such
\* a request does, or the process restarts.
LEMMA MarketStep ==
    ASSUME TypeOK, [Next]_vars
    PROVE  \/ /\ RowCounts' = RowCounts /\ MarketCounts' = MarketCounts
              /\ Counting' \subseteq Counting
           \/ /\ \E s \in Shorts : RowCounts' = OneMore(RowCounts, s)
              /\ MarketCounts' = MarketCounts
              /\ \E r \in Requests : Counting' \subseteq Counting \cup {r}
           \/ /\ RowCounts' = RowCounts
              /\ \E c \in Labels : MarketCounts' = OneMore(MarketCounts, c)
              /\ \E r \in Counting : Counting' = Counting \ {r}
           \/ /\ RowCounts' = RowCounts
              /\ MarketCounts' = [c \in Labels |-> 0]
              /\ Counting' = {}
  <1>1. UNCHANGED rows => RowCounts' = RowCounts
    BY DEF RowCounts, Clicked
  <1>2. UNCHANGED clicked => MarketCounts' = MarketCounts
    BY DEF MarketCounts
  <1>3. ASSUME NEW a \in Alerts, RegisterAlert(a)
        PROVE  RowCounts' = RowCounts /\ Counting' = Counting
    <2>1. ASSUME NEW s \in Shorts PROVE Clicked(s)' = Clicked(s)
      <3>1. CASE UNCHANGED rows
        BY <3>1 DEF Clicked
      <3>2. ASSUME NEW c \in Category[a], rows[Short(a)] = NoRow,
                   rows' = [rows EXCEPT ![Short(a)] = NewRow(a, c)]
            PROVE  Clicked(s)' = Clicked(s)
        <4>1. CASE s = Short(a)
          <5>1. rows'[s] = NewRow(a, c)
            BY <3>2, <4>1 DEF TypeOK
          <5> QED
            BY <3>2, <4>1, <5>1 DEF Clicked, NewRow
        <4>2. CASE s # Short(a)
          <5>1. rows'[s] = rows[s]
            BY <3>2, <4>2 DEF TypeOK
          <5> QED
            BY <5>1 DEF Clicked
        <4> QED
          BY <4>1, <4>2
      <3> QED
        BY <1>3, <3>1, <3>2, RegisterRow
    <2> QED
      BY <1>3, <2>1 DEF RowCounts, RegisterAlert, request, Counting
  <1>4. ASSUME NEW r \in Requests, End(r) PROVE Counting' = Counting \ {r}
    BY <1>4, EndTypes DEF Counting
  <1>5. ASSUME NEW r \in Requests,
               Click(r) \/ Locate(r) \/ Lookup(r) \/ (Insert(r) /\ ~End(r))
        PROVE  Counting' \subseteq Counting
    BY <1>5 DEF Click, Locate, Lookup, Insert, Goto, Counting, TypeOK
  <1>6. ASSUME NEW r \in Requests, IncrementClick(r)
        PROVE  \/ UNCHANGED rows /\ Counting' \subseteq Counting
               \/ /\ \E s \in Shorts : RowCounts' = OneMore(RowCounts, s)
                  /\ \E q \in Requests : Counting' \subseteq Counting \cup {q}
    <2>1. link[r] \in Alerts
      BY <1>6 DEF IncrementClick, TypeOK
    <2>2. CASE Row(r) # NoRow /\ Increment(r) /\ Found(r, Row(r).market)
      <3>1. Row(r).market \in Targets
        BY <1>6, <2>2, ServedRow DEF IncrementClick
      <3>2. Counting' \subseteq Counting \cup {r}
        BY <2>2, <3>1, FoundTypes DEF Counting
      <3> QED
        BY <2>1, <2>2, <3>2, IncrementCounts
    <2>3. CASE Row(r) # NoRow /\ Increment(r) /\ End(r)
      BY <1>4, <2>1, <2>3, IncrementCounts
    <2>4. CASE End(r) /\ UNCHANGED rows
      BY <1>4, <2>4
    <2> QED
      BY <1>6, <2>2, <2>3, <2>4 DEF IncrementClick
  <1>7. ASSUME NEW r \in Requests, GetAlertLinks(r), ~End(r) PROVE Counting' \subseteq Counting
    <2>1. ~Counts(type[r]) /\ type' = type /\ \A q \in Requests : q # r => pc'[q] = pc[q]
      BY <1>7 DEF GetAlertLinks, Found, Goto, TypeOK
    <2> QED
      BY <2>1 DEF Counting
  <1>8. ASSUME NEW r \in Requests, Count(r)
        PROVE  \/ MarketCounts' = MarketCounts /\ Counting' \subseteq Counting
               \/ /\ \E c \in Labels : MarketCounts' = OneMore(MarketCounts, c)
                  /\ \E q \in Counting : Counting' = Counting \ {q}
    <2>1. PICK c \in {Row(r).category, Unread} :
             clicked' = [clicked EXCEPT ![<<LinkType(type[r]), c>>] = @ + 1]
      BY <1>8 DEF Count
    <2>2. c \in Labels
      BY <1>8, ServedRow DEF Count, Labels
    <2>3. Counting' = Counting \ {r}
      <3>1. CASE End(r)
        BY <1>4, <3>1
      <3>2. CASE ~End(r)
        BY <1>8, <3>2 DEF Count, Goto, Counting, TypeOK
      <3> QED
        BY <3>1, <3>2
    <2>4. CASE Counts(type[r])
      <3>1. r \in Counting
        BY <1>8, <2>4 DEF Count, Counting
      <3>2. \A x \in Labels :
               clicked'[<<"market", x>>] =
                  IF x = c THEN clicked[<<"market", x>>] + 1 ELSE clicked[<<"market", x>>]
        BY <2>1, <2>2, <2>4 DEF Counts, TypeOK, LinkTypes, Types
      <3>3. MarketCounts' = OneMore(MarketCounts, c)
        BY <2>2, <3>2 DEF MarketCounts, OneMore
      <3> QED
        BY <2>2, <2>3, <3>1, <3>3
    <2>5. CASE ~Counts(type[r])
      <3>1. \A x \in Labels : clicked'[<<"market", x>>] = clicked[<<"market", x>>]
        BY <2>1, <2>5 DEF Counts, TypeOK, LinkTypes, Types
      <3>2. MarketCounts' = MarketCounts
        BY <3>1 DEF MarketCounts
      <3> QED
        BY <2>3, <3>2
    <2> QED
      BY <2>4, <2>5
  <1>9. CASE Restart
    <2>1. MarketCounts' = [c \in Labels |-> 0]
      BY <1>9 DEF Restart, MarketCounts, NoClicks, LinkTypes, Types
    <2>2. Counting' = {} /\ UNCHANGED rows
      BY <1>9 DEF Restart, Counting
    <2> QED
      BY <1>1, <2>1, <2>2
  <1>10. ASSUME NEW r \in Requests, IncrementClick(r) PROVE UNCHANGED clicked
    BY <1>10 DEF IncrementClick
  <1>11. ASSUME NEW r \in Requests,
                Click(r) \/ GetAlertLinks(r) \/ Locate(r) \/ Lookup(r) \/ Insert(r)
         PROVE  UNCHANGED <<rows, clicked>> /\ Counting' \subseteq Counting
    BY <1>4, <1>5, <1>7, <1>11 DEF Click, GetAlertLinks, Locate, Lookup, Insert
  <1>12. CASE \E r \in Requests : HandleRedirect(r)
    <2>1. PICK r \in Requests : HandleRedirect(r)
      BY <1>12
    <2>2. CASE IncrementClick(r)
      BY <1>1, <1>2, <1>6, <1>10, <2>2
    <2>3. CASE Count(r)
      <3>1. UNCHANGED rows
        BY <2>3 DEF Count
      <3> QED
        BY <1>1, <1>8, <2>3, <3>1
    <2>4. CASE Click(r) \/ GetAlertLinks(r) \/ Locate(r) \/ Lookup(r) \/ Insert(r)
      BY <1>1, <1>2, <1>11, <2>4
    <2> QED
      BY <2>1, <2>2, <2>3, <2>4 DEF HandleRedirect
  <1>13. ASSUME NEW a \in Alerts, RegisterAlert(a) PROVE UNCHANGED clicked
    BY <1>13 DEF RegisterAlert
  <1>14. CASE UNCHANGED vars
    BY <1>1, <1>2, <1>14 DEF vars, request, Counting
  <1> QED
    BY <1>2, <1>3, <1>9, <1>12, <1>13, <1>14 DEF Next

LEMMA RowsAheadStep ==
    ASSUME TypeOK, RowsAhead, [Next]_vars
    PROVE  RowsAhead'
  <1> DEFINE k == Cardinality(Counting)
             k1 == Cardinality(Counting')
             m == SumFunction(MarketCounts)
             m1 == SumFunction(MarketCounts')
             w == SumFunction(RowCounts)
             w1 == SumFunction(RowCounts')
  <1>1. Counting \in SUBSET Requests /\ Counting' \in SUBSET Requests
    BY DEF Counting
  <1>2. k \in Nat /\ k1 \in Nat
    BY <1>1, SizeSteps
  <1>3. m \in Nat /\ w \in Nat
    BY CountsTypes, FiniteDomains, SumType
  <1>4. m + k <= w
    BY DEF RowsAhead, RowClicks, MarketClicks, RowCounts, MarketCounts
  <1>5. CASE /\ RowCounts' = RowCounts /\ MarketCounts' = MarketCounts
             /\ Counting' \subseteq Counting
    <2>1. m1 = m /\ w1 = w
      BY <1>5
    <2>2. k1 <= k
      BY <1>1, <1>5, SizeSteps
    <2> HIDE DEF m, m1, w, w1, k, k1
    <2>3. m1 + k1 <= w1
      BY <1>2, <1>3, <1>4, <2>1, <2>2
    <2> QED
      BY <2>3 DEF m1, k1, w1, RowsAhead, RowClicks, MarketClicks, RowCounts, MarketCounts
  <1>6. CASE /\ \E s \in Shorts : RowCounts' = OneMore(RowCounts, s)
             /\ MarketCounts' = MarketCounts
             /\ \E r \in Requests : Counting' \subseteq Counting \cup {r}
    <2>1. m1 = m
      BY <1>6
    <2>2. w1 = w + 1
      BY <1>6, CountsTypes, FiniteDomains, SumOneMore
    <2>3. k1 <= k + 1
      BY <1>1, <1>6, SizeSteps
    <2> HIDE DEF m, m1, w, w1, k, k1
    <2>4. m1 + k1 <= w1
      BY <1>2, <1>3, <1>4, <2>1, <2>2, <2>3
    <2> QED
      BY <2>4 DEF m1, k1, w1, RowsAhead, RowClicks, MarketClicks, RowCounts, MarketCounts
  <1>7. CASE /\ RowCounts' = RowCounts
             /\ \E c \in Labels : MarketCounts' = OneMore(MarketCounts, c)
             /\ \E r \in Counting : Counting' = Counting \ {r}
    <2>1. w1 = w
      BY <1>7
    <2>2. m1 = m + 1
      BY <1>7, CountsTypes, FiniteDomains, SumOneMore
    <2>3. k1 + 1 = k
      BY <1>1, <1>7, SizeSteps
    <2> HIDE DEF m, m1, w, w1, k, k1
    <2>4. m1 + k1 <= w1
      BY <1>2, <1>3, <1>4, <2>1, <2>2, <2>3
    <2> QED
      BY <2>4 DEF m1, k1, w1, RowsAhead, RowClicks, MarketClicks, RowCounts, MarketCounts
  <1>8. CASE /\ RowCounts' = RowCounts
             /\ MarketCounts' = [c \in Labels |-> 0]
             /\ Counting' = {}
    <2>1. w1 = w
      BY <1>8
    <2>2. m1 = 0
      BY <1>8, FiniteDomains, SumOfZeros
    <2>3. k1 = 0
      BY <1>1, <1>8, SizeSteps
    <2> HIDE DEF m, m1, w, w1, k, k1
    <2>4. m1 + k1 <= w1
      BY <1>3, <2>1, <2>2, <2>3
    <2> QED
      BY <2>4 DEF m1, k1, w1, RowsAhead, RowClicks, MarketClicks, RowCounts, MarketCounts
  <1> QED
    BY <1>5, <1>6, <1>7, <1>8, MarketStep

\* What a step does to the clicks of one category: nothing is added, or a click is
\* counted and may now be located, or such a click is, or the process restarts.
LEMMA LocatedStep ==
    ASSUME TypeOK, [Next]_vars, NEW c \in Labels
    PROVE  \/ /\ located'[c] = located[c] /\ TypeCounts(c)' = TypeCounts(c)
              /\ Locating(c)' \subseteq Locating(c)
           \/ /\ located'[c] = located[c]
              /\ \E t \in LinkTypes : TypeCounts(c)' = OneMore(TypeCounts(c), t)
              /\ \E r \in Requests : Locating(c)' \subseteq Locating(c) \cup {r}
           \/ /\ located'[c] = located[c] + 1 /\ TypeCounts(c)' = TypeCounts(c)
              /\ \E r \in Locating(c) : Locating(c)' = Locating(c) \ {r}
           \/ /\ located'[c] = 0 /\ TypeCounts(c)' = [t \in LinkTypes |-> 0]
              /\ Locating(c)' = {}
  <1>1. UNCHANGED clicked => TypeCounts(c)' = TypeCounts(c)
    BY DEF TypeCounts
  <1>2. ASSUME NEW a \in Alerts, RegisterAlert(a)
        PROVE  UNCHANGED <<clicked, located>> /\ Locating(c)' = Locating(c)
    BY <1>2 DEF RegisterAlert, request, Locating
  <1>3. ASSUME NEW r \in Requests, End(r) PROVE Locating(c)' \subseteq Locating(c)
    BY <1>3, EndTypes DEF Locating
  <1>4. ASSUME NEW r \in Requests, ~End(r),
               Click(r) \/ IncrementClick(r) \/ GetAlertLinks(r) \/ Lookup(r) \/ Insert(r)
        PROVE  Locating(c)' \subseteq Locating(c)
    BY <1>4 DEF Click, IncrementClick, GetAlertLinks, Found, Lookup, Insert, Goto, Locating,
         TypeOK
  <1>5. ASSUME NEW r \in Requests,
               Click(r) \/ IncrementClick(r) \/ GetAlertLinks(r) \/ Lookup(r) \/ Insert(r)
        PROVE  UNCHANGED <<clicked, located>>
    BY <1>5 DEF Click, IncrementClick, GetAlertLinks, Lookup, Insert
  <1>6. ASSUME NEW r \in Requests, Count(r)
        PROVE  \/ /\ located'[c] = located[c] /\ TypeCounts(c)' = TypeCounts(c)
                  /\ Locating(c)' \subseteq Locating(c)
               \/ /\ located'[c] = located[c]
                  /\ \E t \in LinkTypes : TypeCounts(c)' = OneMore(TypeCounts(c), t)
                  /\ \E q \in Requests : Locating(c)' \subseteq Locating(c) \cup {q}
    <2>1. PICK d \in {Row(r).category, Unread} :
             /\ clicked' = [clicked EXCEPT ![<<LinkType(type[r]), d>>] = @ + 1]
             /\ \/ End(r)
                \/ /\ cat' = [cat EXCEPT ![r] = d]
                   /\ Goto(r, "locate")
      BY <1>6 DEF Count
    <2>2. PICK t \in LinkTypes : t = LinkType(type[r])
      BY DEF TypeOK, LinkType, LinkTypes, Types
    <2>3. d \in Labels
      BY <1>6, ServedRow DEF Count, Labels
    <2>4. located'[c] = located[c]
      BY <1>6 DEF Count
    <2>5. CASE c = d
      <3>1. \A x \in LinkTypes :
               clicked'[<<x, c>>] =
                  IF x = t THEN clicked[<<x, c>>] + 1 ELSE clicked[<<x, c>>]
        BY <2>1, <2>2, <2>3, <2>5 DEF TypeOK
      <3>2. TypeCounts(c)' = OneMore(TypeCounts(c), t)
        BY <3>1 DEF TypeCounts, OneMore
      <3>3. Locating(c)' \subseteq Locating(c) \cup {r}
        <4>1. CASE End(r)
          BY <1>3, <4>1
        <4>2. CASE cat' = [cat EXCEPT ![r] = d] /\ Goto(r, "locate")
          BY <4>2 DEF Goto, Locating, TypeOK
        <4> QED
          BY <2>1, <4>1, <4>2
      <3> QED
        BY <2>4, <3>2, <3>3
    <2>6. CASE c # d
      <3>1. \A x \in LinkTypes : clicked'[<<x, c>>] = clicked[<<x, c>>]
        BY <2>1, <2>2, <2>3, <2>6 DEF TypeOK
      <3>2. TypeCounts(c)' = TypeCounts(c)
        BY <3>1 DEF TypeCounts
      <3>3. Locating(c)' \subseteq Locating(c)
        <4>1. CASE End(r)
          BY <1>3, <4>1
        <4>2. CASE cat' = [cat EXCEPT ![r] = d] /\ Goto(r, "locate")
          BY <2>6, <4>2 DEF Goto, Locating, TypeOK
        <4> QED
          BY <2>1, <4>1, <4>2
      <3> QED
        BY <2>4, <3>2, <3>3
    <2> QED
      BY <2>5, <2>6
  <1>7. ASSUME NEW r \in Requests, Locate(r)
        PROVE  \/ /\ located'[c] = located[c] /\ TypeCounts(c)' = TypeCounts(c)
                  /\ Locating(c)' \subseteq Locating(c)
               \/ /\ located'[c] = located[c] + 1 /\ TypeCounts(c)' = TypeCounts(c)
                  /\ \E q \in Locating(c) : Locating(c)' = Locating(c) \ {q}
    <2>1. /\ pc[r] = "locate" /\ pc' = [pc EXCEPT ![r] = "lookup"] /\ cat' = cat
          /\ located' = [located EXCEPT ![cat[r]] = @ + 1] /\ clicked' = clicked
      BY <1>7 DEF Locate, Goto
    <2>2. Locating(c)' = Locating(c) \ {r}
      BY <2>1 DEF Locating, TypeOK
    <2>3. CASE cat[r] = c
      <3>1. located'[c] = located[c] + 1
        BY <2>1, <2>3 DEF TypeOK
      <3>2. r \in Locating(c)
        BY <2>1, <2>3 DEF Locating
      <3> QED
        BY <1>1, <2>1, <2>2, <3>1, <3>2
    <2>4. CASE cat[r] # c
      <3>1. located'[c] = located[c]
        BY <2>1, <2>4 DEF TypeOK
      <3> QED
        BY <1>1, <2>1, <2>2, <3>1
    <2> QED
      BY <2>3, <2>4
  <1>8. CASE Restart
    <2>1. TypeCounts(c)' = [t \in LinkTypes |-> 0]
      BY <1>8 DEF Restart, TypeCounts, NoClicks
    <2>2. located'[c] = 0 /\ Locating(c)' = {}
      BY <1>8 DEF Restart, NoneLocated, Locating
    <2> QED
      BY <2>1, <2>2
  <1>9. CASE UNCHANGED vars
    BY <1>1, <1>9 DEF vars, request, Locating
  <1>10. CASE \E r \in Requests : HandleRedirect(r)
    <2>1. PICK r \in Requests : HandleRedirect(r)
      BY <1>10
    <2>2. CASE Click(r) \/ IncrementClick(r) \/ GetAlertLinks(r) \/ Lookup(r) \/ Insert(r)
      <3>1. UNCHANGED <<clicked, located>> /\ Locating(c)' \subseteq Locating(c)
        BY <1>3, <1>4, <1>5, <2>2
      <3> QED
        BY <1>1, <3>1
    <2>3. CASE Count(r)
      BY <1>6, <2>3
    <2>4. CASE Locate(r)
      BY <1>7, <2>4
    <2> QED
      BY <2>1, <2>2, <2>3, <2>4 DEF HandleRedirect
  <1>11. ASSUME NEW a \in Alerts, RegisterAlert(a)
         PROVE  /\ located'[c] = located[c] /\ TypeCounts(c)' = TypeCounts(c)
                /\ Locating(c)' \subseteq Locating(c)
    BY <1>1, <1>2, <1>11
  <1> QED
    BY <1>8, <1>9, <1>10, <1>11 DEF Next

LEMMA ClicksAheadStep ==
    ASSUME TypeOK, ClicksAhead, [Next]_vars
    PROVE  ClicksAhead'
  <1> SUFFICES ASSUME NEW c \in Labels
               PROVE  located'[c] + Cardinality(Locating(c)') <= SumFunction(TypeCounts(c)')
    BY DEF ClicksAhead, ClicksOf, TypeCounts
  <1> DEFINE k == Cardinality(Locating(c))
             k1 == Cardinality(Locating(c)')
             n == located[c]
             n1 == located'[c]
             w == SumFunction(TypeCounts(c))
             w1 == SumFunction(TypeCounts(c)')
  <1>1. Locating(c) \in SUBSET Requests /\ Locating(c)' \in SUBSET Requests
    BY DEF Locating
  <1>2. k \in Nat /\ k1 \in Nat
    BY <1>1, SizeSteps
  <1>3. n \in Nat /\ w \in Nat
    <2>1. w \in Nat
      BY CountsTypes, FiniteDomains, SumType
    <2> QED
      BY <2>1 DEF TypeOK
  <1>4. n + k <= w
    BY DEF ClicksAhead, ClicksOf, TypeCounts
  <1>5. CASE /\ located'[c] = located[c] /\ TypeCounts(c)' = TypeCounts(c)
             /\ Locating(c)' \subseteq Locating(c)
    <2>1. n1 = n /\ w1 = w
      BY <1>5
    <2>2. k1 <= k
      BY <1>1, <1>5, SizeSteps
    <2> HIDE DEF n, n1, w, w1, k, k1
    <2>3. n1 + k1 <= w1
      BY <1>2, <1>3, <1>4, <2>1, <2>2
    <2> QED
      BY <2>3 DEF n1, k1, w1
  <1>6. CASE /\ located'[c] = located[c]
             /\ \E t \in LinkTypes : TypeCounts(c)' = OneMore(TypeCounts(c), t)
             /\ \E r \in Requests : Locating(c)' \subseteq Locating(c) \cup {r}
    <2>1. n1 = n
      BY <1>6
    <2>2. w1 = w + 1
      BY <1>6, CountsTypes, FiniteDomains, SumOneMore
    <2>3. k1 <= k + 1
      BY <1>1, <1>6, SizeSteps
    <2> HIDE DEF n, n1, w, w1, k, k1
    <2>4. n1 + k1 <= w1
      BY <1>2, <1>3, <1>4, <2>1, <2>2, <2>3
    <2> QED
      BY <2>4 DEF n1, k1, w1
  <1>7. CASE /\ located'[c] = located[c] + 1 /\ TypeCounts(c)' = TypeCounts(c)
             /\ \E r \in Locating(c) : Locating(c)' = Locating(c) \ {r}
    <2>1. n1 = n + 1 /\ w1 = w
      BY <1>7
    <2>2. k1 + 1 = k
      BY <1>1, <1>7, SizeSteps
    <2> HIDE DEF n, n1, w, w1, k, k1
    <2>3. n1 + k1 <= w1
      BY <1>2, <1>3, <1>4, <2>1, <2>2
    <2> QED
      BY <2>3 DEF n1, k1, w1
  <1>8. CASE /\ located'[c] = 0 /\ TypeCounts(c)' = [t \in LinkTypes |-> 0]
             /\ Locating(c)' = {}
    <2>1. n1 = 0
      BY <1>8
    <2>2. w1 = 0
      BY <1>8, FiniteDomains, SumOfZeros
    <2>3. k1 = 0
      BY <1>1, <1>8, SizeSteps
    <2> HIDE DEF n, n1, w, w1, k, k1
    <2>4. n1 + k1 <= w1
      BY <2>1, <2>2, <2>3
    <2> QED
      BY <2>4 DEF n1, k1, w1
  <1> QED
    BY <1>5, <1>6, <1>7, <1>8, LocatedStep

LEMMA InitCounters == Init => RowsAhead /\ ClicksAhead
  <1> SUFFICES ASSUME Init PROVE RowsAhead /\ ClicksAhead
    OBVIOUS
  <1>1. MarketClicks = 0 /\ RowClicks = 0
    <2>1. MarketCounts = [c \in Labels |-> 0] /\ RowCounts = [s \in Shorts |-> 0]
      BY DEF Init, NoClicks, MarketCounts, RowCounts, Clicked, LinkTypes, Types
    <2>2. SumFunction(MarketCounts) = 0 /\ SumFunction(RowCounts) = 0
      BY <2>1, FiniteDomains, SumOfZeros
    <2> QED
      BY <2>2 DEF MarketClicks, RowClicks, MarketCounts, RowCounts
  <1>2. Counting = {} /\ Cardinality({}) = 0
    BY FS_EmptySet DEF Init, Counting
  <1>3. ASSUME NEW c \in Labels
        PROVE  located[c] = 0 /\ Locating(c) = {} /\ ClicksOf(c) = 0
    <2>1. TypeCounts(c) = [t \in LinkTypes |-> 0]
      BY DEF Init, NoClicks, TypeCounts
    <2>2. SumFunction(TypeCounts(c)) = 0
      BY <2>1, FiniteDomains, SumOfZeros
    <2>3. located[c] = 0 /\ Locating(c) = {}
      BY DEF Init, NoneLocated, Locating
    <2> QED
      BY <2>2, <2>3 DEF ClicksOf, TypeCounts
  <1> QED
    BY <1>1, <1>2, <1>3 DEF RowsAhead, ClicksAhead

LEMMA InitOthers ==
    Init => Owned /\ ReadFromRow /\ Untargeted /\ RedirectGoesHome /\ EventsMatchClicks
  <1> SUFFICES ASSUME Init
               PROVE  Owned /\ ReadFromRow /\ Untargeted /\ RedirectGoesHome
                        /\ EventsMatchClicks
    OBVIOUS
  <1>1. ASSUME NEW s \in Shorts PROVE stored[s] + Cardinality(Pending(s)) <= Clicked(s)
    <2>1. Pending(s) = {} /\ stored[s] = 0 /\ Clicked(s) = 0
      BY <1>1 DEF Init, Pending, Clicked
    <2> QED
      BY <2>1, FS_EmptySet
  <1>2. EventsMatchClicks
    BY <1>1 DEF Init, EventsMatchClicks
  <1> QED
    BY <1>2 DEF Init, Owned, ReadFromRow, Untargeted, RedirectGoesHome

LEMMA Invariance == Spec => []IInv
  <1>1. Init => IInv
    BY InitTypes, InitOthers, InitCounters DEF IInv
  <1>2. IInv /\ [Next]_vars => IInv'
    BY TypeStep, OwnedStep, ReadStep, HomeStep, EventsStep, RowsAheadStep, ClicksAheadStep
       DEF IInv
  <1> QED
    BY <1>1, <1>2, PTL DEF Spec

-----------------------------------------------------------------------------

\* Rows, requests and counters keep their types; a request that goes on has its row.
THEOREM ClicksTypeCorrect == Spec => []TypeOK
  <1>1. IInv => TypeOK
    BY DEF IInv
  <1> QED
    BY Invariance, <1>1, PTL

\* A link leads to the wallet and the transaction of its own message, whatever
\* was registered before and whatever failed.
THEOREM LinksLeadHome == Spec => []RedirectGoesHome
  <1>1. IInv => RedirectGoesHome
    BY DEF IInv
  <1> QED
    BY Invariance, <1>1, PTL

\* The stored market clicks of a row never exceed those it has counted.
THEOREM StoredClicksWereCounted == Spec => []EventsMatchClicks
  <1>1. IInv => EventsMatchClicks
    BY DEF IInv
  <1> QED
    BY Invariance, <1>1, PTL

\* The dashboards never show more market clicks than the rows have counted, nor
\* more located clicks of a category than clicks of it, at any moment between the
\* statements of any number of clicks, and after a restart.
THEOREM CountersStayBehind == Spec => []CountersNeverRunAhead
  <1>1. IInv => CountersNeverRunAhead
    <2> SUFFICES ASSUME IInv PROVE CountersNeverRunAhead
      OBVIOUS
    <2>1. TypeOK /\ RowsAhead /\ ClicksAhead
      BY DEF IInv
    <2>2. MarketClicks <= RowClicks
      <3>1. MarketClicks \in Nat /\ RowClicks \in Nat
        BY <2>1, CountsTypes, FiniteDomains, SumType
           DEF MarketClicks, RowClicks, MarketCounts, RowCounts
      <3>2. Cardinality(Counting) \in Nat
        BY SizeSteps DEF Counting
      <3> QED
        BY <2>1, <3>1, <3>2 DEF RowsAhead
    <2>3. ASSUME NEW c \in Labels PROVE located[c] <= ClicksOf(c)
      <3>1. ClicksOf(c) \in Nat /\ located[c] \in Nat
        <4>1. TypeCounts(c) \in [LinkTypes -> Nat]
          BY <2>1, CountsTypes
        <4>2. SumFunction(TypeCounts(c)) \in Nat
          BY <4>1, FiniteDomains, SumType
        <4> QED
          BY <2>1, <4>2 DEF ClicksOf, TypeCounts, TypeOK
      <3>2. Cardinality(Locating(c)) \in Nat
        BY SizeSteps DEF Locating
      <3> QED
        BY <2>1, <3>1, <3>2 DEF ClicksAhead
    <2> QED
      BY <2>2, <2>3 DEF CountersNeverRunAhead
  <1> QED
    BY Invariance, <1>1, PTL
=============================================================================
