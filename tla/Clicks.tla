------------------------------- MODULE Clicks -------------------------------
(***************************************************************************)
(* Click tracking: RegisterAlert (internal/db/clicks.go) from SendAlert    *)
(* (internal/bot/alerts.go), HandleRedirect and the click: callback        *)
(* (internal/bot/handlers.go), LogClickEvent, and the two counters of the  *)
(* dashboards (internal/metrics/metrics.go).                               *)
(*                                                                         *)
(* An alert is one fill of the feed: a transaction, the wallet that traded *)
(* and the market.  Its links carry the short id of the fill.  Every click *)
(* is a request of its own, made of single statements, each of which may   *)
(* fail; the goroutine that stores the event is the tail of its request,   *)
(* as the handler itself only answers meanwhile.  The process may end      *)
(* between any two statements: rows and chats remain, requests and         *)
(* Prometheus counters do not.                                             *)
(***************************************************************************)
EXTENDS Naturals, FiniteSets, Functions

CONSTANTS
    Alerts,     \* fills announced to chats
    Tx,         \* [Alerts -> transactions]
    Wallet,     \* [Alerts -> wallets, in lower case]
    Market,     \* [Alerts -> markets]
    Category,   \* [Alerts -> categories that its market may get]
    Requests,   \* goroutines serving clicks at one time
    MaxClicks,  \* bound: clicks in a behaviour
    NoAlert, NoRow

VARIABLES
    rows,       \* alert_clicks: [short ids -> rows]
    stored,     \* click_events: market clicks stored for each short id
    labels,     \* click_events: <<short id, category>> pairs that occur
    sent,       \* alerts whose message may be in a chat
    pc,         \* where each request is
    link,       \* the alert whose link was followed
    type,       \* the kind of link
    target,     \* where the user is sent: a wallet, a transaction or a market
    cat,        \* the category read for the counters, or for the event
    clicked,    \* ClicksTotal: [<<type, category>> -> clicks]
    located,    \* GeoClicksTotal, over all countries: [categories -> clicks]
    begun       \* history: clicks so far

request == <<pc, link, type, target, cat>>
vars == <<rows, stored, labels, sent, request, clicked, located, begun>>

\* The kinds of link, and the button of older keyboards.
Types == {"market", "profile", "debank", "pgsan", "click"}

LinkTypes == Types \ {"click"}

\* What the row of a category that could not be read leaves in the variable.
Unread == ""

\* The label and column a click is recorded under.
LinkType(t) == IF t = "click" THEN "market" ELSE t

\* IncrementClick serves these, GetAlertLinks the others.
Counts(t) == LinkType(t) = "market"

-----------------------------------------------------------------------------
(* Short ids.  The hash is taken to have no collision.                     *)

\* The id of the transaction alone.
ShortOfTx(a) == <<Tx[a]>>

Short(a) == <<Tx[a], Wallet[a]>>

Shorts == {Short(a) : a \in Alerts}

NewRow(a, c) ==
    [wallet |-> Wallet[a], tx |-> Tx[a], market |-> Market[a], category |-> c, clicks |-> 0]

Pc == {"idle", "find", "count", "locate", "lookup", "insert"}

Wallets == {Wallet[a] : a \in Alerts}
Txs     == {Tx[a] : a \in Alerts}
Markets == {Market[a] : a \in Alerts}
Targets == Wallets \cup Txs \cup Markets

Labels == {Unread} \cup UNION {Category[a] : a \in Alerts}

Rows == [wallet : Wallets, tx : Txs, market : Markets, category : Labels, clicks : Nat]

ASSUME ClicksAssumption ==
    /\ IsFiniteSet(Alerts) /\ IsFiniteSet(Labels) /\ IsFiniteSet(Requests)
    /\ MaxClicks \in Nat
    /\ NoAlert \notin Alerts \cup Targets
    /\ NoRow \notin Rows

TypeOK ==
    /\ rows \in [Shorts -> Rows \cup {NoRow}]
    /\ stored \in [Shorts -> Nat]
    /\ labels \subseteq Shorts \X Labels
    /\ clicked \in [LinkTypes \X Labels -> Nat]
    /\ located \in [Labels -> Nat]
    /\ sent \subseteq Alerts
    /\ pc \in [Requests -> Pc]
    /\ link \in [Requests -> Alerts \cup {NoAlert}]
    /\ type \in [Requests -> Types]
    /\ target \in [Requests -> Targets \cup {NoAlert}]
    /\ cat \in [Requests -> Labels]
    /\ begun \in 0..MaxClicks
    /\ \A r \in Requests :
          /\ pc[r] # "idle" => link[r] \in Alerts
          /\ pc[r] \notin {"idle", "find"} =>
                rows[Short(link[r])] # NoRow /\ target[r] # NoAlert

NoClicks == [x \in LinkTypes \X Labels |-> 0]
NoneLocated == [c \in Labels |-> 0]

Init ==
    /\ rows = [s \in Shorts |-> NoRow]
    /\ stored = [s \in Shorts |-> 0]
    /\ labels = {}
    /\ sent = {}
    /\ pc = [r \in Requests |-> "idle"]
    /\ link = [r \in Requests |-> NoAlert]
    /\ type = [r \in Requests |-> "market"]
    /\ target = [r \in Requests |-> NoAlert]
    /\ cat = [r \in Requests |-> Unread]
    /\ clicked = NoClicks
    /\ located = NoneLocated
    /\ begun = 0

-----------------------------------------------------------------------------
(* SendAlert: the row, then the messages with its links.                   *)

\* The first alert of a short id stays (ON CONFLICT DO NOTHING).  The error is
\* ignored: the messages then carry links that nobody can follow.
RegisterAlert(a) ==
    /\ \/ /\ rows[Short(a)] = NoRow
          /\ \E c \in Category[a] : rows' = [rows EXCEPT ![Short(a)] = NewRow(a, c)]
       \/ UNCHANGED rows
    /\ sent' = sent \cup {a}
    /\ UNCHANGED <<stored, labels, request, clicked, located, begun>>

-----------------------------------------------------------------------------
(* A click.                                                                *)

Click(r) ==
    /\ pc[r] = "idle"
    /\ begun < MaxClicks
    /\ begun' = begun + 1
    /\ \E a \in sent, t \in Types :
          /\ link' = [link EXCEPT ![r] = a]
          /\ type' = [type EXCEPT ![r] = t]
    /\ pc' = [pc EXCEPT ![r] = "find"]
    /\ UNCHANGED <<rows, stored, labels, sent, target, cat, clicked, located>>

Row(r) == rows[Short(link[r])]

Goto(r, at) == pc' = [pc EXCEPT ![r] = at]

End(r) ==
    /\ Goto(r, "idle")
    /\ link' = [link EXCEPT ![r] = NoAlert]
    /\ type' = [type EXCEPT ![r] = "market"]
    /\ target' = [target EXCEPT ![r] = NoAlert]
    /\ cat' = [cat EXCEPT ![r] = Unread]

Found(r, where) ==
    /\ target' = [target EXCEPT ![r] = where]
    /\ Goto(r, "count")
    /\ UNCHANGED <<link, type, cat>>

Increment(r) == rows' = [rows EXCEPT ![Short(link[r])].clicks = @ + 1]

\* The row's link is answered first and counted when that has succeeded.
IncrementClickAfterwards(r) ==
    /\ pc[r] = "find" /\ Counts(type[r])
    /\ \/ /\ Row(r) # NoRow
          /\ Found(r, Row(r).market)
          /\ Increment(r) \/ UNCHANGED rows
       \/ End(r) /\ UNCHANGED rows
    /\ UNCHANGED <<stored, labels, sent, clicked, located, begun>>

\* IncrementClick counts the click and returns the market.  The user is told
\* "not found" without a row and on an error, which may follow the commit.
IncrementClick(r) ==
    /\ pc[r] = "find" /\ Counts(type[r])
    /\ \/ Row(r) # NoRow /\ Increment(r) /\ Found(r, Row(r).market)
       \/ Row(r) # NoRow /\ Increment(r) /\ End(r)
       \/ End(r) /\ UNCHANGED rows
    /\ UNCHANGED <<stored, labels, sent, clicked, located, begun>>

\* Neither the error nor the value is looked at: the user is sent nowhere.
GetAlertLinksUnchecked(r) ==
    /\ pc[r] = "find" /\ ~Counts(type[r])
    /\ Found(r, IF Row(r) = NoRow THEN Unread
                ELSE IF type[r] = "pgsan" THEN Row(r).tx ELSE Row(r).wallet)
    /\ UNCHANGED <<rows, stored, labels, sent, clicked, located, begun>>

\* "Not found" without a row, on an error and for a malformed value.
GetAlertLinks(r) ==
    /\ pc[r] = "find" /\ ~Counts(type[r])
    /\ \/ /\ Row(r) # NoRow
          /\ Found(r, IF type[r] = "pgsan" THEN Row(r).tx ELSE Row(r).wallet)
       \/ End(r)
    /\ UNCHANGED <<rows, stored, labels, sent, clicked, located, begun>>

\* The counter ignores how the lookup of the category ended.  A redirect goes on
\* in the background while the user is sent to the target; the button is
\* answered with the link, and that is all.
Count(r) ==
    /\ pc[r] = "count"
    /\ \E c \in {Row(r).category, Unread} :
          /\ clicked' = [clicked EXCEPT ![<<LinkType(type[r]), c>>] = @ + 1]
          /\ \/ type[r] = "click" /\ End(r)
             \/ /\ type[r] # "click"
                /\ cat' = [cat EXCEPT ![r] = c]
                /\ Goto(r, "locate")
                /\ UNCHANGED <<link, type, target>>
    /\ UNCHANGED <<rows, stored, labels, sent, located, begun>>

\* The country is looked up, and counted under the category read before.
Locate(r) ==
    /\ pc[r] = "locate"
    /\ located' = [located EXCEPT ![cat[r]] = @ + 1]
    /\ Goto(r, "lookup")
    /\ UNCHANGED <<rows, stored, labels, sent, link, type, target, cat, clicked, begun>>

\* LogClickEvent reads the category again ...
Lookup(r) ==
    /\ pc[r] = "lookup"
    /\ \E c \in {Row(r).category, Unread} : cat' = [cat EXCEPT ![r] = c]
    /\ Goto(r, "insert")
    /\ UNCHANGED <<rows, stored, labels, sent, link, type, target, clicked, located, begun>>

Store(r) ==
    /\ labels' = labels \cup {<<Short(link[r]), cat[r]>>}
    /\ stored' = [stored EXCEPT ![Short(link[r])] = IF type[r] = "market" THEN @ + 1 ELSE @]

\* A store that failed is tried again, though it may have been committed.
InsertRetrying(r) ==
    /\ pc[r] = "insert"
    /\ \/ Store(r) /\ End(r)
       \/ Store(r) /\ UNCHANGED request
       \/ End(r) /\ UNCHANGED <<stored, labels>>
    /\ UNCHANGED <<rows, sent, clicked, located, begun>>

\* ... and stores the event, or fails to; nobody tries again.
Insert(r) ==
    /\ pc[r] = "insert"
    /\ Store(r) \/ UNCHANGED <<stored, labels>>
    /\ End(r)
    /\ UNCHANGED <<rows, sent, clicked, located, begun>>

-----------------------------------------------------------------------------
\* The process ends and is started again.
Restart ==
    /\ pc' = [r \in Requests |-> "idle"]
    /\ link' = [r \in Requests |-> NoAlert]
    /\ type' = [r \in Requests |-> "market"]
    /\ target' = [r \in Requests |-> NoAlert]
    /\ cat' = [r \in Requests |-> Unread]
    /\ clicked' = NoClicks
    /\ located' = NoneLocated
    /\ UNCHANGED <<rows, stored, labels, sent, begun>>

HandleRedirect(r) ==
    \/ Click(r) \/ IncrementClick(r) \/ GetAlertLinks(r) \/ Count(r)
    \/ Locate(r) \/ Lookup(r) \/ Insert(r)

Next ==
    \/ \E a \in Alerts : RegisterAlert(a)
    \/ \E r \in Requests : HandleRedirect(r)
    \/ Restart

Spec == Init /\ [][Next]_vars

-----------------------------------------------------------------------------
(* Properties.                                                             *)

\* "Without the wallet component, all fills in the same tx share a shortID and
\* ON CONFLICT DO NOTHING causes subsequent alerts to redirect to the wrong
\* wallet's profile" (alerts.go:46-48): a link leads to the wallet and the
\* transaction of the message it is in, and to the market of a fill of that
\* wallet in that transaction, whichever alert was registered first.
RedirectGoesHome ==
    \A r \in Requests :
        target[r] # NoAlert =>
            CASE type[r] \in {"profile", "debank"} -> target[r] = Wallet[link[r]]
              [] type[r] = "pgsan" -> target[r] = Tx[link[r]]
              [] OTHER -> \E a \in Alerts :
                             /\ target[r] = Market[a]
                             /\ Tx[a] = Tx[link[r]] /\ Wallet[a] = Wallet[link[r]]

\* Redirects to the market whose event may still be stored.
Pending(s) ==
    {r \in Requests : /\ pc[r] \notin {"idle", "find"}
                      /\ type[r] = "market" /\ Short(link[r]) = s}

\* The clicks counted on a row.
Clicked(s) == IF rows[s] = NoRow THEN 0 ELSE rows[s].clicks

\* Every stored market click was counted on its row first, through failures,
\* overlapping clicks, second alerts and restarts, so the table of events never
\* shows more than the counters of the rows; and an event carries the
\* category of its row unless that could not be read.
EventsMatchClicks ==
    /\ \A s \in Shorts :
          stored[s] + Cardinality(Pending(s)) <= Clicked(s)
    /\ \A e \in labels :
          rows[e[1]] # NoRow /\ e[2] \in {rows[e[1]].category, Unread}

RowClicks == SumFunction([s \in Shorts |-> Clicked(s)])

MarketClicks == SumFunction([c \in Labels |-> clicked[<<"market", c>>]])

ClicksOf(c) == SumFunction([t \in LinkTypes |-> clicked[<<t, c>>]])

\* The dashboards agree with the tables and with each other: no more market
\* clicks than the rows have counted, and no more located clicks of a category
\* than clicks of that category.
CountersNeverRunAhead ==
    /\ MarketClicks <= RowClicks
    /\ \A c \in Labels : located[c] <= ClicksOf(c)
=============================================================================
