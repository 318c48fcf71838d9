------------------------------ MODULE Settings ------------------------------
(***************************************************************************)
(* Changing one's settings: handleMessage, handleSettingsInput,            *)
(* handleCallback, handleCategoryCallback and the save_settings part of    *)
(* handleWebAppData (internal/bot/handlers.go), the in-memory maps of      *)
(* internal/bot/session.go and the settings row of internal/db/settings.go.*)
(*                                                                         *)
(* Every map and row is keyed by the chat, so the module follows one chat. *)
(* Each update of the chat runs in a goroutine of its own; a step is one   *)
(* access to a map, one SQL statement, or one edit of the keyboard in the  *)
(* chat.  An entry whose time has come is as good as gone, whether the     *)
(* cleanup goroutine or the next reader removes it.                        *)
(*                                                                         *)
(* The chat can hold several settings panels: /settings sends one, so does *)
(* the reply to a typed value, and a restart leaves them all.  Each can be *)
(* turned into a category keyboard and back, while the bot keeps a single  *)
(* pending selection for the chat.                                         *)
(*                                                                         *)
(* Amounts are in dollars, odds in hundredths.                             *)
(***************************************************************************)
EXTENDS Categories, Integers

CONSTANTS
    Handlers,       \* handler goroutines alive at one time
    Panels,         \* settings panels the chat can hold
    Fields,         \* which of "amount", "trades" and "odds" are followed
    Texts,          \* what the user types
    Forms,          \* what the Mini App sends with save_settings
    Faults,         \* SQL statements and edits of the keyboard may fail
    NaN,            \* the float64 "not a number", which ParseFloat accepts
    Start, Stop,    \* the texts /start and /stop
    Menu,           \* the text /settings
    Garbage,        \* text that is neither a number nor a command
    NoRow, NoSession, NoPending, NoKeyboard, NoPanel, Unsure

\* The settings of a user who never saved any.
Defaults == [num  |-> [f \in Fields |->
                          CASE f = "amount" -> 1000
                            [] f = "trades" -> 5
                            [] f = "odds"   -> 115],
             cats |-> {}]

Number == Int \cup {NaN}

UserSettings == [num : [Fields -> Number], cats : Selection]

Commands == {Start, Stop, Menu}

ASSUME SettingsAssumption ==
    /\ Fields \subseteq {"amount", "trades", "odds"}
    /\ Texts \subseteq Number \cup Commands \cup {Garbage}
    /\ Forms \subseteq [num : [Fields -> Int], cats : Selection]
    /\ Faults \in BOOLEAN
    /\ NaN \notin Int
    /\ Garbage \notin Number
    /\ Commands \cap (Number \cup {Garbage}) = {}
    /\ All \cap {"all", "none", "save"} = {}
    /\ NoRow \notin UserSettings
    /\ NoSession \notin Fields
    /\ \A cats \in Selection : cats # NoPending
    /\ \A marks \in SUBSET All : marks # NoKeyboard
    /\ NoPanel \notin Panels

VARIABLES
    subscribed,     \* the chat has a row in users
    row,            \* its row in user_settings
    session,        \* sessions: the field the bot waits for
    pending,        \* pendingCats: the selection not saved yet
    shown,          \* the marks on each panel that is a category keyboard
    pc,             \* where each handler is
    task,           \* its update and its local variables
    want,           \* history: what the user was told is saved, field by
                    \* field, or Unsure after an overlap or a failure
    current         \* history: the keyboard that was opened or tapped last and
                    \* has not been overtaken by anything since, or NoPanel

store   == <<subscribed, row>>
memory  == <<session, pending>>
history == <<want, current>>
vars    == <<store, memory, shown, pc, task, history>>

Pc == {"idle", "session", "clear", "subscribe", "unsubscribe", "replace", "tap",
       "read", "init", "apply", "paint", "write", "forget", "repaint"}

Kinds == {"none", "message", "input", "open", "tap", "save", "mini", "back"}

Keys == All \cup {"all", "none", "save"}

NoKey == "no key"

\* field: the session's; form, cats: s and cats in the code; panel: the message
\* with the key.  Histories: alone, no other update of the chat was handled
\* meanwhile; seen, the marks before the user's eyes when he tapped, or Unsure
\* when they need not be those of the pending selection.
NoTask == [kind |-> "none", text |-> Garbage, key |-> NoKey,
           field |-> NoSession, form |-> Defaults, cats |-> {},
           panel |-> NoPanel, alone |-> FALSE, seen |-> Unsure]

TypeOK ==
    /\ subscribed \in BOOLEAN
    /\ row \in {NoRow} \cup UserSettings
    /\ session \in Fields \cup {NoSession}
    /\ pending \in {NoPending} \cup Selection
    /\ shown \in [Panels -> {NoKeyboard} \cup SUBSET All]
    /\ pc \in [Handlers -> Pc]
    /\ task \in [Handlers ->
          [kind : Kinds, text : Texts \cup {Garbage}, key : Keys \cup {NoKey},
           field : Fields \cup {NoSession}, form : UserSettings,
           cats : Selection, panel : Panels \cup {NoPanel},
           alone : BOOLEAN, seen : {Unsure} \cup SUBSET All]]
    /\ want \in [num : [Fields -> Number \cup {Unsure}], cats : {Unsure} \cup SUBSET All]
    /\ current \in Panels \cup {NoPanel}

\* What the stored settings mean: the selection as the set it enables.
Meaning(s) == [num |-> s.num, cats |-> Marks(s.cats)]

NothingSure == [num |-> [f \in Fields |-> Unsure], cats |-> Unsure]

\* GetSettings: the row, or the defaults when there is none.
Stored == IF row = NoRow THEN Defaults ELSE row

\* handleWebAppData clamps what the Mini App sends, from below only.
MiniFloor == [amount |-> 100, trades |-> 1, odds |-> 101]

Clamped(form) ==
    [form EXCEPT !.num = [f \in Fields |->
        IF form.num[f] < MiniFloor[f] THEN MiniFloor[f] ELSE form.num[f]]]

\* The process starts on the rows and the panels that earlier runs left.
Init ==
    /\ \/ subscribed \in BOOLEAN /\ row = NoRow
       \/ subscribed = TRUE /\ row \in {Defaults} \cup {Clamped(form) : form \in Forms}
    /\ session = NoSession
    /\ pending = NoPending
    /\ shown \in [Panels -> {NoKeyboard} \cup SUBSET All]
    /\ pc = [h \in Handlers |-> "idle"]
    /\ task = [h \in Handlers |-> NoTask]
    /\ want = Meaning(Stored)
    /\ current = NoPanel

-----------------------------------------------------------------------------
(* Updates.                                                                *)

\* Nothing else of the chat is being handled.
Quiet == \A g \in Handlers : pc[g] = "idle"

Disturbed(t) == [t EXCEPT !.alone = FALSE, !.seen = Unsure]

\* An update arrives.  While another is being handled nothing is sure of what
\* either of them saves or shows.
Begin(h, new, at) ==
    /\ pc[h] = "idle"
    /\ pc' = [pc EXCEPT ![h] = at]
    /\ task' = [g \in Handlers |->
          IF g # h THEN Disturbed(task[g])
          ELSE IF Quiet THEN [new EXCEPT !.alone = TRUE] ELSE Disturbed(new)]
    /\ want' = IF Quiet THEN want ELSE NothingSure
    /\ current' = IF Quiet /\ new.kind # "back" THEN current ELSE NoPanel

Message(h) ==
    /\ \E t \in Texts :
          Begin(h, [NoTask EXCEPT !.kind = "message", !.text = t], "session")
    /\ UNCHANGED <<store, memory, shown>>

\* set:amount, set:trades, set:odds: the session is set in one step.
Prompt ==
    /\ session' \in Fields
    /\ UNCHANGED <<store, pending, shown, pc, task, history>>

\* set:cats, on a settings panel
Open(h, p) ==
    /\ shown[p] = NoKeyboard
    /\ Begin(h, [NoTask EXCEPT !.kind = "open", !.panel = p], "read")
    /\ UNCHANGED <<store, memory, shown>>

\* cat:<key>, on any of the category keyboards in the chat
Tap(h, p) ==
    /\ shown[p] # NoKeyboard
    /\ \E k \in Keys :
          Begin(h, [NoTask EXCEPT !.kind = "tap", !.key = k, !.panel = p,
                       !.seen = IF current = p THEN shown[p] ELSE Unsure], "tap")
    /\ UNCHANGED <<store, memory, shown>>

\* set:back, on any of them: clearPendingCats, then the message is edited.
Back(h, p) ==
    /\ shown[p] # NoKeyboard
    /\ Begin(h, [NoTask EXCEPT !.kind = "back", !.panel = p], "repaint")
    /\ pending' = NoPending
    /\ UNCHANGED <<store, session, shown>>

\* save_settings: numbers are clamped, the list of categories is taken as it is.
MiniSave(h) ==
    /\ \E form \in Forms :
          Begin(h, [NoTask EXCEPT !.kind = "mini", !.form = Clamped(form)], "write")
    /\ UNCHANGED <<store, memory, shown>>

-----------------------------------------------------------------------------
(* Steps of a handler.                                                     *)

Goto(h, to) == pc' = [pc EXCEPT ![h] = to]

\* The goroutine returns; its variables are gone.
Return(h) ==
    /\ pc' = [pc EXCEPT ![h] = "idle"]
    /\ task' = [task EXCEPT ![h] = NoTask]

\* getSession: a waiting session takes any text, commands included.
GetSession(h) ==
    /\ pc[h] = "session"
    /\ \/ /\ session # NoSession
          /\ task' = [task EXCEPT ![h].kind = "input", ![h].field = session]
          /\ Goto(h, "clear")
       \/ /\ session = NoSession
          /\ task[h].text \in Commands
          /\ Goto(h, CASE task[h].text = Start -> "subscribe"
                       [] task[h].text = Stop  -> "unsubscribe"
                       [] task[h].text = Menu  -> "replace")
          /\ UNCHANGED task
       \/ /\ session = NoSession
          /\ task[h].text \notin Commands
          /\ Return(h)
    /\ UNCHANGED <<store, memory, shown, history>>

\* clearSession
ClearSession(h) ==
    /\ pc[h] = "clear"
    /\ session' = NoSession
    /\ Goto(h, "read")
    /\ UNCHANGED <<store, pending, shown, task, history>>

\* A statement that failed, or whose answer was lost, may have been committed.
Subscribe(h) ==
    /\ pc[h] = "subscribe"
    /\ subscribed' \in {TRUE} \cup (IF Faults THEN {subscribed} ELSE {})
    /\ Return(h)
    /\ UNCHANGED <<row, memory, shown, history>>

\* The settings row goes with the user (ON DELETE CASCADE).
UnsubscribeNoCascade(h) ==
    /\ pc[h] = "unsubscribe"
    /\ subscribed' = FALSE
    /\ want' = NothingSure
    /\ Return(h)
    /\ UNCHANGED <<row, memory, shown, current>>

Unsubscribe(h) ==
    /\ pc[h] = "unsubscribe"
    /\ \/ /\ subscribed' = FALSE
          /\ row' = NoRow
          /\ want' = IF task[h].alone THEN Meaning(Defaults) ELSE NothingSure
       \/ /\ Faults
          /\ \/ subscribed' = FALSE /\ row' = NoRow
             \/ UNCHANGED store
          /\ want' = NothingSure
    /\ Return(h)
    /\ UNCHANGED <<memory, shown, current>>

\* handleSettingsCommand deletes the panel it remembers, if it does and can, and
\* sends a new one; which one settingsMsgs holds is left open.
ReplacePanel(h) ==
    /\ pc[h] = "replace"
    /\ \/ \E p \in Panels :
             /\ shown' = [shown EXCEPT ![p] = NoKeyboard]
             /\ current' = IF current = p THEN NoPanel ELSE current
       \/ UNCHANGED <<shown, current>>
    /\ Return(h)
    /\ UNCHANGED <<store, memory, want>>

\* getPendingCats
GetPending(h) ==
    /\ pc[h] = "tap"
    /\ \/ /\ pending # NoPending
          /\ task' = [task EXCEPT ![h].cats = pending]
          /\ Goto(h, "apply")
       \/ /\ pending = NoPending
          /\ Goto(h, "read")
          /\ UNCHANGED task
    /\ UNCHANGED <<store, memory, shown, history>>

\* Floats are compared as Go does: NaN is never less.
Less(x, y) == x # NaN /\ x < y

InputFloor == [amount |-> 10, trades |-> 1, odds |-> 100]

\* Only the upper bound is tested.
RejectedAbove(field, text) ==
    text \in Number => field = "trades" /\ ~(text # NaN /\ text <= 1000)

\* ParseFloat and Atoi, and the range tests after them.
Rejected(field, text) ==
    text \in Number =>
        \/ Less(text, InputFloor[field])
        \/ field = "trades" /\ ~(text # NaN /\ text <= 1000)

\* What the handler does with the settings s it read.
Continue(h, s) ==
    \/ /\ task[h].kind = "input"
       /\ Rejected(task[h].field, task[h].text)
       /\ Return(h)
    \/ /\ task[h].kind = "input"
       /\ ~Rejected(task[h].field, task[h].text)
       /\ task' = [task EXCEPT ![h].form =
                      [s EXCEPT !.num[task[h].field] = task[h].text]]
       /\ Goto(h, "write")
    \/ /\ task[h].kind = "save"
       /\ task' = [task EXCEPT ![h].form = [s EXCEPT !.cats = task[h].cats]]
       /\ Goto(h, "write")
    \/ /\ task[h].kind \in {"open", "tap"}
       /\ task' = [task EXCEPT ![h].cats = s.cats]
       /\ Goto(h, "init")

\* The caller starts from the defaults and never looks at the row.
ReadDefaults(h) ==
    /\ pc[h] = "read"
    /\ Continue(h, Defaults)
    /\ UNCHANGED <<store, memory, shown, history>>

\* GetSettings.  Its error is ignored: the caller goes on with the defaults,
\* and one that writes the row back overwrites it with them.
Read(h) ==
    /\ pc[h] = "read"
    /\ \/ Continue(h, Stored) /\ UNCHANGED want
       \/ /\ Faults
          /\ Continue(h, Defaults)
          /\ want' = IF task[h].kind \in {"input", "save"} THEN NothingSure ELSE want
    /\ UNCHANGED <<store, memory, shown, current>>

\* A selection that is pending is kept when a keyboard is opened.
InitPendingKeepingOld(h) ==
    /\ pc[h] = "init"
    /\ pending' = IF pending = NoPending THEN task[h].cats ELSE pending
    /\ Goto(h, IF task[h].kind = "open" THEN "paint" ELSE "apply")
    /\ current' = IF task[h].kind = "open" /\ task[h].alone
                  THEN task[h].panel ELSE NoPanel
    /\ UNCHANGED <<store, session, shown, task, want>>

\* initPendingCats, for this panel from now on.
InitPending(h) ==
    /\ pc[h] = "init"
    /\ pending' = task[h].cats
    /\ Goto(h, IF task[h].kind = "open" THEN "paint" ELSE "apply")
    /\ current' = IF task[h].kind = "open" /\ task[h].alone
                  THEN task[h].panel ELSE NoPanel
    /\ UNCHANGED <<store, session, shown, task, want>>

\* The switch on the key.  A list with unknown names may be as long as the
\* table of categories: what a tap makes of it is not promised.
Apply(h) ==
    /\ pc[h] = "apply"
    /\ \/ /\ task[h].key = "save"
          /\ task' = [task EXCEPT ![h].kind = "save"]
          /\ Goto(h, "read")
          /\ UNCHANGED <<pending, current>>
       \/ /\ task[h].key # "save"
          /\ pending' = Tapped(task[h].cats, task[h].key)
          /\ task' = [task EXCEPT ![h] =
                 [@ EXCEPT !.cats = pending',
                           !.seen = IF task[h].cats \in Known
                                    THEN task[h].seen ELSE Unsure]]
          /\ Goto(h, "paint")
          /\ current' = IF task[h].alone THEN task[h].panel ELSE NoPanel
    /\ UNCHANGED <<store, session, shown, want>>

\* EditMessageReplyMarkup, EditMessageText or SendMessage with the category
\* keyboard; its error is ignored, and a message too old to be edited is left.
Paint(h) ==
    /\ pc[h] = "paint"
    /\ \/ /\ shown' = [shown EXCEPT ![task[h].panel] = Marks(task[h].cats)]
          /\ UNCHANGED current
       \/ /\ Faults
          /\ current' = NoPanel
          /\ UNCHANGED shown
    /\ Return(h)
    /\ UNCHANGED <<store, memory, want>>

\* What the user has just been told is saved, or, when the statement failed,
\* may have been.
Confirmed(h, value, marks, all) ==
    IF task[h].alone
    THEN CASE task[h].kind = "input" -> [want EXCEPT !.num[task[h].field] = value]
           [] task[h].kind = "save"  -> [want EXCEPT !.cats = marks]
           [] OTHER                  -> all
    ELSE NothingSure

\* UpsertSettings replaces the whole row; the foreign key refuses a chat that
\* is no user.  A statement that failed may have been committed.
Write(h) ==
    /\ pc[h] = "write"
    /\ \/ /\ subscribed
          /\ row' = task[h].form
          /\ want' = Confirmed(h, task[h].text, task[h].seen, Meaning(task[h].form))
          /\ IF task[h].kind = "save"
             THEN Goto(h, "forget") /\ UNCHANGED task
             ELSE Return(h)
       \/ /\ ~subscribed
          /\ Return(h)
          /\ UNCHANGED <<row, want>>
       \/ /\ Faults
          /\ row' \in {row} \cup (IF subscribed THEN {task[h].form} ELSE {})
          /\ want' = Confirmed(h, Unsure, Unsure, NothingSure)
          /\ Return(h)
    /\ UNCHANGED <<subscribed, memory, shown, current>>

\* clearPendingCats
Forget(h) ==
    /\ pc[h] = "forget"
    /\ pending' = NoPending
    /\ current' = NoPanel
    /\ Goto(h, "repaint")
    /\ UNCHANGED <<store, session, shown, task, want>>

\* EditMessageText: the settings panel takes the place of this keyboard; others
\* stay in the chat.
Repaint(h) ==
    /\ pc[h] = "repaint"
    /\ \/ shown' = [shown EXCEPT ![task[h].panel] = NoKeyboard]
       \/ Faults /\ UNCHANGED shown
    /\ Return(h)
    /\ UNCHANGED <<store, memory, history>>

-----------------------------------------------------------------------------
(* Time and restarts.                                                      *)

ExpireSession ==
    /\ session # NoSession
    /\ session' = NoSession
    /\ UNCHANGED <<store, pending, shown, pc, task, history>>

\* The keyboards stay in the chat, but none shows the pending selection.
ExpirePending ==
    /\ pending # NoPending
    /\ pending' = NoPending
    /\ task' = [h \in Handlers |-> [task[h] EXCEPT !.seen = Unsure]]
    /\ current' = NoPanel
    /\ UNCHANGED <<store, session, shown, pc, want>>

\* The process stops anywhere and starts again: the maps and the handlers are
\* gone, the rows and the panels in the chat stay.
Restart ==
    /\ session' = NoSession
    /\ pending' = NoPending
    /\ pc' = [h \in Handlers |-> "idle"]
    /\ task' = [h \in Handlers |-> NoTask]
    /\ current' = NoPanel
    /\ UNCHANGED <<store, shown, want>>

-----------------------------------------------------------------------------
Update(h) ==
    \/ Message(h)
    \/ MiniSave(h)
    \/ \E p \in Panels : Open(h, p) \/ Tap(h, p) \/ Back(h, p)

Step(h) ==
    \/ GetSession(h) \/ ClearSession(h) \/ Subscribe(h) \/ Unsubscribe(h)
    \/ ReplacePanel(h) \/ GetPending(h) \/ Read(h) \/ InitPending(h) \/ Apply(h)
    \/ Paint(h) \/ Write(h) \/ Forget(h) \/ Repaint(h)

Next ==
    \/ \E h \in Handlers : Update(h) \/ Step(h)
    \/ Prompt
    \/ ExpireSession
    \/ ExpirePending
    \/ Restart

Spec == Init /\ [][Next]_vars

-----------------------------------------------------------------------------
(* Properties.                                                             *)

\* Told "saved" means saved: each setting in the row is what its last
\* confirmation said, the categories those the keyboard showed when "save" was
\* tapped, and changing one setting touches no other, through expiry, restarts
\* and stale keyboards in the chat.  Where updates overlapped, a statement failed
\* or "save" was tapped on a keyboard that was not the current one, that holds of
\* the settings concerned again from their next confirmation on.
RowIsAsConfirmed ==
    /\ \A f \in Fields : want.num[f] # Unsure => Stored.num[f] = want.num[f]
    /\ want.cats # Unsure => Marks(Stored.cats) = want.cats

\* A tap on the keyboard that was used last turns the marks before the user's
\* eyes into what its key says, whichever way the list stands for them ("all",
\* the sentinel), however many other keyboards are in the chat and whatever was
\* tapped on them before.  (Not promised of a list with unknown names.)
TapDoesWhatItSays ==
    [][\A h \in Handlers :
          pc[h] = "paint" /\ pc'[h] = "idle" /\ task[h].kind = "tap"
                /\ task[h].seen # Unsure /\ current' = task[h].panel
              => shown'[task[h].panel] = Expected(task[h].seen, task[h].key)]_vars

\* Whatever comes from the chat or the Mini App and however updates overlap,
\* no stored setting is less than the least the bot accepts.
FloorsHold ==
    row # NoRow => \A f \in Fields : ~Less(row.num[f], InputFloor[f])

\* The chat's part of the tables, as the rest of the program sees it.
Db == INSTANCE Database WITH
          Chats <- {"chat"},
          Wallets <- {},
          Settings <- UserSettings,
          DefaultSettings <- Defaults,
          users <- IF subscribed THEN {"chat"} ELSE {},
          settings <- [c \in {"chat"} |-> Stored],
          watch <- {}

\* However updates overlap, fail and are cut short by a restart, what they do to
\* the tables amounts to one subscription, one cancellation or one save at a
\* time: nobody who is no user has settings, and who leaves is back at the
\* defaults.
ImplementsDatabase == Db!Spec
=============================================================================
