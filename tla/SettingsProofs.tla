--------------------------- MODULE SettingsProofs ---------------------------
(***************************************************************************)
(* Proofs about Categories and Settings, for any set of at least two       *)
(* categories, any number of overlapping handlers and of panels in the     *)
(* chat, any lists of the Mini App, and any failures.                      *)
(***************************************************************************)
EXTENDS Settings, FiniteSetTheorems, TLAPS

\* A selection of categories that is as large as the whole set is the set.
LEMMA FullSelection ==
    ASSUME NEW S \in SUBSET All
    PROVE  /\ IsFiniteSet(S)
           /\ Cardinality(S) \in Nat
           /\ Cardinality(S) >= Cardinality(All) <=> S = All
<1>1. IsFiniteSet(All)
    BY CategoriesAssumption
<1>2. IsFiniteSet(S) /\ Cardinality(S) <= Cardinality(All)
    BY <1>1, FS_Subset
<1>3. Cardinality(S) \in Nat /\ Cardinality(All) \in Nat
    BY <1>1, <1>2, FS_CardinalityType
<1>4. Cardinality(S) = Cardinality(All) => S = All
    BY <1>1, FS_Subset
<1> QED
    BY <1>2, <1>3, <1>4

\* Taking one category away from all of them leaves some: the reason why the
\* empty list can stand for "all".
LEMMA OthersRemain ==
    ASSUME NEW key \in All
    PROVE  All \ {key} # {}
<1> SUFFICES ASSUME All \ {key} = {}
             PROVE  FALSE
    OBVIOUS
<1>1. All = {key}
    OBVIOUS
<1>2. Cardinality(All) = 1
    BY <1>1, FS_Singleton
<1> QED
    BY <1>2, CategoriesAssumption

\* A tap on a category flips exactly that mark, whether the list says "all",
\* "none" or names some, the sentinel among them or not (handlers.go:571-600).
\* That needs a list without unknown names: one with them can be as long as the
\* table of categories and be folded into "all".
THEOREM ToggleFlipsOneMark ==
    ASSUME NEW cats \in Known, NEW key \in All
    PROVE  /\ Toggled(cats, key) \in Known
           /\ Marks(Toggled(cats, key)) = Flip(Marks(cats), key)
<1> DEFINE others   == cats \ {None, key}
           selected == IF key \in cats THEN others ELSE others \cup {key}
           folded   == IF Cardinality(selected) >= Cardinality(All)
                       THEN {} ELSE selected
<1>1. None # key /\ None \notin All
    BY CategoriesAssumption
<1>2. CASE cats = {}
    BY <1>1, <1>2, OthersRemain DEF Toggled, Known, Marks, Flip
<1>3. CASE cats # {}
    <2>1. others \in SUBSET All /\ selected \in SUBSET All
        BY DEF Known
    <2>2. Cardinality(selected) >= Cardinality(All) <=> selected = All
        BY <2>1, FullSelection
    <2>3. folded = IF selected = All THEN {} ELSE selected
        BY <2>2
    <2>4. Toggled(cats, key) = IF folded = {} /\ key \in cats THEN {None} ELSE folded
        BY <1>3 DEF Toggled
    <2>5. CASE key \in cats
        <3>1. selected = others /\ key \notin others
            BY <2>5
        <3>2. folded = others
            BY <2>3, <3>1
        <3> QED
            BY <1>1, <1>3, <2>1, <2>4, <2>5, <3>2 DEF Known, Marks, Flip
    <2>6. CASE key \notin cats
        <3>1. selected = (cats \cap All) \cup {key}
            BY <2>6, <1>1 DEF Known
        <3>2. Toggled(cats, key) = IF selected = All THEN {} ELSE selected
            BY <2>3, <2>4, <2>6
        <3> QED
            BY <1>1, <1>3, <2>6, <3>1, <3>2 DEF Known, Marks, Flip
    <2> QED
        BY <2>5, <2>6
<1> QED
    BY <1>2, <1>3

\* Every key of the keyboard does to the marks what it says, under the same
\* condition.
THEOREM TapIsExpected ==
    ASSUME NEW cats \in Known, NEW key \in Keys, key # "save"
    PROVE  Marks(Tapped(cats, key)) = Expected(Marks(cats), key)
<1>1. CASE key = "all"
    BY <1>1 DEF Tapped, Expected, Marks
<1>2. CASE key = "none"
    BY <1>2, CategoriesAssumption DEF Tapped, Expected, Marks
<1>3. CASE key \notin {"all", "none"}
    <2>1. key \in All
        BY <1>3 DEF Keys
    <2>2. Tapped(cats, key) = Toggled(cats, key)
        BY <1>3 DEF Tapped
    <2>3. Expected(Marks(cats), key) = Flip(Marks(cats), key)
        BY <1>3 DEF Expected
    <2> QED
        BY <2>1, <2>2, <2>3, ToggleFlipsOneMark
<1> QED
    BY <1>1, <1>2, <1>3

\* A tap invents no names.
LEMMA TappedTyped ==
    ASSUME NEW cats \in Selection, NEW key \in Keys, key # "save"
    PROVE  Tapped(cats, key) \in Selection
<1>1. CASE key \in {"all", "none"}
    BY <1>1 DEF Tapped, Selection
<1>2. CASE key \notin {"all", "none"}
    <2>1. key \in All /\ Tapped(cats, key) = Toggled(cats, key)
        BY <1>2 DEF Keys, Tapped
    <2>2. cats \ {None, key} \in Selection /\ (cats \ {None, key}) \cup {key} \in Selection
          /\ All \ {key} \in Selection /\ {} \in Selection /\ {None} \in Selection
        BY <2>1 DEF Selection
    <2> QED
        BY <2>1, <2>2 DEF Toggled
<1> QED
    BY <1>1, <1>2

-----------------------------------------------------------------------------
(* The inductive invariant.                                                *)

Task == [kind : Kinds, text : Texts \cup {Garbage}, key : Keys \cup {NoKey},
         field : Fields \cup {NoSession}, form : UserSettings,
         cats : Selection, panel : Panels \cup {NoPanel},
         alone : BOOLEAN, seen : {Unsure} \cup SUBSET All]

\* The handler has had no company.
IsAlone(t) == t.alone = TRUE

Floors(s) == \A f \in Fields : ~Less(s.num[f], InputFloor[f])

WantOK(w) == w \in [num : [Fields -> Number \cup {Unsure}], cats : {Unsure} \cup SUBSET All]

\* Settings s are what the user was told, as far as that is sure.
NumsAgree(s, w) == \A f \in Fields : w.num[f] # Unsure => s.num[f] = w.num[f]
CatsAgree(s, w) == w.cats # Unsure => Marks(s.cats) = w.cats

\* Everything but the handlers.
WorldOK ==
    /\ subscribed \in BOOLEAN
    /\ row \in {NoRow} \cup UserSettings
    /\ row # NoRow => Floors(row)
    /\ session \in Fields \cup {NoSession}
    /\ pending \in {NoPending} \cup Selection
    /\ shown \in [Panels -> {NoKeyboard} \cup SUBSET All]
    /\ WantOK(want)
    /\ current \in Panels \cup {NoPanel}
    /\ NumsAgree(Stored, want) /\ CatsAgree(Stored, want)

\* A handler's variables are those of its kind of update, and what it is about
\* to write respects the floors.
Good(t, at) ==
    /\ Floors(t.form)
    /\ t.kind = "input" => t.field \in Fields
    /\ t.kind \in {"open", "tap"} => t.panel \in Panels
    /\ t.kind = "tap" => t.key \in Keys
    /\ at \in {"tap", "apply"} => t.kind = "tap"
    /\ at \in {"init", "paint"} => t.kind \in {"open", "tap"}
    /\ at = "clear" => t.kind = "input"
    /\ at = "write" => t.kind \in {"input", "save", "mini"}
    /\ at = "write" /\ t.kind = "input" => t.text \in Number

\* The marks the user saw are those of the selection the handler works on, then
\* of the settings it writes; after a tap the key has been applied to them.
SeenFits(t, at, selection) ==
    /\ at \notin {"session", "clear", "init"}
    /\ at = "tap" => selection # NoPending /\ Marks(selection) = t.seen
    /\ at = "apply" => Marks(t.cats) = t.seen
    /\ at = "read" => t.kind = "save" /\ Marks(t.cats) = t.seen
    /\ at = "write" /\ t.kind = "save" => Marks(t.form.cats) = t.seen
    /\ at = "paint" /\ t.kind = "tap" => Marks(t.cats) = Expected(t.seen, t.key)

\* What is about to be written changes one setting only.
WriteFits(t, at, told) ==
    at = "write" =>
        /\ t.kind = "input" =>
              /\ t.form.num[t.field] = t.text
              /\ \A f \in Fields \ {t.field} :
                    told.num[f] # Unsure => t.form.num[f] = told.num[f]
              /\ CatsAgree(t.form, told)
        /\ t.kind = "save" => NumsAgree(t.form, told)

\* Where other updates of the chat were handled meanwhile nothing is sure.
Mine(t, at, selection, told, board) ==
    /\ Good(t, at)
    /\ t.seen # Unsure => SeenFits(t, at, selection)
    /\ WriteFits(t, at, told)
    /\ at = "repaint" => board = NoPanel
    /\ at # "idle" /\ ~IsAlone(t) =>
          told = NothingSure /\ board = NoPanel /\ t.seen = Unsure

Sole == \A g, h \in Handlers : IsAlone(task[g]) /\ g # h => pc[h] = "idle"

\* The current keyboard shows the pending selection, or is about to.
KeyboardFits ==
    current # NoPanel =>
        /\ pending # NoPending
        /\ (\A h \in Handlers : pc[h] # "paint") => shown[current] = Marks(pending)
        /\ \A h \in Handlers :
              pc[h] = "paint" => task[h].panel = current /\ task[h].cats = pending

IInv ==
    /\ WorldOK
    /\ pc \in [Handlers -> Pc]
    /\ task \in [Handlers -> Task]
    /\ \A h \in Handlers : Mine(task[h], pc[h], pending, want, current)
    /\ Sole
    /\ KeyboardFits

-----------------------------------------------------------------------------
(* Facts about the parts.                                                  *)

\* The defaults are settings the bot would accept.
LEMMA DefaultsAccepted ==
    /\ Defaults \in UserSettings
    /\ Floors(Defaults)
<1>1. Defaults.num \in [Fields -> Number] /\ Defaults.cats \in Selection
    BY SettingsAssumption DEF Defaults, Number, Selection
<1>2. Defaults \in UserSettings
    BY <1>1 DEF Defaults, UserSettings
<1>3. ASSUME NEW f \in Fields
      PROVE  ~Less(Defaults.num[f], InputFloor[f])
    BY SettingsAssumption DEF Defaults, Less, InputFloor
<1> QED
    BY <1>2, <1>3 DEF Floors

\* What the Mini App's clamping leaves is above the floors of typed input.
LEMMA ClampedAccepted ==
    ASSUME NEW form \in Forms
    PROVE  Clamped(form) \in UserSettings /\ Floors(Clamped(form))
<1>1. form \in [num : [Fields -> Int], cats : Selection]
    BY SettingsAssumption
<1>2. ASSUME NEW f \in Fields
      PROVE  /\ Clamped(form).num[f] \in Int
             /\ Clamped(form).num[f] >= MiniFloor[f]
             /\ MiniFloor[f] \in Int /\ InputFloor[f] \in Int
             /\ MiniFloor[f] >= InputFloor[f]
    BY <1>1, <1>2, SettingsAssumption DEF Clamped, MiniFloor, InputFloor
<1>3. Clamped(form) \in UserSettings
    BY <1>1, <1>2 DEF Clamped, UserSettings, Number
<1>4. Floors(Clamped(form))
    BY <1>2 DEF Floors, Less
<1> QED
    BY <1>3, <1>4

LEMMA StoredAccepted ==
    ASSUME WorldOK
    PROVE  Stored \in UserSettings /\ Floors(Stored)
    BY DefaultsAccepted DEF WorldOK, Stored

\* An accepted text is a number that respects the floor.
LEMMA AcceptedText ==
    ASSUME NEW field \in Fields, NEW text, ~Rejected(field, text)
    PROVE  text \in Number /\ ~Less(text, InputFloor[field])
    BY DEF Rejected

\* What is told of settings agrees with them, and nothing with anything.
LEMMA MeaningAgrees ==
    ASSUME NEW s \in UserSettings
    PROVE  WantOK(Meaning(s)) /\ NumsAgree(s, Meaning(s)) /\ CatsAgree(s, Meaning(s))
    BY DEF UserSettings, Meaning, Marks, WantOK, NumsAgree, CatsAgree

LEMMA NothingAgrees ==
    /\ WantOK(NothingSure)
    /\ \A s : NumsAgree(s, NothingSure) /\ CatsAgree(s, NothingSure)
    /\ \A t, at : (at = "write" /\ t.kind = "input" => t.form.num[t.field] = t.text)
                     => WriteFits(t, at, NothingSure)
<1>1. WantOK(NothingSure)
    BY DEF NothingSure, WantOK
<1>2. ASSUME NEW f \in Fields PROVE NothingSure.num[f] = Unsure
    BY DEF NothingSure
<1>3. NothingSure.cats = Unsure
    BY DEF NothingSure
<1>4. ASSUME NEW s PROVE NumsAgree(s, NothingSure) /\ CatsAgree(s, NothingSure)
    BY <1>2, <1>3 DEF NumsAgree, CatsAgree
<1>5. ASSUME NEW t, NEW at, at = "write" /\ t.kind = "input" => t.form.num[t.field] = t.text
      PROVE  WriteFits(t, at, NothingSure)
    BY <1>2, <1>4, <1>5 DEF WriteFits
<1> QED
    BY <1>1, <1>4, <1>5

LEMMA SetsAreMarks ==
    /\ \A cats \in Selection : Marks(cats) \in SUBSET All /\ Marks(cats) # NoKeyboard
    /\ \A cats \in Selection : cats # NoPending
    BY SettingsAssumption DEF Marks

\* The two ways in which an arriving update changes a handler's variables.
Solo(t) == [t EXCEPT !.alone = TRUE]

LEMMA SoloTask ==
    ASSUME NEW t \in Task
    PROVE  /\ Solo(t) \in Task
           /\ IsAlone(Solo(t))
           /\ Solo(t).seen = t.seen
           /\ Solo(t).kind = t.kind /\ Solo(t).text = t.text /\ Solo(t).key = t.key
           /\ Solo(t).field = t.field /\ Solo(t).form = t.form
           /\ Solo(t).cats = t.cats /\ Solo(t).panel = t.panel
    BY DEF Solo, Task, IsAlone

LEMMA DisturbedTask ==
    ASSUME NEW t \in Task
    PROVE  /\ Disturbed(t) \in Task
           /\ ~IsAlone(Disturbed(t))
           /\ Disturbed(t).seen = Unsure
           /\ Disturbed(t).kind = t.kind /\ Disturbed(t).text = t.text
           /\ Disturbed(t).key = t.key /\ Disturbed(t).field = t.field
           /\ Disturbed(t).form = t.form /\ Disturbed(t).cats = t.cats
           /\ Disturbed(t).panel = t.panel
    BY DEF Disturbed, Task, IsAlone

LEMMA FreshTask ==
    /\ NoTask \in Task /\ ~IsAlone(NoTask) /\ NoTask.seen = Unsure
    /\ NoTask.kind = "none" /\ NoTask.form = Defaults
    /\ \A selection, told, board : Mine(NoTask, "idle", selection, told, board)
<1>1. NoTask \in Task /\ ~IsAlone(NoTask) /\ NoTask.seen = Unsure
      /\ NoTask.kind = "none" /\ NoTask.form = Defaults
    BY DefaultsAccepted DEF NoTask, Task, Kinds, Keys, Selection, IsAlone
<1> QED
    BY <1>1, DefaultsAccepted DEF Mine, Good, SeenFits, WriteFits

LEMMA InitInv == Init => IInv
<1> SUFFICES ASSUME Init PROVE IInv
    OBVIOUS
<1>1. Stored \in UserSettings /\ Floors(Stored) /\ (row # NoRow => Floors(row))
      /\ row \in {NoRow} \cup UserSettings
    BY DefaultsAccepted, ClampedAccepted DEF Init, Stored
<1>2. WorldOK
    BY <1>1, MeaningAgrees DEF Init, WorldOK
<1>3. pc \in [Handlers -> Pc] /\ task \in [Handlers -> Task]
    BY FreshTask DEF Init, Pc
<1>4. \A h \in Handlers : pc[h] = "idle" /\ task[h] = NoTask
    BY DEF Init
<1>5. Sole /\ KeyboardFits
    BY <1>4, FreshTask DEF Init, Sole, KeyboardFits
<1> QED
    BY <1>2, <1>3, <1>4, <1>5, FreshTask DEF IInv

LEMMA TypesFollow == IInv => TypeOK
    BY DEF IInv, WorldOK, TypeOK, Task, WantOK

\* What the invariant says of a handler at work.
LEMMA Now ==
    ASSUME IInv, NEW h \in Handlers
    PROVE  /\ task[h] \in Task /\ pc[h] \in Pc
           /\ Mine(task[h], pc[h], pending, want, current)
           /\ Good(task[h], pc[h])
           /\ WriteFits(task[h], pc[h], want)
           /\ task[h].seen # Unsure => SeenFits(task[h], pc[h], pending)
           /\ WorldOK
           /\ task = [task EXCEPT ![h] = task[h]]
<1>1. task[h] \in Task /\ pc[h] \in Pc /\ WorldOK
      /\ task = [task EXCEPT ![h] = task[h]]
    BY DEF IInv
<1>2. Mine(task[h], pc[h], pending, want, current)
    BY DEF IInv
<1> QED
    BY <1>1, <1>2 DEF Mine

\* What a handler without company may count on, and what one in company knows.
LEMMA Company ==
    ASSUME IInv, NEW h \in Handlers, pc[h] # "idle"
    PROVE  /\ \/ IsAlone(task[h])
              \/ ~IsAlone(task[h]) /\ want = NothingSure /\ current = NoPanel
                 /\ task[h].seen = Unsure
           /\ \A g \in Handlers : g # h /\ pc[g] # "idle" =>
                  ~IsAlone(task[g]) /\ ~IsAlone(task[h])
<1>1. ASSUME NEW g \in Handlers, g # h, pc[g] # "idle"
      PROVE  ~IsAlone(task[g]) /\ ~IsAlone(task[h])
    BY <1>1, Now DEF IInv, Sole
<1>2. \/ IsAlone(task[h])
      \/ ~IsAlone(task[h]) /\ want = NothingSure /\ current = NoPanel
         /\ task[h].seen = Unsure
    BY Now DEF Mine
<1> QED
    BY <1>1, <1>2

\* The keyboard as the handler that moves leaves it.
Displays(t, at, selection, marks, board) ==
    board # NoPanel =>
        /\ selection # NoPending
        /\ IF at = "paint" THEN t.panel = board /\ t.cats = selection
           ELSE marks[board] = Marks(selection)

\* One handler moves.
LEMMA StepInv ==
    ASSUME IInv, NEW h \in Handlers, pc[h] # "idle", NEW t \in Task, NEW at \in Pc,
           task' = [task EXCEPT ![h] = t], pc' = [pc EXCEPT ![h] = at],
           (t = NoTask /\ at = "idle") \/ (IsAlone(t) <=> IsAlone(task[h])),
           WorldOK',
           Mine(t, at, pending', want', current'),
           Displays(t, at, pending', shown', current'),
           ~IsAlone(task[h]) => want' = NothingSure /\ current' = NoPanel
    PROVE  IInv'
<1>1. /\ pc' \in [Handlers -> Pc] /\ task' \in [Handlers -> Task]
      /\ task'[h] = t /\ pc'[h] = at
      /\ \A g \in Handlers : g # h => task'[g] = task[g] /\ pc'[g] = pc[g]
    BY DEF IInv
<1>2. IsAlone(t) => IsAlone(task[h])
    BY FreshTask
<1>3. ASSUME NEW g \in Handlers
      PROVE  Mine(task'[g], pc'[g], pending', want', current')
    <2>1. CASE g = h
        BY <1>1, <2>1
    <2>2. CASE g # h /\ pc[g] = "idle"
        <3>1. Mine(task[g], "idle", pending, want, current)
            BY <2>2, Now
        <3>2. Good(task[g], "idle") /\ task[g].seen = task[g].seen
            BY <3>1 DEF Mine
        <3>3. SeenFits(task[g], "idle", pending') /\ WriteFits(task[g], "idle", want')
            BY DEF SeenFits, WriteFits
        <3> QED
            BY <1>1, <2>2, <3>2, <3>3 DEF Mine
    <2>3. CASE g # h /\ pc[g] # "idle"
        <3>1. want' = NothingSure /\ current' = NoPanel
            BY <2>3, Company
        <3>2. task[g].seen = Unsure
            BY <2>3, Company
        <3>3. pc[g] = "write" /\ task[g].kind = "input" =>
                  task[g].form.num[task[g].field] = task[g].text
            BY Now DEF WriteFits
        <3>4. WriteFits(task[g], pc[g], want')
            BY <3>1, <3>3, NothingAgrees
        <3> QED
            BY <1>1, <2>3, <3>1, <3>2, <3>4, Now DEF Mine
    <2> QED
        BY <2>1, <2>2, <2>3
<1>4. Sole'
    <2> SUFFICES ASSUME NEW f \in Handlers, NEW g \in Handlers,
                        IsAlone(task'[f]), f # g
                 PROVE  pc'[g] = "idle"
        BY DEF Sole
    <2>1. IsAlone(task[f])
        BY <1>1, <1>2
    <2>2. pc[g] = "idle"
        BY <2>1 DEF IInv, Sole
    <2> QED
        BY <1>1, <2>2
<1>5. KeyboardFits'
    <2>1. CASE current' # NoPanel
        <3>1. \A g \in Handlers : g # h => pc'[g] = "idle"
            BY <1>1, <2>1, Company
        <3> QED
            BY <1>1, <2>1, <3>1 DEF KeyboardFits, Displays
    <2> QED
        BY <2>1 DEF KeyboardFits
<1> QED
    BY <1>1, <1>3, <1>4, <1>5 DEF IInv

\* A handler that returns leaves the world to look at.
LEMMA ReturnInv ==
    ASSUME IInv, NEW h \in Handlers, pc[h] # "idle", Return(h),
           WorldOK',
           Displays(NoTask, "idle", pending', shown', current'),
           ~IsAlone(task[h]) => want' = NothingSure /\ current' = NoPanel
    PROVE  IInv'
<1>1. "idle" \in Pc
    BY DEF Pc
<1> QED
    BY <1>1, FreshTask, StepInv DEF Return

\* Where nothing of the world is touched.
LEMMA WorldKept ==
    ASSUME IInv, UNCHANGED <<store, memory, shown, history>>
    PROVE  WorldOK' /\ pending' = pending /\ shown' = shown /\ want' = want
           /\ current' = current
    BY DEF IInv, WorldOK, store, memory, history, WantOK, NumsAgree, CatsAgree,
           Stored

LEMMA DisplayNow ==
    ASSUME IInv, NEW h \in Handlers, pc[h] # "idle"
    PROVE  Displays(task[h], pc[h], pending, shown, current)
<1>1. CASE current # NoPanel
    <2>1. \A g \in Handlers : g # h => pc[g] = "idle"
        BY <1>1, Company
    <2> QED
        BY <1>1, <2>1 DEF IInv, KeyboardFits, Displays
<1> QED
    BY <1>1 DEF Displays

-----------------------------------------------------------------------------
(* Every step keeps it.                                                    *)

\* What an update carries when it arrives.
Arrival(t, at, selection, told, board) ==
    /\ t \in Task
    /\ at \in Pc \ {"idle", "paint"}
    /\ Good(t, at)
    /\ t.seen # Unsure => SeenFits(t, at, selection)
    /\ at = "write" => t.kind = "mini"
    /\ at = "repaint" => board = NoPanel

LEMMA BeginInv ==
    ASSUME IInv, NEW h \in Handlers, NEW t, NEW at,
           Begin(h, t, at),
           Quiet => Arrival(t, at, pending', want', current'),
           t \in Task, at \in Pc \ {"idle", "paint"}, Good(t, at),
           at = "write" => t.kind = "mini",
           UNCHANGED <<store, session, shown>>,
           pending' = pending \/ (pending' = NoPending /\ t.kind = "back")
    PROVE  IInv'
<1>1. /\ pc[h] = "idle" /\ pc' = [pc EXCEPT ![h] = at]
      /\ pc \in [Handlers -> Pc] /\ task \in [Handlers -> Task] /\ WorldOK
    BY DEF Begin, IInv
<1>2. /\ pc' \in [Handlers -> Pc] /\ pc'[h] = at
      /\ \A g \in Handlers : g # h => pc'[g] = pc[g]
    BY <1>1
<1>3. CASE Quiet
    <2>1. /\ task' = [g \in Handlers |-> IF g # h THEN Disturbed(task[g]) ELSE Solo(t)]
          /\ want' = want
          /\ (current' = current /\ pending' = pending) \/ current' = NoPanel
        BY <1>3 DEF Begin, Solo
    <2>2. WorldOK'
        BY <1>1, <2>1 DEF WorldOK, store, WantOK, NumsAgree, CatsAgree, Stored
    <2>3. task' \in [Handlers -> Task] /\ task'[h] = Solo(t)
          /\ \A g \in Handlers : g # h => task'[g] = Disturbed(task[g]) /\ pc'[g] = "idle"
        BY <1>1, <1>2, <1>3, <2>1, SoloTask, DisturbedTask DEF Quiet
    <2>4. Mine(task'[h], pc'[h], pending', want', current')
        BY <1>2, <1>3, <2>3, SoloTask DEF Arrival, Mine, Good, SeenFits, WriteFits
    <2>5. ASSUME NEW g \in Handlers, g # h
          PROVE  Mine(task'[g], pc'[g], pending', want', current')
        <3>1. task'[g] = Disturbed(task[g]) /\ pc'[g] = "idle" /\ pc[g] = "idle"
            BY <1>3, <2>3, <2>5 DEF Quiet
        <3>2. Good(task[g], "idle") /\ task[g] \in Task
            BY <3>1, Now
        <3> QED
            BY <3>1, <3>2, DisturbedTask DEF Mine, Good, WriteFits
    <2>6. Sole'
        <3>1. ASSUME NEW g \in Handlers, g # h
              PROVE  ~IsAlone(task'[g])
            <4>1. task[g] \in Task /\ task'[g] = Disturbed(task[g])
                BY <1>1, <2>3, <3>1
            <4> QED
                BY <4>1, DisturbedTask
        <3> QED
            BY <2>3, <3>1 DEF Sole
    <2>7. KeyboardFits'
        <3>1. CASE current' = current /\ pending' = pending
            <4>1. \A g \in Handlers : pc[g] # "paint" /\ pc'[g] # "paint"
                BY <1>2, <1>3, <2>3 DEF Quiet
            <4> QED
                BY <3>1, <4>1 DEF IInv, KeyboardFits
        <3> QED
            BY <2>1, <3>1 DEF KeyboardFits
    <2> QED
        BY <1>2, <2>2, <2>3, <2>4, <2>5, <2>6, <2>7 DEF IInv
<1>4. CASE ~Quiet
    <2>1. /\ task' = [g \in Handlers |-> IF g # h THEN Disturbed(task[g]) ELSE Disturbed(t)]
          /\ want' = NothingSure
          /\ current' = NoPanel
        BY <1>4 DEF Begin
    <2>2. WorldOK'
        BY <1>1, <2>1, NothingAgrees DEF WorldOK, store
    <2>3. task' \in [Handlers -> Task] /\ task'[h] = Disturbed(t)
          /\ \A g \in Handlers : g # h => task'[g] = Disturbed(task[g])
          /\ \A k \in Handlers : ~IsAlone(task'[k])
        BY <1>1, <2>1, DisturbedTask
    <2>4. Mine(task'[h], pc'[h], pending', want', current')
        <3>1. WriteFits(Disturbed(t), at, NothingSure)
            BY DisturbedTask DEF WriteFits
        <3> QED
            BY <1>2, <2>1, <2>3, <3>1, DisturbedTask DEF Mine, Good
    <2>5. ASSUME NEW g \in Handlers, g # h
          PROVE  Mine(task'[g], pc'[g], pending', want', current')
        <3>1. task'[g] = Disturbed(task[g]) /\ pc'[g] = pc[g] /\ task[g] \in Task
            BY <1>1, <1>2, <2>3, <2>5
        <3>2. pc[g] = "write" /\ task[g].kind = "input" =>
                  task[g].form.num[task[g].field] = task[g].text
            BY Now DEF WriteFits
        <3>3. WriteFits(Disturbed(task[g]), pc[g], NothingSure)
            BY <3>1, <3>2, NothingAgrees, DisturbedTask
        <3>4. Good(Disturbed(task[g]), pc[g])
            BY <3>1, Now, DisturbedTask DEF Good
        <3> QED
            BY <2>1, <3>1, <3>3, <3>4, DisturbedTask DEF Mine
    <2>6. Sole' /\ KeyboardFits'
        BY <2>1, <2>3 DEF Sole, KeyboardFits
    <2> QED
        BY <1>2, <2>2, <2>3, <2>4, <2>5, <2>6 DEF IInv
<1> QED
    BY <1>3, <1>4

LEMMA UpdateInv ==
    ASSUME IInv, NEW h \in Handlers, Update(h)
    PROVE  IInv'
<1> USE DEF store, memory
<1>0. {"session", "tap", "read", "write", "repaint"} \subseteq Pc \ {"idle", "paint"}
    BY DEF Pc
<1>1. CASE Message(h)
    <2>1. PICK text \in Texts :
              Begin(h, [NoTask EXCEPT !.kind = "message", !.text = text], "session")
        BY <1>1 DEF Message
    <2> DEFINE t == [NoTask EXCEPT !.kind = "message", !.text = text]
    <2>2. t \in Task /\ t.kind = "message" /\ t.seen = Unsure /\ t.form = Defaults
        BY FreshTask DEF Task, Kinds
    <2>3. Good(t, "session")
        BY <2>2, DefaultsAccepted DEF Good
    <2>0. Begin(h, t, "session") /\ UNCHANGED <<store, session, shown>>
          /\ pending' = pending
        BY <1>1, <2>1 DEF Message
    <2> HIDE DEF t
    <2>4. Arrival(t, "session", pending', want', current')
        BY <1>0, <2>2, <2>3 DEF Arrival
    <2> QED
        BY <1>0, <2>0, <2>2, <2>3, <2>4, BeginInv
<1>2. ASSUME NEW p \in Panels, Open(h, p)
      PROVE  IInv'
    <2> DEFINE t == [NoTask EXCEPT !.kind = "open", !.panel = p]
    <2>1. t \in Task /\ t.kind = "open" /\ t.seen = Unsure /\ t.form = Defaults
          /\ t.panel = p
        BY FreshTask DEF Task, Kinds
    <2>2. Good(t, "read")
        BY <2>1, DefaultsAccepted DEF Good
    <2>3. Begin(h, t, "read") /\ UNCHANGED <<store, session, shown>>
          /\ pending' = pending
        BY <1>2 DEF Open
    <2> HIDE DEF t
    <2>4. Arrival(t, "read", pending', want', current')
        BY <1>0, <2>1, <2>2 DEF Arrival
    <2> QED
        BY <1>0, <2>1, <2>2, <2>3, <2>4, BeginInv
<1>3. ASSUME NEW p \in Panels, Tap(h, p)
      PROVE  IInv'
    <2> DEFINE marks == IF current = p THEN shown[p] ELSE Unsure
    <2>1. PICK k \in Keys :
              Begin(h, [NoTask EXCEPT !.kind = "tap", !.key = k, !.panel = p,
                           !.seen = marks], "tap")
        BY <1>3 DEF Tap
    <2> DEFINE t == [NoTask EXCEPT !.kind = "tap", !.key = k, !.panel = p,
                           !.seen = marks]
    <2>2. shown[p] \in SUBSET All /\ marks \in {Unsure} \cup SUBSET All
        BY <1>3 DEF Tap, IInv, WorldOK
    <2>3. t \in Task /\ t.kind = "tap" /\ t.seen = marks /\ t.form = Defaults
          /\ t.panel = p /\ t.key = k
        BY <2>2, FreshTask DEF Task, Kinds
    <2>4. Good(t, "tap")
        BY <2>3, DefaultsAccepted DEF Good
    <2>5. UNCHANGED <<store, session, shown>> /\ pending' = pending
        BY <1>3 DEF Tap
    <2>6. Quiet /\ t.seen # Unsure => SeenFits(t, "tap", pending')
        <3>1. Quiet /\ t.seen # Unsure => current = p /\ t.seen = shown[p]
            BY <2>3
        <3>2. Quiet /\ current = p => pending # NoPending /\ shown[p] = Marks(pending)
            BY SettingsAssumption DEF Quiet, IInv, KeyboardFits
        <3> QED
            BY <2>5, <3>1, <3>2 DEF SeenFits
    <2>7. Begin(h, t, "tap")
        BY <2>1
    <2> HIDE DEF t, marks
    <2>8. Quiet => Arrival(t, "tap", pending', want', current')
        BY <1>0, <2>3, <2>4, <2>6 DEF Arrival
    <2> QED
        BY <1>0, <2>3, <2>4, <2>5, <2>7, <2>8, BeginInv
<1>4. ASSUME NEW p \in Panels, Back(h, p)
      PROVE  IInv'
    <2> DEFINE t == [NoTask EXCEPT !.kind = "back", !.panel = p]
    <2>1. t \in Task /\ t.kind = "back" /\ t.seen = Unsure /\ t.form = Defaults
        BY FreshTask DEF Task, Kinds
    <2>2. Good(t, "repaint")
        BY <2>1, DefaultsAccepted DEF Good
    <2>3. Begin(h, t, "repaint") /\ UNCHANGED <<store, session, shown>>
          /\ pending' = NoPending
        BY <1>4 DEF Back
    <2>4. current' = NoPanel
        BY <2>1, <2>3 DEF Begin
    <2> HIDE DEF t
    <2>5. Arrival(t, "repaint", pending', want', current')
        BY <1>0, <2>1, <2>2, <2>4 DEF Arrival
    <2> QED
        BY <1>0, <2>1, <2>2, <2>3, <2>5, BeginInv
<1>5. CASE MiniSave(h)
    <2>1. PICK form \in Forms :
              Begin(h, [NoTask EXCEPT !.kind = "mini", !.form = Clamped(form)], "write")
        BY <1>5 DEF MiniSave
    <2> DEFINE t == [NoTask EXCEPT !.kind = "mini", !.form = Clamped(form)]
    <2>2. Clamped(form) \in UserSettings /\ Floors(Clamped(form))
        BY ClampedAccepted
    <2>3. t \in Task /\ t.kind = "mini" /\ t.seen = Unsure /\ t.form = Clamped(form)
        BY <2>2, FreshTask DEF Task, Kinds
    <2>4. Good(t, "write")
        BY <2>2, <2>3 DEF Good
    <2>5. Begin(h, t, "write") /\ UNCHANGED <<store, session, shown>>
          /\ pending' = pending
        BY <1>5, <2>1 DEF MiniSave
    <2> HIDE DEF t
    <2>6. Arrival(t, "write", pending', want', current')
        BY <1>0, <2>3, <2>4 DEF Arrival
    <2> QED
        BY <1>0, <2>3, <2>4, <2>5, <2>6, BeginInv
<1> QED
    BY <1>1, <1>2, <1>3, <1>4, <1>5 DEF Update

\* What a handler's assignments to its variables leave alone.
LEMMA CatsAssigned ==
    ASSUME NEW t \in Task, NEW cats \in Selection
    PROVE  /\ [t EXCEPT !.cats = cats] \in Task
           /\ IsAlone([t EXCEPT !.cats = cats]) <=> IsAlone(t)
<1>1. [t EXCEPT !.cats = cats] \in Task
    BY DEF Task
<1>2. IsAlone([t EXCEPT !.cats = cats]) <=> IsAlone(t)
    BY DEF Task, IsAlone
<1> QED
    BY <1>1, <1>2

LEMMA FormAssigned ==
    ASSUME NEW t \in Task, NEW form \in UserSettings
    PROVE  /\ [t EXCEPT !.form = form] \in Task
           /\ IsAlone([t EXCEPT !.form = form]) <=> IsAlone(t)
<1>1. [t EXCEPT !.form = form] \in Task
    BY DEF Task
<1>2. IsAlone([t EXCEPT !.form = form]) <=> IsAlone(t)
    BY DEF Task, IsAlone
<1> QED
    BY <1>1, <1>2

LEMMA KindAssigned ==
    ASSUME NEW t \in Task, NEW kind \in Kinds
    PROVE  /\ [t EXCEPT !.kind = kind] \in Task
           /\ IsAlone([t EXCEPT !.kind = kind]) <=> IsAlone(t)
<1>1. [t EXCEPT !.kind = kind] \in Task
    BY DEF Task
<1>2. IsAlone([t EXCEPT !.kind = kind]) <=> IsAlone(t)
    BY DEF Task, IsAlone
<1> QED
    BY <1>1, <1>2

LEMMA InputAssigned ==
    ASSUME NEW t \in Task, NEW field \in Fields
    PROVE  /\ [t EXCEPT !.kind = "input", !.field = field] \in Task
           /\ IsAlone([t EXCEPT !.kind = "input", !.field = field]) <=> IsAlone(t)
<1>1. [t EXCEPT !.kind = "input", !.field = field] \in Task
    BY DEF Task, Kinds
<1>2. IsAlone([t EXCEPT !.kind = "input", !.field = field]) <=> IsAlone(t)
    BY DEF Task, IsAlone
<1> QED
    BY <1>1, <1>2

LEMMA TapAssigned ==
    ASSUME NEW t \in Task, NEW cats \in Selection, NEW seen \in {Unsure} \cup SUBSET All
    PROVE  /\ [t EXCEPT !.cats = cats, !.seen = seen] \in Task
           /\ IsAlone([t EXCEPT !.cats = cats, !.seen = seen]) <=> IsAlone(t)
<1>1. [t EXCEPT !.cats = cats, !.seen = seen] \in Task
    BY DEF Task
<1>2. IsAlone([t EXCEPT !.cats = cats, !.seen = seen]) <=> IsAlone(t)
    BY DEF Task, IsAlone
<1> QED
    BY <1>1, <1>2

LEMMA PcNames ==
    /\ "idle" \in Pc /\ "clear" \in Pc /\ "subscribe" \in Pc /\ "tap" \in Pc
    /\ "unsubscribe" \in Pc /\ "replace" \in Pc /\ "read" \in Pc /\ "init" \in Pc
    /\ "apply" \in Pc /\ "paint" \in Pc /\ "write" \in Pc /\ "forget" \in Pc
    /\ "repaint" \in Pc
    /\ {"message", "input", "open", "tap", "save", "mini", "back"} \subseteq Kinds
    BY DEF Pc, Kinds

\* The keyboard after a step that leaves it, the selection and the board alone.
LEMMA DisplayKept ==
    ASSUME IInv, NEW h \in Handlers, pc[h] \notin {"idle", "paint"},
           UNCHANGED <<pending, shown, current>>,
           NEW t, NEW at, at # "paint"
    PROVE  Displays(t, at, pending', shown', current')
    BY DisplayNow DEF Displays

\* A handler that changes neither the world nor the histories.
LEMMA QuietStep ==
    ASSUME IInv, NEW h \in Handlers, pc[h] \notin {"idle", "paint"},
           NEW t \in Task, NEW at \in Pc,
           task' = [task EXCEPT ![h] = t], pc' = [pc EXCEPT ![h] = at], at # "paint",
           IsAlone(t) <=> IsAlone(task[h]), t.seen = task[h].seen,
           Good(t, at),
           t.seen # Unsure => SeenFits(t, at, pending),
           WriteFits(t, at, want),
           at = "repaint" => current = NoPanel,
           UNCHANGED <<store, memory, shown, history>>
    PROVE  IInv'
<1>1. /\ WorldOK' /\ pending' = pending /\ shown' = shown /\ want' = want
      /\ current' = current
    BY WorldKept
<1>2. ~IsAlone(task[h]) => want = NothingSure /\ current = NoPanel /\ t.seen = Unsure
    BY Company
<1>3. Mine(t, at, pending', want', current')
    BY <1>1, <1>2 DEF Mine
<1>4. Displays(t, at, pending', shown', current')
    BY <1>1, DisplayKept
<1> QED
    BY <1>1, <1>2, <1>3, <1>4, StepInv

\* The same for a handler that returns.
LEMMA QuietReturn ==
    ASSUME IInv, NEW h \in Handlers, pc[h] \notin {"idle", "paint"}, Return(h),
           UNCHANGED <<store, memory, shown, history>>
    PROVE  IInv'
<1>1. /\ WorldOK' /\ pending' = pending /\ shown' = shown /\ want' = want
      /\ current' = current
    BY WorldKept
<1>2. ~IsAlone(task[h]) => want = NothingSure /\ current = NoPanel
    BY Company
<1>3. Displays(NoTask, "idle", pending', shown', current')
    BY <1>1, DisplayKept
<1> QED
    BY <1>1, <1>2, <1>3, ReturnInv

LEMMA SessionSteps ==
    ASSUME IInv, NEW h \in Handlers, GetSession(h) \/ ClearSession(h)
    PROVE  IInv'
<1> USE PcNames
<1>1. CASE GetSession(h) /\ session # NoSession
    <2> DEFINE t == [task[h] EXCEPT !.kind = "input", !.field = session]
    <2>0. session \in Fields /\ pc[h] = "session" /\ task[h] \in Task
        BY <1>1, Now DEF GetSession, WorldOK
    <2>1. t \in Task /\ (IsAlone(t) <=> IsAlone(task[h]))
        BY <2>0, InputAssigned
    <2>2. t.form = task[h].form /\ t.kind = "input" /\ t.field = session
          /\ t.seen = task[h].seen
        BY <2>0 DEF Task
    <2>3. task[h].seen = Unsure
        BY <2>0, Now DEF SeenFits
    <2>4. Good(t, "clear")
        BY <2>0, <2>2, Now DEF Good
    <2>5. task' = [task EXCEPT ![h] = t] /\ pc' = [pc EXCEPT ![h] = "clear"]
          /\ UNCHANGED <<store, memory, shown, history>>
        BY <1>1, <2>0, Now DEF GetSession, Goto, Task
    <2>6. WriteFits(t, "clear", want)
        BY DEF WriteFits
    <2> HIDE DEF t
    <2> QED
        BY <2>0, <2>1, <2>2, <2>3, <2>4, <2>5, <2>6, QuietStep
<1>2. CASE GetSession(h) /\ session = NoSession /\ Return(h)
    BY <1>2, QuietReturn DEF GetSession
<1>3. CASE GetSession(h) /\ session = NoSession /\ ~Return(h)
    <2>0. pc[h] = "session" /\ UNCHANGED <<store, memory, shown, history, task>>
        BY <1>3 DEF GetSession
    <2>1. PICK at \in {"subscribe", "unsubscribe", "replace"} : pc' = [pc EXCEPT ![h] = at]
        BY <1>3 DEF GetSession, Goto, Commands
    <2>2. task[h].seen = Unsure
        BY <2>0, Now DEF SeenFits
    <2>3. Good(task[h], at) /\ WriteFits(task[h], at, want)
        BY Now DEF Good, WriteFits
    <2> QED
        BY <2>0, <2>1, <2>2, <2>3, Now, QuietStep
<1>4. CASE ClearSession(h)
    <2>0. pc[h] = "clear" /\ UNCHANGED <<store, pending, shown, task, history>>
          /\ session' = NoSession /\ pc' = [pc EXCEPT ![h] = "read"]
        BY <1>4 DEF ClearSession, Goto
    <2>1. task[h].seen = Unsure
        BY <2>0, Now DEF SeenFits
    <2>2. Good(task[h], "read") /\ WriteFits(task[h], "read", want)
        BY <2>0, Now DEF Good, WriteFits
    <2>3. WorldOK' /\ want' = want /\ current' = current /\ pending' = pending
        BY <2>0, Now DEF WorldOK, store, history, WantOK, NumsAgree, CatsAgree, Stored
    <2>4. ~IsAlone(task[h]) => want = NothingSure /\ current = NoPanel
        BY <2>0, Company
    <2>5. Mine(task[h], "read", pending', want', current')
        BY <2>1, <2>2, <2>3, <2>4 DEF Mine
    <2>6. Displays(task[h], "read", pending', shown', current')
        BY <2>0, <2>3, DisplayKept
    <2> QED
        BY <2>0, <2>3, <2>4, <2>5, <2>6, Now, StepInv
<1> QED
    BY <1>1, <1>2, <1>3, <1>4 DEF GetSession

LEMMA StartStop ==
    ASSUME IInv, NEW h \in Handlers, Subscribe(h) \/ Unsubscribe(h)
    PROVE  IInv'
<1>0. pc[h] \in {"subscribe", "unsubscribe"} /\ Return(h)
      /\ UNCHANGED <<memory, shown, current>>
    BY DEF Subscribe, Unsubscribe, history
<1>1. Displays(NoTask, "idle", pending', shown', current')
    BY <1>0, DisplayKept DEF memory
<1>2. ~IsAlone(task[h]) => want = NothingSure /\ current = NoPanel
    BY <1>0, Company
<1>3. CASE Subscribe(h)
    <2>1. subscribed' \in BOOLEAN /\ UNCHANGED <<row, memory, shown, history>>
        BY <1>3, Now DEF Subscribe, WorldOK
    <2>2. WorldOK'
        BY <2>1, Now DEF WorldOK, memory, history, WantOK, NumsAgree, CatsAgree, Stored
    <2> QED
        BY <1>0, <1>1, <1>2, <2>1, <2>2, ReturnInv DEF history
<1>4. CASE Unsubscribe(h)
    <2>1. /\ subscribed' \in BOOLEAN
          /\ row' \in {row, NoRow}
          /\ \/ row' = NoRow /\ IsAlone(task[h]) /\ want' = Meaning(Defaults)
             \/ want' = NothingSure
        BY <1>4, Now DEF Unsubscribe, store, WorldOK, IsAlone, Task
    <2>2. row' = NoRow => Stored' = Defaults
        BY DEF Stored
    <2>3. WantOK(want') /\ NumsAgree(Stored', want') /\ CatsAgree(Stored', want')
        BY <2>1, <2>2, DefaultsAccepted, MeaningAgrees, NothingAgrees
    <2>4. row' \in {NoRow} \cup UserSettings /\ (row' # NoRow => Floors(row'))
        BY <2>1, Now DEF WorldOK
    <2>5. WorldOK'
        BY <1>0, <2>1, <2>3, <2>4, Now DEF WorldOK, memory
    <2> QED
        BY <1>0, <1>1, <1>2, <2>1, <2>5, ReturnInv
<1> QED
    BY <1>3, <1>4

\* The old panel, if it is deleted, is no longer the current keyboard.
LEMMA ReplaceInv ==
    ASSUME IInv, NEW h \in Handlers, ReplacePanel(h)
    PROVE  IInv'
<1>1. CASE UNCHANGED <<shown, current>>
    BY <1>1, QuietReturn DEF ReplacePanel, history
<1>2. ASSUME NEW p \in Panels,
             shown' = [shown EXCEPT ![p] = NoKeyboard],
             current' = IF current = p THEN NoPanel ELSE current
      PROVE  IInv'
    <2>1. pc[h] = "replace" /\ Return(h) /\ UNCHANGED <<store, memory, want>>
        BY DEF ReplacePanel
    <2>2. WorldOK'
        BY <1>2, <2>1, Now DEF WorldOK, store, memory, WantOK, NumsAgree, CatsAgree, Stored
    <2>3. Displays(NoTask, "idle", pending', shown', current')
        <3>1. Displays(task[h], "replace", pending, shown, current)
            BY <2>1, DisplayNow
        <3>2. current' # NoPanel =>
                  current' = current /\ shown'[current] = shown[current]
            BY <1>2, Now DEF WorldOK
        <3> QED
            BY <2>1, <3>1, <3>2 DEF Displays, memory
    <2>4. ~IsAlone(task[h]) => want' = NothingSure /\ current' = NoPanel
        BY <1>2, <2>1, Company
    <2> QED
        BY <2>1, <2>2, <2>3, <2>4, ReturnInv
<1> QED
    BY <1>1, <1>2 DEF ReplacePanel

\* What the handler does after GetSettings, with settings that respect the
\* floors, if it goes on with the row or nothing is sure any more of what a
\* writer will be told.
LEMMA ContinueInv ==
    ASSUME IInv, NEW h \in Handlers, pc[h] = "read",
           NEW s \in UserSettings, Floors(s), Continue(h, s),
           want' \in {want, NothingSure},
           task[h].kind \in {"input", "save"} /\ want' # NothingSure => s = Stored,
           UNCHANGED <<store, memory, shown, current>>
    PROVE  IInv'
<1> USE PcNames
<1>1. WorldOK' /\ UNCHANGED <<pending, shown, current>>
    <2>1. WorldOK /\ Stored' = Stored
        BY Now DEF store, Stored
    <2>2. WantOK(want') /\ NumsAgree(Stored', want') /\ CatsAgree(Stored', want')
        BY <2>1, NothingAgrees DEF WorldOK
    <2> QED
        BY <2>1, <2>2 DEF WorldOK, store, memory
<1>2. ~IsAlone(task[h]) =>
          want' = NothingSure /\ current' = NoPanel /\ task[h].seen = Unsure
    BY <1>1, Company
<1>3. ASSUME NEW t \in Task, NEW at \in {"write", "init"},
             IsAlone(t) <=> IsAlone(task[h]), t.seen = task[h].seen, Good(t, at),
             t.seen # Unsure => SeenFits(t, at, pending),
             WriteFits(t, at, want'),
             task' = [task EXCEPT ![h] = t], Goto(h, at)
      PROVE  IInv'
    <2>1. Mine(t, at, pending', want', current')
        BY <1>1, <1>2, <1>3 DEF Mine
    <2>2. Displays(t, at, pending', shown', current')
        BY <1>1, <1>3, DisplayKept
    <2>3. pc[h] # "idle" /\ at \in Pc /\ pc' = [pc EXCEPT ![h] = at]
        BY <1>3 DEF Goto
    <2> QED
        BY <1>1, <1>2, <1>3, <2>1, <2>2, <2>3, StepInv
<1>4. CASE Return(h)
    <2>1. Displays(NoTask, "idle", pending', shown', current')
        BY <1>1, DisplayKept
    <2> QED
        BY <1>1, <1>2, <1>4, <2>1, ReturnInv
<1>5. CASE /\ task[h].kind = "input"
           /\ ~Rejected(task[h].field, task[h].text)
           /\ task' = [task EXCEPT ![h].form =
                          [s EXCEPT !.num[task[h].field] = task[h].text]]
           /\ Goto(h, "write")
    <2> DEFINE form == [s EXCEPT !.num[task[h].field] = task[h].text]
               t    == [task[h] EXCEPT !.form = form]
    <2>1. task[h].field \in Fields /\ task[h] \in Task
        BY <1>5, Now DEF Good
    <2>2. /\ task[h].text \in Number
          /\ ~Less(task[h].text, InputFloor[task[h].field])
        BY <1>5, <2>1, AcceptedText
    <2>3. form \in UserSettings /\ form.num[task[h].field] = task[h].text
          /\ form.cats = s.cats
          /\ \A f \in Fields \ {task[h].field} : form.num[f] = s.num[f]
        BY <2>1, <2>2 DEF UserSettings
    <2>4. Floors(form)
        BY <2>1, <2>2, <2>3 DEF Floors
    <2>5. t \in Task /\ (IsAlone(t) <=> IsAlone(task[h]))
        BY <2>1, <2>3, FormAssigned
    <2>6. t.kind = "input" /\ t.field = task[h].field /\ t.text = task[h].text
          /\ t.form = form /\ t.seen = task[h].seen
        BY <1>5, <2>1 DEF Task
    <2>7. task' = [task EXCEPT ![h] = t]
        BY <1>5, Now DEF Task
    <2>8. task[h].seen = Unsure
        BY <1>5, Now DEF SeenFits
    <2> HIDE DEF t, form
    <2>9. Good(t, "write")
        BY <2>1, <2>2, <2>4, <2>6 DEF Good
    <2>10. WriteFits(t, "write", want')
        <3>1. CASE want' = NothingSure
            BY <2>3, <2>6, <3>1, NothingAgrees
        <3>2. CASE want' # NothingSure
            <4>1. NumsAgree(s, want) /\ CatsAgree(s, want)
                BY <1>5, <3>2, Now DEF WorldOK
            <4> QED
                BY <2>3, <2>6, <3>2, <4>1 DEF WriteFits, NumsAgree, CatsAgree
        <3> QED
            BY <3>1, <3>2
    <2>11. t.seen # Unsure => SeenFits(t, "write", pending)
        BY <2>6, <2>8
    <2>12. Goto(h, "write")
        BY <1>5
    <2> QED
        BY <1>3, <2>11, <2>12, <2>5, <2>6, <2>7, <2>8, <2>9, <2>10
<1>6. CASE /\ task[h].kind = "save"
           /\ task' = [task EXCEPT ![h].form = [s EXCEPT !.cats = task[h].cats]]
           /\ Goto(h, "write")
    <2> DEFINE form == [s EXCEPT !.cats = task[h].cats]
               t    == [task[h] EXCEPT !.form = form]
    <2>1. task[h] \in Task /\ task[h].cats \in Selection
        BY Now DEF Task
    <2>2. form \in UserSettings /\ form.cats = task[h].cats /\ form.num = s.num
        BY <2>1 DEF UserSettings
    <2>3. Floors(form)
        BY <2>2 DEF Floors
    <2>4. t \in Task /\ (IsAlone(t) <=> IsAlone(task[h]))
        BY <2>1, <2>2, FormAssigned
    <2>5. t.kind = "save" /\ t.form = form /\ t.seen = task[h].seen
          /\ t.cats = task[h].cats
        BY <1>6, <2>1 DEF Task
    <2>6. task' = [task EXCEPT ![h] = t]
        BY <1>6, Now DEF Task
    <2>7. task[h].seen # Unsure => Marks(task[h].cats) = task[h].seen
        BY Now DEF SeenFits
    <2> HIDE DEF t, form
    <2>8. Good(t, "write")
        BY <2>3, <2>5 DEF Good
    <2>9. t.seen # Unsure => SeenFits(t, "write", pending)
        BY <2>2, <2>5, <2>7 DEF SeenFits
    <2>10. WriteFits(t, "write", want')
        <3>1. CASE want' = NothingSure
            BY <2>5, <3>1, NothingAgrees
        <3>2. CASE want' # NothingSure
            <4>1. NumsAgree(s, want)
                BY <1>6, <3>2, Now DEF WorldOK
            <4> QED
                BY <2>2, <2>5, <3>2, <4>1 DEF WriteFits, NumsAgree
        <3> QED
            BY <3>1, <3>2
    <2> QED
        BY <1>3, <1>6, <2>4, <2>5, <2>6, <2>8, <2>9, <2>10
<1>7. CASE /\ task[h].kind \in {"open", "tap"}
           /\ task' = [task EXCEPT ![h].cats = s.cats]
           /\ Goto(h, "init")
    <2> DEFINE t == [task[h] EXCEPT !.cats = s.cats]
    <2>1. task[h] \in Task /\ s.cats \in Selection
        BY Now DEF UserSettings
    <2>2. t \in Task /\ (IsAlone(t) <=> IsAlone(task[h]))
        BY <2>1, CatsAssigned
    <2>3. t.kind = task[h].kind /\ t.form = task[h].form /\ t.seen = task[h].seen
          /\ t.key = task[h].key /\ t.panel = task[h].panel /\ t.field = task[h].field
        BY <2>1 DEF Task
    <2>4. task' = [task EXCEPT ![h] = t]
        BY <1>7, Now DEF Task
    <2>5. task[h].seen = Unsure
        BY <1>7, Now DEF SeenFits
    <2> HIDE DEF t
    <2>6. Good(t, "init") /\ WriteFits(t, "init", want')
        BY <1>7, <2>3, Now DEF Good, WriteFits
    <2> QED
        BY <1>3, <1>7, <2>2, <2>3, <2>4, <2>5, <2>6
<1> QED
    BY <1>4, <1>5, <1>6, <1>7 DEF Continue

LEMMA ReadInv ==
    ASSUME IInv, NEW h \in Handlers, Read(h)
    PROVE  IInv'
<1>1. pc[h] = "read" /\ UNCHANGED <<store, memory, shown, current>>
    BY DEF Read
<1>2. CASE Continue(h, Stored) /\ UNCHANGED want
    BY <1>1, <1>2, Now, StoredAccepted, ContinueInv
<1>3. CASE /\ Continue(h, Defaults)
           /\ want' = IF task[h].kind \in {"input", "save"} THEN NothingSure ELSE want
    <2>1. /\ want' \in {want, NothingSure}
          /\ task[h].kind \in {"input", "save"} => want' = NothingSure
        BY <1>3
    <2> QED
        BY <1>1, <1>3, <2>1, DefaultsAccepted, ContinueInv
<1> QED
    BY <1>2, <1>3 DEF Read

\* The world after a step that touches the selection and the board only.
LEMMA WorldTapped ==
    ASSUME IInv, UNCHANGED <<store, session, shown, want>>,
           pending' \in {NoPending} \cup Selection, current' \in Panels \cup {NoPanel}
    PROVE  WorldOK'
    BY DEF IInv, WorldOK, store, WantOK, NumsAgree, CatsAgree, Stored

LEMMA TapSteps ==
    ASSUME IInv, NEW h \in Handlers, GetPending(h) \/ InitPending(h) \/ Apply(h)
    PROVE  IInv'
<1> USE PcNames
<1>1. CASE GetPending(h) /\ pending # NoPending
    <2> DEFINE t == [task[h] EXCEPT !.cats = pending]
    <2>1. task[h] \in Task /\ pending \in Selection /\ pc[h] = "tap"
          /\ UNCHANGED <<store, memory, shown, history>>
        BY <1>1, Now DEF GetPending, WorldOK
    <2>2. t \in Task /\ (IsAlone(t) <=> IsAlone(task[h]))
        BY <2>1, CatsAssigned
    <2>3. t.kind = task[h].kind /\ t.form = task[h].form /\ t.seen = task[h].seen
          /\ t.key = task[h].key /\ t.panel = task[h].panel /\ t.field = task[h].field
          /\ t.cats = pending
        BY <2>1 DEF Task
    <2>4. task' = [task EXCEPT ![h] = t] /\ pc' = [pc EXCEPT ![h] = "apply"]
        BY <1>1, Now DEF GetPending, Goto, Task
    <2> HIDE DEF t
    <2>5. Good(t, "apply") /\ WriteFits(t, "apply", want)
        BY <2>1, <2>3, Now DEF Good, WriteFits
    <2>6. t.seen # Unsure => SeenFits(t, "apply", pending)
        BY <2>1, <2>3, Now DEF SeenFits
    <2> QED
        BY <2>1, <2>2, <2>3, <2>4, <2>5, <2>6, QuietStep
<1>2. CASE GetPending(h) /\ pending = NoPending
    <2>1. pc[h] = "tap" /\ UNCHANGED <<store, memory, shown, history>>
          /\ pc' = [pc EXCEPT ![h] = "read"] /\ task' = [task EXCEPT ![h] = task[h]]
        BY <1>2, Now DEF GetPending, Goto
    <2>2. task[h].seen = Unsure
        BY <1>2, <2>1, Now DEF SeenFits
    <2>3. Good(task[h], "read") /\ WriteFits(task[h], "read", want)
        BY Now DEF Good, WriteFits
    <2> QED
        BY <2>1, <2>2, <2>3, Now, QuietStep
<1>3. CASE InitPending(h)
    <2> DEFINE at == IF task[h].kind = "open" THEN "paint" ELSE "apply"
    <2>1. /\ task[h] \in Task /\ task[h].cats \in Selection /\ pc[h] = "init"
          /\ task[h].kind \in {"open", "tap"} /\ task[h].panel \in Panels
          /\ UNCHANGED <<store, session, shown, want>>
        BY <1>3, Now DEF InitPending, Task, Good
    <2>2. /\ pending' = task[h].cats
          /\ pc' = [pc EXCEPT ![h] = at] /\ task' = [task EXCEPT ![h] = task[h]]
          /\ \/ IsAlone(task[h]) /\ at = "paint" /\ current' = task[h].panel
             \/ current' = NoPanel
        BY <1>3, Now DEF InitPending, Goto, IsAlone
    <2>3. task[h].seen = Unsure
        BY <2>1, Now DEF SeenFits
    <2>4. Good(task[h], at) /\ WriteFits(task[h], at, want) /\ at \in {"paint", "apply"}
        BY <2>1, Now DEF Good, WriteFits
    <2>5. WorldOK'
        BY <2>1, <2>2, WorldTapped
    <2>6. task[h].cats # NoPending
        BY <2>1, SetsAreMarks
    <2>7. ~IsAlone(task[h]) => want' = NothingSure /\ current' = NoPanel
        BY <2>1, <2>2, Company
    <2> HIDE DEF at
    <2>8. Mine(task[h], at, pending', want', current')
        BY <2>1, <2>3, <2>4, <2>7 DEF Mine
    <2>9. Displays(task[h], at, pending', shown', current')
        BY <2>2, <2>6 DEF Displays
    <2> QED
        BY <2>1, <2>2, <2>4, <2>5, <2>7, <2>8, <2>9, StepInv
<1>4. CASE Apply(h) /\ task[h].key = "save"
    <2> DEFINE t == [task[h] EXCEPT !.kind = "save"]
    <2>1. task[h] \in Task /\ pc[h] = "apply"
          /\ UNCHANGED <<store, memory, shown, history>>
        BY <1>4, Now DEF Apply, memory, history
    <2>2. t \in Task /\ (IsAlone(t) <=> IsAlone(task[h]))
        BY <2>1, KindAssigned
    <2>3. t.kind = "save" /\ t.form = task[h].form /\ t.seen = task[h].seen
          /\ t.cats = task[h].cats
        BY <2>1 DEF Task
    <2>4. task' = [task EXCEPT ![h] = t] /\ pc' = [pc EXCEPT ![h] = "read"]
        BY <1>4, Now DEF Apply, Goto, Task
    <2> HIDE DEF t
    <2>5. Good(t, "read") /\ WriteFits(t, "read", want)
        BY <2>3, Now DEF Good, WriteFits
    <2>6. t.seen # Unsure => SeenFits(t, "read", pending)
        BY <2>1, <2>3, Now DEF SeenFits
    <2> QED
        BY <2>1, <2>2, <2>3, <2>4, <2>5, <2>6, QuietStep
<1>5. CASE Apply(h) /\ task[h].key # "save"
    <2> DEFINE new  == Tapped(task[h].cats, task[h].key)
               seen == IF task[h].cats \in Known THEN task[h].seen ELSE Unsure
               t    == [task[h] EXCEPT !.cats = new, !.seen = seen]
    <2>1. /\ task[h] \in Task /\ task[h].cats \in Selection /\ pc[h] = "apply"
          /\ task[h].kind = "tap" /\ task[h].panel \in Panels /\ task[h].key \in Keys
          /\ task[h].seen \in {Unsure} \cup SUBSET All
          /\ UNCHANGED <<store, session, shown, want>>
        BY <1>5, Now DEF Apply, Task, Good
    <2>2. new \in Selection /\ new # NoPending
        BY <1>5, <2>1, TappedTyped, SetsAreMarks
    <2>3. t \in Task /\ (IsAlone(t) <=> IsAlone(task[h]))
        BY <2>1, <2>2, TapAssigned
    <2>4. t.kind = "tap" /\ t.form = task[h].form /\ t.seen = seen /\ t.cats = new
          /\ t.key = task[h].key /\ t.panel = task[h].panel /\ t.field = task[h].field
        BY <2>1 DEF Task
    <2>5. /\ pending' = new /\ task' = [task EXCEPT ![h] = t]
          /\ pc' = [pc EXCEPT ![h] = "paint"]
        <3>1. pending' = new /\ pc' = [pc EXCEPT ![h] = "paint"]
            BY <1>5 DEF Apply, Goto
        <3>2. task' = [task EXCEPT ![h] = [task[h] EXCEPT !.cats = pending', !.seen = seen]]
            BY <1>5, Zenon DEF Apply
        <3> QED
            BY <3>1, <3>2
    <2>5a. \/ IsAlone(task[h]) /\ current' = task[h].panel
           \/ ~IsAlone(task[h]) /\ current' = NoPanel
        BY <1>5, Now DEF Apply, IsAlone
    <2>6. seen # Unsure => Marks(new) = Expected(seen, task[h].key)
        <3> SUFFICES ASSUME seen # Unsure
                     PROVE  Marks(new) = Expected(seen, task[h].key)
            OBVIOUS
        <3>1. task[h].cats \in Known /\ seen = task[h].seen
            OBVIOUS
        <3>2. Marks(task[h].cats) = task[h].seen
            BY <2>1, <3>1, Now DEF SeenFits
        <3> QED
            BY <1>5, <2>1, <3>1, <3>2, TapIsExpected
    <2>7. ~IsAlone(task[h]) => want' = NothingSure /\ current' = NoPanel /\ seen = Unsure
        BY <2>1, <2>5a, Company
    <2>8. WorldOK'
        BY <2>1, <2>2, <2>5, <2>5a, WorldTapped
    <2> HIDE DEF t, new, seen
    <2>9. Good(t, "paint") /\ WriteFits(t, "paint", want')
        BY <2>1, <2>4, Now DEF Good, WriteFits
    <2>10. t.seen # Unsure => SeenFits(t, "paint", pending')
        BY <2>4, <2>6 DEF SeenFits
    <2>11. Mine(t, "paint", pending', want', current')
        BY <2>3, <2>4, <2>7, <2>9, <2>10 DEF Mine
    <2>12. Displays(t, "paint", pending', shown', current')
        BY <2>2, <2>4, <2>5, <2>5a DEF Displays
    <2> QED
        BY <2>1, <2>3, <2>5, <2>7, <2>8, <2>11, <2>12, StepInv
<1> QED
    BY <1>1, <1>2, <1>3, <1>4, <1>5 DEF GetPending, Apply

LEMMA KeyboardSteps ==
    ASSUME IInv, NEW h \in Handlers, Paint(h) \/ Repaint(h) \/ Forget(h)
    PROVE  IInv'
<1> USE PcNames
<1>0. pc[h] \in {"paint", "repaint", "forget"} /\ UNCHANGED <<store, session, want>>
    BY DEF Paint, Repaint, Forget, memory, history
<1>1. ASSUME shown' \in [Panels -> {NoKeyboard} \cup SUBSET All],
             pending' = pending, current' \in {current, NoPanel}
      PROVE  WorldOK'
    BY <1>0, <1>1, Now DEF WorldOK, store, WantOK, NumsAgree, CatsAgree, Stored
<1>2. ~IsAlone(task[h]) => want = NothingSure /\ current = NoPanel /\ task[h].seen = Unsure
    BY <1>0, Company
<1>3. CASE Paint(h)
    <2>1. pc[h] = "paint" /\ Return(h) /\ UNCHANGED <<store, memory, want>>
          /\ task[h].cats \in Selection /\ shown \in [Panels -> {NoKeyboard} \cup SUBSET All]
        BY <1>3, Now DEF Paint, Task, WorldOK
    <2>2. Displays(task[h], "paint", pending, shown, current)
        BY <2>1, DisplayNow
    <2>3. CASE shown' = [shown EXCEPT ![task[h].panel] = Marks(task[h].cats)]
               /\ current' = current
        <3>1. shown' \in [Panels -> {NoKeyboard} \cup SUBSET All]
            BY <2>1, <2>3, SetsAreMarks
        <3>2. Displays(NoTask, "idle", pending', shown', current')
            <4>1. current \in Panels \cup {NoPanel}
                BY Now DEF WorldOK
            <4> QED
                BY <2>1, <2>2, <2>3, <4>1 DEF Displays, memory
        <3>3. WorldOK'
            BY <1>1, <2>1, <2>3, <3>1 DEF memory
        <3> QED
            BY <1>0, <1>2, <2>1, <2>3, <3>2, <3>3, ReturnInv
    <2>4. CASE current' = NoPanel /\ UNCHANGED shown
        <3>1. WorldOK'
            BY <1>1, <2>1, <2>4 DEF memory
        <3>2. Displays(NoTask, "idle", pending', shown', current')
            BY <2>4 DEF Displays
        <3> QED
            BY <1>0, <1>2, <2>1, <2>4, <3>1, <3>2, ReturnInv
    <2> QED
        BY <1>3, <2>3, <2>4 DEF Paint
<1>4. CASE Repaint(h)
    <2>1. pc[h] = "repaint" /\ Return(h) /\ UNCHANGED <<store, memory, history>>
          /\ shown \in [Panels -> {NoKeyboard} \cup SUBSET All]
          /\ shown' \in {shown, [shown EXCEPT ![task[h].panel] = NoKeyboard]}
        BY <1>4, Now DEF Repaint, WorldOK
    <2>2. shown' \in [Panels -> {NoKeyboard} \cup SUBSET All]
        BY <2>1
    <2>3. current = NoPanel
        BY <2>1, Now DEF Mine
    <2>4. WorldOK'
        BY <1>1, <2>1, <2>2 DEF memory, history
    <2>5. Displays(NoTask, "idle", pending', shown', current')
        BY <2>1, <2>3 DEF Displays, history
    <2> QED
        BY <1>0, <1>2, <2>1, <2>4, <2>5, ReturnInv DEF history
<1>5. CASE Forget(h)
    <2>1. pc[h] = "forget" /\ UNCHANGED <<store, session, shown, want>>
          /\ pending' = NoPending /\ current' = NoPanel
          /\ pc' = [pc EXCEPT ![h] = "repaint"] /\ task' = [task EXCEPT ![h] = task[h]]
        BY <1>5, Now DEF Forget, Goto
    <2>2. WorldOK'
        BY <2>1, WorldTapped
    <2>3. Good(task[h], "repaint") /\ WriteFits(task[h], "repaint", want')
        BY Now DEF Good, WriteFits
    <2>4. SeenFits(task[h], "repaint", pending')
        BY DEF SeenFits
    <2>5. Mine(task[h], "repaint", pending', want', current')
        BY <1>2, <2>1, <2>3, <2>4 DEF Mine
    <2>6. Displays(task[h], "repaint", pending', shown', current')
        BY <2>1 DEF Displays
    <2> QED
        BY <1>2, <2>1, <2>2, <2>5, <2>6, Now, StepInv
<1> QED
    BY <1>3, <1>4, <1>5

\* What the user is told after a statement agrees with the row there is then.
LEMMA ConfirmedAgrees ==
    ASSUME IInv, NEW h \in Handlers, pc[h] = "write", NEW s \in UserSettings,
           NEW value \in Number \cup {Unsure},
           NEW marks \in {Unsure} \cup SUBSET All,
           NEW all, WantOK(all), NumsAgree(s, all), CatsAgree(s, all),
           s = Stored \/ s = task[h].form,
           task[h].kind = "input" /\ value # Unsure => s.num[task[h].field] = value,
           task[h].kind = "save" /\ marks # Unsure => Marks(s.cats) = marks
    PROVE  LET told == Confirmed(h, value, marks, all)
           IN  /\ WantOK(told) /\ NumsAgree(s, told) /\ CatsAgree(s, told)
               /\ ~IsAlone(task[h]) => told = NothingSure
<1> DEFINE told == Confirmed(h, value, marks, all)
<1> SUFFICES /\ WantOK(told) /\ NumsAgree(s, told) /\ CatsAgree(s, told)
             /\ ~IsAlone(task[h]) => told = NothingSure
    OBVIOUS
<1>0. /\ task[h].kind \in {"input", "save", "mini"}
      /\ task[h].kind = "input" => task[h].field \in Fields
      /\ NumsAgree(Stored, want) /\ CatsAgree(Stored, want) /\ WantOK(want)
    BY Now DEF Good, WorldOK
<1>1. CASE ~IsAlone(task[h])
    <2>1. told = NothingSure
        <3>1. ~task[h].alone
            BY <1>1, Now DEF IsAlone, Task
        <3> QED
            BY <3>1 DEF Confirmed
    <2> QED
        BY <2>1, NothingAgrees
<1>2. CASE IsAlone(task[h])
    <2>0. task[h].alone
        BY <1>2 DEF IsAlone
    <2>1. CASE task[h].kind = "input"
        <3>1. told = [want EXCEPT !.num[task[h].field] = value]
            BY <2>0, <2>1 DEF Confirmed
        <3>2. /\ WantOK(told)
              /\ told.num[task[h].field] = value /\ told.cats = want.cats
              /\ \A f \in Fields \ {task[h].field} : told.num[f] = want.num[f]
            BY <1>0, <2>1, <3>1 DEF WantOK
        <3>3. /\ CatsAgree(s, want)
              /\ \A f \in Fields \ {task[h].field} :
                    want.num[f] # Unsure => s.num[f] = want.num[f]
            BY <1>0, <2>1, Now DEF WriteFits, NumsAgree
        <3> HIDE DEF told
        <3> QED
            BY <1>2, <2>1, <3>2, <3>3 DEF NumsAgree, CatsAgree
    <2>2. CASE task[h].kind = "save"
        <3>1. told = [want EXCEPT !.cats = marks]
            BY <2>0, <2>2 DEF Confirmed
        <3>2. WantOK(told) /\ told.cats = marks /\ told.num = want.num
            BY <1>0, <3>1 DEF WantOK
        <3>3. NumsAgree(s, want)
            BY <1>0, <2>2, Now DEF WriteFits
        <3> HIDE DEF told
        <3> QED
            BY <1>2, <2>2, <3>2, <3>3 DEF NumsAgree, CatsAgree
    <2>3. CASE task[h].kind = "mini"
        <3>1. told = all
            BY <2>0, <2>3 DEF Confirmed
        <3> QED
            BY <1>2, <3>1
    <2> QED
        BY <1>0, <2>1, <2>2, <2>3
<1> QED
    BY <1>1, <1>2

LEMMA WriteInv ==
    ASSUME IInv, NEW h \in Handlers, Write(h)
    PROVE  IInv'
<1> USE PcNames
<1>1. /\ task[h] \in Task /\ task[h].form \in UserSettings /\ Floors(task[h].form)
      /\ task[h].seen \in {Unsure} \cup SUBSET All
      /\ pc[h] = "write" /\ UNCHANGED <<subscribed, memory, shown, current>>
    BY Now DEF Write, Task, Good
<1>2. ~IsAlone(task[h]) => want = NothingSure /\ current = NoPanel /\ task[h].seen = Unsure
    BY <1>1, Company
<1>3. ASSUME row' \in {row, task[h].form},
             WantOK(want'), NumsAgree(Stored', want'), CatsAgree(Stored', want')
      PROVE  WorldOK'
    BY <1>1, <1>3, Now DEF WorldOK, memory
<1>4. Displays(NoTask, "idle", pending', shown', current')
      /\ Displays(task[h], "forget", pending', shown', current')
    BY <1>1, DisplayKept DEF memory
<1>5. row' = task[h].form => Stored' = task[h].form
    BY <1>1, SettingsAssumption DEF Stored
<1>6. row' = row => Stored' = Stored
    BY DEF Stored
<1>7. CASE /\ row' = task[h].form
           /\ want' = Confirmed(h, task[h].text, task[h].seen, Meaning(task[h].form))
    <2>0. task[h].kind = "input" => task[h].text \in Number
        BY <1>1, Now DEF Good
    <2>1. /\ WantOK(want') /\ NumsAgree(Stored', want') /\ CatsAgree(Stored', want')
          /\ ~IsAlone(task[h]) => want' = NothingSure
        <3>1. PICK value \in Number \cup {Unsure} :
                  task[h].kind = "input" => value = task[h].text
            BY <2>0
        <3>2. want' = Confirmed(h, value, task[h].seen, Meaning(task[h].form))
            BY <1>7, <3>1 DEF Confirmed
        <3>3. task[h].kind = "input" => task[h].form.num[task[h].field] = task[h].text
            BY <1>1, Now DEF WriteFits
        <3>4. task[h].kind = "save" /\ task[h].seen # Unsure =>
                  Marks(task[h].form.cats) = task[h].seen
            BY <1>1, Now DEF SeenFits
        <3> QED
            BY <1>1, <1>5, <1>7, <3>1, <3>2, <3>3, <3>4, MeaningAgrees, ConfirmedAgrees
    <2>2. WorldOK'
        BY <1>3, <1>7, <2>1
    <2>3. ~IsAlone(task[h]) => want' = NothingSure /\ current' = NoPanel
        BY <1>1, <1>2, <2>1
    <2>4. CASE Return(h)
        BY <1>1, <1>4, <2>2, <2>3, <2>4, ReturnInv
    <2>5. CASE Goto(h, "forget") /\ UNCHANGED task
        <3>1. Good(task[h], "forget") /\ WriteFits(task[h], "forget", want')
              /\ SeenFits(task[h], "forget", pending')
            BY Now DEF Good, WriteFits, SeenFits
        <3>2. Mine(task[h], "forget", pending', want', current')
            BY <1>2, <2>3, <3>1 DEF Mine
        <3>3. pc' = [pc EXCEPT ![h] = "forget"] /\ task' = [task EXCEPT ![h] = task[h]]
            BY <2>5, Now DEF Goto
        <3> QED
            BY <1>1, <1>4, <2>2, <2>3, <3>2, <3>3, StepInv
    <2> QED
        <3>1. Return(h) \/ (Goto(h, "forget") /\ UNCHANGED task)
            BY DEF Write
        <3> QED
            BY <2>4, <2>5, <3>1
<1>8. CASE Return(h) /\ UNCHANGED <<row, want>>
    <2>1. WorldOK'
        BY <1>3, <1>6, <1>8, Now DEF WorldOK
    <2> QED
        BY <1>1, <1>2, <1>4, <1>8, <2>1, ReturnInv
<1>9. CASE /\ row' \in {row, task[h].form}
           /\ want' = Confirmed(h, Unsure, Unsure, NothingSure)
           /\ Return(h)
    <2>1. Stored' \in {Stored, task[h].form} /\ Stored' \in UserSettings
        BY <1>1, <1>5, <1>6, <1>9, Now, StoredAccepted
    <2>2. /\ WantOK(want') /\ NumsAgree(Stored', want') /\ CatsAgree(Stored', want')
          /\ ~IsAlone(task[h]) => want' = NothingSure
        BY <1>1, <1>9, <2>1, NothingAgrees, ConfirmedAgrees
    <2>3. WorldOK'
        BY <1>3, <1>9, <2>2
    <2> QED
        BY <1>1, <1>2, <1>4, <1>9, <2>2, <2>3, ReturnInv
<1> QED
    BY <1>7, <1>8, <1>9 DEF Write

\* A panel asks for a value, time passes, or the process starts again.
LEMMA EnvironmentInv ==
    ASSUME IInv, Prompt \/ ExpireSession \/ ExpirePending \/ Restart
    PROVE  IInv'
<1>1. CASE Prompt \/ ExpireSession
    <2>1. /\ session' \in Fields \cup {NoSession}
          /\ UNCHANGED <<store, pending, shown, pc, task, history>>
        BY <1>1 DEF Prompt, ExpireSession
    <2>2. WorldOK'
        BY <2>1, Now DEF IInv, WorldOK, store, history, WantOK, NumsAgree, CatsAgree, Stored
    <2> QED
        BY <2>1, <2>2 DEF IInv, Sole, KeyboardFits, history, Mine, Good, SeenFits, WriteFits,
                          Floors, CatsAgree, NumsAgree
<1>2. CASE ExpirePending
    <2>1. /\ UNCHANGED <<store, session, shown, pc, want>>
          /\ pending' = NoPending /\ current' = NoPanel
          /\ task' = [h \in Handlers |-> [task[h] EXCEPT !.seen = Unsure]]
        BY <1>2 DEF ExpirePending
    <2>2. WorldOK'
        BY <2>1, WorldTapped
    <2>3. ASSUME NEW h \in Handlers
          PROVE  /\ task'[h] \in Task /\ task'[h].seen = Unsure
                 /\ IsAlone(task'[h]) <=> IsAlone(task[h])
                 /\ Mine(task'[h], pc'[h], pending', want', current')
        <3> DEFINE t == [task[h] EXCEPT !.seen = Unsure]
        <3>1. task'[h] = t /\ task[h] \in Task /\ pc'[h] = pc[h]
            BY <2>1, Now
        <3>2. t \in Task /\ t.seen = Unsure /\ t.kind = task[h].kind
              /\ t.form = task[h].form /\ t.field = task[h].field /\ t.key = task[h].key
              /\ t.panel = task[h].panel /\ t.text = task[h].text
            BY <3>1 DEF Task
        <3>3. IsAlone(t) <=> IsAlone(task[h])
            BY <3>1 DEF Task, IsAlone
        <3> HIDE DEF t
        <3>4. Good(t, pc[h]) /\ WriteFits(t, pc[h], want)
            BY <3>2, Now DEF Good, WriteFits
        <3>5. Mine(t, pc[h], pending', want', current')
            BY <2>1, <3>2, <3>3, <3>4, Now DEF Mine
        <3> QED
            BY <3>1, <3>2, <3>3, <3>5
    <2>4. Sole' /\ KeyboardFits'
        BY <2>1, <2>3 DEF IInv, Sole, KeyboardFits
    <2>5. task' \in [Handlers -> Task] /\ pc' \in [Handlers -> Pc]
        BY <2>1, <2>3 DEF IInv
    <2> QED
        BY <2>2, <2>3, <2>4, <2>5 DEF IInv
<1>3. CASE Restart
    <2>1. /\ UNCHANGED <<store, shown, want>>
          /\ session' = NoSession /\ pending' = NoPending /\ current' = NoPanel
          /\ \A h \in Handlers : pc'[h] = "idle" /\ task'[h] = NoTask
          /\ pc' \in [Handlers -> Pc] /\ task' \in [Handlers -> Task]
        BY <1>3, FreshTask, PcNames DEF Restart
    <2>2. WorldOK'
        BY <2>1 DEF IInv, WorldOK, store, WantOK, NumsAgree, CatsAgree, Stored
    <2>3. Sole' /\ KeyboardFits'
        BY <2>1 DEF Sole, KeyboardFits
    <2> QED
        BY <2>1, <2>2, <2>3, FreshTask DEF IInv
<1> QED
    BY <1>1, <1>2, <1>3

LEMMA NextInv == IInv /\ [Next]_vars => IInv'
<1> SUFFICES ASSUME IInv, [Next]_vars
             PROVE  IInv'
    OBVIOUS
<1>1. ASSUME NEW h \in Handlers, Update(h)
      PROVE  IInv'
    BY <1>1, UpdateInv
<1>2. ASSUME NEW h \in Handlers, Step(h)
      PROVE  IInv'
    BY <1>2, SessionSteps, StartStop, ReplaceInv, TapSteps, ReadInv, KeyboardSteps,
       WriteInv DEF Step
<1>3. CASE Prompt \/ ExpireSession \/ ExpirePending \/ Restart
    BY <1>3, EnvironmentInv
<1>4. CASE UNCHANGED vars
    <2>1. UNCHANGED <<store, memory, shown, pc, task, history>>
        BY <1>4 DEF vars
    <2>2. WorldOK' /\ pending' = pending /\ want' = want /\ current' = current
        BY <2>1, WorldKept
    <2> QED
        BY <2>1, <2>2 DEF IInv, Sole, KeyboardFits
<1> QED
    BY <1>1, <1>2, <1>3, <1>4 DEF Next

LEMMA Invariance == Spec => []IInv
    BY InitInv, NextInv, PTL DEF Spec

-----------------------------------------------------------------------------
(* Theorems.                                                               *)

\* Every map, row and local variable keeps its type; the confirmations too.
THEOREM SettingsTypeCorrect == Spec => []TypeOK
    BY TypesFollow, Invariance, PTL

\* No stored setting is less than the least the bot accepts, whether it was
\* typed or sent by the Mini App, however updates overlap and fail.
THEOREM SettingsRespectFloors == Spec => []FloorsHold
<1>1. IInv => FloorsHold
    BY DEF IInv, WorldOK, FloorsHold, Floors
<1> QED
    BY <1>1, Invariance, PTL

\* What the user was told is saved is what the row holds, as far as updates were
\* handled one at a time and did not fail since: any number of panels, stale
\* keyboards, lost selections and restarts included.
THEOREM SavedMeansSaved == Spec => []RowIsAsConfirmed
<1>1. IInv => RowIsAsConfirmed
    BY DEF IInv, WorldOK, RowIsAsConfirmed, NumsAgree, CatsAgree
<1> QED
    BY <1>1, Invariance, PTL

\* A tap on the current keyboard turns the marks before the user's eyes into
\* what its key says, however many other keyboards are in the chat.
THEOREM TapsDoWhatTheySay == Spec => TapDoesWhatItSays
<1> DEFINE Tapping ==
        \A h \in Handlers :
            pc[h] = "paint" /\ pc'[h] = "idle" /\ task[h].kind = "tap"
                  /\ task[h].seen # Unsure /\ current' = task[h].panel
                => shown'[task[h].panel] = Expected(task[h].seen, task[h].key)
<1>1. IInv /\ [Next]_vars => [Tapping]_vars
    <2> SUFFICES ASSUME IInv, [Next]_vars, NEW h \in Handlers,
                        pc[h] = "paint", pc'[h] = "idle", task[h].kind = "tap",
                        task[h].seen # Unsure, current' = task[h].panel
                 PROVE  shown'[task[h].panel] = Expected(task[h].seen, task[h].key)
        OBVIOUS
    <2>1. /\ task[h].panel \in Panels /\ task[h].panel # NoPanel
          /\ Marks(task[h].cats) = Expected(task[h].seen, task[h].key)
          /\ shown \in [Panels -> {NoKeyboard} \cup SUBSET All]
          /\ pc \in [Handlers -> Pc]
        BY Now, SettingsAssumption DEF Good, SeenFits, WorldOK, IInv
    <2>2. Paint(h)
        <3>1. ASSUME NEW g \in Handlers, Update(g) PROVE FALSE
            BY <2>1, <3>1
               DEF Update, Message, Open, Tap, Back, MiniSave, Begin
        <3>2. ASSUME NEW g \in Handlers, Step(g), g # h PROVE FALSE
            BY <2>1, <3>2
               DEF Step, GetSession, ClearSession, Subscribe, Unsubscribe, ReplacePanel,
                   GetPending, Read, Continue, InitPending, Apply, Paint, Write, Forget,
                   Repaint, Return, Goto
        <3>3. Step(h) => Paint(h)
            BY DEF Step, GetSession, ClearSession, Subscribe, Unsubscribe, ReplacePanel,
                   GetPending, Read, InitPending, Apply, Paint, Write, Forget, Repaint
        <3>4. ~(Prompt \/ ExpireSession \/ ExpirePending \/ UNCHANGED vars)
            BY DEF Prompt, ExpireSession, ExpirePending, vars
        <3>5. ~Restart
            BY <2>1 DEF Restart
        <3> QED
            BY <3>1, <3>2, <3>3, <3>4, <3>5 DEF Next
    <2>3. shown' = [shown EXCEPT ![task[h].panel] = Marks(task[h].cats)]
        BY <2>1, <2>2 DEF Paint
    <2> QED
        BY <2>1, <2>3
<1> QED
    BY <1>1, Invariance, PTL DEF Spec, TapDoesWhatItSays

-----------------------------------------------------------------------------
(* What updates do to the chat's rows is what Database allows.             *)

LEMMA InitIsDatabase == Init => Db!Init
<1> SUFFICES ASSUME Init
             PROVE  Db!Init
    OBVIOUS
<1>1. Stored \in UserSettings /\ (~subscribed => Stored = Defaults)
    BY InitInv, StoredAccepted DEF IInv, Init, Stored
<1>2. [c \in {"chat"} |-> Stored] \in [{"chat"} -> UserSettings]
    BY <1>1
<1>3. (IF subscribed THEN {"chat"} ELSE {}) \in SUBSET {"chat"}
    OBVIOUS
<1>4. \A c \in {"chat"} \ (IF subscribed THEN {"chat"} ELSE {}) :
          [d \in {"chat"} |-> Stored][c] = Defaults
    BY <1>1
<1> QED
    BY <1>2, <1>3, <1>4 DEF Db!Init

\* A subscription, a cancellation and a save, each as one step of Database.
LEMMA StartIsSubscribe ==
    ASSUME subscribed' = TRUE, row' = row
    PROVE  Db!Next
<1>1. Stored' = Stored
    BY DEF Stored
<1>2. Db!Subscribe("chat")
    BY <1>1 DEF Db!Subscribe
<1> QED
    BY <1>2 DEF Db!Next

LEMMA StopIsUnsubscribe ==
    ASSUME subscribed' = FALSE, row' = NoRow
    PROVE  Db!Next
<1>1. Stored' = Defaults
    BY DEF Stored
<1>2. [c \in {"chat"} |-> Stored'] = [[c \in {"chat"} |-> Stored] EXCEPT !["chat"] = Defaults]
    BY <1>1
<1>3. Db!Unsubscribe("chat")
    BY <1>2 DEF Db!Unsubscribe
<1> QED
    BY <1>3 DEF Db!Next

LEMMA WriteIsSave ==
    ASSUME subscribed, subscribed' = subscribed,
           NEW s \in UserSettings, row' = s
    PROVE  Db!Next
<1>1. Stored' = s
    BY SettingsAssumption DEF Stored
<1>2. [c \in {"chat"} |-> Stored'] = [[c \in {"chat"} |-> Stored] EXCEPT !["chat"] = s]
    BY <1>1
<1>3. /\ [c \in {"chat"} |-> Stored']["chat"] = s
      /\ Db!SaveSettings("chat", s)
    BY <1>1, <1>2 DEF Db!SaveSettings
<1> QED
    BY <1>3 DEF Db!Next

LEMMA StoreKept ==
    ASSUME UNCHANGED store
    PROVE  UNCHANGED Db!vars
    BY DEF store, Stored, Db!vars

\* What a step does to the rows.
LEMMA StoreStep ==
    ASSUME IInv, [Next]_vars
    PROVE  \/ UNCHANGED store
           \/ subscribed' = TRUE /\ row' = row
           \/ subscribed' = FALSE /\ row' = NoRow
           \/ /\ subscribed /\ subscribed' = subscribed
              /\ row' \in UserSettings
<1>1. ASSUME NEW h \in Handlers, Update(h)
      PROVE  UNCHANGED store
    BY <1>1 DEF Update, Message, Open, Tap, Back, MiniSave
<1>2. ASSUME NEW h \in Handlers, Write(h)
      PROVE  \/ UNCHANGED store
             \/ subscribed /\ subscribed' = subscribed /\ row' \in UserSettings
    BY <1>2, Now DEF Write, Task, store
<1>3. ASSUME NEW h \in Handlers, Subscribe(h)
      PROVE  UNCHANGED store \/ (subscribed' = TRUE /\ row' = row)
    BY <1>3 DEF Subscribe, store
<1>4. ASSUME NEW h \in Handlers, Unsubscribe(h)
      PROVE  UNCHANGED store \/ (subscribed' = FALSE /\ row' = NoRow)
    BY <1>4 DEF Unsubscribe
<1>5. ASSUME NEW h \in Handlers, Step(h), ~Write(h), ~Subscribe(h), ~Unsubscribe(h)
      PROVE  UNCHANGED store
    BY <1>5 DEF Step, GetSession, ClearSession, ReplacePanel, GetPending,
                Read, InitPending, Apply, Paint, Forget, Repaint
<1>6. Prompt \/ ExpireSession \/ ExpirePending \/ Restart \/ UNCHANGED vars
          => UNCHANGED store
    BY DEF Prompt, ExpireSession, ExpirePending, Restart, vars, store
<1>7. ASSUME NEW h \in Handlers, Step(h)
      PROVE  \/ UNCHANGED store
             \/ subscribed' = TRUE /\ row' = row
             \/ subscribed' = FALSE /\ row' = NoRow
             \/ /\ subscribed /\ subscribed' = subscribed
                /\ row' \in UserSettings
    BY <1>2, <1>3, <1>4, <1>5, <1>7
<1> QED
    BY <1>1, <1>6, <1>7 DEF Next

\* However updates overlap and fail, the chat's rows change as if each change
\* were one step: settings are those of a user, and leaving resets them.
THEOREM SettingsImplementDatabase == Spec => ImplementsDatabase
<1>1. IInv /\ [Next]_vars => [Db!Next]_(Db!vars)
    <2> SUFFICES ASSUME IInv, [Next]_vars
                 PROVE  Db!Next \/ UNCHANGED Db!vars
        OBVIOUS
    <2> QED
        BY StoreStep, StartIsSubscribe, StopIsUnsubscribe, WriteIsSave, StoreKept
<1> QED
    BY <1>1, InitIsDatabase, Invariance, PTL DEF Spec, ImplementsDatabase, Db!Spec
=============================================================================
