----------------------------- MODULE Categories -----------------------------
(***************************************************************************)
(* The category selection of a user as the bot stores it, and what a tap   *)
(* on the category keyboard does to it: the switch of                      *)
(* handleCategoryCallback (internal/bot/handlers.go) and                   *)
(* CategoriesKeyboard (internal/bot/keyboards.go).                         *)
(*                                                                         *)
(* The stored list has two conventions: the empty list enables every       *)
(* category, and the sentinel "__none__" enables none.  The keyboard makes *)
(* lists of categories or the sentinel alone; the Mini App's lists are     *)
(* stored as they come and may hold any names.  A list is modelled by the  *)
(* set of its names: a name the Mini App sends twice counts once here and  *)
(* twice in the code's test of the length.                                 *)
(***************************************************************************)
EXTENDS Naturals, FiniteSets

CONSTANTS
    All,        \* keys of polymarket.AllCategories (20 in the code)
    None,       \* the sentinel "__none__"
    Unknown     \* other names the Mini App may send

ASSUME CategoriesAssumption ==
    /\ IsFiniteSet(All)
    /\ Cardinality(All) >= 2
    /\ None \notin All
    /\ Unknown \cap (All \cup {None}) = {}

\* What can be stored.
Selection == SUBSET (All \cup {None} \cup Unknown)

\* The lists without an unknown name.
Known == SUBSET (All \cup {None})

\* The keys CategoriesKeyboard marks as enabled.
Marks(cats) == IF cats = {} THEN All ELSE cats \cap All

\* The same without the last test: nothing selected is stored as "all".
ToggledNoSentinel(cats, key) ==
    IF cats = {}
    THEN All \ {key}
    ELSE LET others   == cats \ {None, key}
             selected == IF key \in cats THEN others ELSE others \cup {key}
         IN  IF Cardinality(selected) >= Cardinality(All) THEN {} ELSE selected

\* A tap on a category: from "all" every other category is selected; else the
\* category is dropped or added, a list as long as the table of categories is
\* stored as "all", and an emptied one as the sentinel.
Toggled(cats, key) ==
    IF cats = {}
    THEN All \ {key}
    ELSE LET others   == cats \ {None, key}
             selected == IF key \in cats THEN others ELSE others \cup {key}
             folded   == IF Cardinality(selected) >= Cardinality(All)
                         THEN {} ELSE selected
         IN  IF folded = {} /\ key \in cats THEN {None} ELSE folded

\* The key "all" taken for a category.
TappedNoAll(cats, key) ==
    CASE key = "none" -> {None}
      [] OTHER        -> Toggled(cats, key)

\* A tap on any key of the keyboard but "save".
Tapped(cats, key) ==
    CASE key = "all"  -> {}
      [] key = "none" -> {None}
      [] OTHER        -> Toggled(cats, key)

\* What the user expects of the marks.
Flip(marks, key) == IF key \in marks THEN marks \ {key} ELSE marks \cup {key}

Expected(marks, key) ==
    CASE key = "all"  -> All
      [] key = "none" -> {}
      [] OTHER        -> Flip(marks, key)
=============================================================================
