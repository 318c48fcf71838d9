-------------------------- MODULE MCAlertPipeline --------------------------
(* AlertPipeline with a few trades and settings chosen so that every filter  *)
(* accepts some trade and stops another.                                     *)
EXTENDS AlertPipeline, TLC

CONSTANTS whale

\* Over the floor, over the default amount, at long odds.
big == [id |-> "big", wallet |-> whale, price |-> 20, size |-> 6000,
        banned |-> FALSE, isTrade |-> TRUE]

\* 50 dollars: under the floor, over the smallest amount a user can choose.
small == [id |-> "small", wallet |-> whale, price |-> 50, size |-> 100,
          banned |-> FALSE, isTrade |-> TRUE]

\* Over the amounts, but at odds of 1.11, under the default odds.
favourite == [id |-> "favourite", wallet |-> whale, price |-> 90, size |-> 6000,
              banned |-> FALSE, isTrade |-> TRUE]

banned == [id |-> "banned", wallet |-> whale, price |-> 50, size |-> 6000,
           banned |-> TRUE, isTrade |-> TRUE]

free == [id |-> "free", wallet |-> whale, price |-> 0, size |-> 6000,
         banned |-> FALSE, isTrade |-> TRUE]

greeting == [id |-> "greeting", wallet |-> whale, price |-> 50, size |-> 0,
             banned |-> FALSE, isTrade |-> FALSE]

\* Everything, down to 10 dollars; and only what is rare.
wide == [min |-> 10, trades |-> 1000, odds |-> 100, cats |-> {}]

picky == [min |-> 1000, trades |-> 1, odds |-> 300, cats |-> {"sports"}]

AllTrades == {big, small, favourite, banned, free, greeting}
TwoTrades == {big, small}

AllOptions == {wide, picky}
WideOption == {wide}

SomeCategories == {"sports", "crypto"}
OneCategory == {"sports"}

SomeCounts == {1, 5, 999}
OneCount == {1}
=============================================================================
