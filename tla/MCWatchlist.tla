---------------------------- MODULE MCWatchlist ----------------------------
(* Watchlist with two wallets, one of them in two spellings.                *)
EXTENDS Watchlist, TLC

CONSTANTS lower, upper, other

MCSpellings == {lower, upper, other}

MCCanon == [w \in MCSpellings |-> IF w = upper THEN lower ELSE w]

Alike == Permutations(Handlers) \cup Permutations(Chats)
=============================================================================
