---------------------------- MODULE MCSendQueue ----------------------------
(* SendQueue with values for its constants.  The producers are alike, and so *)
(* are the messages: permuting them is sound where no liveness is checked.   *)
EXTENDS SendQueue, TLC

Alike == Permutations(Producers) \cup Permutations(Messages)
=============================================================================
