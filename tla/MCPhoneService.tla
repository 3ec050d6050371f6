--------------------------- MODULE MCPhoneService ---------------------------
(***************************************************************************)
(* Instances of PhoneService for TLC.                                      *)
(***************************************************************************)
EXTENDS PhoneService, TLC

Symmetry == Permutations(Pids) \union Permutations(Scripts)
=============================================================================
