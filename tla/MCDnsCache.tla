----------------------------- MODULE MCDnsCache -----------------------------
(***************************************************************************)
(* Instances of CacheHistory for TLC.                                      *)
(***************************************************************************)
EXTENDS CacheHistory

\* Two spellings of one name beside other names.
MCLower == [d \in Domains |-> IF d = "A.com" THEN "a.com" ELSE d]
=============================================================================
