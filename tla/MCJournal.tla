------------------------------ MODULE MCJournal ------------------------------
(* Small instances of Journal for TLC: the cfg files give the keys as model  *)
(* values and the bounds.                                                    *)
EXTENDS Journal
=============================================================================
