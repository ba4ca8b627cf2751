---------------------------- MODULE MCLogImport ----------------------------
(* A small instance of LogImport for TLC.                                  *)
EXTENDS LogImport
CONSTANTS g1, g2, a1, s1, s2, w1, w2

OneAccount == [g \in Grants |-> a1]
SameHome == [s \in Shells |-> a1]
(* The third command of an account is a critical one.                      *)
CriticalLast == <<{"plain"}, {"plain"}, {"critical"}>>
=============================================================================
