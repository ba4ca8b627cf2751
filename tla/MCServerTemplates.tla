------------------------ MODULE MCServerTemplates ------------------------
(* Small instances of ServerTemplates for TLC: one seeded template and one *)
(* to create.                                                              *)
EXTENDS ServerTemplates, TLC
CONSTANTS n1, n2, g1, t1, t2

OneSeeded == [n \in Names |-> IF n = n1 THEN g1 ELSE None]
Anyone == Permutations(Threads)
=============================================================================
