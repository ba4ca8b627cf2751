-------------------------- MODULE MCGrantLifecycle --------------------------
(* Small instances of GrantLifecycle for TLC.                              *)
EXTENDS GrantLifecycle, TLC

CONSTANTS w1, w2, u1, u2, h1, h2, n1, r1, r2

(* Two users whose names sanitize to the same Linux account.               *)
SharedName == [u \in Users |-> n1]

(* One request per user, both on one server, with different sudo levels.   *)
TwoUsers   == [r \in Requests |-> IF r = r1 THEN u1 ELSE u2]
OneUser    == [r \in Requests |-> u1]
OneServer  == [r \in Requests |-> h1]
TwoLevels  == [r \in Requests |-> IF r = r1 THEN "full_sudo" ELSE "limited_sudo"]
SudoOrPlain == [r \in Requests |-> IF r = r1 THEN "full_sudo" ELSE "ssh_only"]

AllAccounts == Hosts \X Names
FirstPair == {<<u1, h1>>}

Symmetry == Permutations(Workers)
=============================================================================
