-------------------------- MODULE MCAccessGroups --------------------------
(* A small instance of AccessGroups for TLC.                               *)
EXTENDS AccessGroups, TLC
CONSTANTS u1, u2, s1, t1, t2

Anyone == Permutations(Users) \cup Permutations(Threads)

(* A member whose row ends, one who has what a template gives, and a       *)
(* manager whose row is switched off.                                      *)
MCRows == {[role |-> "user", on |-> TRUE, ends |-> "later", template |-> TRUE],
           [role |-> "custom", on |-> TRUE, ends |-> "never", template |-> TRUE],
           [role |-> "group_admin", on |-> FALSE, ends |-> "never", template |-> FALSE]}

(* Nothing, entries that allow and entries that deny; a template may also  *)
(* do both under two names.                                                *)
MCRules == {NoRule, [allow |-> {"connect", "sudo", "direct"}, deny |-> {}],
            [allow |-> {}, deny |-> {"gateway", "request"}]}
MCTemplates == {[allow |-> {"connect", "sudo", "direct"}, deny |-> {}],
                [allow |-> {"gateway"}, deny |-> {"gateway"}]}
=============================================================================
