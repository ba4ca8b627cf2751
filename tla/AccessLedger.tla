---------------------------- MODULE AccessLedger ----------------------------
(***************************************************************************)
(* What the grants promise of the Linux accounts they open, without        *)
(* handlers, calls, locks or clocks: a ledger of the direct grants that    *)
(* are active, and what an account's host lets users do.  Both change in   *)
(* one transaction, which takes accounts in hand, works on them and ends   *)
(* for all of them at once.  If it fails, the ledger is as before and the  *)
(* accounts are lost: nothing is said of their hosts from then on, nor of  *)
(* an account on which a command failed without a sign.                    *)
(***************************************************************************)
CONSTANTS
  Accounts,  \* Linux accounts: a name on a server
  Users,     \* who may have a key
  Levels     \* what a sudoers file may give

VARIABLES
  ledger,    \* active direct grants: account, user, level, and an id
  access,    \* account -> who has a key, which sudo level, whether monitored
  custody    \* account -> settled, held by the transaction, or lost

vars == <<ledger, access, custody>>

Access == [keys : SUBSET Users, sudo : {"none"} \cup Levels, monitored : BOOLEAN]
Bare   == [keys |-> {}, sudo |-> "none", monitored |-> FALSE]

(* An account shows the entries that the ledger has for it: no key and no  *)
(* sudo level without an entry, and while there is one, monitoring.        *)
Shows(seen, entries) ==
  /\ \A u \in seen.keys : \E e \in entries : e.user = u
  /\ seen.sudo # "none" => \E e \in entries : e.level = seen.sudo
  /\ entries # {} => seen.monitored

Of(book, a) == {e \in book : e.account = a}

Init ==
  /\ ledger = {}
  /\ access = [a \in Accounts |-> Bare]
  /\ custody = [a \in Accounts |-> "settled"]

(* A call changes one account, which the transaction then has in hand; one *)
(* that fails unnoticed loses the account at once.                         *)
Work(a) ==
  /\ ledger' = ledger
  /\ \E c \in {"held", "lost"} :
       custody' = [custody EXCEPT ![a] = IF @ = "lost" THEN @ ELSE c]
  /\ \E seen \in Access : access' = [access EXCEPT ![a] = seen]

(* The transaction ends for every account it has in hand.                  *)
EndAs(outcome) ==
  /\ custody' = [a \in Accounts |-> IF custody[a] = "held" THEN outcome ELSE custody[a]]
  /\ access' = access

(* Entries are made and struck for accounts in hand only.                  *)
Commit ==
  /\ EndAs("settled")
  /\ \A a \in Accounts :
       /\ custody[a] = "settled" => Of(ledger', a) = Of(ledger, a)
       /\ custody[a] = "held"    => Shows(access[a], Of(ledger', a))

Fail == EndAs("lost") /\ ledger' = ledger

Next == (\E a \in Accounts : Work(a)) \/ Commit \/ Fail

Spec == Init /\ [][Next]_vars
=============================================================================
