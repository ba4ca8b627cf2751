-------------------------- MODULE ServerTemplates --------------------------
(***************************************************************************)
(* Server templates: the administrators' routes (routes/                   *)
(* server_templates.py), the templates every start of the API puts back    *)
(* (seed.py) and how a registration reads one                              *)
(* (routes/server_registrations.py).  A template is a row and two lists of *)
(* groups in tables of their own; handlers run in threads and read the     *)
(* three one after the other, without a lock.  The access wizard makes     *)
(* servers too (wizard_service.py:308), but uses no template.              *)
(***************************************************************************)
EXTENDS Naturals

CONSTANTS
  Names,        \* templates; a name is unique
  Home,         \* template -> the group its seed puts it into, or None
  Groups,       \* server groups
  Threads,      \* threads that run handlers
  None,         \* no row
  MaxRequests,  \* bound: requests
  MaxRestarts   \* bound: starts of the API

ASSUME TemplatesAssumption ==
  /\ Home \in [Names -> Groups \cup {None}]
  /\ {MaxRequests, MaxRestarts} \subseteq Nat

VARIABLES
  template,   \* server_templates: name -> row, or None
  defaults,   \* server_template_default_groups: name -> groups
  allowed,    \* server_template_allowed_groups: name -> groups
  enabled,    \* groups that are enabled
  server,     \* what servers registered with a template have of it
  task,       \* thread -> its handler
  budget      \* what is left of the bounds

vars == <<template, defaults, allowed, enabled, server, task, budget>>
-----------------------------------------------------------------------------
(* policy: host_key_policy; pin: whether expected_host_key_fingerprint is  *)
(* set.  A template that is disabled refuses a registration as a missing   *)
(* permission does.                                                        *)
Row == [policy : {"strict", "manual_fingerprint"}, pin : BOOLEAN]

ASSUME NoneIsNoRow == None \notin Row

NoRow == [policy |-> "strict", pin |-> FALSE]

(* The groups of every template, in either table of lists.                 *)
Lists == [Names -> SUBSET Groups]

(* What a server keeps: its template, groups, policy and fingerprint.      *)
Server == [of : Names, groups : SUBSET Groups,
           policy : {"strict", "manual_fingerprint"}, pin : BOOLEAN]

(* given: the lists a PATCH names.  d, a: the lists once they are read.    *)
Handler ==
  [job : {"idle", "create", "update", "allowed", "write", "register", "scope", "insert"},
   of : Names \cup {None}, seen : Row, new : Row,
   given : SUBSET {"defaults", "allowed"}, d : SUBSET Groups, a : SUBSET Groups]

Idle == [job |-> "idle", of |-> None, seen |-> NoRow, new |-> NoRow,
         given |-> {}, d |-> {}, a |-> {}]

Pinned(row) == row.policy = "manual_fingerprint" => row.pin

ValidGroups(d, a) == d \cup a \subseteq enabled /\ d \subseteq a

(* seed_demo_data: the group of a seeded template is put back into both    *)
(* lists.  No template is ever deleted.                                    *)
Seeded(list) == [n \in Names |-> list[n] \cup ({Home[n]} \ {None})]

Init ==
  /\ template \in [Names -> {row \in Row : Pinned(row)} \cup {None}]
  /\ \A n \in Names : template[n] = None <=> Home[n] = None
  /\ defaults = Seeded([n \in Names |-> {}]) /\ allowed = defaults
  /\ enabled = Groups
  /\ server = {}
  /\ task = [t \in Threads |-> Idle]
  /\ budget = [requests |-> MaxRequests, restarts |-> MaxRestarts]
-----------------------------------------------------------------------------
At(t, job) == task[t].job = job

Free(t) == At(t, "idle") /\ budget.requests > 0

Start(t, handler) ==
  /\ budget' = [budget EXCEPT !.requests = @ - 1]
  /\ task' = [task EXCEPT ![t] = handler]
  /\ UNCHANGED <<template, defaults, allowed, enabled, server>>

(* A handler that has only read: its next step, or its refusal.            *)
Read(t, handler) ==
  /\ task' = [task EXCEPT ![t] = handler]
  /\ UNCHANGED <<template, defaults, allowed, enabled, server, budget>>

Finish(t) == task' = [task EXCEPT ![t] = Idle] /\ UNCHANGED <<enabled, budget>>

(* A permission, an address or a connection test fails, or the lock times  *)
(* out.                                                                    *)
Refuse(t) == ~At(t, "idle") /\ Read(t, Idle)

(* update_group and delete_group of routes/access_groups.py.               *)
ToggleGroup(g) ==
  /\ enabled' = IF g \in enabled THEN enabled \ {g} ELSE enabled \cup {g}
  /\ budget.requests > 0 /\ budget' = [budget EXCEPT !.requests = @ - 1]
  /\ UNCHANGED <<template, defaults, allowed, server, task>>

Restart ==
  /\ budget.restarts > 0 /\ budget' = [budget EXCEPT !.restarts = @ - 1]
  /\ defaults' = Seeded(defaults) /\ allowed' = Seeded(allowed)
  /\ task' = [t \in Threads |-> Idle]
  /\ UNCHANGED <<template, enabled, server>>
-----------------------------------------------------------------------------
(* Mutant: like the columns, only the lists the request names are written. *)
ReplaceGiven(n, k) ==
  /\ defaults' = IF "defaults" \in k.given THEN [defaults EXCEPT ![n] = k.d] ELSE defaults
  /\ allowed' = IF "allowed" \in k.given THEN [allowed EXCEPT ![n] = k.a] ELSE allowed

(* _replace_groups: both lists are deleted and inserted again.             *)
ReplaceGroups(n, k) ==
  /\ defaults' = [defaults EXCEPT ![n] = k.d]
  /\ allowed' = [allowed EXCEPT ![n] = k.a]

StartCreate(t) ==
  /\ Free(t)
  /\ \E n \in Names, row \in Row, d, a \in SUBSET Groups :
       /\ template[n] = None
       /\ Pinned(row) /\ ValidGroups(d, a)
       /\ Start(t, [Idle EXCEPT !.job = "create", !.of = n, !.new = row, !.d = d, !.a = a,
                                !.given = {"defaults", "allowed"}])

(* A name that another thread has taken is an IntegrityError.              *)
CreateTemplate(t) ==
  LET k == task[t]
  IN /\ At(t, "create")
     /\ IF template[k.of] = None
        THEN template' = [template EXCEPT ![k.of] = k.new] /\ ReplaceGroups(k.of, k)
        ELSE UNCHANGED <<template, defaults, allowed>>
     /\ Finish(t) /\ UNCHANGED server

Named(list, given) == IF list \in given THEN SUBSET Groups ELSE {{}}

(* update_template loads the row and changes the columns that are named,   *)
(* then reads the lists that are not.                                      *)
StartUpdate(t) ==
  /\ Free(t)
  /\ \E n \in {m \in Names : template[m] # None} :
       \E row \in Row, given \in SUBSET {"defaults", "allowed"} :
         \E d \in Named("defaults", given), a \in Named("allowed", given) :
           Start(t, [job |-> "update", of |-> n, seen |-> template[n], new |-> row,
                     given |-> given, d |-> d, a |-> a])

ReadDefaults(t) ==
  LET k == task[t]
  IN /\ At(t, "update")
     /\ Read(t, [k EXCEPT !.job = "allowed",
                          !.d = IF "defaults" \in k.given THEN @ ELSE defaults[k.of]])

(* The lists are validated together, then the row as it was loaded.        *)
ReadAllowed(t) ==
  LET k == task[t]
      a == IF "allowed" \in k.given THEN k.a ELSE allowed[k.of]
  IN /\ At(t, "allowed")
     /\ Read(t, IF ValidGroups(k.d, a) /\ Pinned(k.new)
                THEN [k EXCEPT !.job = "write", !.a = a] ELSE Idle)

(* An UPDATE has the columns that differ from what was loaded.             *)
Merge(seen, new, now) == [c \in DOMAIN now |-> IF new[c] # seen[c] THEN new[c] ELSE now[c]]

UpdateTemplate(t) ==
  LET k == task[t]
  IN /\ At(t, "write")
     /\ template' = [template EXCEPT ![k.of] = Merge(k.seen, k.new, @)]
     /\ ReplaceGroups(k.of, k)
     /\ Finish(t) /\ UNCHANGED server
-----------------------------------------------------------------------------
(* register_server: the row of a template, its default groups with those  *)
(* asked for, and the groups it allows.                                    *)
StartRegister(t) ==
  /\ Free(t)
  /\ \E n \in Names, asked \in SUBSET Groups, own \in BOOLEAN :
       /\ template[n] # None
       /\ Start(t, [Idle EXCEPT !.job = "register", !.of = n, !.seen = template[n],
                                !.a = asked, !.new = [NoRow EXCEPT !.pin = own]])

ReadTargets(t) ==
  LET k == task[t]
  IN /\ At(t, "register")
     /\ Read(t, [k EXCEPT !.job = "scope", !.d = defaults[k.of] \cup k.a])

(* Mutant: a template with the manual policy is trusted to have a          *)
(* fingerprint.                                                            *)
FingerprintTrusted(k) == TRUE

(* The fingerprint of the template, or the request's own.                  *)
FingerprintKnown(k) ==
  k.seen.policy = "manual_fingerprint" => k.seen.pin \/ k.new.pin

CheckScope(t) ==
  LET k == task[t]
  IN /\ At(t, "scope")
     /\ Read(t, IF /\ k.d # {} /\ k.d \subseteq enabled \cap allowed[k.of]
                   /\ FingerprintKnown(k)
                THEN [k EXCEPT !.job = "insert"] ELSE Idle)

InsertServer(t) ==
  LET k == task[t]
  IN /\ At(t, "insert")
     /\ server' = server \cup {[of |-> k.of, groups |-> k.d, policy |-> k.seen.policy,
                                pin |-> k.seen.pin \/ k.new.pin]}
     /\ Finish(t) /\ UNCHANGED <<template, defaults, allowed>>
-----------------------------------------------------------------------------
Step(t) ==
  \/ StartCreate(t) \/ CreateTemplate(t)
  \/ StartUpdate(t) \/ ReadDefaults(t) \/ ReadAllowed(t) \/ UpdateTemplate(t)
  \/ StartRegister(t) \/ ReadTargets(t) \/ CheckScope(t) \/ InsertServer(t)
  \/ Refuse(t)

Next ==
  \/ \E t \in Threads : Step(t)
  \/ \E g \in Groups : ToggleGroup(g)
  \/ Restart

Spec == Init /\ [][Next]_vars
-----------------------------------------------------------------------------
(* The tables have the types of their columns, a handler those of what it  *)
(* has read.                                                               *)
TypeOK ==
  /\ template \in [Names -> Row \cup {None}]
  /\ defaults \in Lists /\ allowed \in Lists
  /\ enabled \subseteq Groups
  /\ server \subseteq Server
  /\ task \in [Threads -> Handler]
  /\ budget \in [requests : 0 .. MaxRequests, restarts : 0 .. MaxRestarts]

(* A template's default groups are among its allowed ones (_validate_groups *)
(* refuses anything else), although a PATCH that names one list validates   *)
(* it against another that it has read without a lock: a template that      *)
(* breaks this can register no server.                                      *)
DefaultsAreAllowed == \A n \in Names : defaults[n] \subseteq allowed[n]

(* No server is registered through /servers with the manual policy and no  *)
(* fingerprint to compare with, even though two PATCHes, one of the policy *)
(* and one of the fingerprint, may together leave such a template.  It     *)
(* says nothing of servers the access wizard makes from a draft.           *)
ManualServersArePinned == \A s \in server : s.policy = "manual_fingerprint" => s.pin
=============================================================================
