----------------------- MODULE ServerTemplatesProofs -----------------------
(***************************************************************************)
(* What ServerTemplates promises for any number of templates, groups and   *)
(* threads.  A handler that is about to write has validated the two lists  *)
(* it will write, and one that is about to insert a server has seen a      *)
(* fingerprint if it has seen the manual policy: that is all the           *)
(* strengthening it takes, because neither depends on what other handlers  *)
(* have committed meanwhile.                                               *)
(***************************************************************************)
EXTENDS ServerTemplates, TLAPS

USE DEF Lists

Validated(k) ==
  /\ k.job # "idle" => k.of \in Names
  /\ k.job \in {"update", "allowed", "write"} => template[k.of] # None
  /\ k.job \in {"create", "write"} => k.d \subseteq k.a
  /\ k.job = "insert" => FingerprintKnown(k)

IInv ==
  /\ TypeOK
  /\ DefaultsAreAllowed
  /\ ManualServersArePinned
  /\ \A t \in Threads : Validated(task[t])

LEMMA IdleIsHandler == Idle \in Handler /\ Validated(Idle) /\ Idle.job = "idle"
  BY DEF Idle, Handler, NoRow, Row, Validated

(* A step that only replaces one handler by a validated one.               *)
LEMMA OneHandler ==
  ASSUME IInv, NEW t \in Threads, NEW k \in Handler, Validated(k),
         task' = [task EXCEPT ![t] = k],
         UNCHANGED <<template, defaults, allowed, enabled, server>>,
         budget' \in [requests : 0 .. MaxRequests, restarts : 0 .. MaxRestarts]
  PROVE  IInv'
  <1>1. \A u \in Threads : task'[u] = IF u = t THEN k ELSE task[u]
    BY DEF IInv, TypeOK
  <1>2. TypeOK'
    BY DEF IInv, TypeOK
  <1>3. \A u \in Threads : Validated(task[u])'
    BY <1>1 DEF IInv, Validated, FingerprintKnown
  <1> QED  BY <1>2, <1>3 DEF IInv, DefaultsAreAllowed, ManualServersArePinned

LEMMA SpentBudget ==
  ASSUME TypeOK, budget.requests > 0
  PROVE  [budget EXCEPT !.requests = @ - 1] \in [requests : 0 .. MaxRequests, restarts : 0 .. MaxRestarts]
  BY TemplatesAssumption DEF TypeOK

LEMMA InitInvariant == Init => IInv
  <1> SUFFICES ASSUME Init PROVE IInv  OBVIOUS
  <1>1. TypeOK
    BY IdleIsHandler, TemplatesAssumption DEF Init, TypeOK, Seeded
  <1>2. \A t \in Threads : Validated(task[t])
    BY IdleIsHandler DEF Init
  <1> QED  BY <1>1, <1>2 DEF Init, IInv, DefaultsAreAllowed, ManualServersArePinned

(* Both lists of a template are written together.                          *)
LEMMA ListsTogether ==
  ASSUME IInv, NEW t \in Threads, task[t].job \in {"create", "write"},
         ReplaceGroups(task[t].of, task[t])
  PROVE  /\ defaults' \in [Names -> SUBSET Groups] /\ allowed' \in [Names -> SUBSET Groups]
         /\ DefaultsAreAllowed'
  <1>1. task[t] \in Handler /\ task[t].d \subseteq task[t].a
    BY DEF IInv, TypeOK, Validated
  <1>2. task[t].d \subseteq Groups /\ task[t].a \subseteq Groups
    BY <1>1 DEF Handler
  <1> QED  BY <1>1, <1>2 DEF ReplaceGroups, IInv, TypeOK, DefaultsAreAllowed

(* A commit that ends its handler and leaves the servers alone.            *)
LEMMA EndOfWrite ==
  ASSUME IInv, NEW t \in Threads, Finish(t), server' = server,
         template' \in [Names -> Row \cup {None}],
         defaults' \in [Names -> SUBSET Groups], allowed' \in [Names -> SUBSET Groups],
         DefaultsAreAllowed',
         \A n \in Names : template[n] # None => template'[n] # None
  PROVE  IInv'
  <1>1. \A u \in Threads : task'[u] = IF u = t THEN Idle ELSE task[u]
    BY DEF IInv, TypeOK, Finish
  <1>2. TypeOK'
    BY IdleIsHandler DEF IInv, TypeOK, Finish
  <1>3. \A u \in Threads : Validated(task[u])'
    BY <1>1, IdleIsHandler DEF IInv, Validated, FingerprintKnown
  <1> QED  BY <1>2, <1>3 DEF IInv, ManualServersArePinned

LEMMA StepKeeps ==
  ASSUME IInv, NEW t \in Threads, Step(t)
  PROVE  IInv'
  <1> DEFINE k == task[t]
             Budgets == [requests : 0 .. MaxRequests, restarts : 0 .. MaxRestarts]
  <1>0. k \in Handler /\ budget \in Budgets /\ Validated(k)
    BY DEF IInv, TypeOK
  <1>1. CASE StartCreate(t)
    <2>1. PICK n \in Names, row \in Row, d \in SUBSET Groups, a \in SUBSET Groups :
            /\ ValidGroups(d, a)
            /\ Start(t, [Idle EXCEPT !.job = "create", !.of = n, !.new = row, !.d = d, !.a = a,
                                     !.given = {"defaults", "allowed"}])
      BY <1>1 DEF StartCreate
    <2> DEFINE h == [Idle EXCEPT !.job = "create", !.of = n, !.new = row, !.d = d, !.a = a,
                                 !.given = {"defaults", "allowed"}]
    <2>2. h \in Handler /\ h.job = "create" /\ h.of = n /\ h.d = d /\ h.a = a
      BY DEF Idle, Handler, NoRow, Row
    <2> HIDE DEF h
    <2>3. Validated(h)  BY <2>1, <2>2 DEF Validated, ValidGroups
    <2>4. budget' \in Budgets  BY <1>1, <2>1, SpentBudget DEF StartCreate, Free, Start, IInv
    <2> QED  BY <2>1, <2>2, <2>3, <2>4, OneHandler DEF Start, h
  <1>2. CASE StartUpdate(t)
    <2>1. PICK n \in Names, row \in Row, given \in SUBSET {"defaults", "allowed"},
               d \in SUBSET Groups, a \in SUBSET Groups :
            /\ template[n] # None
            /\ Start(t, [job |-> "update", of |-> n, seen |-> template[n], new |-> row,
                         given |-> given, d |-> d, a |-> a])
      BY <1>2 DEF StartUpdate, Named
    <2> DEFINE h == [job |-> "update", of |-> n, seen |-> template[n], new |-> row,
                     given |-> given, d |-> d, a |-> a]
    <2>2. h \in Handler /\ h.job = "update" /\ h.of = n
      BY <2>1 DEF Handler, IInv, TypeOK
    <2> HIDE DEF h
    <2>3. Validated(h)  BY <2>1, <2>2 DEF Validated
    <2>4. budget' \in Budgets  BY <1>2, <2>1, SpentBudget DEF StartUpdate, Free, Start, IInv
    <2> QED  BY <2>1, <2>2, <2>3, <2>4, OneHandler DEF Start, h
  <1>3. CASE StartRegister(t)
    <2>1. PICK n \in Names, asked \in SUBSET Groups, own \in BOOLEAN :
            /\ template[n] # None
            /\ Start(t, [Idle EXCEPT !.job = "register", !.of = n, !.seen = template[n],
                                     !.a = asked, !.new = [NoRow EXCEPT !.pin = own]])
      BY <1>3 DEF StartRegister
    <2> DEFINE h == [Idle EXCEPT !.job = "register", !.of = n, !.seen = template[n],
                                 !.a = asked, !.new = [NoRow EXCEPT !.pin = own]]
    <2>2. template[n] \in Row  BY <2>1 DEF IInv, TypeOK
    <2>3. h \in Handler /\ h.job = "register" /\ h.of = n
      BY <2>2 DEF Idle, Handler, NoRow, Row
    <2> HIDE DEF h
    <2>4. Validated(h)  BY <2>3 DEF Validated
    <2>5. budget' \in Budgets  BY <1>3, <2>1, SpentBudget DEF StartRegister, Free, Start, IInv
    <2> QED  BY <2>1, <2>3, <2>4, <2>5, OneHandler DEF Start, h
  <1>4. CASE ReadDefaults(t)
    <2> DEFINE d == IF "defaults" \in k.given THEN k.d ELSE defaults[k.of]
               h == [k EXCEPT !.job = "allowed", !.d = d]
    <2>1. k.of \in Names /\ template[k.of] # None
      BY <1>0, <1>4 DEF ReadDefaults, At, Validated
    <2>2. d \in SUBSET Groups  BY <2>1, <1>0 DEF IInv, TypeOK, Handler
    <2> HIDE DEF d
    <2>3. h \in Handler /\ h.job = "allowed" /\ h.of = k.of
      BY <1>0, <2>2 DEF Handler
    <2>4. Validated(h)  BY <2>1, <2>3 DEF Validated
    <2>5. Read(t, h)  BY <1>4 DEF ReadDefaults, d
    <2> HIDE DEF h
    <2> QED  BY <1>0, <2>3, <2>4, <2>5, OneHandler DEF Read
  <1>5. CASE ReadAllowed(t)
    <2> DEFINE a == IF "allowed" \in k.given THEN k.a ELSE allowed[k.of]
               h == [k EXCEPT !.job = "write", !.a = a]
    <2>1. k.of \in Names /\ template[k.of] # None
      BY <1>0, <1>5 DEF ReadAllowed, At, Validated
    <2>2. a \in SUBSET Groups  BY <2>1, <1>0 DEF IInv, TypeOK, Handler
    <2> HIDE DEF a
    <2>3. /\ h \in Handler /\ h.job = "write" /\ h.of = k.of
          /\ h.d = k.d /\ h.a = a
      BY <1>0, <2>2 DEF Handler
    <2>4. Read(t, IF ValidGroups(k.d, a) /\ Pinned(k.new) THEN h ELSE Idle)
      BY <1>5 DEF ReadAllowed, a
    <2> HIDE DEF h
    <2>5. CASE ValidGroups(k.d, a) /\ Pinned(k.new)
      <3>1. Validated(h)  BY <2>1, <2>3, <2>5 DEF Validated, ValidGroups
      <3> QED  BY <1>0, <2>3, <2>4, <2>5, <3>1, OneHandler DEF Read
    <2>6. CASE ~(ValidGroups(k.d, a) /\ Pinned(k.new))
      BY <1>0, <2>4, <2>6, IdleIsHandler, OneHandler DEF Read
    <2> QED  BY <2>5, <2>6
  <1>6. CASE ReadTargets(t)
    <2> DEFINE d == defaults[k.of] \cup k.a
               h == [k EXCEPT !.job = "scope", !.d = d]
    <2>1. k.of \in Names  BY <1>0, <1>6 DEF ReadTargets, At, Validated
    <2>2. d \in SUBSET Groups  BY <2>1, <1>0 DEF IInv, TypeOK, Handler
    <2> HIDE DEF d
    <2>3. h \in Handler /\ h.job = "scope" /\ h.of = k.of
      BY <1>0, <2>2 DEF Handler
    <2>4. Validated(h)  BY <2>1, <2>3 DEF Validated
    <2>5. Read(t, h)  BY <1>6 DEF ReadTargets, d
    <2> HIDE DEF h
    <2> QED  BY <1>0, <2>3, <2>4, <2>5, OneHandler DEF Read
  <1>7. CASE CheckScope(t)
    <2> DEFINE h == [k EXCEPT !.job = "insert"]
               ok == k.d # {} /\ k.d \subseteq enabled \cap allowed[k.of] /\ FingerprintKnown(k)
    <2>1. k.of \in Names  BY <1>0, <1>7 DEF CheckScope, At, Validated
    <2>2. /\ h \in Handler /\ h.job = "insert" /\ h.of = k.of
          /\ h.seen = k.seen /\ h.new = k.new
      BY <1>0 DEF Handler
    <2>3. Read(t, IF ok THEN h ELSE Idle)  BY <1>7 DEF CheckScope
    <2> HIDE DEF h
    <2>4. CASE ok
      <3>1. Validated(h)  BY <2>1, <2>2, <2>4 DEF Validated, FingerprintKnown
      <3> QED  BY <1>0, <2>2, <2>3, <2>4, <3>1, OneHandler DEF Read
    <2>5. CASE ~ok
      BY <1>0, <2>3, <2>5, IdleIsHandler, OneHandler DEF Read
    <2> QED  BY <2>4, <2>5
  <1>8. CASE Refuse(t)
    BY <1>0, <1>8, IdleIsHandler, OneHandler DEF Refuse, Read
  <1>9. CASE CreateTemplate(t)
    <2>1. k.of \in Names /\ k.new \in Row
      BY <1>0, <1>9 DEF CreateTemplate, At, Validated, Handler
    <2>2. CASE template[k.of] = None
      <3>1. template' \in [Names -> Row \cup {None}]
        BY <1>9, <2>1, <2>2 DEF CreateTemplate, IInv, TypeOK
      <3>2. \A n \in Names : template[n] # None => template'[n] # None
        BY <1>9, <2>2 DEF CreateTemplate, IInv, TypeOK
      <3> QED  BY <1>9, <2>2, <3>1, <3>2, ListsTogether, EndOfWrite DEF CreateTemplate, At
    <2>3. CASE template[k.of] # None
      BY <1>9, <2>3, EndOfWrite DEF CreateTemplate, IInv, TypeOK, DefaultsAreAllowed
    <2> QED  BY <2>2, <2>3
  <1>10. CASE UpdateTemplate(t)
    <2> DEFINE row == Merge(k.seen, k.new, template[k.of])
    <2>1. /\ k.of \in Names /\ k.new \in Row /\ k.seen \in Row
          /\ template[k.of] \in Row
      BY <1>0, <1>10 DEF UpdateTemplate, At, Validated, Handler, IInv, TypeOK
    <2>2. row \in Row  BY <2>1 DEF Merge, Row
    <2>3. template' = [template EXCEPT ![k.of] = row]  BY <1>10 DEF UpdateTemplate
    <2> HIDE DEF row
    <2>4. template' \in [Names -> Row \cup {None}]
      BY <2>1, <2>2, <2>3 DEF IInv, TypeOK
    <2>5. \A n \in Names : template[n] # None => template'[n] # None
      BY <2>1, <2>2, <2>3, NoneIsNoRow DEF IInv, TypeOK
    <2> QED  BY <1>10, <2>4, <2>5, ListsTogether, EndOfWrite DEF UpdateTemplate, At
  <1>11. CASE InsertServer(t)
    <2> DEFINE s == [of |-> k.of, groups |-> k.d, policy |-> k.seen.policy,
                     pin |-> k.seen.pin \/ k.new.pin]
    <2>1. FingerprintKnown(k) /\ k.of \in Names
      BY <1>0, <1>11 DEF InsertServer, At, Validated
    <2>2. s \in Server  BY <1>0, <2>1 DEF Handler, Row, Server
    <2>3. s.policy = "manual_fingerprint" => s.pin  BY <2>1 DEF FingerprintKnown
    <2>4. server' = server \cup {s}  BY <1>11 DEF InsertServer
    <2> HIDE DEF s
    <2>5. \A u \in Threads : task'[u] = IF u = t THEN Idle ELSE task[u]
      BY <1>11 DEF InsertServer, Finish, IInv, TypeOK
    <2>6. TypeOK'
      BY <1>11, <2>2, <2>4, IdleIsHandler DEF InsertServer, Finish, IInv, TypeOK
    <2>7. ManualServersArePinned'
      BY <2>3, <2>4 DEF IInv, ManualServersArePinned
    <2>8. \A u \in Threads : Validated(task[u])'
      BY <1>11, <2>5, IdleIsHandler DEF InsertServer, IInv, Validated, FingerprintKnown
    <2> QED  BY <1>11, <2>6, <2>7, <2>8 DEF InsertServer, IInv, DefaultsAreAllowed
  <1> QED
    BY <1>1, <1>2, <1>3, <1>4, <1>5, <1>6, <1>7, <1>8, <1>9, <1>10, <1>11 DEF Step

LEMMA RestartKeeps ==
  ASSUME IInv, Restart
  PROVE  IInv'
  <1>1. TypeOK'
    BY IdleIsHandler, TemplatesAssumption DEF IInv, TypeOK, Restart, Seeded
  <1>2. DefaultsAreAllowed'
    BY DEF IInv, DefaultsAreAllowed, Restart, Seeded
  <1>3. \A t \in Threads : Validated(task[t])'
    BY IdleIsHandler DEF Restart, Validated, FingerprintKnown
  <1> QED  BY <1>1, <1>2, <1>3 DEF IInv, ManualServersArePinned, Restart

LEMMA ToggleKeeps ==
  ASSUME IInv, NEW g \in Groups, ToggleGroup(g)
  PROVE  IInv'
  <1>1. TypeOK'
    BY SpentBudget DEF IInv, TypeOK, ToggleGroup
  <1> QED  BY <1>1 DEF IInv, DefaultsAreAllowed, ManualServersArePinned, ToggleGroup,
                       Validated, FingerprintKnown

LEMMA NextKeeps == IInv /\ [Next]_vars => IInv'
  <1> SUFFICES ASSUME IInv, [Next]_vars PROVE IInv'  OBVIOUS
  <1>1. CASE UNCHANGED vars
    BY <1>1 DEF vars, IInv, TypeOK, DefaultsAreAllowed, ManualServersArePinned,
                Validated, FingerprintKnown
  <1> QED  BY <1>1, StepKeeps, ToggleKeeps, RestartKeeps DEF Next

(* The invariant holds in every reachable state.                           *)
LEMMA InvariantHolds == Spec => []IInv
  BY InitInvariant, NextKeeps, PTL DEF Spec

(* Every table and every handler keeps its type.                           *)
THEOREM TemplatesTypeCorrect == Spec => []TypeOK
  BY InvariantHolds, PTL DEF IInv

(* However PATCHes, restarts and reads interleave, the default groups of a *)
(* template are among those it allows.                                     *)
THEOREM DefaultsStayAllowed == Spec => []DefaultsAreAllowed
  BY InvariantHolds, PTL DEF IInv

(* No registration through /servers makes a server with the manual host    *)
(* key policy and no fingerprint, whatever two PATCHes have left of its    *)
(* template.                                                               *)
THEOREM ServersStayPinned == Spec => []ManualServersArePinned
  BY InvariantHolds, PTL DEF IInv
=============================================================================
