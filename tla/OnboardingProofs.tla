------------------------- MODULE OnboardingProofs -------------------------
(***************************************************************************)
(* What Onboarding promises for any number of places, keys, threads and    *)
(* completions.  The strengthening relates what a handler has loaded to    *)
(* the rows as they are: an edit never carries another source or key than  *)
(* the row has, a completion that is about to apply has tested what its    *)
(* own copy of the draft names, and every registration under way was       *)
(* counted below the limit.                                                *)
(***************************************************************************)
EXTENDS Onboarding, FiniteSetTheorems, TLAPS

(* What a draft names exists; servers are never removed.                   *)
Fits(d) == IF d.mode = "create_resource" THEN d.to \in Places ELSE d.to \in DOMAIN server

Completion == [pc : {"idle", "read", "test", "apply"}, key : Keys \cup {None}, draft : Draft,
               tested : Places \cup Nat \cup {None}]

(* A completion works on a draft that fits, and applies what it tested.    *)
Prepared(c) ==
  /\ c.pc # "idle" => c.key \in Keys /\ Fits(c.draft)
  /\ c.pc = "apply" /\ c.draft.mode = "create_resource" => c.tested = c.draft.to

(* No handler moves a server to another source or key.                     *)
KeepsOrigin(k) == k.job = "change" => k.new.source = k.seen.source /\ k.new.by = k.seen.by

Tables ==
  /\ server \in Seq(Row)
  /\ identity \in [Places -> 0 .. Len(server)] /\ replay \in [Keys -> 0 .. Len(server)]
  /\ submitted \subseteq Keys /\ safes \subseteq Places /\ member \subseteq DOMAIN server
  /\ budget \in [requests : 0 .. MaxRequests, faults : 0 .. MaxFaults]

Handlers == task \in [Threads -> Tasks] /\ \A t \in Threads : KeepsOrigin(task[t])

Completions ==
  /\ draft \in Draft /\ (draft.on => Fits(draft))
  /\ call \in [Wizards -> Completion] /\ \A z \in Wizards : Prepared(call[z])
  /\ lock \in Wizards \cup {None} /\ (lock # None => call[lock].pc \in {"test", "apply"})
  /\ loop \in Wizards \cup {None}
  /\ \A z \in Wizards : loop = z <=> call[z].pc \in {"read", "apply"}

(* A server the wizard has created holds a key that is used up.            *)
WizardKeys == \A i \in DOMAIN server : server[i].source = "wizard" => server[i].by \in submitted

Origins == RegistrationKeepsItsPlace /\ WizardKeys /\ SubmissionIsOneResource

(* Registrations past their count, finished or not.                        *)
Registering == {t \in Threads : task[t].job = "register"}

Counted == Cardinality(Registered) + Cardinality(Registering) <= RateLimit + Cardinality(Threads) - 1

IInv == Tables /\ Handlers /\ Completions /\ Origins /\ Counted
-----------------------------------------------------------------------------
(* Servers are only appended.                                              *)
Grown == server' \in Seq(Row) /\ Len(server) <= Len(server')

LEMMA ServerRows ==
  ASSUME server \in Seq(Row)
  PROVE  /\ Len(server) \in Nat /\ DOMAIN server = 1 .. Len(server)
         /\ \A i \in DOMAIN server : server[i] \in Row
  OBVIOUS

LEMMA GrownDomain ==
  ASSUME server \in Seq(Row), Grown
  PROVE  /\ DOMAIN server \subseteq DOMAIN server'
         /\ 0 .. Len(server) \subseteq 0 .. Len(server')
  BY DEF Grown

LEMMA Appended ==
  ASSUME server \in Seq(Row), NEW row \in Row, server' = Append(server, row)
  PROVE  /\ Grown /\ Len(server') = Len(server) + 1
         /\ DOMAIN server' = DOMAIN server \cup {Len(server) + 1}
         /\ Len(server) + 1 \notin DOMAIN server
         /\ server'[Len(server) + 1] = row
         /\ \A i \in DOMAIN server : server'[i] = server[i]
  BY DEF Grown

LEMMA TypesFollow == IInv => TypeOK
  BY DEF IInv, Tables, Handlers, Completions, TypeOK, Completion

LEMMA IdleIsTask == Idle \in Tasks /\ KeepsOrigin(Idle) /\ Idle.job = "idle"
  BY DEF Idle, Tasks, KeepsOrigin

LEMMA TasksGrow ==
  ASSUME server \in Seq(Row), Grown, NEW k \in Tasks
  PROVE  (k \in Tasks)'
  <1>1. DOMAIN server \subseteq DOMAIN server'
    BY GrownDomain
  <1> QED  BY <1>1 DEF Tasks

(* At most one handler is replaced, by one that keeps what it must.        *)
LEMMA HandlersMove ==
  ASSUME Tables, Handlers, Grown, NEW t \in Threads, NEW k \in Tasks, KeepsOrigin(k),
         task' = task \/ task' = [task EXCEPT ![t] = k]
  PROVE  Handlers'
  <1>1. \A u \in Threads : task'[u] = task[u] \/ task'[u] = k
    BY DEF Handlers
  <1>2. ASSUME NEW u \in Threads PROVE (task[u] \in Tasks /\ KeepsOrigin(task[u]))'
    <2>1. PICK j \in Tasks : j = task'[u] /\ KeepsOrigin(j)
      BY <1>1 DEF Handlers
    <2>2. (j \in Tasks)'
      BY <2>1, TasksGrow DEF Tables
    <2> QED  BY <2>1, <2>2 DEF KeepsOrigin
  <1>3. task' = [u \in Threads |-> task'[u]]
    BY DEF Handlers
  <1> QED  BY <1>2, <1>3 DEF Handlers

LEMMA FitsStill ==
  ASSUME server \in Seq(Row), Grown, NEW d, Fits(d)
  PROVE  Fits(d)'
  BY GrownDomain DEF Fits

LEMMA PreparedStill ==
  ASSUME server \in Seq(Row), Grown, NEW c, Prepared(c)
  PROVE  Prepared(c)'
  BY FitsStill DEF Prepared

LEMMA CompletionsStay ==
  ASSUME Tables, Completions, Grown, UNCHANGED <<draft, call, lock, loop>>
  PROVE  Completions'
  <1>1. server \in Seq(Row)
    BY DEF Tables
  <1>2. (draft.on => Fits(draft))'
    <2> SUFFICES ASSUME draft.on PROVE Fits(draft)'
      BY DEF Fits
    <2>1. PICK d : d = draft /\ Fits(d)
      BY DEF Completions
    <2>2. Fits(d)'
      BY <1>1, <2>1, FitsStill
    <2> QED  BY <2>1, <2>2 DEF Fits
  <1>3. ASSUME NEW z \in Wizards PROVE Prepared(call[z])'
    <2>1. PICK c : c = call[z] /\ Prepared(c)
      BY DEF Completions
    <2>2. Prepared(c)'
      BY <1>1, <2>1, PreparedStill
    <2> QED  BY <2>1, <2>2 DEF Prepared, Fits
  <1> QED  BY <1>2, <1>3 DEF Completions
-----------------------------------------------------------------------------
(* The count of registrations.                                             *)
LEMMA FiniteCounts ==
  ASSUME Tables
  PROVE  /\ IsFiniteSet(Registered) /\ IsFiniteSet(Registering)
         /\ Cardinality(Registered) \in Nat /\ Cardinality(Registering) \in Nat
         /\ Cardinality(Registering) <= Cardinality(Threads)
         /\ Cardinality(Threads) \in Nat \ {0} /\ RateLimit \in Nat
  <1>1. IsFiniteSet(DOMAIN server)
    <2>1. DOMAIN server = 1 .. Len(server) /\ Len(server) \in Nat
      BY ServerRows DEF Tables
    <2> QED  BY <2>1, FS_Interval
  <1>2. IsFiniteSet(Threads) /\ Threads # {}
    BY OnboardingAssumption
  <1>3. Registered \subseteq DOMAIN server /\ Registering \subseteq Threads
    BY DEF Registered, Registering
  <1>4. IsFiniteSet(Registered) /\ IsFiniteSet(Registering)
        /\ Cardinality(Registering) <= Cardinality(Threads)
    BY <1>1, <1>2, <1>3, FS_Subset
  <1>5. /\ Cardinality(Registered) \in Nat /\ Cardinality(Registering) \in Nat
        /\ Cardinality(Threads) \in Nat
    BY <1>2, <1>4, FS_CardinalityType
  <1>6. Cardinality(Threads) # 0
    BY <1>2, FS_EmptySet
  <1> QED  BY <1>4, <1>5, <1>6, OnboardingAssumption

LEMMA CountStays ==
  ASSUME IInv, Registered' \subseteq Registered, Registering' \subseteq Registering
  PROVE  Counted'
  <1>1. /\ IsFiniteSet(Registered) /\ IsFiniteSet(Registering)
        /\ Cardinality(Registered) \in Nat /\ Cardinality(Registering) \in Nat
        /\ Cardinality(Threads) \in Nat /\ RateLimit \in Nat
    BY FiniteCounts DEF IInv
  <1>2. /\ IsFiniteSet(Registered') /\ IsFiniteSet(Registering')
        /\ Cardinality(Registered') <= Cardinality(Registered)
        /\ Cardinality(Registering') <= Cardinality(Registering)
    BY <1>1, FS_Subset
  <1>3. Cardinality(Registered') \in Nat /\ Cardinality(Registering') \in Nat
    BY <1>2, FS_CardinalityType
  <1> QED  BY <1>1, <1>2, <1>3 DEF IInv, Counted

(* A registration that passes the count starts.                            *)
LEMMA CountStarts ==
  ASSUME IInv, Tables', WithinRate, Registered' = Registered
  PROVE  Counted'
  <1>1. /\ Cardinality(Registered) \in Nat /\ Cardinality(Threads) \in Nat \ {0} /\ RateLimit \in Nat
    BY FiniteCounts DEF IInv
  <1>2. Cardinality(Registering') \in Nat /\ Cardinality(Registering') <= Cardinality(Threads)
    <2>1. IsFiniteSet(Threads) /\ Registering' \subseteq Threads
      BY OnboardingAssumption DEF Registering
    <2> QED  BY <2>1, FS_Subset, FS_CardinalityType
  <1> QED  BY <1>1, <1>2 DEF WithinRate, Counted

(* One ends, and at most one server has been inserted.                     *)
LEMMA CountEnds ==
  ASSUME IInv, NEW t \in Registering, NEW i, Registered' \subseteq Registered \cup {i},
         Registering' \subseteq Registering \ {t}
  PROVE  Counted'
  <1>1. /\ IsFiniteSet(Registered) /\ IsFiniteSet(Registering)
        /\ Cardinality(Registered) \in Nat /\ Cardinality(Registering) \in Nat
        /\ Cardinality(Threads) \in Nat /\ RateLimit \in Nat
    BY FiniteCounts DEF IInv
  <1> DEFINE R == Registered \cup {i}
             B == Registering \ {t}
  <1>2. IsFiniteSet(R) /\ Cardinality(R) <= Cardinality(Registered) + 1
    <2>1. /\ IsFiniteSet(R)
          /\ Cardinality(R) = IF i \in Registered THEN Cardinality(Registered)
                              ELSE Cardinality(Registered) + 1
      BY <1>1, FS_AddElement
    <2> QED  BY <1>1, <2>1
  <1>3. IsFiniteSet(B) /\ Cardinality(B) = Cardinality(Registering) - 1
    BY <1>1, FS_RemoveElement
  <1>4. IsFiniteSet(Registered') /\ Cardinality(Registered') <= Cardinality(R)
    BY <1>2, FS_Subset
  <1>5. IsFiniteSet(Registering') /\ Cardinality(Registering') <= Cardinality(B)
    BY <1>3, FS_Subset
  <1>6. /\ Cardinality(Registered') \in Nat /\ Cardinality(Registering') \in Nat
        /\ Cardinality(R) \in Nat /\ Cardinality(B) \in Nat
    BY <1>2, <1>3, <1>4, <1>5, FS_CardinalityType
  <1> HIDE DEF R, B
  <1> QED  BY <1>1, <1>2, <1>3, <1>4, <1>5, <1>6 DEF IInv, Counted
-----------------------------------------------------------------------------
(* Rows keep where they come from, whatever else is changed in them.       *)
LEMMA OriginsStay ==
  ASSUME IInv, DOMAIN server' = DOMAIN server,
         \A i \in DOMAIN server : /\ server'[i].source = server[i].source
                                  /\ server'[i].by = server[i].by,
         UNCHANGED <<identity, replay>>, submitted \subseteq submitted'
  PROVE  Origins' /\ Registered' = Registered
  <1>1. Registered' = Registered
    BY DEF Registered
  <1>2. RegistrationKeepsItsPlace'
    BY <1>1 DEF IInv, Origins, RegistrationKeepsItsPlace, Registered
  <1>3. WizardKeys'
    BY DEF IInv, Origins, WizardKeys
  <1>4. SubmissionIsOneResource'
    BY DEF IInv, Origins, SubmissionIsOneResource
  <1> QED  BY <1>1, <1>2, <1>3, <1>4 DEF Origins

(* A server that was not registered is appended.                           *)
LEMMA OriginsAppend ==
  ASSUME IInv, NEW row \in Row, server' = Append(server, row), row.source # "api",
         row.source = "wizard" => row.by \notin submitted /\ row.by \in submitted',
         UNCHANGED <<identity, replay>>, submitted \subseteq submitted'
  PROVE  Origins' /\ Registered' = Registered
  <1> DEFINE n == Len(server) + 1
  <1>1. /\ DOMAIN server' = DOMAIN server \cup {n} /\ n \notin DOMAIN server
        /\ server'[n] = row /\ \A i \in DOMAIN server : server'[i] = server[i]
    BY Appended DEF IInv, Tables
  <1> HIDE DEF n
  <1>2. Registered' = Registered
    BY <1>1 DEF Registered
  <1>3. RegistrationKeepsItsPlace'
    BY <1>1, <1>2 DEF IInv, Origins, RegistrationKeepsItsPlace, Registered
  <1>4. WizardKeys'
    BY <1>1 DEF IInv, Origins, WizardKeys
  <1>5. SubmissionIsOneResource'
    BY <1>1 DEF IInv, Origins, WizardKeys, SubmissionIsOneResource
  <1> QED  BY <1>2, <1>3, <1>4, <1>5 DEF Origins

(* A registered server is appended with the rows that claim its place and  *)
(* answer its key.                                                         *)
LEMMA OriginsRegister ==
  ASSUME IInv, NEW p \in Places, NEW k \in Keys \cup {None}, NEW row \in Row,
         row.source = "api", row.by = k, PlaceUnclaimed(p), KeyUnused(k),
         server' = Append(server, row), submitted' = submitted,
         identity' = [identity EXCEPT ![p] = Len(server) + 1],
         replay' = [q \in Keys |-> IF q = k THEN Len(server) + 1 ELSE replay[q]]
  PROVE  Origins' /\ Registered' = Registered \cup {Len(server) + 1}
  <1> DEFINE n == Len(server) + 1
  <1>1. /\ DOMAIN server' = DOMAIN server \cup {n} /\ n \notin DOMAIN server
        /\ server'[n] = row /\ \A i \in DOMAIN server : server'[i] = server[i]
        /\ \A i \in DOMAIN server : i # 0
    BY Appended, ServerRows DEF IInv, Tables
  <1>2. \A i \in DOMAIN server : server[i].by \in Keys \cup {None}
    BY ServerRows DEF IInv, Tables, Row
  <1>3. /\ identity' \in [Places -> 0 .. Len(server) + 1]
        /\ \A q \in Places : identity'[q] = IF q = p THEN n ELSE identity[q]
    BY DEF IInv, Tables
  <1>4. \A q \in Keys : replay'[q] = IF q = k THEN n ELSE replay[q]
    BY DEF IInv, Tables
  <1> HIDE DEF n
  <1>5. Registered' = Registered \cup {n}
    BY <1>1 DEF Registered
  <1>6. ASSUME NEW i \in Registered
        PROVE  /\ \E q \in Places : identity'[q] = i
               /\ server'[i].by # None => replay'[server'[i].by] = i
    <2>1. i \in DOMAIN server /\ i # 0 /\ server'[i] = server[i]
      BY <1>1 DEF Registered
    <2>2. PICK q \in Places : identity[q] = i
      BY DEF IInv, Origins, RegistrationKeepsItsPlace
    <2>3. q # p
      BY <2>1, <2>2 DEF PlaceUnclaimed
    <2>4. server[i].by # None => replay[server[i].by] = i /\ server[i].by \in Keys
      BY <1>2, <2>1 DEF IInv, Origins, RegistrationKeepsItsPlace
    <2>5. server[i].by # None => server[i].by # k
      BY <2>1, <2>4 DEF KeyUnused
    <2> QED  BY <1>3, <1>4, <2>1, <2>2, <2>3, <2>4, <2>5
  <1>7. /\ identity'[p] = n
        /\ server'[n].by # None => replay'[server'[n].by] = n
    BY <1>1, <1>3, <1>4
  <1>8. RegistrationKeepsItsPlace'
    BY <1>5, <1>6, <1>7 DEF RegistrationKeepsItsPlace
  <1>9. WizardKeys' /\ SubmissionIsOneResource'
    BY <1>1 DEF IInv, Origins, WizardKeys, SubmissionIsOneResource
  <1> QED  BY <1>5, <1>8, <1>9 DEF Origins, n
-----------------------------------------------------------------------------
Budget == [requests : 0 .. MaxRequests, faults : 0 .. MaxFaults]

LEMMA Spent ==
  ASSUME Tables, Spend
  PROVE  budget' \in Budget
  BY OnboardingAssumption DEF Tables, Spend, Budget

(* The rows stay.                                                          *)
LEMMA RowsStay ==
  ASSUME IInv, UNCHANGED <<server, identity, replay, submitted, safes, member>>, budget' \in Budget
  PROVE  Tables' /\ Grown /\ Origins' /\ Registered' = Registered
  <1>1. Tables' /\ Grown
    BY ServerRows DEF IInv, Tables, Grown, Budget
  <1> QED  BY <1>1, OriginsStay

LEMMA Ended ==
  ASSUME IInv, NEW t \in Threads, Finish(t), Grown
  PROVE  Handlers' /\ Registering' = Registering \ {t}
  <1>1. \A u \in Threads : task'[u] = IF u = t THEN Idle ELSE task[u]
    BY DEF IInv, Handlers, Finish
  <1>2. Handlers'
    BY IdleIsTask, HandlersMove DEF IInv, Finish
  <1>3. Registering' = Registering \ {t}
    BY <1>1, IdleIsTask DEF Registering
  <1> QED  BY <1>2, <1>3

LEMMA Started ==
  ASSUME IInv, NEW t \in Threads, NEW k \in Tasks, KeepsOrigin(k), Start(t, k),
         k.job = "register" => WithinRate
  PROVE  IInv'
  <1>1. Tables' /\ Grown /\ Origins' /\ Registered' = Registered
    BY Spent, RowsStay DEF Start, rows, IInv
  <1>2. Handlers'
    BY <1>1, HandlersMove DEF Start, IInv
  <1>3. Completions'
    BY <1>1, CompletionsStay DEF Start, rows, IInv
  <1>4. Counted'
    <2>1. CASE k.job = "register"
      BY <1>1, <2>1, CountStarts
    <2>2. CASE k.job # "register"
      <3>1. Registering' \subseteq Registering
        BY <2>2 DEF Registering, Start, IInv, Handlers
      <3> QED  BY <1>1, <3>1, CountStays
    <2> QED  BY <2>1, <2>2
  <1> QED  BY <1>1, <1>2, <1>3, <1>4 DEF IInv

LEMMA RowWithStatus ==
  ASSUME NEW row \in Row
  PROVE  /\ Approved(row) \in Row /\ Approved(row).source = row.source /\ Approved(row).by = row.by
         /\ Rejected(row) \in Row /\ Rejected(row).source = row.source /\ Rejected(row).by = row.by
         /\ \A e \in BOOLEAN, q \in Places :
              LET new == [row EXCEPT !.place = q, !.enabled = e]
              IN  new \in Row /\ new.source = row.source /\ new.by = row.by
         /\ LET new == [row EXCEPT !.enabled = FALSE]
            IN  new \in Row /\ new.source = row.source /\ new.by = row.by
  BY DEF Row, Approved, Rejected

LEMMA ChangeStarts ==
  ASSUME IInv, NEW t \in Threads, NEW i \in DOMAIN server, NEW new \in Row,
         new.source = server[i].source, new.by = server[i].by, StartChange(t, i, new)
  PROVE  IInv'
  <1> DEFINE k == [Idle EXCEPT !.job = "change", !.id = i, !.seen = server[i], !.new = new]
  <1>1. server[i] \in Row
    BY ServerRows DEF IInv, Tables
  <1>3. k \in Tasks /\ k.job = "change" /\ k.seen = server[i] /\ k.new = new
    BY <1>1 DEF Idle, Tasks
  <1>4. Start(t, k)
    BY DEF StartChange
  <1> HIDE DEF k
  <1> QED  BY <1>3, <1>4, Started DEF KeepsOrigin

LEMMA HandlerKeeps ==
  ASSUME IInv, NEW t \in Threads, Handler(t)
  PROVE  IInv'
  <1>1. CASE StartRegister(t)
    <2>1. PICK r \in Registration :
            WithinRate /\ Start(t, [Idle EXCEPT !.job = "register", !.place = r.place, !.key = r.key])
      BY <1>1 DEF StartRegister
    <2> DEFINE k == [Idle EXCEPT !.job = "register", !.place = r.place, !.key = r.key]
    <2>3. k \in Tasks /\ k.job = "register"
      BY DEF Idle, Tasks, Registration
    <2> HIDE DEF k
    <2> QED  BY <2>1, <2>3, Started DEF KeepsOrigin, k
  <1>2. CASE StartCreate(t)
    <2>1. PICK q \in Places : Start(t, [Idle EXCEPT !.job = "create", !.place = q])
      BY <1>2 DEF StartCreate
    <2> DEFINE k == [Idle EXCEPT !.job = "create", !.place = q]
    <2>3. k \in Tasks /\ k.job = "create"
      BY DEF Idle, Tasks
    <2> HIDE DEF k
    <2> QED  BY <2>1, <2>3, Started DEF KeepsOrigin, k
  <1>3. \A i \in DOMAIN server : server[i] \in Row
    BY ServerRows DEF IInv, Tables
  <1>4. CASE StartDecision(t)
    <2>1. PICK i \in Registered :
            StartChange(t, i, Approved(server[i])) \/ StartChange(t, i, Rejected(server[i]))
      BY <1>4 DEF StartDecision
    <2> QED  BY <1>3, <2>1, RowWithStatus, ChangeStarts DEF Registered
  <1>5. CASE StartUpdate(t)
    <2>1. PICK i \in DOMAIN server, u \in Update :
            StartChange(t, i, [server[i] EXCEPT !.place = u.place, !.enabled = u.enabled])
      BY <1>5 DEF StartUpdate
    <2> DEFINE new == [server[i] EXCEPT !.place = u.place, !.enabled = u.enabled]
    <2>2. /\ server[i] \in Row
          /\ u.place \in Places /\ u.enabled \in BOOLEAN
      BY <1>3 DEF Update
    <2>3. new \in Row /\ new.source = server[i].source /\ new.by = server[i].by
      BY <2>2 DEF Row
    <2> HIDE DEF new
    <2> QED  BY <2>1, <2>3, ChangeStarts DEF new
  <1>6. CASE StartDelete(t)
    <2>1. PICK i \in DOMAIN server : StartChange(t, i, [server[i] EXCEPT !.enabled = FALSE])
      BY <1>6 DEF StartDelete
    <2> QED  BY <1>3, <2>1, RowWithStatus, ChangeStarts
  <1> QED  BY <1>1, <1>2, <1>4, <1>5, <1>6 DEF Handler

LEMMA RegisterKeeps ==
  ASSUME IInv, NEW t \in Threads, Register(t)
  PROVE  IInv'
  <1> DEFINE q == task[t].place
             k == task[t].key
             n == Len(server) + 1
  <1>1. q \in Places /\ k \in Keys \cup {None} /\ t \in Registering
    BY DEF Register, IInv, Handlers, Tasks, Registering
  <1>2. Len(server) \in Nat /\ server \in Seq(Row)
    BY ServerRows DEF IInv, Tables
  <1>3. CASE PlaceUnclaimed(q) /\ KeyUnused(k)
    <2>1. PICK approved \in BOOLEAN :
            server' = Append(server,
              [place |-> q, source |-> "api", by |-> k, enabled |-> approved,
               status |-> IF approved THEN "approved" ELSE "pending_approval",
               credential |-> "active"])
      BY <1>3 DEF Register
    <2> DEFINE row == [place |-> q, source |-> "api", by |-> k, enabled |-> approved,
                       status |-> IF approved THEN "approved" ELSE "pending_approval",
                       credential |-> "active"]
    <2>2. row \in Row /\ row.source = "api" /\ row.by = k
      BY <1>1 DEF Row
    <2>3. server' = Append(server, row)
      BY <2>1
    <2> HIDE DEF row
    <2>4. Grown /\ Len(server') = n /\ DOMAIN server' = DOMAIN server \cup {n}
      BY <1>2, <2>2, <2>3, Appended
    <2>5. /\ identity' = [identity EXCEPT ![q] = n]
          /\ replay' = [x \in Keys |-> IF x = k THEN n ELSE replay[x]]
          /\ Finish(t) /\ UNCHANGED <<submitted, draft, safes, member, call, lock, loop, budget>>
      BY <1>3 DEF Register
    <2>6. Origins' /\ Registered' = Registered \cup {n}
      BY <1>1, <1>3, <2>2, <2>3, <2>5, OriginsRegister
    <2>7. identity' \in [Places -> 0 .. n] /\ replay' \in [Keys -> 0 .. n]
      <3>1. n \in 0 .. n /\ 0 .. Len(server) \subseteq 0 .. n
        BY <1>2
      <3> HIDE DEF n
      <3> QED  BY <2>5, <3>1 DEF IInv, Tables
    <2>8. Tables'
      BY <2>4, <2>5, <2>7 DEF IInv, Tables, Grown
    <2>9. Handlers' /\ Registering' = Registering \ {t}
      BY <2>4, <2>5, Ended
    <2>10. Completions'
      BY <2>4, <2>5, CompletionsStay DEF IInv
    <2>11. Counted'
      BY <1>1, <2>6, <2>9, CountEnds
    <2> QED  BY <2>6, <2>8, <2>9, <2>10, <2>11 DEF IInv
  <1>4. CASE ~(PlaceUnclaimed(q) /\ KeyUnused(k))
    <2>1. /\ Finish(t)
          /\ UNCHANGED <<server, identity, replay, submitted, draft, safes, member, call, lock, loop, budget>>
      BY <1>4 DEF Register
    <2>2. Tables' /\ Grown /\ Origins' /\ Registered' = Registered
      BY <2>1, RowsStay DEF IInv, Tables, Budget
    <2>3. Handlers' /\ Registering' = Registering \ {t}
      BY <2>1, <2>2, Ended
    <2>4. Completions'
      BY <2>1, <2>2, CompletionsStay DEF IInv
    <2>5. Counted'
      BY <2>2, <2>3, CountStays
    <2> QED  BY <2>2, <2>3, <2>4, <2>5 DEF IInv
  <1> QED  BY <1>3, <1>4

LEMMA CreateServerKeeps ==
  ASSUME IInv, NEW t \in Threads, CreateServer(t)
  PROVE  IInv'
  <1>1. PICK enabled \in BOOLEAN :
          server' = Append(server,
            [place |-> task[t].place, source |-> "manual", by |-> None, enabled |-> enabled,
             status |-> "approved", credential |-> "active"])
    BY DEF CreateServer
  <1> DEFINE row == [place |-> task[t].place, source |-> "manual", by |-> None, enabled |-> enabled,
                     status |-> "approved", credential |-> "active"]
  <1>2. task[t].place \in Places
    BY DEF CreateServer, IInv, Handlers, Tasks
  <1>3. row \in Row /\ row.source = "manual" /\ server' = Append(server, row)
    BY <1>1, <1>2 DEF Row
  <1> HIDE DEF row
  <1>4. Grown /\ DOMAIN server \subseteq DOMAIN server' /\ 0 .. Len(server) \subseteq 0 .. Len(server')
    BY <1>3, Appended, GrownDomain DEF IInv, Tables
  <1>5. /\ Finish(t)
        /\ UNCHANGED <<identity, replay, submitted, draft, safes, member, call, lock, loop, budget>>
    BY DEF CreateServer
  <1>6. Tables'
    BY <1>4, <1>5 DEF IInv, Tables, Grown
  <1>7. Origins' /\ Registered' = Registered
    BY <1>3, <1>5, OriginsAppend
  <1>8. Handlers' /\ Registering' = Registering \ {t}
    BY <1>4, <1>5, Ended
  <1>9. Completions'
    BY <1>4, <1>5, CompletionsStay DEF IInv
  <1>10. Counted'
    BY <1>7, <1>8, CountStays
  <1> QED  BY <1>6, <1>7, <1>8, <1>9, <1>10 DEF IInv

LEMMA MergedRow ==
  ASSUME NEW seen \in Row, NEW new \in Row, NEW now \in Row,
         new.source = seen.source, new.by = seen.by
  PROVE  /\ Merge(seen, new, now) \in Row
         /\ Merge(seen, new, now).source = now.source /\ Merge(seen, new, now).by = now.by
  BY DEF Merge, Row

LEMMA ChangeKeeps ==
  ASSUME IInv, NEW t \in Threads, Change(t)
  PROVE  IInv'
  <1> DEFINE k == task[t]
             i == k.id
             row == Merge(k.seen, k.new, server[i])
  <1>1. k \in Tasks /\ k.job = "change" /\ KeepsOrigin(k)
    BY DEF Change, IInv, Handlers
  <1>2. i \in DOMAIN server /\ k.seen \in Row /\ k.new \in Row
    BY <1>1 DEF Tasks
  <1>3. server \in Seq(Row) /\ server[i] \in Row
    BY <1>2, ServerRows DEF IInv, Tables
  <1>4. row \in Row /\ row.source = server[i].source /\ row.by = server[i].by
    BY <1>1, <1>2, <1>3, MergedRow DEF KeepsOrigin
  <1>5. /\ server' = [server EXCEPT ![i] = row] /\ Finish(t)
        /\ UNCHANGED <<identity, replay, submitted, draft, safes, member, call, lock, loop, budget>>
    BY DEF Change
  <1> HIDE DEF row, i
  <1>6. /\ server' \in Seq(Row) /\ Len(server') = Len(server) /\ DOMAIN server' = DOMAIN server
        /\ \A j \in DOMAIN server : server'[j] = IF j = i THEN row ELSE server[j]
    BY <1>2, <1>3, <1>4, <1>5
  <1>7. Grown
    BY <1>6, ServerRows DEF Grown, IInv, Tables
  <1>8. Tables'
    BY <1>5, <1>6 DEF IInv, Tables
  <1>9. Origins' /\ Registered' = Registered
    BY <1>4, <1>5, <1>6, OriginsStay
  <1>10. Handlers' /\ Registering' = Registering \ {t}
    BY <1>5, <1>7, Ended
  <1>11. Completions'
    BY <1>5, <1>7, CompletionsStay DEF IInv
  <1>12. Counted'
    BY <1>9, <1>10, CountStays
  <1> QED  BY <1>8, <1>9, <1>10, <1>11, <1>12 DEF IInv

LEMMA GiveUpKeeps ==
  ASSUME IInv, NEW t \in Threads, GiveUp(t)
  PROVE  IInv'
  <1>1. budget' \in Budget
    BY OnboardingAssumption DEF GiveUp, IInv, Tables, Budget
  <1>2. Tables' /\ Grown /\ Origins' /\ Registered' = Registered
    BY <1>1, RowsStay DEF GiveUp, rows
  <1>3. Handlers' /\ Registering' = Registering \ {t}
    BY <1>2, Ended DEF GiveUp
  <1>4. Completions'
    BY <1>2, CompletionsStay DEF GiveUp, rows, IInv
  <1>5. Counted'
    BY <1>2, <1>3, CountStays
  <1> QED  BY <1>2, <1>3, <1>4, <1>5 DEF IInv
-----------------------------------------------------------------------------
(* The wizard.  Its steps leave the handlers of the threads alone.         *)
LEMMA OthersStay ==
  ASSUME IInv, Grown, UNCHANGED task, Registered' = Registered
  PROVE  Handlers' /\ Counted'
  <1>1. Handlers'
    <2>1. CASE Threads = {}  BY <2>1, OnboardingAssumption
    <2>2. CASE Threads # {}
      <3>1. PICK t \in Threads : TRUE
        BY <2>2
      <3> QED  BY <3>1, IdleIsTask, HandlersMove DEF IInv
    <2> QED  BY <2>1, <2>2
  <1>2. Registering' = Registering
    BY DEF Registering
  <1> QED  BY <1>1, <1>2, CountStays

LEMMA NoCallIsPrepared == NoCall \in Completion /\ Prepared(NoCall) /\ NoCall.pc = "idle"
  BY DEF NoCall, NoDraft, Completion, Draft, Modes, Prepared

LEMMA DraftFits ==
  ASSUME server \in Seq(Row), NEW d \in Draft, ValidDraft(d)
  PROVE  Fits(d)
  BY DEF ValidDraft, Fits

LEMMA DraftKeeps ==
  ASSUME IInv, SaveDraft \/ DropDraft
  PROVE  IInv'
  <1>0. server \in Seq(Row) /\ DOMAIN server \subseteq Nat
    BY ServerRows DEF IInv, Tables
  <1>1. draft' \in Draft /\ (draft'.on => Fits(draft')) /\ budget' \in Budget
    <2>1. CASE SaveDraft
      <3>1. PICK m \in Modes, to \in Places \cup DOMAIN server, f \in BOOLEAN :
              LET d == [on |-> TRUE, mode |-> m, to |-> to, fresh |-> f] IN
              ValidDraft(d) /\ draft' = d
        BY <2>1 DEF SaveDraft
      <3> DEFINE d == [on |-> TRUE, mode |-> m, to |-> to, fresh |-> f]
      <3>2. d \in Draft
        BY <1>0 DEF Draft
      <3>3. Fits(d)
        BY <1>0, <3>1, <3>2, DraftFits
      <3> QED  BY <2>1, <3>1, <3>2, <3>3, Spent DEF SaveDraft, IInv
    <2>2. CASE DropDraft
      BY <2>2 DEF DropDraft, NoDraft, Draft, Modes, IInv, Tables, Budget
    <2> QED  BY <2>1, <2>2
  <1>2. UNCHANGED <<server, identity, replay, submitted, safes, member, task, call, lock, loop>>
    BY DEF SaveDraft, DropDraft
  <1>3. Tables' /\ Grown /\ Origins' /\ Registered' = Registered
    BY <1>1, <1>2, RowsStay
  <1>4. Handlers' /\ Counted'
    BY <1>2, <1>3, OthersStay
  <1>5. Completions'
    BY <1>1, <1>2 DEF IInv, Completions, Prepared, Fits
  <1> QED  BY <1>3, <1>4, <1>5 DEF IInv

(* One completion goes on, while the rows stay.                            *)
LEMMA OneCompletion ==
  ASSUME IInv, NEW z \in Wizards, NEW c \in Completion, Prepared(c),
         call' = [call EXCEPT ![z] = c],
         UNCHANGED <<rows, task>>, budget' \in Budget,
         lock' \in Wizards \cup {None}, lock' # None => call'[lock'].pc \in {"test", "apply"},
         loop' \in Wizards \cup {None},
         \A y \in Wizards : loop' = y <=> call'[y].pc \in {"read", "apply"}
  PROVE  IInv'
  <1>1. Tables' /\ Grown /\ Origins' /\ Registered' = Registered
    BY RowsStay DEF rows
  <1>2. Handlers' /\ Counted'
    BY <1>1, OthersStay
  <1>3. call' \in [Wizards -> Completion] /\ \A y \in Wizards : call'[y] = IF y = z THEN c ELSE call[y]
    BY DEF IInv, Completions
  <1>4. \A y \in Wizards : Prepared(call[y])'
    BY <1>3 DEF IInv, Completions, Prepared, Fits, rows
  <1>5. Completions'
    BY <1>3, <1>4 DEF IInv, Completions, rows, Fits
  <1> QED  BY <1>1, <1>2, <1>5 DEF IInv

(* Who holds what, after one completion has moved.                         *)
Held(z, pc, l, o) ==
  /\ \/ l = None
     \/ l = z /\ pc \in {"test", "apply"}
     \/ l = lock /\ l # z
  /\ IF pc \in {"read", "apply"} THEN o = z ELSE o = None
  /\ loop \in {None, z}

LEMMA HeldIsSound ==
  ASSUME IInv, NEW z \in Wizards, NEW c \in Completion, Held(z, c.pc, lock', loop'),
         call' = [call EXCEPT ![z] = c]
  PROVE  /\ lock' \in Wizards \cup {None} /\ (lock' # None => call'[lock'].pc \in {"test", "apply"})
         /\ loop' \in Wizards \cup {None}
         /\ \A y \in Wizards : loop' = y <=> call'[y].pc \in {"read", "apply"}
  <1>1. None \notin Wizards
    BY OnboardingAssumption
  <1>2. \A y \in Wizards : call'[y] = IF y = z THEN c ELSE call[y]
    BY DEF IInv, Completions
  <1> QED  BY <1>1, <1>2 DEF IInv, Completions, Held

LEMMA CompleteKeeps ==
  ASSUME IInv, NEW z \in Wizards, Complete(z)
  PROVE  IInv'
  <1>1. PICK k \in Keys, pc \in {"read", "test", "apply"} :
          /\ pc = "apply" <=> draft.mode # "create_resource"
          /\ call' = [call EXCEPT ![z] = [pc |-> pc, key |-> k, draft |-> draft, tested |-> None]]
          /\ loop' = IF pc = "test" THEN None ELSE z
    BY DEF Complete
  <1> DEFINE c == [pc |-> pc, key |-> k, draft |-> draft, tested |-> None]
  <1>2. draft \in Draft /\ Fits(draft)
    BY DEF Complete, IInv, Completions
  <1>3. c \in Completion /\ Prepared(c) /\ c.pc = pc
    BY <1>1, <1>2 DEF Completion, Prepared
  <1> HIDE DEF c
  <1>4. call' = [call EXCEPT ![z] = c]
    BY <1>1 DEF c
  <1>5. lock # z
    BY NoCallIsPrepared, OnboardingAssumption DEF Complete, IInv, Completions
  <1>6. Held(z, c.pc, lock', loop')
    BY <1>1, <1>3, <1>5 DEF Complete, Held
  <1>7. budget' \in Budget
    BY Spent DEF Complete, IInv
  <1>8. UNCHANGED <<rows, task>>
    BY DEF Complete
  <1> QED  BY <1>3, <1>4, <1>6, <1>7, <1>8, HeldIsSound, OneCompletion

(* The request ends; its session gives the lock back, if it had it.        *)
LEMMA LeaveKeeps ==
  ASSUME IInv, NEW z \in Wizards,
         call' = [call EXCEPT ![z] = NoCall], loop' = None,
         lock' = IF lock = z THEN None ELSE lock,
         loop \in {None, z}, UNCHANGED <<rows, task, budget>>
  PROVE  IInv'
  <1>1. Held(z, NoCall.pc, lock', loop')
    BY NoCallIsPrepared DEF Held
  <1>2. budget' \in Budget
    BY DEF IInv, Tables, Budget
  <1> QED  BY <1>1, <1>2, NoCallIsPrepared, HeldIsSound, OneCompletion

LEMMA TestSteps ==
  ASSUME IInv, NEW z \in Wizards,
         ReadSecret(z) \/ ReadLater(z) \/ LoopTimeout(z) \/ TestPasses(z) \/ TestFails(z) \/ Refuse(z)
  PROVE  IInv'
  <1>0. /\ call[z] \in Completion /\ Prepared(call[z]) /\ call \in [Wizards -> Completion]
        /\ (loop = z <=> call[z].pc \in {"read", "apply"}) /\ budget \in Budget
    BY DEF IInv, Completions, Tables, Budget
  <1>1. ASSUME NEW pc \in {"read", "test"}, call' = [call EXCEPT ![z].pc = pc],
               call[z].pc # "idle",
               Held(z, pc, lock', loop'), UNCHANGED <<rows, task, budget>>
        PROVE  IInv'
    <2> DEFINE c == [call[z] EXCEPT !.pc = pc]
    <2>1. c \in Completion /\ c.pc = pc /\ c.key = call[z].key /\ c.draft = call[z].draft
      BY <1>0 DEF Completion
    <2>2. call' = [call EXCEPT ![z] = c]
      BY <1>0, <1>1
    <2> HIDE DEF c
    <2>3. Prepared(c)
      BY <1>0, <1>1, <2>1 DEF Prepared
    <2> QED  BY <1>0, <1>1, <2>1, <2>2, <2>3, HeldIsSound, OneCompletion
  <1>2. CASE ReadSecret(z)
    <2>1. Held(z, "test", lock', loop')
      BY <1>0, <1>2 DEF ReadSecret, Held
    <2> QED  BY <1>1, <1>2, <2>1 DEF ReadSecret, Goto
  <1>3. CASE ReadLater(z)
    <2>1. Held(z, "read", lock', loop')
      BY <1>3 DEF ReadLater, Held
    <2> QED  BY <1>1, <1>3, <2>1 DEF ReadLater, Goto
  <1>4. CASE LoopTimeout(z)
    BY <1>4, LeaveKeeps DEF LoopTimeout
  <1>5. CASE TestPasses(z)
    <2> DEFINE c == [call[z] EXCEPT !.pc = "apply", !.tested = call[z].draft.to]
    <2>1. call[z].draft.to \in Places \cup Nat
      BY <1>0 DEF Completion, Draft
    <2>2. c \in Completion /\ c.pc = "apply" /\ c.key = call[z].key /\ c.draft = call[z].draft
          /\ c.tested = call[z].draft.to
      BY <1>0, <2>1 DEF Completion
    <2>3. call' = [call EXCEPT ![z] = c]
      BY <1>0, <1>5 DEF TestPasses
    <2> HIDE DEF c
    <2>4. Prepared(c)
      BY <1>0, <1>5, <2>2 DEF Prepared, TestPasses
    <2>5. Held(z, c.pc, lock', loop')
      BY <1>5, <2>2 DEF TestPasses, Held
    <2> QED  BY <1>0, <1>5, <2>2, <2>3, <2>4, <2>5, HeldIsSound, OneCompletion DEF TestPasses
  <1>6. CASE TestFails(z)
    BY <1>6, LeaveKeeps DEF TestFails, Leave
  <1>7. CASE Refuse(z)
    BY <1>7, LeaveKeeps DEF Refuse, Leave
  <1> QED  BY <1>2, <1>3, <1>4, <1>5, <1>6, <1>7

LEMMA ApplyKeeps ==
  ASSUME IInv, NEW z \in Wizards, Apply(z)
  PROVE  IInv'
  <1> DEFINE c == call[z]
             d == c.draft
             k == c.key
  <1>1. /\ c \in Completion /\ Prepared(c) /\ call \in [Wizards -> Completion]
        /\ server \in Seq(Row) /\ DOMAIN server = 1 .. Len(server) /\ Len(server) \in Nat
    BY ServerRows DEF IInv, Completions, Tables
  <1>2. k \in Keys /\ Fits(d) /\ k \notin submitted /\ d \in Draft
    BY <1>1 DEF Apply, Prepared, NotSubmitted, Completion
  <1>3. /\ submitted' = submitted \cup {k} /\ draft' = NoDraft
        /\ UNCHANGED <<identity, replay, task, budget>>
    BY DEF Apply
  <1> HIDE DEF k
  <1>4. /\ Grown /\ Origins' /\ Registered' = Registered
        /\ member' \subseteq DOMAIN server' /\ safes' \subseteq Places
    <2>1. CASE Create(z)
      <3>1. PICK enabled \in BOOLEAN :
              server' = Append(server, [place |-> d.to, source |-> "wizard", by |-> k,
                enabled |-> enabled, status |-> "approved", credential |-> "active"])
        BY <2>1 DEF Create, DraftLoaded, k
      <3> DEFINE row == [place |-> d.to, source |-> "wizard", by |-> k,
                         enabled |-> enabled, status |-> "approved", credential |-> "active"]
      <3>2. d.to \in Places
        BY <1>2, <2>1 DEF Create, DraftLoaded, Fits
      <3>3. row \in Row /\ row.source = "wizard" /\ row.by = k /\ server' = Append(server, row)
        BY <1>2, <3>1, <3>2 DEF Row
      <3> HIDE DEF row
      <3>4. Grown /\ DOMAIN server' = DOMAIN server \cup {Len(server) + 1}
        BY <1>1, <3>3, Appended
      <3>5. Origins' /\ Registered' = Registered
        BY <1>2, <1>3, <3>3, OriginsAppend
      <3>6. member' = member \cup {Len(server) + 1} /\ safes' \subseteq safes \cup {d.to}
        BY <2>1 DEF Create, Profile, DraftLoaded
      <3> QED  BY <3>2, <3>4, <3>5, <3>6 DEF IInv, Tables
    <2>2. CASE Assign(z)
      <3>1. d.to \in DOMAIN server
        BY <1>2, <2>2 DEF Assign, DraftLoaded, Fits
      <3>2. server[d.to].place \in Places
        BY <1>1, <3>1, ServerRows DEF Row
      <3>3. server' = server /\ member' = member \cup {d.to} /\ safes' \subseteq safes \cup {server[d.to].place}
        BY <2>2 DEF Assign, Profile, DraftLoaded
      <3>4. Origins' /\ Registered' = Registered
        BY <1>3, <3>3, OriginsStay
      <3> QED  BY <1>1, <3>1, <3>2, <3>3, <3>4 DEF IInv, Tables, Grown
    <2>3. CASE RequestAccess(z)
      <3>1. UNCHANGED <<server, safes, member>>
        BY <2>3 DEF RequestAccess
      <3>2. Origins' /\ Registered' = Registered
        BY <1>3, <3>1, OriginsStay
      <3> QED  BY <1>1, <3>1, <3>2 DEF IInv, Tables, Grown
    <2> QED  BY <2>1, <2>2, <2>3 DEF Apply
  <1>5. 0 .. Len(server) \subseteq 0 .. Len(server')
    BY <1>1, <1>4, GrownDomain
  <1>6. Tables'
    BY <1>2, <1>3, <1>4, <1>5 DEF IInv, Tables, Grown
  <1>7. Handlers' /\ Counted'
    BY <1>3, <1>4, OthersStay
  <1>8. /\ call' = [call EXCEPT ![z] = NoCall] /\ loop' = None
        /\ lock' = IF lock = z THEN None ELSE lock
    BY DEF Apply, Leave
  <1>9. Held(z, NoCall.pc, lock', loop')
    BY <1>8, NoCallIsPrepared DEF Held, Apply
  <1>10. ASSUME NEW y \in Wizards PROVE Prepared(call[y])'
    <2>1. call'[y] = IF y = z THEN NoCall ELSE call[y]
      BY <1>1, <1>8
    <2>2. PICK b : b = call'[y] /\ Prepared(b)
      BY <2>1, NoCallIsPrepared DEF IInv, Completions
    <2>3. Prepared(b)'
      BY <1>1, <1>4, <2>2, PreparedStill
    <2> QED  BY <2>2, <2>3 DEF Prepared, Fits
  <1>11. NoDraft \in Draft /\ ~NoDraft.on
    BY DEF NoDraft, Draft, Modes
  <1>12. Completions'
    <2>1. call' \in [Wizards -> Completion]
      BY <1>1, <1>8, NoCallIsPrepared
    <2> QED  BY <1>3, <1>8, <1>9, <1>10, <1>11, <2>1, NoCallIsPrepared, HeldIsSound DEF Completions
  <1> QED  BY <1>4, <1>6, <1>7, <1>12 DEF IInv
-----------------------------------------------------------------------------
LEMMA InitInvariant == Init => IInv
  <1> SUFFICES ASSUME Init PROVE IInv  OBVIOUS
  <1>1. Tables
    BY OnboardingAssumption DEF Init, Tables
  <1>2. Handlers
    BY IdleIsTask DEF Init, Handlers
  <1>3. Completions
    <2>1. draft \in Draft /\ ~draft.on
      BY DEF Init, NoDraft, Draft, Modes
    <2>2. call \in [Wizards -> Completion] /\ \A z \in Wizards : call[z] = NoCall
      BY NoCallIsPrepared DEF Init
    <2> QED  BY <2>1, <2>2, NoCallIsPrepared, OnboardingAssumption DEF Init, Completions
  <1>4. Registered = {} /\ DOMAIN server = {}
    BY DEF Init, Registered
  <1>5. Origins
    BY <1>4 DEF Origins, RegistrationKeepsItsPlace, WizardKeys, SubmissionIsOneResource
  <1>6. Counted
    <2>1. Registering = {}
      BY IdleIsTask DEF Init, Registering
    <2>2. Cardinality(Registered) = 0 /\ Cardinality(Registering) = 0
      BY <1>4, <2>1, FS_EmptySet
    <2>3. Cardinality(Threads) \in Nat \ {0} /\ RateLimit \in Nat
      BY <1>1, FiniteCounts
    <2> QED  BY <2>2, <2>3 DEF Counted
  <1> QED  BY <1>1, <1>2, <1>3, <1>5, <1>6 DEF IInv

LEMMA StutterKeeps ==
  ASSUME IInv, UNCHANGED vars
  PROVE  IInv'
  <1>1. Tables' /\ Handlers' /\ Completions'
    BY DEF vars, IInv, Tables, Handlers, Completions, Tasks, KeepsOrigin, Prepared, Fits
  <1>2. Origins' /\ Counted'
    BY DEF vars, IInv, Origins, RegistrationKeepsItsPlace, WizardKeys, SubmissionIsOneResource,
           Counted, Registered, Registering
  <1> QED  BY <1>1, <1>2 DEF IInv

LEMMA NextKeeps == IInv /\ [Next]_vars => IInv'
  <1> SUFFICES ASSUME IInv, [Next]_vars PROVE IInv'  OBVIOUS
  <1>1. ASSUME NEW t \in Threads, Handler(t) \/ Work(t) PROVE IInv'
    BY <1>1, HandlerKeeps, RegisterKeeps, CreateServerKeeps, ChangeKeeps, GiveUpKeeps DEF Work
  <1>2. ASSUME NEW z \in Wizards, Complete(z) \/ Step(z) PROVE IInv'
    BY <1>2, CompleteKeeps, TestSteps, ApplyKeeps DEF Step
  <1> QED  BY <1>1, <1>2, DraftKeeps, StutterKeeps DEF Next

(* Rows, handlers and completions keep their types, ids stay ids of        *)
(* servers, and who keeps the event loop or the write lock is at a step    *)
(* that may.                                                               *)
THEOREM OnboardingTypes == Spec => []TypeOK
  <1> QED  BY TypesFollow, InitInvariant, NextKeeps, PTL DEF Spec

(* Of requests that register one place or repeat one key at the same time  *)
(* one becomes a server, which holds the place and answers the key for     *)
(* good (routes/server_registrations.py).                                  *)
THEOREM PlacesAreKept == Spec => []RegistrationKeepsItsPlace
  <1>1. IInv => RegistrationKeepsItsPlace  BY DEF IInv, Origins
  <1> QED  BY <1>1, InitInvariant, NextKeeps, PTL DEF Spec

(* The rate limit is passed by no more registrations than threads can      *)
(* count at the same time.                                                 *)
THEOREM LimitPlusThreads == Spec => []RateLimitSlack
  <1>1. ASSUME IInv PROVE RateLimitSlack
    <2>1. /\ Cardinality(Registered) \in Nat /\ Cardinality(Registering) \in Nat
          /\ Cardinality(Threads) \in Nat /\ RateLimit \in Nat
      BY <1>1, FiniteCounts DEF IInv
    <2> QED  BY <1>1, <2>1 DEF IInv, Counted, RateLimitSlack
  <1> QED  BY <1>1, InitInvariant, NextKeeps, PTL DEF Spec

(* One submission of the wizard creates at most one resource               *)
(* (routes/access_wizard.py, wizard_service.py).                           *)
THEOREM OneResourcePerSubmission == Spec => []SubmissionIsOneResource
  <1>1. IInv => SubmissionIsOneResource  BY DEF IInv, Origins
  <1> QED  BY <1>1, InitInvariant, NextKeeps, PTL DEF Spec
-----------------------------------------------------------------------------
Tested(i) ==
  server'[i].source = "wizard" =>
    \E z \in Wizards : call[z].pc = "apply" /\ call[z].tested = server'[i].place

LEMMA NewWasTested ==
  ASSUME IInv, [Next]_vars, NEW i \in DOMAIN server' \ DOMAIN server
  PROVE  Tested(i)
  <1>0. server \in Seq(Row) /\ Len(server) \in Nat
    BY ServerRows DEF IInv, Tables
  <1>1. server' # server
    OBVIOUS
  <1>2. ASSUME NEW row \in Row, server' = Append(server, row)
        PROVE  server'[i] = row
    BY <1>0, <1>2, Appended
  <1>3. ASSUME NEW t \in Threads, Handler(t) \/ Work(t) PROVE Tested(i)
    <2>1. ~Handler(t) /\ ~GiveUp(t)
      BY <1>1 DEF Handler, StartRegister, StartCreate, StartDecision, StartUpdate, StartDelete,
                  StartChange, Start, rows, GiveUp
    <2>2. ~Change(t)
      BY <1>0 DEF Change
    <2>3. task[t] \in Tasks
      BY DEF IInv, Handlers
    <2>4. CASE Register(t)
      <3>1. PICK approved \in BOOLEAN :
              server' = Append(server,
                [place |-> task[t].place, source |-> "api", by |-> task[t].key, enabled |-> approved,
                 status |-> IF approved THEN "approved" ELSE "pending_approval",
                 credential |-> "active"])
        BY <1>1, <2>4 DEF Register
      <3> DEFINE row == [place |-> task[t].place, source |-> "api", by |-> task[t].key,
                         enabled |-> approved,
                         status |-> IF approved THEN "approved" ELSE "pending_approval",
                         credential |-> "active"]
      <3>2. task[t].place \in Places /\ task[t].key \in Keys \cup {None}
        BY <2>3, <2>4 DEF Register, Tasks
      <3>3. row \in Row /\ row.source = "api"
        BY <3>2 DEF Row
      <3> HIDE DEF row
      <3> QED  BY <1>2, <3>1, <3>3 DEF Tested, row
    <2>5. CASE CreateServer(t)
      <3>1. PICK enabled \in BOOLEAN :
              server' = Append(server,
                [place |-> task[t].place, source |-> "manual", by |-> None, enabled |-> enabled,
                 status |-> "approved", credential |-> "active"])
        BY <2>5 DEF CreateServer
      <3> DEFINE row == [place |-> task[t].place, source |-> "manual", by |-> None,
                         enabled |-> enabled, status |-> "approved", credential |-> "active"]
      <3>2. task[t].place \in Places
        BY <2>3, <2>5 DEF CreateServer, Tasks
      <3>3. row \in Row /\ row.source = "manual"
        BY <3>2 DEF Row
      <3> HIDE DEF row
      <3> QED  BY <1>2, <3>1, <3>3 DEF Tested, row
    <2> QED  BY <1>3, <2>1, <2>2, <2>4, <2>5 DEF Work
  <1>4. ASSUME NEW z \in Wizards, Complete(z) \/ Step(z) PROVE Tested(i)
    <2>1. Apply(z)
      BY <1>1, <1>4 DEF Step, Complete, ReadSecret, ReadLater, LoopTimeout, TestPasses, TestFails,
                        Refuse, rows
    <2>2. Create(z)
      BY <1>1, <2>1 DEF Apply, Assign, RequestAccess
    <2> DEFINE d == call[z].draft
               k == call[z].key
    <2>3. PICK enabled \in BOOLEAN :
            server' = Append(server, [place |-> d.to, source |-> "wizard", by |-> k,
              enabled |-> enabled, status |-> "approved", credential |-> "active"])
      BY <2>2 DEF Create, DraftLoaded
    <2>4. /\ call[z].pc = "apply" /\ d.mode = "create_resource" /\ Prepared(call[z])
      BY <2>1, <2>2 DEF Apply, Create, DraftLoaded, IInv, Completions
    <2>5. call[z].tested = d.to /\ d.to \in Places /\ k \in Keys
      BY <2>4 DEF Prepared, Fits
    <2> DEFINE row == [place |-> d.to, source |-> "wizard", by |-> k,
                       enabled |-> enabled, status |-> "approved", credential |-> "active"]
    <2>6. row \in Row /\ row.place = d.to
      BY <2>5 DEF Row
    <2> HIDE DEF row
    <2>7. server'[i] = row
      BY <1>2, <2>3, <2>6 DEF row
    <2> QED  BY <2>4, <2>5, <2>6, <2>7 DEF Tested
  <1> QED  BY <1>1, <1>3, <1>4 DEF Next, SaveDraft, DropDraft, vars

(* What the wizard creates is the place whose connection the same          *)
(* completion has tested, whatever happened to the draft meanwhile.        *)
THEOREM TestedBeforeCreated == Spec => CreatedWasTested
  <1>1. IInv /\ [Next]_vars =>
          [\A i \in DOMAIN server' \ DOMAIN server :
             server'[i].source = "wizard" =>
               \E z \in Wizards : call[z].pc = "apply" /\ call[z].tested = server'[i].place]_vars
    BY NewWasTested DEF Tested
  <1> QED  BY <1>1, InitInvariant, NextKeeps, PTL DEF Spec, CreatedWasTested
=============================================================================
