---------------------------- MODULE Onboarding ----------------------------
(***************************************************************************)
(* How servers come into the inventory: registrations over the API and     *)
(* their approval (routes/server_registrations.py), the servers' own       *)
(* routes (routes/servers.py) and the access wizard (routes/               *)
(* access_wizard.py, wizard_service.py).  Most handlers run in threads of  *)
(* a pool: they load rows without a lock, then write and commit under      *)
(* SQLite's write lock.  The wizard's completion is a coroutine of the one *)
(* event loop: it may hold that lock over an await, and when it waits for  *)
(* it, it keeps the whole loop waiting.                                    *)
(***************************************************************************)
EXTENDS Naturals, Sequences, FiniteSets

CONSTANTS
  Places,       \* a hostname with its address and port
  Keys,         \* idempotency keys and submission keys
  Threads,      \* threads that run the handlers of registrations and servers
  Wizards,      \* coroutines that complete the wizard's draft
  RateLimit,    \* pam_registration_rate_limit_count
  None,         \* no value
  MaxRequests,  \* bound: requests
  MaxFaults     \* bound: lock timeouts of threads

ASSUME OnboardingAssumption ==
  /\ IsFiniteSet(Threads) /\ Threads # {} /\ Threads \cap Wizards = {}
  /\ None \notin Places \cup Keys \cup Threads \cup Wizards
  /\ {RateLimit, MaxRequests, MaxFaults} \subseteq Nat

VARIABLES
  server,     \* servers, in the order of their ids
  identity,   \* server_registration_identities: place -> server, or 0
  replay,     \* server_registration_idempotency: key -> server, or 0
  submitted,  \* access_wizard_submissions: keys
  draft,      \* the user's draft of the wizard
  safes,      \* places whose access profile exists: its name is unique
  member,     \* servers the wizard has assigned to the user
  task,       \* thread -> its handler
  call,       \* wizard -> its completion
  lock,       \* the coroutine that holds the write lock over an await, or None
  loop,       \* the coroutine that keeps the event loop, or None
  budget      \* what is left of the bounds

rows == <<server, identity, replay, submitted, draft, safes, member>>
vars == <<server, identity, replay, submitted, draft, safes, member,
          task, call, lock, loop, budget>>
-----------------------------------------------------------------------------
Row == [place : Places, source : {"api", "manual", "wizard"}, by : Keys \cup {None},
        status : {"pending_approval", "approved", "rejected"}, enabled : BOOLEAN,
        credential : {"active", "disabled"}]

(* What a registration asks for, and what an edit of a server may change.  *)
Registration == [place : Places, key : Keys \cup {None}]
Update       == [place : Places, enabled : BOOLEAN]

Modes == {"create_resource", "assign_existing_resource", "request_access"}

(* to: the place to create, or the id of an existing server.  fresh: the   *)
(* draft names a new access profile.                                       *)
Draft == [on : BOOLEAN, mode : Modes, to : Places \cup Nat, fresh : BOOLEAN]
NoDraft == [on |-> FALSE, mode |-> "request_access", to |-> 0, fresh |-> FALSE]

Idle == [job |-> "idle", place |-> None, key |-> None, id |-> 0, seen |-> {}, new |-> {}]
NoCall == [pc |-> "idle", key |-> None, draft |-> NoDraft, tested |-> None]

Init ==
  /\ server = << >>
  /\ identity = [p \in Places |-> 0]
  /\ replay = [k \in Keys |-> 0]
  /\ submitted = {} /\ safes = {} /\ member = {}
  /\ draft = NoDraft
  /\ task = [t \in Threads |-> Idle]
  /\ call = [z \in Wizards |-> NoCall]
  /\ lock = None /\ loop = None
  /\ budget = [requests |-> MaxRequests, faults |-> MaxFaults]
-----------------------------------------------------------------------------
Registered == {i \in DOMAIN server : server[i].source = "api"}
At(p) == {i \in DOMAIN server : server[i].place = p}

Spend == budget.requests > 0 /\ budget' = [budget EXCEPT !.requests = @ - 1]

Start(t, job) ==
  /\ task[t] = Idle
  /\ Spend
  /\ task' = [task EXCEPT ![t] = job]
  /\ UNCHANGED <<rows, call, lock, loop>>

Finish(t) == task' = [task EXCEPT ![t] = Idle]

(* A thread whose flush waits too long for the lock; a request that is     *)
(* refused after its checks (the address, the connection test).            *)
GiveUp(t) ==
  /\ task[t] # Idle
  /\ \/ task[t].job = "register" /\ UNCHANGED budget
     \/ /\ lock # None /\ budget.faults > 0
        /\ budget' = [budget EXCEPT !.faults = @ - 1]
  /\ Finish(t)
  /\ UNCHANGED <<rows, call, lock, loop>>
-----------------------------------------------------------------------------
(* Mutant: one registration too many.                                      *)
WithinRateLoose == Cardinality(Registered) <= RateLimit

(* All registrations of a behaviour fall into one window of the limit.     *)
WithinRate == Cardinality(Registered) < RateLimit

(* register_server: a known key is answered from its row; a new one passes *)
(* the checks, of which the duplicates and the count are read without a    *)
(* lock.                                                                   *)
StartRegister(t) ==
  \E r \in Registration :
    /\ r.key # None => replay[r.key] = 0
    /\ WithinRate
    /\ At(r.place) = {}
    /\ Start(t, [Idle EXCEPT !.job = "register", !.place = r.place, !.key = r.key])

(* Mutant: addresses and names are not unique.                             *)
PlaceFree(p) == TRUE

PlaceUnclaimed(p) == identity[p] = 0

KeyUnused(k) == k = None \/ replay[k] = 0

(* A unique constraint that fails rolls the whole registration back.       *)
Register(t) ==
  LET p == task[t].place
      k == task[t].key
      id == Len(server) + 1
  IN /\ task[t].job = "register" /\ lock = None
     /\ IF PlaceUnclaimed(p) /\ KeyUnused(k)
        THEN /\ \E approved \in BOOLEAN :
                  server' = Append(server,
                    [place |-> p, source |-> "api", by |-> k, enabled |-> approved,
                     status |-> IF approved THEN "approved" ELSE "pending_approval",
                     credential |-> "active"])
             /\ identity' = [identity EXCEPT ![p] = id]
             /\ replay' = [q \in Keys |-> IF q = k THEN id ELSE replay[q]]
        ELSE UNCHANGED <<server, identity, replay>>
     /\ Finish(t)
     /\ UNCHANGED <<submitted, draft, safes, member, call, lock, loop, budget>>

(* create_server.                                                          *)
StartCreate(t) ==
  \E p \in Places :
    At(p) = {} /\ Start(t, [Idle EXCEPT !.job = "create", !.place = p])

CreateServer(t) ==
  /\ task[t].job = "create" /\ lock = None
  /\ \E enabled \in BOOLEAN :
       server' = Append(server,
         [place |-> task[t].place, source |-> "manual", by |-> None, enabled |-> enabled,
          status |-> "approved", credential |-> "active"])
  /\ Finish(t)
  /\ UNCHANGED <<identity, replay, submitted, draft, safes, member, call, lock, loop, budget>>
-----------------------------------------------------------------------------
(* Handlers that change a server they have loaded.                         *)
Approved(row) == [row EXCEPT !.status = "approved", !.enabled = TRUE]

Rejected(row) ==
  [row EXCEPT !.status = "rejected", !.enabled = FALSE, !.credential = "disabled"]

StartChange(t, i, new) ==
  Start(t, [Idle EXCEPT !.job = "change", !.id = i, !.seen = server[i], !.new = new])

StartDecision(t) ==
  \E i \in Registered :
    /\ server[i].status = "pending_approval"
    /\ \E new \in {Approved(server[i]), Rejected(server[i])} : StartChange(t, i, new)

StartUpdate(t) ==
  \E i \in DOMAIN server, new \in Update :
    /\ At(new.place) \ {i} = {}
    /\ StartChange(t, i, [server[i] EXCEPT !.place = new.place, !.enabled = new.enabled])

(* A server with active grants is not deactivated; they are not modelled   *)
(* here.                                                                   *)
StartDelete(t) ==
  \E i \in DOMAIN server : StartChange(t, i, [server[i] EXCEPT !.enabled = FALSE])

(* An UPDATE has the columns that differ from what was loaded.             *)
Merge(seen, new, now) ==
  [c \in DOMAIN now |-> IF new[c] # seen[c] THEN new[c] ELSE now[c]]

Change(t) ==
  /\ task[t].job = "change" /\ lock = None
  /\ server' = [server EXCEPT ![task[t].id] = Merge(task[t].seen, task[t].new, @)]
  /\ Finish(t)
  /\ UNCHANGED <<identity, replay, submitted, draft, safes, member, call, lock, loop, budget>>
-----------------------------------------------------------------------------
(* The draft: created, replaced, deleted, expired.                         *)
ValidDraft(d) ==
  IF d.mode = "create_resource" THEN d.to \in Places
  ELSE d.to \in DOMAIN server /\ (d.fresh => d.mode = "assign_existing_resource")

SaveDraft ==
  /\ lock = None /\ Spend
  /\ \E m \in Modes, to \in Places \cup DOMAIN server, f \in BOOLEAN :
       LET d == [on |-> TRUE, mode |-> m, to |-> to, fresh |-> f] IN
       /\ ValidDraft(d) /\ d # draft
       /\ draft' = d
  /\ UNCHANGED <<server, identity, replay, submitted, safes, member, task, call, lock, loop>>

DropDraft ==
  /\ draft.on /\ lock = None
  /\ draft' = NoDraft
  /\ UNCHANGED <<server, identity, replay, submitted, safes, member, task, call, lock, loop, budget>>
-----------------------------------------------------------------------------
(* complete.  A completion whose connection test needs a stored secret     *)
(* writes that secret's access log before the test, and so holds the write *)
(* lock over it; a mode without a test goes straight to the transaction.   *)
Goto(z, pc) == call' = [call EXCEPT ![z].pc = pc]

Complete(z) ==
  /\ call[z] = NoCall /\ loop = None /\ draft.on
  /\ Spend
  /\ \E k \in Keys, stored \in BOOLEAN :
       /\ k \notin submitted
       /\ LET pc == IF draft.mode # "create_resource" THEN "apply"
                    ELSE IF stored THEN "read" ELSE "test"
          IN /\ call' = [call EXCEPT ![z] = [pc |-> pc, key |-> k, draft |-> draft, tested |-> None]]
             /\ loop' = IF pc = "test" THEN None ELSE z
  /\ UNCHANGED <<rows, task, lock>>

ReadSecret(z) ==
  /\ call[z].pc = "read" /\ lock = None
  /\ lock' = z /\ loop' = None
  /\ Goto(z, "test")
  /\ UNCHANGED <<rows, task, budget>>

(* The test of a web form reads its secrets when the page is loaded.       *)
ReadLater(z) ==
  /\ call[z].pc = "test" /\ loop = None /\ lock # z
  /\ loop' = z
  /\ Goto(z, "read")
  /\ UNCHANGED <<rows, task, lock, budget>>

(* Mutant: the loop waits for the lock without end.                        *)
LoopTimeoutNever(z) == FALSE /\ UNCHANGED vars

(* The coroutine's flush waits for the lock in the loop's own thread.      *)
LoopTimeout(z) ==
  /\ loop = z /\ lock \notin {None, z}
  /\ call' = [call EXCEPT ![z] = NoCall]
  /\ loop' = None
  /\ UNCHANGED <<rows, task, lock, budget>>

(* The answer of the test is taken up when the loop is free.               *)
TestPasses(z) ==
  /\ call[z].pc = "test" /\ loop = None
  /\ call' = [call EXCEPT ![z].pc = "apply", ![z].tested = call[z].draft.to]
  /\ loop' = z
  /\ UNCHANGED <<rows, task, lock, budget>>

(* Mutant: the request ends and its session is left open.                  *)
LeaveOpen(z) ==
  /\ call' = [call EXCEPT ![z] = NoCall]
  /\ lock' = lock
  /\ loop' = None

Leave(z) ==
  /\ call' = [call EXCEPT ![z] = NoCall]
  /\ lock' = IF lock = z THEN None ELSE lock
  /\ loop' = None

TestFails(z) ==
  /\ call[z].pc = "test" /\ loop = None
  /\ Leave(z)
  /\ UNCHANGED <<rows, task, budget>>
-----------------------------------------------------------------------------
(* complete_transaction.  The session still has the draft as the request   *)
(* loaded it.                                                              *)
(* Mutant: the draft is read again.                                        *)
DraftRefreshed(z) == IF draft.on THEN draft ELSE call[z].draft

DraftLoaded(z) == call[z].draft

(* Mutant: neither the second look at the submissions nor their unique     *)
(* constraint.                                                             *)
SubmissionFree(k) == TRUE

NotSubmitted(k) == k \notin submitted

(* The access profile a draft names for a place, whose name is unique.     *)
Profile(z, p) ==
  /\ DraftLoaded(z).fresh => p \notin safes
  /\ safes' = IF DraftLoaded(z).fresh THEN safes \cup {p} ELSE safes

Create(z) ==
  LET d == DraftLoaded(z) IN
  /\ d.mode = "create_resource"
  /\ Profile(z, d.to)
  /\ \E enabled \in BOOLEAN :
       server' = Append(server, [place |-> d.to, source |-> "wizard", by |-> call[z].key,
         enabled |-> enabled, status |-> "approved", credential |-> "active"])
  /\ member' = member \cup {Len(server) + 1}

Assign(z) ==
  LET d == DraftLoaded(z) IN
  /\ d.mode = "assign_existing_resource"
  /\ Profile(z, server[d.to].place)
  /\ member' = member \cup {d.to}
  /\ UNCHANGED server

(* An access request, which GrantLifecycle takes up.                       *)
RequestAccess(z) ==
  LET d == DraftLoaded(z) IN
  /\ d.mode = "request_access" /\ d.to \in member
  /\ UNCHANGED <<server, safes, member>>

(* The draft's row is deleted by its id, which SQLite gives again to a     *)
(* later draft; a DELETE that finds no row is only a warning.              *)
Apply(z) ==
  /\ call[z].pc = "apply" /\ loop = z /\ lock \in {None, z}
  /\ NotSubmitted(call[z].key)
  /\ Create(z) \/ Assign(z) \/ RequestAccess(z)
  /\ submitted' = submitted \cup {call[z].key}
  /\ draft' = NoDraft
  /\ Leave(z)
  /\ UNCHANGED <<identity, replay, task, budget>>

(* A duplicate, a profile the user has no part in, a name that is taken,   *)
(* or an error before the commit: nothing is kept.                         *)
Refuse(z) ==
  /\ call[z].pc = "apply" /\ loop = z
  /\ Leave(z)
  /\ UNCHANGED <<rows, task, budget>>
-----------------------------------------------------------------------------
Handler(t) ==
  \/ StartRegister(t) \/ StartCreate(t) \/ StartDecision(t) \/ StartUpdate(t) \/ StartDelete(t)

Work(t) == Register(t) \/ CreateServer(t) \/ Change(t) \/ GiveUp(t)

Step(z) ==
  \/ ReadSecret(z) \/ ReadLater(z) \/ LoopTimeout(z) \/ TestPasses(z) \/ TestFails(z) \/ Apply(z) \/ Refuse(z)

Next ==
  \/ \E t \in Threads : Handler(t) \/ Work(t)
  \/ SaveDraft \/ DropDraft
  \/ \E z \in Wizards : Complete(z) \/ Step(z)

Spec == Init /\ [][Next]_vars

(* A coroutine runs when it can.  Nothing is asked of the threads, which   *)
(* hold the lock in single steps.                                          *)
FairSpec == Spec /\ \A z \in Wizards : WF_vars(Step(z))
-----------------------------------------------------------------------------
Tasks ==
  [job : {"idle"}, place : {None}, key : {None}, id : {0}, seen : {{}}, new : {{}}]
    \cup [job : {"register", "create"}, place : Places, key : Keys \cup {None},
          id : {0}, seen : {{}}, new : {{}}]
    \cup [job : {"change"}, place : {None}, key : {None}, id : DOMAIN server,
          seen : Row, new : Row]

(* The variables are of their types, ids are ids of servers, and a         *)
(* coroutine keeps the event loop only to wait for the lock or to apply.   *)
TypeOK ==
  /\ server \in Seq(Row)
  /\ identity \in [Places -> 0 .. Len(server)] /\ replay \in [Keys -> 0 .. Len(server)]
  /\ submitted \subseteq Keys /\ safes \subseteq Places /\ member \subseteq DOMAIN server
  /\ draft \in Draft
  /\ task \in [Threads -> Tasks]
  /\ \A z \in Wizards : call[z].pc \in {"idle", "read", "test", "apply"}
  /\ lock \in Wizards \cup {None}
  /\ lock # None => call[lock].pc \in {"test", "apply"}
  /\ \A z \in Wizards : loop = z <=> call[z].pc \in {"read", "apply"}
  /\ budget \in [requests : 0 .. MaxRequests, faults : 0 .. MaxFaults]

(* Two requests that register one place at the same time both find it      *)
(* free, and a retry beside the request it repeats finds its idempotency   *)
(* key unused: only one becomes a server, the other is rolled back with    *)
(* all its rows; the server holds its place and answers its key whatever   *)
(* is changed later.                                                       *)
RegistrationKeepsItsPlace ==
  \A i \in Registered :
    /\ \E p \in Places : identity[p] = i
    /\ server[i].by # None => replay[server[i].by] = i

(* The registrations are counted before the connection test and inserted   *)
(* after it: the limit may be passed, by no more than the other requests   *)
(* that run at the same time.                                              *)
RateLimitSlack == Cardinality(Registered) <= RateLimit + Cardinality(Threads) - 1

(* The wizard creates the resource whose connection it has tested, though  *)
(* the draft may be edited or deleted while the test is awaited.           *)
CreatedWasTested ==
  [][\A i \in DOMAIN server' \ DOMAIN server :
       server'[i].source = "wizard" =>
         \E z \in Wizards : call[z].pc = "apply" /\ call[z].tested = server'[i].place]_vars

(* A completion that is sent again while the first one awaits its test     *)
(* creates no second resource for the same submission.                     *)
SubmissionIsOneResource ==
  \A i, j \in DOMAIN server :
    server[i].source = "wizard" /\ server[j].source = "wizard" /\ server[i].by = server[j].by
      => i = j

(* Every completion ends, though one may hold the write lock over the      *)
(* await of its test while another keeps the loop waiting for that lock.   *)
CompletionsEnd == \A z \in Wizards : call[z].pc # "idle" ~> call[z].pc = "idle"
=============================================================================
