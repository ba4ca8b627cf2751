-------------------------- MODULE ProtocolSessions --------------------------
(***************************************************************************)
(* Web sessions: a server-side browser context for each session row.       *)
(*                                                                         *)
(* Launches, the lifecycle monitor and an administrator's terminations are *)
(* coroutines of one event loop and give it up at an await only.  Each has *)
(* a transaction of its own over the one SQLite file: a launch inserts its *)
(* row and keeps the write lock while it waits for a browser permit, and   *)
(* an event of its page commits that row before the launch has finished.   *)
(***************************************************************************)
EXTENDS Naturals, FiniteSets

CONSTANTS
  Sessions,   \* bound: ids of session rows, each launched at most once
  Tests,      \* bound: connection tests of the access wizard at one time
  Admins,     \* requests to terminate a session
  Monitor,    \* the lifecycle monitor
  Other,      \* any writer outside the event loop
  Pool,       \* pam_browser_concurrency
  MaxFaults,  \* bound: crashes, failures and writers that keep the lock
  None        \* no value

Terminators == Admins \cup {Monitor}

(* Who opens a browser context. *)
Openers == Sessions \cup Tests

ASSUME ProtocolParameters ==
  /\ Sessions \subseteq Nat /\ IsFiniteSet(Sessions) /\ IsFiniteSet(Tests)
  /\ Sessions \cap Tests = {}
  /\ Pool \in Nat /\ MaxFaults \in Nat
  /\ Monitor \notin Admins
  /\ None \notin Sessions \cup Tests \cup Terminators \cup {Other}
  /\ Other \notin Sessions \cup Terminators
  /\ Sessions \cap Terminators = {}

VARIABLES
  row,       \* sessions.status, committed
  launch,    \* how far the launch of a session is
  testing,   \* connection tests under way
  due,       \* sessions whose grant, token, idle or absolute time is over
  runtimes,  \* web_provider.runtimes
  browser,   \* sessions and tests with an open browser context
  healthy,   \* web_provider.healthy()
  permits,   \* value of web_provider.semaphore
  task,      \* what each terminator has loaded, is closing and has sealed
  writer,    \* who holds SQLite's write lock: a launch, a terminator, Other
  lost,      \* history: contexts that an exception left open
  leaked,    \* history: whose permit an exception did not return
  doubled,   \* history: sessions whose permit is or will be returned twice
  faults

history == <<lost, leaked, doubled>>
vars == <<row, launch, testing, due, runtimes, browser, healthy, permits, task, writer, history, faults>>

Statuses == {"none", "active", "termination_pending", "ended"}   \* terminated or failed
Stages   == {"none", "checking", "waiting", "preparing", "open", "over"}
Task     == [on : BOOLEAN, todo : SUBSET Sessions, pending : SUBSET Sessions,
             closing : Sessions \cup {None}, sealed : SUBSET Sessions]
Idle     == [on |-> FALSE, todo |-> {}, pending |-> {}, closing |-> None, sealed |-> {}]

TypeOK ==
  /\ row \in [Sessions -> Statuses]
  /\ launch \in [Sessions -> Stages]
  /\ testing \subseteq Tests
  /\ due \subseteq Sessions /\ runtimes \subseteq Sessions /\ browser \subseteq Openers
  /\ healthy \in BOOLEAN
  /\ permits \in Nat
  /\ task \in [Terminators -> Task]
  /\ writer \in Sessions \cup Terminators \cup {Other, None}
  /\ lost \subseteq Openers /\ leaked \subseteq Openers /\ doubled \subseteq Sessions
  /\ faults \in 0..MaxFaults

Init ==
  /\ row = [s \in Sessions |-> "none"]
  /\ launch = [s \in Sessions |-> "none"]
  /\ testing = {}
  /\ due = {} /\ runtimes = {} /\ browser = {} /\ healthy = TRUE
  /\ permits = Pool
  /\ task = [t \in Terminators |-> Idle]
  /\ writer = None
  /\ lost = {} /\ leaked = {} /\ doubled = {}
  /\ faults = 0
-----------------------------------------------------------------------------
CanWrite(x) == writer \in {None, x}
Freed(x)    == IF writer = x THEN None ELSE writer
Unlucky     == faults < MaxFaults /\ faults' = faults + 1

(* No terminator is between two awaits. *)
LoopFree == \A t \in Terminators : task[t].on => task[t].closing # None

(* Closing a context raises: its browser is dead, or a fault leaves it open. *)
LeftOpen(x) == \/ x \notin browser /\ UNCHANGED <<lost, faults>>
               \/ x \in browser /\ Unlucky /\ lost' = lost \cup {x}

Live == {"active", "termination_pending"}
-----------------------------------------------------------------------------
(* launch: the grant is checked, a row of the next id inserted and the     *)
(* lock taken; a request that is refused or cannot insert changes nothing. *)
Insert(s) ==
  /\ LoopFree /\ launch[s] = "none" /\ CanWrite(s)
  /\ \A r \in Sessions : r < s => launch[r] # "none"
  /\ writer' = s
  /\ launch' = [launch EXCEPT ![s] = "checking"]
  /\ UNCHANGED <<row, testing, due, runtimes, browser, healthy, permits, task, history, faults>>

(* The configuration is valid: its check has awaited a DNS answer. *)
Check(s) ==
  /\ LoopFree /\ launch[s] = "checking"
  /\ launch' = [launch EXCEPT ![s] = "waiting"]
  /\ UNCHANGED <<row, testing, due, runtimes, browser, healthy, permits, task, writer, history, faults>>

(* Mutant: a permit is taken without waiting for one. *)
AcquireAnyway(s) ==
  /\ LoopFree /\ launch[s] = "waiting"
  /\ permits' = permits - 1
  /\ launch' = [launch EXCEPT ![s] = "preparing"]
  /\ UNCHANGED <<row, testing, due, runtimes, browser, healthy, task, writer, history, faults>>

(* The lock is kept while launch_session waits for a permit. *)
Acquire(s) ==
  /\ LoopFree /\ launch[s] = "waiting" /\ permits > 0
  /\ permits' = permits - 1
  /\ launch' = [launch EXCEPT ![s] = "preparing"]
  /\ UNCHANGED <<row, testing, due, runtimes, browser, healthy, task, writer, history, faults>>

Open(s) ==
  /\ LoopFree /\ launch[s] = "preparing"
  /\ browser' = browser \cup {s} /\ healthy' = TRUE
  /\ launch' = [launch EXCEPT ![s] = "open"]
  /\ UNCHANGED <<row, testing, due, runtimes, permits, task, writer, history, faults>>

(* An event of the page (_navigation, policy_blocked, popup) commits the   *)
(* transaction of the launch, and with it the row.                         *)
Navigate(s) ==
  /\ LoopFree /\ launch[s] = "open" /\ s \in browser /\ writer = s
  /\ row' = [row EXCEPT ![s] = "active"]
  /\ writer' = None
  /\ UNCHANGED <<launch, testing, due, runtimes, browser, healthy, permits, task, history, faults>>

(* The page is up: the runtime is registered, the event is flushed, and    *)
(* the request commits.                                                    *)
Register(s) ==
  /\ LoopFree /\ launch[s] = "open" /\ s \in browser /\ CanWrite(s)
  /\ runtimes' = runtimes \cup {s}
  /\ row' = [row EXCEPT ![s] = IF @ = "none" THEN "active" ELSE @]
  /\ writer' = Freed(s)
  /\ launch' = [launch EXCEPT ![s] = "over"]
  /\ UNCHANGED <<testing, due, browser, healthy, permits, task, history, faults>>

(* The event cannot be written any more: the runtime stays registered, but *)
(* the context is closed and the permit returned, unless closing raises.   *)
RegisterFails(s) ==
  /\ LoopFree /\ launch[s] = "open" /\ s \in browser /\ ~CanWrite(s)
  /\ runtimes' = runtimes \cup {s}
  /\ launch' = [launch EXCEPT ![s] = "over"]
  /\ \/ /\ browser' = browser \ {s}
        /\ permits' = permits + 1 /\ doubled' = doubled \cup {s}
        /\ UNCHANGED faults
     \/ Unlucky /\ UNCHANGED <<browser, permits, doubled>>
  /\ UNCHANGED <<row, testing, due, healthy, task, writer, lost, leaked>>

(* The handler of a failed launch marks the row, if it can be written.     *)
MarkFailed(s) ==
  /\ launch' = [launch EXCEPT ![s] = "over"]
  /\ row' = IF CanWrite(s) THEN [row EXCEPT ![s] = "ended"] ELSE row
  /\ writer' = Freed(s)

(* Configuration is invalid, or a directory cannot be made: the permit     *)
(* that was acquired before the try is not returned.                       *)
PrepareFails(s) ==
  /\ LoopFree /\ MarkFailed(s)
  /\ \/ launch[s] = "checking" /\ UNCHANGED <<leaked, faults>>
     \/ launch[s] = "preparing" /\ Unlucky /\ leaked' = leaked \cup {s}
  /\ UNCHANGED <<testing, due, runtimes, browser, healthy, permits, task, lost, doubled>>

(* A secret, the browser or the new context raises; a context opened       *)
(* before the runtime exists is not closed.                                *)
OpenFails(s) ==
  /\ LoopFree /\ launch[s] = "preparing" /\ MarkFailed(s)
  /\ permits' = permits + 1
  /\ \/ UNCHANGED <<browser, lost, faults>>
     \/ Unlucky /\ browser' = browser \cup {s} /\ lost' = lost \cup {s}
  /\ UNCHANGED <<testing, due, runtimes, healthy, task, leaked, doubled>>

(* The page does not load or its browser has died: the context is closed,  *)
(* then the permit returned; when closing raises, neither happens.         *)
PageFails(s) ==
  /\ LoopFree /\ launch[s] = "open" /\ MarkFailed(s)
  /\ \/ /\ browser' = browser \ {s} /\ permits' = permits + 1
        /\ UNCHANGED <<lost, leaked, faults>>
     \/ /\ leaked' = leaked \cup {s} /\ LeftOpen(s)
        /\ UNCHANGED <<browser, permits>>
  /\ UNCHANGED <<testing, due, runtimes, healthy, task, doubled>>
-----------------------------------------------------------------------------
(* A connection test of the access wizard takes a permit of the same pool  *)
(* and starts a browser if there is none; one that gets no context returns *)
(* its permit at once and is no step.                                      *)
TestStarts(x) ==
  /\ LoopFree /\ x \notin testing \cup leaked /\ permits > 0
  /\ permits' = permits - 1
  /\ browser' = browser \cup {x} /\ healthy' = TRUE
  /\ testing' = testing \cup {x}
  /\ UNCHANGED <<row, launch, due, runtimes, task, writer, history, faults>>

(* The test is over: its context is closed, then the permit returned;      *)
(* again, when closing raises, neither happens.                            *)
TestEnds(x) ==
  /\ LoopFree /\ x \in testing /\ testing' = testing \ {x}
  /\ \/ /\ browser' = browser \ {x} /\ permits' = permits + 1
        /\ UNCHANGED <<lost, leaked, faults>>
     \/ /\ leaked' = leaked \cup {x} /\ LeftOpen(x)
        /\ UNCHANGED <<browser, permits>>
  /\ UNCHANGED <<row, launch, due, runtimes, healthy, task, writer, doubled>>
-----------------------------------------------------------------------------
(* Mutant: only active rows are loaded. *)
BeginPassActive ==
  /\ LoopFree /\ ~task[Monitor].on
  /\ task' = [task EXCEPT ![Monitor] = [Idle EXCEPT !.on = TRUE,
                !.todo = {s \in Sessions : row[s] = "active"}]]
  /\ UNCHANGED <<row, launch, testing, due, runtimes, browser, healthy, permits, writer, history, faults>>

(* enforce_lifecycle_once loads the live rows. *)
BeginPass ==
  /\ LoopFree /\ ~task[Monitor].on
  /\ task' = [task EXCEPT ![Monitor] = [Idle EXCEPT !.on = TRUE,
                !.todo = {s \in Sessions : row[s] \in Live},
                !.pending = {s \in Sessions : row[s] = "termination_pending"}]]
  /\ UNCHANGED <<row, launch, testing, due, runtimes, browser, healthy, permits, writer, history, faults>>

(* terminate_session: an administrator ends one active session. *)
BeginAdmin(t, s) ==
  /\ LoopFree /\ ~task[t].on /\ row[s] = "active"
  /\ task' = [task EXCEPT ![t] = [Idle EXCEPT !.on = TRUE, !.todo = {s}]]
  /\ UNCHANGED <<row, launch, testing, due, runtimes, browser, healthy, permits, writer, history, faults>>

Reason(t, s) ==
  t = Monitor => \/ s \in task[t].pending \/ s \in due
                 \/ s \notin runtimes \/ ~healthy

Running(t) == task[t].on /\ task[t].closing = None

Keep(t, s) ==
  /\ Running(t) /\ s \in task[t].todo /\ ~Reason(t, s)
  /\ task' = [task EXCEPT ![t].todo = @ \ {s}]
  /\ UNCHANGED <<row, launch, testing, due, runtimes, browser, healthy, permits, writer, history, faults>>

(* Mutant: the runtime is only looked up. *)
PopLate(t, s) ==
  /\ Running(t) /\ s \in task[t].todo /\ Reason(t, s) /\ s \in runtimes
  /\ task' = [task EXCEPT ![t].todo = @ \ {s}, ![t].closing = s]
  /\ UNCHANGED <<row, launch, testing, due, runtimes, browser, healthy, permits, writer, history, faults>>

(* The runtime is taken out of the registry, and closing it is awaited. *)
Pop(t, s) ==
  /\ Running(t) /\ s \in task[t].todo /\ Reason(t, s) /\ s \in runtimes
  /\ runtimes' = runtimes \ {s}
  /\ task' = [task EXCEPT ![t].todo = @ \ {s}, ![t].closing = s]
  /\ UNCHANGED <<row, launch, testing, due, browser, healthy, permits, writer, history, faults>>

(* An exception ends the coroutine; its rows are rolled back. *)
Abort(t) == task' = [task EXCEPT ![t] = Idle] /\ writer' = Freed(t)

(* Without a runtime only the row is sealed, if the lock can be had. *)
Seal(t, s) ==
  /\ Running(t) /\ s \in task[t].todo /\ Reason(t, s) /\ s \notin runtimes
  /\ IF CanWrite(t)
     THEN /\ writer' = t
          /\ task' = [task EXCEPT ![t].todo = @ \ {s}, ![t].sealed = @ \cup {s}]
     ELSE Abort(t)
  /\ UNCHANGED <<row, launch, testing, due, runtimes, browser, healthy, permits, history, faults>>

(* The context is closed, the permit returned and the row sealed. *)
Close(t, s) ==
  /\ task[t].closing = s /\ LoopFree /\ s \in browser /\ CanWrite(t)
  /\ browser' = browser \ {s}
  /\ permits' = permits + 1
  /\ writer' = t
  /\ task' = [task EXCEPT ![t].closing = None, ![t].sealed = @ \cup {s}]
  /\ UNCHANGED <<row, launch, testing, due, runtimes, healthy, history, faults>>

(* Mutant: the permit is not returned in a finally. *)
CloseRaisesUnpaid(t, s) ==
  /\ task[t].closing = s /\ LoopFree /\ Abort(t)
  /\ \/ s \notin browser /\ UNCHANGED <<browser, lost, faults>>
     \/ s \in browser /\ ~CanWrite(t) /\ browser' = browser \ {s} /\ UNCHANGED <<lost, faults>>
     \/ s \in browser /\ Unlucky /\ UNCHANGED browser /\ lost' = lost \cup {s}
  /\ UNCHANGED <<row, launch, testing, due, runtimes, healthy, permits, leaked, doubled>>

(* The browser has died, the event cannot be written, or an artifact fails *)
(* before the context is closed; the permit comes back all the same.       *)
CloseRaises(t, s) ==
  /\ task[t].closing = s /\ LoopFree /\ Abort(t)
  /\ permits' = permits + 1
  /\ \/ s \notin browser /\ UNCHANGED <<browser, lost, faults>>
     \/ s \in browser /\ ~CanWrite(t) /\ browser' = browser \ {s} /\ UNCHANGED <<lost, faults>>
     \/ s \in browser /\ Unlucky /\ UNCHANGED browser /\ lost' = lost \cup {s}
  /\ UNCHANGED <<row, launch, testing, due, runtimes, healthy, leaked, doubled>>

(* The end of the pass or of the request. *)
Commit(t) ==
  /\ Running(t) /\ task[t].todo = {}
  /\ row' = [s \in Sessions |-> IF s \in task[t].sealed THEN "ended" ELSE row[s]]
  /\ writer' = Freed(t)
  /\ task' = [task EXCEPT ![t] = Idle]
  /\ UNCHANGED <<launch, testing, due, runtimes, browser, healthy, permits, history, faults>>
-----------------------------------------------------------------------------
(* logout, in a thread: the monitor will find the row. *)
Logout(s) ==
  /\ row[s] = "active" /\ writer = None
  /\ row' = [row EXCEPT ![s] = "termination_pending"]
  /\ UNCHANGED <<launch, testing, due, runtimes, browser, healthy, permits, task, writer, history, faults>>

(* Mutant: the runtime is dropped from the registry with its row. *)
EndRowForgets(s) ==
  /\ row[s] = "active" /\ writer = None
  /\ row' = [row EXCEPT ![s] = "ended"]
  /\ runtimes' = runtimes \ {s}
  /\ UNCHANGED <<launch, testing, due, browser, healthy, permits, task, writer, history, faults>>

(* terminate_user_sessions and a lost membership end the row alone. *)
EndRowOnly(s) ==
  /\ row[s] = "active" /\ writer = None
  /\ row' = [row EXCEPT ![s] = "ended"]
  /\ UNCHANGED <<launch, testing, due, runtimes, browser, healthy, permits, task, writer, history, faults>>

(* The grant, the token, the idle or the absolute time of a session ends;  *)
(* the monitor looks at live rows only.                                    *)
RunOut(s) ==
  /\ row[s] \in Live /\ s \notin due /\ due' = due \cup {s}
  /\ UNCHANGED <<row, launch, testing, runtimes, browser, healthy, permits, task, writer, history, faults>>

(* Another process or thread keeps the lock past the busy timeout. *)
OtherTakes ==
  /\ writer = None /\ writer' = Other /\ Unlucky
  /\ UNCHANGED <<row, launch, testing, due, runtimes, browser, healthy, permits, task, history>>

OtherReleases ==
  /\ writer = Other /\ writer' = None
  /\ UNCHANGED <<row, launch, testing, due, runtimes, browser, healthy, permits, task, history, faults>>

(* Chromium dies; the next launch starts another one. *)
BrowserDies ==
  /\ browser # {} /\ Unlucky
  /\ browser' = {} /\ healthy' = FALSE /\ lost' = {}
  /\ UNCHANGED <<row, launch, testing, due, runtimes, permits, task, writer, leaked, doubled>>

(* The API stops or dies, and starts again: the rows are all that is left. *)
Crash ==
  /\ Unlucky
  /\ testing' = {}
  /\ launch' = [s \in Sessions |-> IF launch[s] = "none" THEN "none" ELSE "over"]
  /\ runtimes' = {} /\ browser' = {} /\ healthy' = TRUE
  /\ permits' = Pool
  /\ task' = [t \in Terminators |-> Idle]
  /\ writer' = IF writer = Other THEN Other ELSE None
  /\ lost' = {} /\ leaked' = {} /\ doubled' = {}
  /\ UNCHANGED <<row, due>>
-----------------------------------------------------------------------------
Launching(s) ==
  \/ Check(s) \/ Acquire(s) \/ Open(s) \/ Navigate(s) \/ Register(s)
  \/ RegisterFails(s) \/ PrepareFails(s) \/ OpenFails(s) \/ PageFails(s)

Terminate(t) ==
  \/ \E s \in Sessions : \/ Keep(t, s) \/ Pop(t, s) \/ Seal(t, s)
                         \/ Close(t, s) \/ CloseRaises(t, s)
  \/ Commit(t)

Next ==
  \/ \E s \in Sessions : \/ Insert(s) \/ Launching(s) \/ Logout(s) \/ EndRowOnly(s) \/ RunOut(s)
                         \/ \E t \in Admins : BeginAdmin(t, s)
  \/ \E x \in Tests : TestStarts(x) \/ TestEnds(x)
  \/ BeginPass
  \/ \E t \in Terminators : Terminate(t)
  \/ OtherTakes \/ OtherReleases \/ BrowserDies \/ Crash

Spec == Init /\ [][Next]_vars

(* The event loop takes ready coroutines in turn, so one that is ready     *)
(* again and again gets to run, and the monitor starts a pass every five   *)
(* seconds; Playwright's waits end; every web session has an absolute      *)
(* timeout of at least a minute; a writer elsewhere ends its transaction.  *)
FairSpec ==
  /\ Spec
  /\ SF_vars(\E s \in Sessions : Launching(s)) /\ WF_vars(\E s \in Sessions : RunOut(s))
  /\ SF_vars(\E x \in Tests : TestEnds(x))
  /\ SF_vars(BeginPass)
  /\ \A t \in Terminators : SF_vars(Terminate(t))
  /\ WF_vars(OtherReleases)
-----------------------------------------------------------------------------
(* Every open context belongs to exactly one coroutine or to the registry, *)
(* unless an exception lost it; so two terminations of one session never   *)
(* close it, or return its permit, twice.                                  *)
ContextHasOneOwner ==
  /\ \A x \in Tests : x \in browser \ lost => x \in testing
  /\ \A s \in Sessions :
       /\ s \in browser \ lost => \/ launch[s] = "open" \/ s \in runtimes
                                  \/ \E t \in Terminators : task[t].closing = s
       /\ s \in runtimes => launch[s] = "over"
       /\ \A t \in Terminators : task[t].closing = s =>
            /\ launch[s] = "over" /\ s \notin runtimes
            /\ \A x \in Terminators : task[x].closing = s => x = t

(* Who has taken a permit and not returned it: a launch or a test, the     *)
(* registry or a termination.                                              *)
Opening == {s \in Sessions : launch[s] \in {"preparing", "open"}} \cup testing
Holders == Opening \cup runtimes
             \cup {s \in Sessions : \E t \in Terminators : task[t].closing = s}

(* What the semaphore holds and what is out is always the pool, but for    *)
(* the permits that a raising mkdir or close kept from being returned, and *)
(* those of a register that failed, which are returned twice.              *)
PermitsBalance ==
  permits + Cardinality(Holders) + Cardinality(leaked) = Pool + Cardinality(doubled)

(* A launch waits with the write lock, and no permit is free. *)
PoolStarves == permits = 0 /\ \E s \in Sessions : launch[s] = "waiting" /\ writer = s

(* Every live row is ended in time, by whatever of logout, expiry, a dead  *)
(* browser, an aborted pass or a crash happens to its session, unless from *)
(* some time on a launch holds the lock and its permit never comes: it was *)
(* leaked, its session's row was ended alone, or each pass aborts at a row *)
(* it cannot write before it gets to the session that has the permit.      *)
SessionsEnd ==
  <>[]PoolStarves \/ \A s \in Sessions : row[s] \in Live ~> row[s] \notin Live

(* Who has the browser of a session or test: a set, to have one member. *)
Owners(x) ==
  {p \in {"launch"}   : x \in Opening} \cup
  {p \in {"registry"} : x \in runtimes} \cup
  {t \in Terminators  : task[t].closing = x}

ASSUME RolesAreNoTerminators == "launch" \notin Terminators /\ "registry" \notin Terminators

(* Every step of a launch, a test, a pass, a termination or a crash passes *)
(* custody of one browser, and its permit, as BrowserCustody allows, or    *)
(* leaves all of it alone: a runtime is never claimed by two terminations, *)
(* a permit never returned but by the one that holds it.                   *)
Custody == INSTANCE BrowserCustody WITH
             Contexts <- Openers, owners <- [x \in Openers |-> Owners(x)], free <- permits
ImplementsCustody == Custody!Spec

(* MULTI_PROTOCOL_ARCHITECTURE.md: termination closes contexts before it   *)
(* sets the final database state.                                          *)
SealedIsClosed ==
  [][\A t \in Terminators : Commit(t) => task[t].sealed \cap browser = {}]_vars
=============================================================================
