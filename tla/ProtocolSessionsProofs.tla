----------------------- MODULE ProtocolSessionsProofs -----------------------
(***************************************************************************)
(* Proofs about ProtocolSessions, for any number of sessions, terminations *)
(* and permits: types, the one owner of every browser context, and the     *)
(* balance of the permits of the browser pool.                             *)
(***************************************************************************)
EXTENDS ProtocolSessions, FiniteSetTheorems, TLAPS

(* Those whose permit went astray are not being launched or tested. *)
AstrayIsOver == /\ \A s \in Sessions : s \in leaked \cup doubled => launch[s] = "over"
                /\ leaked \cap testing = {}

(* A terminator that is not running closes nothing. *)
IdleClosesNothing == \A t \in Terminators : ~task[t].on => task[t].closing = None

IInv == TypeOK /\ ContextHasOneOwner /\ AstrayIsOver /\ IdleClosesNothing /\ PermitsBalance
-----------------------------------------------------------------------------
LEMMA IdleType == Idle \in Task /\ Idle.closing = None /\ ~Idle.on
  BY DEF Idle, Task

LEMMA FreedType ==
  ASSUME TypeOK, NEW x PROVE Freed(x) \in Sessions \cup Terminators \cup {Other, None}
  BY DEF TypeOK, Freed

LEMMA UnluckyType == ASSUME TypeOK, Unlucky PROVE faults' \in 0..MaxFaults
  BY ProtocolParameters DEF TypeOK, Unlucky

LEMMA LeftOpenType ==
  ASSUME TypeOK, NEW x \in Openers, LeftOpen(x)
  PROVE  /\ lost' \subseteq Openers /\ faults' \in 0..MaxFaults
         /\ x \notin browser \ lost' /\ lost \subseteq lost'
  BY UnluckyType DEF TypeOK, LeftOpen

LEMMA MarkFailedType ==
  ASSUME TypeOK, NEW s \in Sessions, MarkFailed(s)
  PROVE  /\ launch' \in [Sessions -> Stages] /\ row' \in [Sessions -> Statuses]
         /\ writer' \in Sessions \cup Terminators \cup {Other, None}
  BY FreedType DEF TypeOK, MarkFailed, Stages, Statuses

LEMMA AbortType ==
  ASSUME TypeOK, NEW t \in Terminators, Abort(t)
  PROVE  /\ task' \in [Terminators -> Task]
         /\ writer' \in Sessions \cup Terminators \cup {Other, None}
  BY FreedType, IdleType DEF TypeOK, Abort

(* A terminator gets new data, field by field. *)
LEMMA TaskUpdate ==
  ASSUME TypeOK, NEW t \in Terminators, NEW new \in Task, task' = [task EXCEPT ![t] = new]
  PROVE  /\ task' \in [Terminators -> Task] /\ task'[t] = new
         /\ \A x \in Terminators \ {t} : task'[x] = task[x]
  BY DEF TypeOK

LEMMA KeepTask ==
  ASSUME TypeOK, NEW t \in Terminators, NEW s \in Sessions,
         task' = [task EXCEPT ![t].todo = @ \ {s}]
  PROVE  /\ task' \in [Terminators -> Task]
         /\ \A x \in Terminators : task'[x].closing = task[x].closing /\ task'[x].on = task[x].on
  <1> DEFINE new == [task[t] EXCEPT !.todo = @ \ {s}]
  <1>1. new \in Task /\ new.closing = task[t].closing /\ new.on = task[t].on  BY DEF TypeOK, Task
  <1>2. task' = [task EXCEPT ![t] = new]  OBVIOUS
  <1> HIDE DEF new
  <1> QED  BY <1>1, <1>2, TaskUpdate

LEMMA PopTask ==
  ASSUME TypeOK, NEW t \in Terminators, NEW s \in Sessions,
         task' = [task EXCEPT ![t].todo = @ \ {s}, ![t].closing = s]
  PROVE  /\ task' \in [Terminators -> Task] /\ task'[t].closing = s /\ task'[t].on = task[t].on
         /\ \A x \in Terminators \ {t} : task'[x] = task[x]
  <1> DEFINE new == [task[t] EXCEPT !.todo = @ \ {s}, !.closing = s]
  <1>1. new \in Task /\ new.closing = s /\ new.on = task[t].on  BY DEF TypeOK, Task
  <1>2. task' = [task EXCEPT ![t] = new]  BY DEF TypeOK
  <1> HIDE DEF new
  <1> QED  BY <1>1, <1>2, TaskUpdate

LEMMA SealTask ==
  ASSUME TypeOK, NEW t \in Terminators, NEW s \in Sessions,
         task' = [task EXCEPT ![t].todo = @ \ {s}, ![t].sealed = @ \cup {s}]
  PROVE  /\ task' \in [Terminators -> Task]
         /\ \A x \in Terminators : task'[x].closing = task[x].closing /\ task'[x].on = task[x].on
  <1> DEFINE new == [task[t] EXCEPT !.todo = @ \ {s}, !.sealed = @ \cup {s}]
  <1>1. new \in Task /\ new.closing = task[t].closing /\ new.on = task[t].on  BY DEF TypeOK, Task
  <1>2. task' = [task EXCEPT ![t] = new]  BY DEF TypeOK
  <1> HIDE DEF new
  <1> QED  BY <1>1, <1>2, TaskUpdate

LEMMA CloseTask ==
  ASSUME TypeOK, NEW t \in Terminators, NEW s \in Sessions,
         task' = [task EXCEPT ![t].closing = None, ![t].sealed = @ \cup {s}]
  PROVE  /\ task' \in [Terminators -> Task] /\ task'[t].closing = None
         /\ \A x \in Terminators \ {t} : task'[x] = task[x]
  <1> DEFINE new == [task[t] EXCEPT !.closing = None, !.sealed = @ \cup {s}]
  <1>1. new \in Task /\ new.closing = None  BY DEF TypeOK, Task
  <1>2. task' = [task EXCEPT ![t] = new]  BY DEF TypeOK
  <1> HIDE DEF new
  <1> QED  BY <1>1, <1>2, TaskUpdate

LEMMA AbortTask ==
  ASSUME TypeOK, NEW t \in Terminators, task' = [task EXCEPT ![t] = Idle]
  PROVE  /\ task' \in [Terminators -> Task] /\ task'[t].closing = None
         /\ \A x \in Terminators \ {t} : task'[x] = task[x]
  BY IdleType, TaskUpdate

LEMMA BeginTask ==
  ASSUME TypeOK, NEW t \in Terminators, NEW T \in SUBSET Sessions, NEW P \in SUBSET Sessions,
         task' = [task EXCEPT ![t] = [Idle EXCEPT !.on = TRUE, !.todo = T, !.pending = P]]
  PROVE  /\ task' \in [Terminators -> Task] /\ task'[t].closing = None
         /\ \A x \in Terminators \ {t} : task'[x] = task[x]
  <1> DEFINE new == [Idle EXCEPT !.on = TRUE, !.todo = T, !.pending = P]
  <1>1. new \in Task /\ new.closing = None  BY DEF Idle, Task
  <1> HIDE DEF new
  <1> QED  BY <1>1, TaskUpdate DEF new

LEMMA BeginAdminTask ==
  ASSUME TypeOK, NEW t \in Terminators, NEW T \in SUBSET Sessions,
         task' = [task EXCEPT ![t] = [Idle EXCEPT !.on = TRUE, !.todo = T]]
  PROVE  /\ task' \in [Terminators -> Task] /\ task'[t].closing = None
         /\ \A x \in Terminators \ {t} : task'[x] = task[x]
  <1> DEFINE new == [Idle EXCEPT !.on = TRUE, !.todo = T]
  <1>1. new \in Task /\ new.closing = None  BY DEF Idle, Task
  <1> HIDE DEF new
  <1> QED  BY <1>1, TaskUpdate DEF new

LEMMA PassTask ==
  ASSUME TypeOK, BeginPass
  PROVE  /\ Monitor \in Terminators /\ task' \in [Terminators -> Task]
         /\ task'[Monitor].closing = None
         /\ \A x \in Terminators \ {Monitor} : task'[x] = task[x]
  <1> DEFINE T == {s \in Sessions : row[s] \in Live}
             P == {s \in Sessions : row[s] = "termination_pending"}
  <1>1. T \in SUBSET Sessions /\ P \in SUBSET Sessions /\ Monitor \in Terminators  BY DEF Terminators
  <1>2. task' = [task EXCEPT ![Monitor] = [Idle EXCEPT !.on = TRUE, !.todo = T, !.pending = P]]
    BY DEF BeginPass
  <1> HIDE DEF T, P
  <1> QED  BY <1>1, <1>2, BeginTask
-----------------------------------------------------------------------------
LEMMA TypeInit == Init => TypeOK
  BY IdleType, ProtocolParameters DEF Init, TypeOK, Statuses, Stages

LEMMA TypeLaunch ==
  ASSUME TypeOK, NEW s \in Sessions, Insert(s) \/ Launching(s) PROVE TypeOK'
  <1> USE DEF Openers
  <1>1. CASE Insert(s)  BY <1>1 DEF Insert, TypeOK, Stages, history
  <1>2. CASE Acquire(s)  BY <1>2 DEF Acquire, TypeOK, Stages, history
  <1>3. CASE Open(s)  BY <1>3 DEF Open, TypeOK, Stages, history
  <1>4. CASE Navigate(s)  BY <1>4 DEF Navigate, TypeOK, Statuses, history
  <1>5. CASE Register(s)  BY <1>5, FreedType DEF Register, TypeOK, Statuses, Stages, history
  <1>6. CASE RegisterFails(s)
    BY <1>6, UnluckyType DEF RegisterFails, TypeOK, Stages
  <1>7. CASE PrepareFails(s)
    BY <1>7, MarkFailedType, UnluckyType DEF PrepareFails, TypeOK
  <1>8. CASE OpenFails(s)
    BY <1>8, MarkFailedType, UnluckyType DEF OpenFails, TypeOK
  <1>9. CASE PageFails(s)
    <2>1. s \in Openers  BY DEF Openers
    <2>2. /\ lost' \subseteq Openers /\ leaked' \subseteq Openers /\ faults' \in 0..MaxFaults
          /\ browser' \subseteq Openers /\ permits' \in Nat
      BY <1>9, <2>1, LeftOpenType DEF PageFails, TypeOK
    <2> QED  BY <1>9, <2>2, MarkFailedType DEF PageFails, TypeOK
  <1>10. CASE Check(s)  BY <1>10 DEF Check, TypeOK, Stages, history
  <1> QED  BY <1>1, <1>2, <1>3, <1>4, <1>5, <1>6, <1>7, <1>8, <1>9, <1>10 DEF Launching

LEMMA TypeTest ==
  ASSUME TypeOK, NEW x \in Tests, TestStarts(x) \/ TestEnds(x) PROVE TypeOK'
  <1>1. x \in Openers  BY DEF Openers
  <1>2. CASE TestStarts(x)  BY <1>1, <1>2 DEF TestStarts, TypeOK, history
  <1>3. CASE TestEnds(x)
    <2>1. /\ lost' \subseteq Openers /\ leaked' \subseteq Openers /\ faults' \in 0..MaxFaults
          /\ browser' \subseteq Openers /\ permits' \in Nat
      BY <1>1, <1>3, LeftOpenType DEF TestEnds, TypeOK
    <2> QED  BY <1>3, <2>1 DEF TestEnds, TypeOK
  <1> QED  BY <1>2, <1>3

LEMMA TypeTerminate ==
  ASSUME TypeOK, NEW t \in Terminators, Terminate(t) PROVE TypeOK'
  <1>1. ASSUME NEW s \in Sessions, Keep(t, s) PROVE TypeOK'
    <2>1. task' \in [Terminators -> Task]  BY <1>1, KeepTask DEF Keep
    <2> QED  BY <1>1, <2>1 DEF Keep, TypeOK, history
  <1>2. ASSUME NEW s \in Sessions, Pop(t, s) PROVE TypeOK'
    <2>1. task' \in [Terminators -> Task]  BY <1>2, PopTask DEF Pop
    <2> QED  BY <1>2, <2>1 DEF Pop, TypeOK, history
  <1>3. ASSUME NEW s \in Sessions, Seal(t, s) PROVE TypeOK'
    <2>1. task' \in [Terminators -> Task] /\ writer' \in Sessions \cup Terminators \cup {Other, None}
      BY <1>3, SealTask, AbortType DEF Seal
    <2> QED  BY <1>3, <2>1 DEF Seal, TypeOK, history
  <1>4. ASSUME NEW s \in Sessions, Close(t, s) PROVE TypeOK'
    <2>1. task' \in [Terminators -> Task]  BY <1>4, CloseTask DEF Close
    <2> QED  BY <1>4, <2>1 DEF Close, TypeOK, history
  <1>5. ASSUME NEW s \in Sessions, CloseRaises(t, s) PROVE TypeOK'
    <2>1. task' \in [Terminators -> Task] /\ writer' \in Sessions \cup Terminators \cup {Other, None}
      BY <1>5, AbortType DEF CloseRaises
    <2>2. browser' \subseteq Openers /\ lost' \subseteq Openers /\ faults' \in 0..MaxFaults
      BY <1>5, UnluckyType DEF CloseRaises, TypeOK
    <2> QED  BY <1>5, <2>1, <2>2 DEF CloseRaises, TypeOK
  <1>6. CASE Commit(t)
    <2>1. task' \in [Terminators -> Task]  BY <1>6, AbortTask DEF Commit
    <2> QED  BY <1>6, <2>1, FreedType DEF Commit, TypeOK, Statuses, history
  <1> QED  BY <1>1, <1>2, <1>3, <1>4, <1>5, <1>6 DEF Terminate

LEMMA TypeBegin ==
  ASSUME TypeOK, BeginPass \/ \E t \in Admins, s \in Sessions : BeginAdmin(t, s) PROVE TypeOK'
  <1>1. CASE BeginPass
    <2>1. task' \in [Terminators -> Task]  BY <1>1, PassTask
    <2> QED  BY <1>1, <2>1 DEF BeginPass, TypeOK, history
  <1>2. ASSUME NEW t \in Admins, NEW s \in Sessions, BeginAdmin(t, s) PROVE TypeOK'
    <2>1. t \in Terminators /\ {s} \in SUBSET Sessions  BY DEF Terminators
    <2>2. task' \in [Terminators -> Task]  BY <1>2, <2>1, BeginAdminTask DEF BeginAdmin
    <2> QED  BY <1>2, <2>2 DEF BeginAdmin, TypeOK, history
  <1> QED  BY <1>1, <1>2

World == \/ \E s \in Sessions : Logout(s) \/ EndRowOnly(s) \/ RunOut(s)
         \/ OtherTakes \/ OtherReleases \/ BrowserDies

LEMMA TypeWorld == ASSUME TypeOK, World \/ Crash PROVE TypeOK'
  <1>1. ASSUME NEW s \in Sessions, Logout(s) \/ EndRowOnly(s) \/ RunOut(s) PROVE TypeOK'
    BY <1>1 DEF Logout, EndRowOnly, RunOut, TypeOK, Statuses, history
  <1>2. CASE OtherTakes  BY <1>2, UnluckyType DEF OtherTakes, TypeOK, history
  <1>3. CASE OtherReleases  BY <1>3 DEF OtherReleases, TypeOK, history
  <1>4. CASE BrowserDies  BY <1>4, UnluckyType DEF BrowserDies, TypeOK
  <1>5. CASE Crash
    BY <1>5, UnluckyType, IdleType, ProtocolParameters DEF Crash, TypeOK, Stages
  <1> QED  BY <1>1, <1>2, <1>3, <1>4, <1>5 DEF World

(* The kinds of steps. *)
LEMMA NextCases ==
  ASSUME Next
  PROVE  \/ \E s \in Sessions : Insert(s) \/ Launching(s)
         \/ \E x \in Tests : TestStarts(x) \/ TestEnds(x)
         \/ BeginPass \/ \E t \in Admins, s \in Sessions : BeginAdmin(t, s)
         \/ \E t \in Terminators : Terminate(t)
         \/ World \/ Crash
  BY DEF Next, World

LEMMA TypeNext == TypeOK /\ [Next]_vars => TypeOK'
  <1> SUFFICES ASSUME TypeOK, [Next]_vars PROVE TypeOK'  OBVIOUS
  <1>1. CASE Next
    BY <1>1, NextCases, TypeLaunch, TypeTest, TypeBegin, TypeTerminate, TypeWorld
  <1>2. CASE UNCHANGED vars  BY <1>2 DEF vars, history, TypeOK
  <1> QED  BY <1>1, <1>2

(* Every variable keeps its type; the semaphore never goes below zero. *)
THEOREM ProtocolTypeCorrect == Spec => []TypeOK
  BY TypeInit, TypeNext, PTL DEF Spec
-----------------------------------------------------------------------------
(* The part of the invariant that says who owns what. *)
Owned == ContextHasOneOwner /\ AstrayIsOver /\ IdleClosesNothing

LEMMA OwnedInit == Init => Owned
  BY IdleType, ProtocolParameters DEF Init, Owned, ContextHasOneOwner, AstrayIsOver, IdleClosesNothing, Terminators

(* Steps that leave the terminators alone. *)
LEMMA OwnedLaunch ==
  ASSUME TypeOK, Owned, NEW s \in Sessions, Insert(s) \/ Launching(s) PROVE Owned'
  <1> USE DEF Owned, ContextHasOneOwner, AstrayIsOver, IdleClosesNothing, TypeOK
  <1>1. CASE Insert(s)  BY <1>1 DEF Insert, history
  <1>2. CASE Acquire(s)  BY <1>2 DEF Acquire, history
  <1>3. CASE Open(s)  BY <1>3, ProtocolParameters DEF Open, history
  <1>4. CASE Navigate(s)  BY <1>4 DEF Navigate, history
  <1>5. CASE Register(s)  BY <1>5 DEF Register, history
  <1>6. CASE RegisterFails(s)  BY <1>6 DEF RegisterFails
  <1>7. CASE PrepareFails(s)  BY <1>7, ProtocolParameters DEF PrepareFails, MarkFailed
  <1>8. CASE OpenFails(s)  BY <1>8, ProtocolParameters DEF OpenFails, MarkFailed
  <1>9. CASE PageFails(s)
    <2>1. s \in Openers  BY DEF Openers
    <2>2. s \notin browser' \ lost' /\ lost \subseteq lost' /\ browser' \subseteq browser
      BY <1>9, <2>1, LeftOpenType DEF PageFails
    <2> QED  BY <1>9, <2>2, ProtocolParameters DEF PageFails, MarkFailed
  <1>10. CASE Check(s)  BY <1>10 DEF Check, history
  <1> QED  BY <1>1, <1>2, <1>3, <1>4, <1>5, <1>6, <1>7, <1>8, <1>9, <1>10 DEF Launching

LEMMA OwnedTest ==
  ASSUME TypeOK, Owned, NEW x \in Tests, TestStarts(x) \/ TestEnds(x) PROVE Owned'
  <1> USE DEF Owned, ContextHasOneOwner, AstrayIsOver, IdleClosesNothing, TypeOK
  <1>1. x \in Openers /\ x \notin Sessions  BY ProtocolParameters DEF Openers
  <1>2. CASE TestStarts(x)  BY <1>1, <1>2 DEF TestStarts, history
  <1>3. CASE TestEnds(x)
    <2>1. x \notin browser' \ lost' /\ lost \subseteq lost' /\ browser' \subseteq browser
      BY <1>1, <1>3, LeftOpenType DEF TestEnds
    <2> QED  BY <1>1, <1>3, <2>1 DEF TestEnds
  <1> QED  BY <1>2, <1>3

LEMMA OwnedWorld == ASSUME TypeOK, Owned, World \/ Crash PROVE Owned'
  <1> USE DEF Owned, ContextHasOneOwner, AstrayIsOver, IdleClosesNothing, TypeOK
  <1>1. ASSUME NEW s \in Sessions, Logout(s) \/ EndRowOnly(s) \/ RunOut(s) PROVE Owned'
    BY <1>1 DEF Logout, EndRowOnly, RunOut, history
  <1>2. CASE OtherTakes  BY <1>2 DEF OtherTakes, history
  <1>3. CASE OtherReleases  BY <1>3 DEF OtherReleases, history
  <1>4. CASE BrowserDies  BY <1>4 DEF BrowserDies
  <1>5. CASE Crash
    <2>1. \A t \in Terminators : task'[t].closing = None  BY <1>5, IdleType DEF Crash
    <2> QED  BY <1>5, <2>1, ProtocolParameters DEF Crash
  <1> QED  BY <1>1, <1>2, <1>3, <1>4, <1>5 DEF World

(* Every terminator closes what it closed before. *)
Steady == \A x \in Terminators : task'[x].closing = task[x].closing

LEMMA OwnedSteady ==
  ASSUME TypeOK, Owned, Steady, IdleClosesNothing',
         UNCHANGED <<launch, testing, runtimes, browser, lost, leaked, doubled>>
  PROVE  Owned' /\ Holders' = Holders
  BY DEF Owned, ContextHasOneOwner, AstrayIsOver, Steady, Holders, Opening

LEMMA BeginIsSteady ==
  ASSUME TypeOK, Owned, BeginPass \/ \E t \in Admins, s \in Sessions : BeginAdmin(t, s)
  PROVE  Steady /\ IdleClosesNothing'
  <1> USE DEF Owned, IdleClosesNothing, Steady
  <1>1. CASE BeginPass  BY <1>1, PassTask DEF BeginPass
  <1>2. ASSUME NEW t \in Admins, NEW s \in Sessions, BeginAdmin(t, s) PROVE Steady /\ IdleClosesNothing'
    <2>1. t \in Terminators /\ {s} \in SUBSET Sessions  BY DEF Terminators
    <2>2. /\ task'[t].closing = None
          /\ \A x \in Terminators \ {t} : task'[x] = task[x]
      BY <1>2, <2>1, BeginAdminTask DEF BeginAdmin
    <2> QED  BY <1>2, <2>1, <2>2 DEF BeginAdmin
  <1> QED  BY <1>1, <1>2

(* Keep, Seal and Commit: nothing is being closed, before or after. *)
LEMMA RunningIsSteady ==
  ASSUME TypeOK, Owned, NEW t \in Terminators,
         (\E s \in Sessions : Keep(t, s) \/ Seal(t, s)) \/ Commit(t)
  PROVE  Steady /\ IdleClosesNothing'
  <1> USE DEF Owned, IdleClosesNothing, Steady
  <1>1. ASSUME NEW s \in Sessions, Keep(t, s) PROVE Steady /\ IdleClosesNothing'
    BY <1>1, KeepTask DEF Keep
  <1>2. ASSUME NEW s \in Sessions, Seal(t, s) PROVE Steady /\ IdleClosesNothing'
    <2>1. CASE CanWrite(t)  BY <1>2, <2>1, SealTask DEF Seal
    <2>2. CASE ~CanWrite(t)  BY <1>2, <2>2, AbortTask DEF Seal, Abort, Running
    <2> QED  BY <2>1, <2>2
  <1>3. CASE Commit(t)  BY <1>3, AbortTask DEF Commit, Running
  <1> QED  BY <1>1, <1>2, <1>3

(* The runtime goes from the registry to the one terminator that took it. *)
LEMMA PopOwned ==
  ASSUME TypeOK, Owned, NEW t \in Terminators, NEW s \in Sessions, Pop(t, s)
  PROVE  Owned' /\ Holders' = Holders
  <1>1. /\ task'[t].closing = s /\ task'[t].on = task[t].on
        /\ \A x \in Terminators \ {t} : task'[x] = task[x]
    BY PopTask DEF Pop
  <1>2. s # None /\ task[t].closing = None /\ task[t].on
    BY ProtocolParameters DEF Pop, Running
  <1>3. s \in runtimes /\ runtimes' = runtimes \ {s}
        /\ UNCHANGED <<launch, testing, browser, lost, leaked, doubled>>
    BY DEF Pop, history
  <1>4. None \notin Openers  BY ProtocolParameters DEF Openers
  <1>5. ContextHasOneOwner'
    BY <1>1, <1>2, <1>3, <1>4 DEF Openers, Owned, ContextHasOneOwner
  <1>6. IdleClosesNothing'  BY <1>1, <1>2 DEF Owned, IdleClosesNothing
  <1>7. Holders' = Holders
    <2>0. Holders \subseteq Openers /\ Holders' \subseteq Openers
      BY <1>3 DEF TypeOK, Holders, Opening, Openers
    <2>1. ASSUME NEW u \in Openers PROVE u \in Holders' <=> u \in Holders
      <3>1. CASE u = s  BY <1>1, <1>3, <3>1 DEF Holders, Opening
      <3>2. CASE u # s
        <4>1. \A x \in Terminators : task'[x].closing = u <=> task[x].closing = u
          BY <1>1, <1>2, <1>4, <3>2
        <4> QED  BY <1>3, <3>2, <4>1 DEF Holders, Opening
      <3> QED  BY <3>1, <3>2
    <2> QED  BY <2>0, <2>1
  <1> QED  BY <1>3, <1>5, <1>6, <1>7 DEF Owned, AstrayIsOver

(* A terminator has done with the session it was closing. *)
LEMMA ClosedOwned ==
  ASSUME TypeOK, Owned, NEW t \in Terminators, NEW s \in Sessions, task[t].closing = s,
         task'[t].closing = None, \A x \in Terminators \ {t} : task'[x] = task[x],
         s \notin browser' \ lost', browser' \subseteq browser, lost \subseteq lost',
         UNCHANGED <<launch, testing, runtimes, leaked, doubled>>
  PROVE  Owned' /\ s \in Holders /\ Holders' = Holders \ {s}
  <1>1. None \notin Sessions /\ s \notin testing  BY ProtocolParameters DEF TypeOK
  <1>2. launch[s] = "over" /\ s \notin runtimes /\ \A x \in Terminators : task[x].closing = s => x = t
    BY DEF Owned, ContextHasOneOwner
  <1>3. \A u \in Sessions \ {s}, x \in Terminators : task'[x].closing = u <=> task[x].closing = u
    BY <1>1
  <1>4. \A x \in Terminators : task'[x].closing # s  BY <1>1, <1>2
  <1>5. ContextHasOneOwner'
    BY <1>2, <1>3, <1>4 DEF Owned, ContextHasOneOwner
  <1>6. IdleClosesNothing'  BY DEF Owned, IdleClosesNothing
  <1>7. s \in Holders  BY DEF Holders, Opening
  <1>8. Holders' = Holders \ {s}
    <2>1. s \notin Holders'  BY <1>1, <1>2, <1>4 DEF Holders, Opening
    <2>2. \A u \in Openers \ {s} : u \in Holders' <=> u \in Holders
      BY <1>3 DEF Holders, Opening
    <2>3. Holders \subseteq Openers /\ Holders' \subseteq Openers
      BY DEF TypeOK, Holders, Opening, Openers
    <2> QED  BY <2>1, <2>2, <2>3
  <1> QED  BY <1>5, <1>6, <1>7, <1>8 DEF Owned, AstrayIsOver

LEMMA CloseOwned ==
  ASSUME TypeOK, Owned, NEW t \in Terminators, NEW s \in Sessions, Close(t, s) \/ CloseRaises(t, s)
  PROVE  /\ Owned' /\ s \in Holders /\ Holders' = Holders \ {s}
         /\ permits' = permits + 1 /\ UNCHANGED <<leaked, doubled>>
  <1>1. task[t].closing = s /\ permits' = permits + 1 /\ UNCHANGED <<launch, testing, runtimes, leaked, doubled>>
    BY DEF Close, CloseRaises, history
  <1>2. task'[t].closing = None /\ \A x \in Terminators \ {t} : task'[x] = task[x]
    BY CloseTask, AbortTask DEF Close, CloseRaises, Abort
  <1>3. s \notin browser' \ lost' /\ browser' \subseteq browser /\ lost \subseteq lost'
    BY DEF Close, CloseRaises, history
  <1> QED  BY <1>1, <1>2, <1>3, ClosedOwned
-----------------------------------------------------------------------------
(* The steps of the balance: a permit is taken, given back, leaked when it *)
(* is given up without being returned, or returned twice.                  *)
LEMMA Counts ==
  ASSUME TypeOK
  PROVE  /\ IsFiniteSet(Holders) /\ IsFiniteSet(leaked) /\ IsFiniteSet(doubled)
         /\ Cardinality(Holders) \in Nat /\ Cardinality(leaked) \in Nat
         /\ Cardinality(doubled) \in Nat /\ permits \in Nat /\ Pool \in Nat
  <1>1. Holders \subseteq Openers /\ leaked \subseteq Openers /\ doubled \subseteq Openers
    BY DEF Holders, Opening, Openers, TypeOK
  <1>2. IsFiniteSet(Holders) /\ IsFiniteSet(leaked) /\ IsFiniteSet(doubled)
    <2>1. IsFiniteSet(Openers)  BY ProtocolParameters, FS_Union DEF Openers
    <2> QED  BY <1>1, <2>1, FS_Subset
  <1> QED  BY <1>2, FS_CardinalityType, ProtocolParameters DEF TypeOK

LEMMA Kept ==
  ASSUME PermitsBalance, Holders' = Holders, UNCHANGED <<permits, leaked, doubled>>
  PROVE  PermitsBalance'
  BY DEF PermitsBalance

LEMMA Took ==
  ASSUME TypeOK, PermitsBalance, NEW s \in Openers, s \notin Holders, Holders' = Holders \cup {s},
         permits' = permits - 1, UNCHANGED <<leaked, doubled>>
  PROVE  PermitsBalance'
  <1>1. Cardinality(Holders') = Cardinality(Holders) + 1  BY Counts, FS_AddElement
  <1> QED  BY <1>1, Counts DEF PermitsBalance

LEMMA Gave ==
  ASSUME TypeOK, PermitsBalance, NEW s \in Openers, s \in Holders, Holders' = Holders \ {s},
         permits' = permits + 1, UNCHANGED <<leaked, doubled>>
  PROVE  PermitsBalance'
  <1>1. Cardinality(Holders') = Cardinality(Holders) - 1  BY Counts, FS_RemoveElement
  <1> QED  BY <1>1, Counts DEF PermitsBalance

LEMMA Leaked ==
  ASSUME TypeOK, PermitsBalance, NEW s \in Openers, s \in Holders, Holders' = Holders \ {s},
         s \notin leaked, leaked' = leaked \cup {s}, UNCHANGED <<permits, doubled>>
  PROVE  PermitsBalance'
  <1>1. Cardinality(Holders') = Cardinality(Holders) - 1  BY Counts, FS_RemoveElement
  <1>2. Cardinality(leaked') = Cardinality(leaked) + 1  BY Counts, FS_AddElement
  <1> QED  BY <1>1, <1>2, Counts DEF PermitsBalance

LEMMA Doubled ==
  ASSUME TypeOK, PermitsBalance, NEW s \in Sessions, Holders' = Holders, permits' = permits + 1,
         s \notin doubled, doubled' = doubled \cup {s}, UNCHANGED leaked
  PROVE  PermitsBalance'
  <1>1. Cardinality(doubled') = Cardinality(doubled) + 1  BY Counts, FS_AddElement
  <1> QED  BY <1>1, Counts DEF PermitsBalance

LEMMA BalanceInit == Init => PermitsBalance
  <1> SUFFICES ASSUME Init PROVE PermitsBalance  OBVIOUS
  <1>1. Holders = {}
    <2>1. \A t \in Terminators : task[t].closing = None  BY IdleType DEF Init
    <2> QED  BY <2>1, ProtocolParameters DEF Init, Holders, Opening
  <1>2. leaked = {} /\ doubled = {} /\ permits = Pool  BY DEF Init
  <1> QED  BY <1>1, <1>2, FS_EmptySet, ProtocolParameters DEF PermitsBalance

(* A launch touches the balance in its own session only. *)
LEMMA BalanceLaunch ==
  ASSUME TypeOK, Owned, PermitsBalance, NEW s \in Sessions, Insert(s) \/ Launching(s)
  PROVE  PermitsBalance'
  <1> DEFINE Closing(u) == \E t \in Terminators : task[t].closing = u
  <1>1. launch[s] # "over" => s \notin runtimes /\ ~Closing(s) /\ s \notin leaked /\ s \notin doubled
    BY DEF Owned, ContextHasOneOwner, AstrayIsOver
  <1>2. launch \in [Sessions -> Stages] /\ s \in Openers /\ s \notin testing
    BY ProtocolParameters DEF TypeOK, Openers
  <1>3. CASE Insert(s)
    <2>1. Holders' = Holders  BY <1>1, <1>2, <1>3 DEF Insert, Holders, Opening
    <2> QED  BY <1>3, <2>1, Kept DEF Insert, history
  <1>4. CASE Acquire(s)
    <2>1. s \notin Holders /\ Holders' = Holders \cup {s}
      BY <1>1, <1>2, <1>4 DEF Acquire, Holders, Opening
    <2> QED  BY <1>2, <1>4, <2>1, Took DEF Acquire, history
  <1>5. CASE Open(s)
    <2>1. Holders' = Holders  BY <1>2, <1>5 DEF Open, Holders, Opening
    <2> QED  BY <1>5, <2>1, Kept DEF Open, history
  <1>6. CASE Navigate(s)
    <2>1. Holders' = Holders  BY <1>6 DEF Navigate, Holders, Opening
    <2> QED  BY <1>6, <2>1, Kept DEF Navigate, history
  <1>7. CASE Register(s)
    <2>1. Holders' = Holders  BY <1>2, <1>7 DEF Register, Holders, Opening
    <2> QED  BY <1>7, <2>1, Kept DEF Register, history
  <1>8. CASE RegisterFails(s)
    <2>1. Holders' = Holders  BY <1>2, <1>8 DEF RegisterFails, Holders, Opening
    <2>2. CASE permits' = permits  BY <1>8, <2>1, <2>2, Counts, Kept DEF RegisterFails
    <2>3. CASE permits' = permits + 1 /\ doubled' = doubled \cup {s}
      BY <1>1, <1>8, <2>1, <2>3, Doubled DEF RegisterFails
    <2> QED  BY <1>8, <2>2, <2>3 DEF RegisterFails
  <1>9. CASE PrepareFails(s)
    <2>1. CASE launch[s] = "checking"
      <3>1. Holders' = Holders  BY <1>1, <1>2, <1>9, <2>1 DEF PrepareFails, MarkFailed, Holders, Opening
      <3> QED  BY <1>9, <2>1, <3>1, Kept DEF PrepareFails
    <2>2. CASE launch[s] = "preparing"
      <3>1. s \in Holders /\ Holders' = Holders \ {s}
        BY <1>1, <1>2, <1>9, <2>2 DEF PrepareFails, MarkFailed, Holders, Opening
      <3> QED  BY <1>1, <1>2, <1>9, <2>2, <3>1, Leaked DEF PrepareFails
    <2> QED  BY <1>9, <2>1, <2>2 DEF PrepareFails
  <1>10. CASE OpenFails(s) \/ PageFails(s)
    <2>1. s \in Holders /\ Holders' = Holders \ {s}
      BY <1>1, <1>2, <1>10 DEF OpenFails, PageFails, MarkFailed, Holders, Opening
    <2>2. CASE permits' = permits + 1 /\ leaked' = leaked
      BY <1>2, <1>10, <2>1, <2>2, Gave DEF OpenFails, PageFails
    <2>3. CASE leaked' = leaked \cup {s} /\ permits' = permits
      BY <1>1, <1>2, <1>10, <2>1, <2>3, Leaked DEF OpenFails, PageFails
    <2> QED  BY <1>10, <2>2, <2>3 DEF OpenFails, PageFails
  <1>11. CASE Check(s)
    <2>1. Holders' = Holders  BY <1>1, <1>2, <1>11 DEF Check, Holders, Opening
    <2> QED  BY <1>11, <2>1, Kept DEF Check, history
  <1> QED  BY <1>3, <1>4, <1>5, <1>6, <1>7, <1>8, <1>9, <1>10, <1>11 DEF Launching

(* A connection test takes a permit and returns or leaks it. *)
LEMMA BalanceTest ==
  ASSUME TypeOK, Owned, PermitsBalance, NEW x \in Tests, TestStarts(x) \/ TestEnds(x)
  PROVE  PermitsBalance'
  <1>1. x \in Openers /\ x \notin Sessions  BY ProtocolParameters DEF Openers
  <1>2. CASE TestStarts(x)
    <2>1. x \notin Holders /\ Holders' = Holders \cup {x}
      BY <1>1, <1>2 DEF TestStarts, Holders, Opening, TypeOK
    <2> QED  BY <1>1, <1>2, <2>1, Took DEF TestStarts, history
  <1>3. CASE TestEnds(x)
    <2>1. x \in Holders /\ Holders' = Holders \ {x}
      BY <1>1, <1>3 DEF TestEnds, Holders, Opening, TypeOK
    <2>2. CASE permits' = permits + 1 /\ leaked' = leaked
      BY <1>1, <1>3, <2>1, <2>2, Gave DEF TestEnds
    <2>3. CASE leaked' = leaked \cup {x} /\ permits' = permits
      <3>1. x \notin leaked  BY <1>3 DEF TestEnds, Owned, AstrayIsOver
      <3> QED  BY <1>1, <1>3, <2>1, <2>3, <3>1, Leaked DEF TestEnds
    <2> QED  BY <1>3, <2>2, <2>3 DEF TestEnds
  <1> QED  BY <1>2, <1>3

LEMMA BalanceWorld ==
  ASSUME TypeOK, Owned, PermitsBalance, World \/ Crash PROVE PermitsBalance'
  <1>1. CASE World
    <2>1. Holders' = Holders /\ UNCHANGED <<permits, leaked, doubled>>
      BY <1>1 DEF World, Logout, EndRowOnly, RunOut, OtherTakes, OtherReleases, BrowserDies, Holders, Opening, history
    <2> QED  BY <2>1, Kept
  <1>2. CASE Crash
    <2>1. Holders' = {}
      <3>1. \A t \in Terminators : task'[t].closing = None  BY <1>2, IdleType DEF Crash
      <3> QED  BY <1>2, <3>1, ProtocolParameters DEF Crash, Holders, Opening
    <2>2. leaked' = {} /\ doubled' = {} /\ permits' = Pool  BY <1>2 DEF Crash
    <2> QED  BY <2>1, <2>2, FS_EmptySet, ProtocolParameters DEF PermitsBalance
  <1> QED  BY <1>1, <1>2

LEMMA InvTerminate ==
  ASSUME TypeOK, Owned, PermitsBalance, NEW t \in Terminators, Terminate(t)
  PROVE  Owned' /\ PermitsBalance'
  <1>1. CASE (\E s \in Sessions : Keep(t, s) \/ Seal(t, s)) \/ Commit(t)
    <2>1. UNCHANGED <<launch, testing, runtimes, browser, lost, leaked, doubled, permits>>
      BY <1>1 DEF Keep, Seal, Commit, history
    <2>2. Steady /\ IdleClosesNothing'  BY <1>1, RunningIsSteady
    <2> QED  BY <2>1, <2>2, OwnedSteady, Kept
  <1>2. ASSUME NEW s \in Sessions, Pop(t, s) PROVE Owned' /\ PermitsBalance'
    BY <1>2, PopOwned, Kept DEF Pop, history
  <1>3. ASSUME NEW s \in Sessions, Close(t, s) \/ CloseRaises(t, s) PROVE Owned' /\ PermitsBalance'
    <2>1. s \in Openers  BY DEF Openers
    <2> QED  BY <1>3, <2>1, CloseOwned, Gave
  <1> QED  BY <1>1, <1>2, <1>3 DEF Terminate

LEMMA InvBegin ==
  ASSUME TypeOK, Owned, PermitsBalance,
         BeginPass \/ \E t \in Admins, s \in Sessions : BeginAdmin(t, s)
  PROVE  Owned' /\ PermitsBalance'
  <1>1. UNCHANGED <<launch, testing, runtimes, browser, lost, leaked, doubled, permits>>
    BY DEF BeginPass, BeginAdmin, history
  <1> QED  BY <1>1, BeginIsSteady, OwnedSteady, Kept

LEMMA InvStutter ==
  ASSUME Owned, PermitsBalance, UNCHANGED vars PROVE Owned' /\ PermitsBalance'
  BY DEF vars, history, Owned, ContextHasOneOwner, AstrayIsOver, IdleClosesNothing, PermitsBalance, Holders, Opening

LEMMA InvNext == IInv /\ [Next]_vars => IInv'
  <1> SUFFICES ASSUME TypeOK, Owned, PermitsBalance, [Next]_vars PROVE TypeOK' /\ Owned' /\ PermitsBalance'
    BY DEF IInv, Owned
  <1>1. TypeOK'  BY TypeNext
  <1>2. CASE Next
    BY <1>1, <1>2, NextCases, OwnedLaunch, BalanceLaunch, OwnedTest, BalanceTest, InvBegin,
       InvTerminate, OwnedWorld, BalanceWorld
  <1>3. CASE UNCHANGED vars  BY <1>1, <1>3, InvStutter
  <1> QED  BY <1>2, <1>3

LEMMA Invariant == Spec => []IInv
  <1>1. Init => IInv  BY TypeInit, OwnedInit, BalanceInit DEF IInv, Owned
  <1> QED  BY <1>1, InvNext, PTL DEF Spec

(* However launches, the monitor, administrators, faults and crashes       *)
(* interleave, an open context that no exception lost has exactly one      *)
(* owner, so no two terminations close it.                                 *)
THEOREM ContextsOwned == Spec => []ContextHasOneOwner
  <1>1. IInv => ContextHasOneOwner  BY DEF IInv
  <1> QED  BY <1>1, Invariant, PTL

(* The semaphore and those who hold a permit always add up to the pool,    *)
(* but for the permits that a raising mkdir or close kept from being       *)
(* returned and those that a failed register returned too early.           *)
THEOREM PermitsBalanced == Spec => []PermitsBalance
  <1>1. IInv => PermitsBalance  BY DEF IInv
  <1> QED  BY <1>1, Invariant, PTL
-----------------------------------------------------------------------------
(* The refinement.  Custody depends on what launches, the registry and the *)
(* terminators have; a step moves it for one session, or not at all.       *)
LEMMA CustodyKept ==
  ASSUME \A u \in Openers : Owners(u)' = Owners(u), permits' = permits
  PROVE  UNCHANGED Custody!vars
  BY DEF Custody!vars

LEMMA CustodyPassed ==
  ASSUME NEW s \in Openers, NEW from, NEW to, Owners(s) = from, Owners(s)' = to,
         \A u \in Openers \ {s} : Owners(u)' = Owners(u)
  PROVE  Custody!Pass(s, from, to)
  BY DEF Custody!Pass

LEMMA CustodyInit == Init => Custody!Init
  <1> SUFFICES ASSUME Init PROVE Custody!Init  OBVIOUS
  <1>1. \A t \in Terminators : task[t].closing = None  BY IdleType DEF Init
  <1>2. \A s \in Openers : Owners(s) = {}
    BY <1>1, ProtocolParameters DEF Init, Owners, Opening, Openers
  <1> QED  BY <1>2 DEF Init, Custody!Init, Custody!Nobody

(* A launch has no other owner while it lasts. *)
LEMMA LaunchOwns ==
  ASSUME TypeOK, Owned, NEW s \in Sessions, launch[s] # "over"
  PROVE  Owners(s) = {p \in {"launch"} : launch[s] \in {"preparing", "open"}}
  <1>1. s \notin testing  BY ProtocolParameters DEF TypeOK
  <1> QED  BY <1>1 DEF Owned, ContextHasOneOwner, Owners, Opening

(* What a step of the launch of s does to custody. *)
LEMMA LaunchMoves ==
  ASSUME TypeOK, Owned, NEW s \in Sessions, launch[s] # "over", NEW stage \in Stages,
         launch' = [launch EXCEPT ![s] = stage], task' = task, testing' = testing,
         runtimes' = runtimes \/ (stage = "over" /\ runtimes' = runtimes \cup {s})
  PROVE  /\ \A u \in Openers \ {s} : Owners(u)' = Owners(u)
         /\ Owners(s)' = IF s \in runtimes' THEN {"registry"}
                         ELSE {p \in {"launch"} : stage \in {"preparing", "open"}}
  <1>1. launch'[s] = stage /\ \A u \in Sessions \ {s} : launch'[u] = launch[u]  BY DEF TypeOK
  <1>2. s \notin runtimes /\ s \notin testing /\ \A t \in Terminators : task[t].closing # s
    BY ProtocolParameters DEF TypeOK, Owned, ContextHasOneOwner
  <1>3. \A u \in Openers \ {s} : u \in runtimes' <=> u \in runtimes  OBVIOUS
  <1>4. \A u \in Openers \ {s} : Owners(u)' = Owners(u)  BY <1>1, <1>3 DEF Owners, Opening
  <1>5. Owners(s)' = {p \in {"launch"} : stage \in {"preparing", "open"}}
                     \cup {p \in {"registry"} : s \in runtimes'}
    BY <1>1, <1>2 DEF Owners, Opening
  <1>6. s \in runtimes' => stage = "over"  BY <1>2
  <1> QED  BY <1>4, <1>5, <1>6

LEMMA CustodyLaunch ==
  ASSUME TypeOK, Owned, NEW s \in Sessions, Insert(s) \/ Launching(s)
  PROVE  [Custody!Next]_(Custody!vars)
  <1> DEFINE Moved(stage) ==
        /\ \A u \in Openers \ {s} : Owners(u)' = Owners(u)
        /\ Owners(s)' = IF s \in runtimes' THEN {"registry"}
                        ELSE {p \in {"launch"} : stage \in {"preparing", "open"}}
  <1> USE DEF Stages
  <1>0. (launch[s] # "over" => s \notin runtimes) /\ s \in Openers
    BY DEF Owned, ContextHasOneOwner, Openers
  <1>1. CASE Insert(s) \/ Check(s)
    <2>1. PICK stage \in {"checking", "waiting"} : launch' = [launch EXCEPT ![s] = stage]
      BY <1>1 DEF Insert, Check
    <2>2. /\ launch[s] \in {"none", "checking"} /\ task' = task /\ testing' = testing
          /\ runtimes' = runtimes /\ permits' = permits
      BY <1>1 DEF Insert, Check
    <2>3. Moved(stage)  BY <2>1, <2>2, LaunchMoves
    <2>4. Owners(s)' = {} /\ Owners(s) = {}  BY <1>0, <2>1, <2>2, <2>3, LaunchOwns
    <2> QED  BY <2>2, <2>3, <2>4, CustodyKept
  <1>2. CASE Acquire(s)
    <2>1. /\ launch[s] = "waiting" /\ launch' = [launch EXCEPT ![s] = "preparing"]
          /\ task' = task /\ testing' = testing /\ runtimes' = runtimes /\ permits > 0 /\ permits' = permits - 1
      BY <1>2 DEF Acquire
    <2>2. Moved("preparing")  BY <2>1, LaunchMoves
    <2>3. Owners(s) = {} /\ Owners(s)' = {"launch"}  BY <1>0, <2>1, <2>2, LaunchOwns
    <2>4. Custody!Take(s)
      BY <1>0, <2>1, <2>2, <2>3, CustodyPassed DEF Custody!Take, Custody!Nobody, Custody!Launch
    <2> QED  BY <1>0, <2>4 DEF Custody!Next
  <1>3. CASE Open(s)
    <2>1. /\ launch[s] = "preparing" /\ launch' = [launch EXCEPT ![s] = "open"]
          /\ task' = task /\ testing' = testing /\ runtimes' = runtimes /\ permits' = permits
      BY <1>3 DEF Open
    <2>2. Moved("open")  BY <2>1, LaunchMoves
    <2>3. Owners(s) = {"launch"} /\ Owners(s)' = {"launch"}  BY <1>0, <2>1, <2>2, LaunchOwns
    <2> QED  BY <2>1, <2>2, <2>3, CustodyKept
  <1>4. CASE Navigate(s)
    <2>1. \A u \in Openers : Owners(u)' = Owners(u)  BY <1>4 DEF Navigate, Owners, Opening
    <2> QED  BY <1>4, <2>1, CustodyKept DEF Navigate
  <1>5. CASE Register(s)
    <2>1. /\ launch[s] = "open" /\ launch' = [launch EXCEPT ![s] = "over"]
          /\ task' = task /\ testing' = testing /\ runtimes' = runtimes \cup {s} /\ permits' = permits
      BY <1>5 DEF Register
    <2>2. Moved("over")  BY <2>1, LaunchMoves
    <2>3. Owners(s) = {"launch"} /\ Owners(s)' = {"registry"}  BY <2>1, <2>2, LaunchOwns
    <2>4. Custody!HandOver(s)
      BY <1>0, <2>1, <2>2, <2>3, CustodyPassed DEF Custody!HandOver, Custody!Launch, Custody!Registry
    <2> QED  BY <1>0, <2>4 DEF Custody!Next
  <1>6. CASE RegisterFails(s)
    <2>1. /\ launch[s] = "open" /\ launch' = [launch EXCEPT ![s] = "over"]
          /\ task' = task /\ testing' = testing /\ runtimes' = runtimes \cup {s}
          /\ permits' \in {permits, permits + 1}
      BY <1>6 DEF RegisterFails
    <2>2. Moved("over")  BY <2>1, LaunchMoves
    <2>3. Owners(s) = {"launch"} /\ Owners(s)' = {"registry"}  BY <2>1, <2>2, LaunchOwns
    <2>4. Custody!HandOverTwice(s) \/ Custody!HandOver(s)
      BY <1>0, <2>1, <2>2, <2>3, CustodyPassed
      DEF Custody!HandOverTwice, Custody!HandOver, Custody!Launch, Custody!Registry
    <2> QED  BY <1>0, <2>4 DEF Custody!Next
  <1>7. CASE PrepareFails(s)
    <2>1. /\ launch[s] \in {"checking", "preparing"} /\ launch' = [launch EXCEPT ![s] = "over"]
          /\ task' = task /\ testing' = testing /\ runtimes' = runtimes /\ permits' = permits
      BY <1>7 DEF PrepareFails, MarkFailed
    <2>2. Moved("over")  BY <2>1, LaunchMoves
    <2>3. Owners(s)' = {}  BY <1>0, <2>1, <2>2
    <2>4. CASE launch[s] = "checking"
      <3>1. Owners(s) = {}  BY <2>4, LaunchOwns
      <3> QED  BY <2>1, <2>2, <2>3, <3>1, CustodyKept
    <2>5. CASE launch[s] = "preparing"
      <3>1. Owners(s) = {"launch"}  BY <2>5, LaunchOwns
      <3>2. Custody!Leak(s)
        BY <1>0, <2>1, <2>2, <2>3, <3>1, CustodyPassed DEF Custody!Leak, Custody!Launch, Custody!Nobody
      <3> QED  BY <1>0, <3>2 DEF Custody!Next
    <2> QED  BY <2>1, <2>4, <2>5
  <1>8. CASE OpenFails(s) \/ PageFails(s)
    <2>1. /\ launch[s] \in {"preparing", "open"} /\ launch' = [launch EXCEPT ![s] = "over"]
          /\ task' = task /\ testing' = testing /\ runtimes' = runtimes
          /\ permits' \in {permits, permits + 1}
      BY <1>8 DEF OpenFails, PageFails, MarkFailed
    <2>2. Moved("over")  BY <2>1, LaunchMoves
    <2>3. Owners(s)' = {} /\ Owners(s) = {"launch"}  BY <1>0, <2>1, <2>2, LaunchOwns
    <2>4. Custody!GiveBack(s) \/ Custody!Leak(s)
      BY <1>0, <2>1, <2>2, <2>3, CustodyPassed
      DEF Custody!GiveBack, Custody!Leak, Custody!Launch, Custody!Nobody
    <2> QED  BY <1>0, <2>4 DEF Custody!Next
  <1> QED  BY <1>1, <1>2, <1>3, <1>4, <1>5, <1>6, <1>7, <1>8 DEF Launching

(* What a connection test does to custody. *)
LEMMA CustodyTest ==
  ASSUME TypeOK, Owned, NEW x \in Tests, TestStarts(x) \/ TestEnds(x) PROVE Custody!Next
  <1>1. x \in Openers /\ x \notin Sessions  BY ProtocolParameters DEF Openers
  <1>2. /\ x \notin runtimes /\ \A t \in Terminators : task[t].closing # x
        /\ UNCHANGED <<launch, runtimes, task>>
    BY <1>1, ProtocolParameters DEF TypeOK, Task, TestStarts, TestEnds
  <1>3. CASE TestStarts(x)
    <2>1. testing' = testing \cup {x} /\ x \notin testing /\ permits > 0 /\ permits' = permits - 1
      BY <1>3 DEF TestStarts
    <2>2. Owners(x) = {} /\ Owners(x)' = {"launch"}  BY <1>1, <1>2, <2>1 DEF Owners, Opening
    <2>3. \A u \in Openers \ {x} : Owners(u)' = Owners(u)  BY <1>2, <2>1 DEF Owners, Opening
    <2>4. Custody!Take(x)
      BY <1>1, <2>1, <2>2, <2>3, CustodyPassed DEF Custody!Take, Custody!Nobody, Custody!Launch
    <2> QED  BY <1>1, <2>4 DEF Custody!Next
  <1>4. CASE TestEnds(x)
    <2>1. testing' = testing \ {x} /\ x \in testing /\ permits' \in {permits, permits + 1}
      BY <1>4 DEF TestEnds
    <2>2. Owners(x) = {"launch"} /\ Owners(x)' = {}  BY <1>1, <1>2, <2>1 DEF Owners, Opening
    <2>3. \A u \in Openers \ {x} : Owners(u)' = Owners(u)  BY <1>2, <2>1 DEF Owners, Opening
    <2>4. Custody!GiveBack(x) \/ Custody!Leak(x)
      BY <1>1, <2>1, <2>2, <2>3, CustodyPassed
      DEF Custody!GiveBack, Custody!Leak, Custody!Nobody, Custody!Launch
    <2> QED  BY <1>1, <2>4 DEF Custody!Next
  <1> QED  BY <1>3, <1>4

LEMMA CustodySteady ==
  ASSUME Steady, UNCHANGED <<launch, testing, runtimes, permits>> PROVE UNCHANGED Custody!vars
  <1>1. \A u \in Openers : Owners(u)' = Owners(u)  BY DEF Steady, Owners, Opening
  <1> QED  BY <1>1, CustodyKept

LEMMA CustodyClaimed ==
  ASSUME TypeOK, Owned, NEW t \in Terminators, NEW s \in Sessions, Pop(t, s)
  PROVE  Custody!Claim(t, s)
  <1>1. /\ task'[t].closing = s
        /\ \A x \in Terminators \ {t} : task'[x] = task[x]
    BY PopTask DEF Pop
  <1>2. s \in runtimes /\ runtimes' = runtimes \ {s} /\ UNCHANGED <<launch, testing, permits>>
    BY DEF Pop
  <1>3. /\ task[t].closing = None /\ None \notin Openers
        /\ s \in Openers /\ s \notin testing
    BY ProtocolParameters DEF Pop, Running, Openers, TypeOK
  <1>4. launch[s] = "over" /\ \A x \in Terminators : task[x].closing # s
    BY <1>2 DEF Owned, ContextHasOneOwner
  <1>5. Owners(s) = {"registry"} /\ Owners(s)' = {t}
    BY <1>1, <1>2, <1>3, <1>4 DEF Owners, Opening
  <1>6. ASSUME NEW u \in Openers \ {s} PROVE Owners(u)' = Owners(u)
    <2>1. \A x \in Terminators : task'[x].closing = u <=> task[x].closing = u
      BY <1>1, <1>3
    <2> QED  BY <1>2, <2>1 DEF Owners, Opening
  <1>7. \A u \in Openers : t \notin Owners(u)
    BY <1>3, RolesAreNoTerminators DEF Owners, Opening
  <1> QED  BY <1>2, <1>3, <1>5, <1>6, <1>7, CustodyPassed DEF Custody!Claim, Custody!Registry

LEMMA CustodyReturned ==
  ASSUME TypeOK, Owned, NEW t \in Terminators, NEW s \in Sessions, Close(t, s) \/ CloseRaises(t, s)
  PROVE  Custody!Return(t, s)
  <1>1. task[t].closing = s /\ permits' = permits + 1 /\ UNCHANGED <<launch, testing, runtimes>>
    BY DEF Close, CloseRaises
  <1>2. task'[t].closing = None /\ \A x \in Terminators \ {t} : task'[x] = task[x]
    BY CloseTask, AbortTask DEF Close, CloseRaises, Abort
  <1>3. launch[s] = "over" /\ s \notin runtimes /\ \A x \in Terminators : task[x].closing = s => x = t
    BY <1>1 DEF Owned, ContextHasOneOwner
  <1>4. None \notin Openers /\ s \in Openers /\ s \notin testing
    BY ProtocolParameters DEF Openers, TypeOK
  <1>5. Owners(s) = {t}  BY <1>1, <1>3, <1>4 DEF Owners, Opening
  <1>6. Owners(s)' = {}  BY <1>1, <1>2, <1>3, <1>4 DEF Owners, Opening
  <1>7. ASSUME NEW u \in Openers \ {s} PROVE Owners(u)' = Owners(u)
    <2>1. \A x \in Terminators : task'[x].closing = u <=> task[x].closing = u
      BY <1>1, <1>2, <1>4
    <2> QED  BY <1>1, <2>1 DEF Owners, Opening
  <1> QED  BY <1>1, <1>4, <1>5, <1>6, <1>7, CustodyPassed DEF Custody!Return, Custody!Nobody

LEMMA CustodyTerminate ==
  ASSUME TypeOK, Owned, NEW t \in Terminators, Terminate(t)
  PROVE  [Custody!Next]_(Custody!vars)
  <1>1. CASE (\E s \in Sessions : Keep(t, s) \/ Seal(t, s)) \/ Commit(t)
    <2>1. UNCHANGED <<launch, testing, runtimes, permits>>  BY <1>1 DEF Keep, Seal, Commit
    <2> QED  BY <1>1, <2>1, RunningIsSteady, CustodySteady
  <1>2. ASSUME NEW s \in Sessions, Pop(t, s) PROVE Custody!Next
    BY <1>2, CustodyClaimed DEF Custody!Next, Openers
  <1>3. ASSUME NEW s \in Sessions, Close(t, s) \/ CloseRaises(t, s) PROVE Custody!Next
    BY <1>3, CustodyReturned DEF Custody!Next, Openers
  <1> QED  BY <1>1, <1>2, <1>3 DEF Terminate

LEMMA CustodyCrash ==
  ASSUME Crash PROVE Custody!Crash
  <1>1. \A t \in Terminators : task'[t].closing = None  BY IdleType DEF Crash
  <1>2. \A s \in Openers : Owners(s)' = {}
    BY <1>1, ProtocolParameters DEF Crash, Owners, Opening, Openers
  <1> QED  BY <1>2 DEF Crash, Custody!Crash, Custody!Nobody

LEMMA CustodyNext ==
  ASSUME IInv, [Next]_vars PROVE [Custody!Next]_(Custody!vars)
  <1> USE DEF IInv, Owned
  <1>0. ASSUME NEW x \in Tests, TestStarts(x) \/ TestEnds(x) PROVE Custody!Next
    BY <1>0, CustodyTest
  <1>1. ASSUME NEW s \in Sessions, Insert(s) \/ Launching(s) PROVE [Custody!Next]_(Custody!vars)
    BY <1>1, CustodyLaunch
  <1>2. CASE BeginPass \/ \E t \in Admins, s \in Sessions : BeginAdmin(t, s)
    <2>1. UNCHANGED <<launch, testing, runtimes, permits>>  BY <1>2 DEF BeginPass, BeginAdmin
    <2> QED  BY <1>2, <2>1, BeginIsSteady, CustodySteady
  <1>3. ASSUME NEW t \in Terminators, Terminate(t) PROVE [Custody!Next]_(Custody!vars)
    BY <1>3, CustodyTerminate
  <1>4. CASE World
    <2>1. UNCHANGED <<launch, testing, runtimes, permits, task>>
      BY <1>4 DEF World, Logout, EndRowOnly, RunOut, OtherTakes, OtherReleases, BrowserDies
    <2> QED  BY <2>1, CustodySteady DEF Steady
  <1>5. CASE Crash  BY <1>5, CustodyCrash DEF Custody!Next
  <1>6. CASE UNCHANGED vars
    BY <1>6, CustodySteady DEF vars, Steady
  <1> QED  BY <1>0, <1>1, <1>2, <1>3, <1>4, <1>5, <1>6, NextCases

(* Launches, connection tests, the monitor's passes, administrators,       *)
(* faults and crashes pass the browsers and their permits around only as   *)
(* BrowserCustody allows.                                                  *)
THEOREM CustodyImplemented == Spec => ImplementsCustody
  <1>1. Spec => []IInv  BY Invariant
  <1>2. IInv /\ [Next]_vars => [Custody!Next]_(Custody!vars)  BY CustodyNext
  <1>3. Init => Custody!Init  BY CustodyInit
  <1> QED  BY <1>1, <1>2, <1>3, PTL DEF Spec, ImplementsCustody, Custody!Spec
=============================================================================
