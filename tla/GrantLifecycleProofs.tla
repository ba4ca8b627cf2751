------------------------ MODULE GrantLifecycleProofs ------------------------
(***************************************************************************)
(* Proofs about GrantLifecycle.  The argument is the write lock: whatever a *)
(* handler has established about rows and hosts since its first flush stays *)
(* true until its commit, because every step that could disturb it needs   *)
(* the lock the handler holds.                                             *)
(***************************************************************************)
EXTENDS GrantLifecycle, TLAPS

LockedPCs == InstallPCs \cup RemovePCs \cup {"commit_open", "close_row"}

FreePCs == {"idle", "submit", "approve", "reject", "archive", "import", "select"}

(* What a thread may have in hand without SQLite's write lock: nothing done *)
(* to a host, no grant closed.                                             *)
HoldsLock(t) ==
  /\ task[t].pc \in LockedPCs => writer = t
  /\ writer # t \/ task[t].pc \in FreePCs => task[t].dirty = {} /\ task[t].closed = {}

(* An opening handler holds an unused row; it closes nothing, and once past *)
(* the first call it has touched its account.                              *)
Opens(t) ==
  task[t].pc \in InstallPCs \cup {"commit_open"} =>
    /\ grant[task[t].cur].status = "unused"
    /\ task[t].closed = {}
    /\ task[t].pc \in InstallPCs => task[t].mode = "direct"
    /\ task[t].pc # "install_key" /\ task[t].mode = "direct" => Account(task[t].req) \in task[t].dirty

(* A closing handler works on the request of the row it has taken up, and  *)
(* calls the host for direct grants only.                                  *)
Closes(t) ==
  /\ task[t].pc \in RemovePCs \cup {"close_row"} => task[t].req = grant[task[t].cur].req
  /\ task[t].pc \in RemovePCs => grant[task[t].cur].mode = "direct"

(* Grants thread t has already stripped of what the steps before pcs undo. *)
Stripped(t, pcs) == {g \in Grants : g \in task[t].closed \/ (task[t].pc \in pcs /\ g = task[t].cur)}
Direct(g) == grant[g].mode = "direct"

AfterKey  == {"remove_sudo", "remove_hooks", "disable_user", "close_row"}
AfterSudo == {"remove_hooks", "disable_user", "close_row"}

NoKey(t) ==
  \A g \in Stripped(t, AfterKey) : Direct(g) =>
    KeyLine(grant[g].req) \notin keys /\ Account(grant[g].req) \in task[t].dirty
NoSudo(t) == \A g \in Stripped(t, AfterSudo) : Direct(g) => sudo[Account(grant[g].req)] = "none"

(* Hooks are removed and accounts locked only for grants the handler is    *)
(* about to close, all of them; and a direct grant commits hooked.         *)
LastOne(t) ==
  task[t].pc \in {"remove_hooks", "disable_user"} =>
    SameName(task[t].req) \subseteq task[t].closed \cup {task[t].cur}

OpensHooked(t) ==
  task[t].mode = "direct" /\ Account(task[t].req) \notin tainted =>
    /\ task[t].pc \in {"install_sudo", "install_hooks", "commit_open"} => Account(task[t].req) \notin locked
    /\ task[t].pc = "commit_open" => Account(task[t].req) \in hooks

Handler(t) ==
  /\ HoldsLock(t) /\ Opens(t) /\ Closes(t)
  /\ NoKey(t) /\ NoSudo(t) /\ LastOne(t) /\ OpensHooked(t)
HandlerInv == \A t \in Threads : Handler(t)

(* A key line has an active direct grant, or a handler about to commit one; *)
(* so has a sudoers file, at its level.                                    *)
KeyHasOwner ==
  \A h \in Hosts, u \in Users :
    <<h, u>> \in keys /\ <<h, LinuxName[u]>> \notin tainted =>
      \/ \E g \in Active : Direct(g) /\ KeyLine(grant[g].req) = <<h, u>>
      \/ \E t \in Threads :
           /\ task[t].pc \in {"install_sudo", "install_hooks", "commit_open"}
           /\ task[t].mode = "direct" /\ KeyLine(task[t].req) = <<h, u>>

SudoHasOwner ==
  \A a \in Accounts :
    sudo[a] # "none" /\ a \notin tainted =>
      \/ \E g \in DirectOn(a) : AccessType[grant[g].req] = sudo[a]
      \/ \E t \in Threads :
           /\ task[t].pc \in {"install_hooks", "commit_open"} /\ task[t].mode = "direct"
           /\ Account(task[t].req) = a /\ AccessType[task[t].req] = sudo[a]

(* An active direct grant is monitored, or its handler is about to close it. *)
Hooked(a) == a \in hooks /\ a \notin locked
ActiveIsHooked ==
  \A g \in Active : Direct(g) /\ Account(grant[g].req) \notin tainted =>
    \/ Hooked(Account(grant[g].req))
    \/ \E t \in Threads : g \in Stripped(t, AfterSudo)

(* A handler that creates a request is alone with an id not yet in use; one *)
(* that approves has read a status that only rejection takes away again.   *)
Creating(t) == task[t].pc \in OpeningPCs /\ task[t].seen = "absent"
Deciding(t) ==
  /\ Creating(t) => request[task[t].req] = "absent"
  /\ Creating(t) => \A s \in Threads : Creating(s) /\ task[s].req = task[t].req => s = t
  /\ task[t].pc = "submit" => task[t].seen = "absent"
  /\ task[t].pc \in OpeningPCs => task[t].seen \in {"absent", "pending", "approved"}
  /\ task[t].pc \in OpeningPCs /\ task[t].seen = "approved" => request[task[t].req] \in {"approved", "rejected"}
  /\ task[t].pc \in OpeningPCs /\ task[t].seen = "pending" => request[task[t].req] # "absent"
  /\ task[t].pc = "reject" => request[task[t].req] # "absent"
DecisionInv == \A t \in Threads : Deciding(t)

(* A handler closes rows that exist.                                       *)
InHand(t) == task[t].todo \cup task[t].closed
             \cup (IF task[t].pc \in RemovePCs \cup {"close_row"} THEN {task[t].cur} ELSE {})
RowsExist == \A t \in Threads : \A g \in InHand(t) : grant[g].status # "unused"

IInv ==
  /\ TypeOK /\ HandlerInv
  /\ KeyHasOwner /\ SudoHasOwner /\ ActiveIsHooked
  /\ DecisionInv /\ RowsExist /\ GrantNeedsApproval
-----------------------------------------------------------------------------
(* The record a thread that runs no handler is reset to is well typed.     *)
LEMMA IdleTaskType == IdleTask \in Task /\ IdleTask.pc = "idle" /\ IdleTask.dirty = {} /\ IdleTask.closed = {}
  <1>1. (CHOOSE r \in Requests : TRUE) \in Requests  BY Parameters
  <1>2. (CHOOSE h \in Hosts : TRUE) \in Hosts        BY Parameters
  <1>3. 1 \in Grants                                  BY Parameters DEF Grants
  <1> QED  BY <1>1, <1>2, <1>3 DEF IdleTask, Task, PCs, RequestStatus, Modes

(* Every request names a server and an account that exist.                 *)
LEMMA RequestData ==
  ASSUME NEW r \in Requests
  PROVE  Account(r) \in Accounts /\ KeyLine(r) \in Hosts \X Users /\ AccessType[r] \in AccessTypes
  BY Parameters DEF Account, KeyLine, Accounts

LEMMA TypeInit == Init => TypeOK
  <1> SUFFICES ASSUME Init PROVE TypeOK  OBVIOUS
  <1> USE IdleTaskType DEF Init
  <1>1. grant \in [Grants -> Row]
    <2>1. IdleTask.req \in Requests  BY DEF Task
    <2> QED  BY <2>1 DEF Row, GrantStatus, Modes
  <1>2. faults \in 0..MaxFaults  BY Parameters
  <1> QED  BY <1>1, <1>2 DEF TypeOK, RequestStatus, Accounts, Threads

LEMMA TypeBegin ==
  ASSUME TypeOK, NEW t \in Workers, Begin(t) PROVE TypeOK'
  <1> USE IdleTaskType
  <1>0. t \in Threads  BY DEF Threads
  <1>s. ASSUME NEW new \in Task, Start(t, new) PROVE TypeOK'
    BY <1>0, <1>s DEF TypeOK, Start, database, remote
  <1>1. ASSUME NEW r \in Requests, BeginCreate(t, r) PROVE TypeOK'
    <2>1. [IdleTask EXCEPT !.pc = "submit", !.req = r] \in Task  BY DEF Task, PCs
    <2> QED  BY <1>1, <1>s, <2>1 DEF BeginCreate
  <1>2. ASSUME NEW r \in Requests, BeginApprove(t, r) PROVE TypeOK'
    <2>1. [IdleTask EXCEPT !.pc = "approve", !.req = r, !.seen = request[r]] \in Task
      BY DEF Task, PCs, TypeOK
    <2> QED  BY <1>2, <1>s, <2>1 DEF BeginApprove
  <1>3. ASSUME NEW r \in Requests, BeginReject(t, r) PROVE TypeOK'
    <2>1. [IdleTask EXCEPT !.pc = "reject", !.req = r] \in Task  BY DEF Task, PCs
    <2> QED  BY <1>3, <1>s, <2>1 DEF BeginReject
  <1>4. ASSUME NEW g \in Grants, BeginRevoke(t, g) PROVE TypeOK'
    <2>1. [IdleTask EXCEPT !.pc = "close", !.todo = {g}] \in Task  BY DEF Task, PCs
    <2> QED  BY <1>4, <1>s, <2>1 DEF BeginRevoke
  <1>5. ASSUME NEW u \in Users, BeginRevokeUser(t, u) PROVE TypeOK'
    <2> DEFINE mine == {g \in Active : Subject[grant[g].req] = u}
    <2>1. [IdleTask EXCEPT !.pc = "close", !.todo = mine] \in Task  BY DEF Task, PCs, Active
    <2> QED  BY <1>5, <1>s, <2>1 DEF BeginRevokeUser
  <1>6. ASSUME NEW u \in Users, NEW h \in Hosts, LoseMembership(t, u, h) PROVE TypeOK'
    <2> DEFINE lost == {g \in Active : KeyLine(grant[g].req) = <<h, u>>}
               new  == [IdleTask EXCEPT !.pc = IF lost = {} THEN "commit_close" ELSE "close",
                          !.todo = lost, !.leave = {<<u, h>>}]
    <2>a. lost \subseteq Grants  BY DEF Active
    <2>b. (IF lost = {} THEN "commit_close" ELSE "close") \in PCs  BY DEF PCs
    <2>1. new \in Task
      <3> DEFINE next == IF lost = {} THEN "commit_close" ELSE "close"
                 away == {<<u, h>>}
      <3>1. lost \in SUBSET Grants /\ next \in PCs /\ away \in SUBSET (Users \X Hosts)
        BY <2>a, <2>b
      <3>2. new = [IdleTask EXCEPT !.pc = next, !.todo = lost, !.leave = away]  OBVIOUS
      <3> HIDE DEF lost, next, away, new
      <3> QED  BY <3>1, <3>2 DEF Task
    <2>2. task' = [task EXCEPT ![t] = new]  BY <1>6 DEF LoseMembership
    <2>3. task' \in [Threads -> Task]  BY <1>0, <2>1, <2>2 DEF TypeOK
    <2>4. writer' = t /\ UNCHANGED <<database, remote, phase, faults, tainted>>
      BY <1>6 DEF LoseMembership
    <2> QED  BY <1>0, <2>3, <2>4 DEF TypeOK, database, remote
  <1>7. ASSUME NEW h \in Hosts, BeginArchive(t, h) PROVE TypeOK'
    <2>1. [IdleTask EXCEPT !.pc = "archive", !.host = h] \in Task  BY DEF Task, PCs
    <2> QED  BY <1>7, <1>s, <2>1 DEF BeginArchive
  <1> QED  BY <1>1, <1>2, <1>3, <1>4, <1>5, <1>6, <1>7 DEF Begin

(* Release and the SSH calls keep the thread's record well typed.          *)
LEMMA TypeRelease ==
  ASSUME TypeOK, NEW t \in Threads, Release(t)
  PROVE  task' \in [Threads -> Task] /\ writer' \in Threads \cup {Nobody}
  BY IdleTaskType DEF Release, TypeOK

LEMMA TypeRemote ==
  ASSUME TypeOK, NEW t \in Threads, NEW pc, NEW next \in PCs,
         Remote(t, pc, next) \/ Unnoticed(t, pc, next)
  PROVE  /\ task' \in [Threads -> Task]
         /\ UNCHANGED <<database, writer, phase>>
         /\ Remote(t, pc, next) => UNCHANGED <<faults, tainted>>
         /\ Unnoticed(t, pc, next) => faults' \in 0..MaxFaults /\ tainted' \subseteq Accounts
         /\ task[t].req \in Requests /\ Account(task[t].req) \in Accounts
         /\ KeyLine(task[t].req) \in Hosts \X Users
  <1>1. task[t] \in Task /\ task[t].req \in Requests  BY DEF TypeOK, Task
  <1>2. Account(task[t].req) \in Accounts /\ KeyLine(task[t].req) \in Hosts \X Users
    BY <1>1, RequestData
  <1>3. [task[t] EXCEPT !.pc = next, !.dirty = @ \cup {Account(task[t].req)}] \in Task
    BY <1>1, <1>2 DEF Task
  <1>4. task' = [task EXCEPT ![t] = [task[t] EXCEPT !.pc = next, !.dirty = @ \cup {Account(task[t].req)}]]
    BY DEF Remote, Unnoticed, SshCall, TypeOK
  <1>5. UNCHANGED <<database, writer, phase>>  BY DEF Remote, Unnoticed, SshCall
  <1>6. ASSUME Unnoticed(t, pc, next) PROVE faults' \in 0..MaxFaults /\ tainted' \subseteq Accounts
    BY <1>2, <1>6, Parameters DEF Unnoticed, TypeOK
  <1> QED  BY <1>1, <1>2, <1>3, <1>4, <1>5, <1>6 DEF Remote, TypeOK

LEMMA TypeProceed ==
  ASSUME TypeOK, NEW t \in Threads, Proceed(t) PROVE TypeOK'
  <1>k. task[t] \in Task /\ task[t].req \in Requests /\ task[t].cur \in Grants /\ task[t].mode \in Modes
    BY DEF TypeOK, Task
  <1>d. Account(task[t].req) \in Accounts /\ AccessType[task[t].req] \in AccessTypes
    BY <1>k, RequestData
  <1>1. CASE Submit(t)
    BY <1>1, <1>k, TypeRelease DEF Submit, TypeOK, RequestStatus, remote
  <1>2. CASE OpenGrant(t)
    <2>1. PICK g \in Grants, m \in Modes :
            task' = [task EXCEPT ![t].cur = g, ![t].mode = m,
                       ![t].pc = IF m = "direct" THEN "install_key" ELSE "commit_open"]
      BY <1>2 DEF OpenGrant
    <2> DEFINE next == IF m = "direct" THEN "install_key" ELSE "commit_open"
               new  == [task[t] EXCEPT !.cur = g, !.mode = m, !.pc = next]
    <2>a. next \in PCs  BY DEF PCs
    <2>b. new \in Task
      <3> HIDE DEF next
      <3> QED  BY <1>k, <2>a DEF Task
    <2>c. task' = [task EXCEPT ![t] = new]  BY <2>1 DEF TypeOK
    <2>2. task' \in [Threads -> Task]
      <3> HIDE DEF new
      <3> QED  BY <2>b, <2>c DEF TypeOK
    <2> QED  BY <1>2, <2>2 DEF OpenGrant, TypeOK, database, remote
  <1>3. CASE InstallKey(t)
    <2>1. "install_sudo" \in PCs  BY DEF PCs
    <2> QED  BY <1>3, <2>1, TypeRemote DEF InstallKey, TypeOK, database
  <1>4. CASE InstallSudo(t)
    <2>1. "install_hooks" \in PCs  BY DEF PCs
    <2>2. sudo' \in [Accounts -> {"none"} \cup SudoLevels]
      BY <1>4, <1>d DEF InstallSudo, TypeOK, AccessTypes
    <2> QED  BY <1>4, <2>1, <2>2, TypeRemote DEF InstallSudo, TypeOK, database
  <1>5. CASE InstallHooks(t)
    <2>1. "commit_open" \in PCs  BY DEF PCs
    <2> QED  BY <1>5, <2>1, TypeRemote DEF InstallHooks, TypeOK, database
  <1>6. CASE CommitOpen(t)
    <2>1. [status |-> "active", req |-> task[t].req, mode |-> task[t].mode] \in Row
      BY <1>k DEF Row, GrantStatus
    <2>2. grant' \in [Grants -> Row]  BY <1>6, <1>k, <2>1 DEF CommitOpen, TypeOK
    <2>3. request' \in [Requests -> RequestStatus]
      BY <1>6, <1>k DEF CommitOpen, TypeOK, RequestStatus
    <2> QED  BY <1>6, <2>2, <2>3, TypeRelease DEF CommitOpen, TypeOK, remote
  <1>7. CASE CommitReject(t)
    BY <1>7, <1>k, TypeRelease DEF CommitReject, TypeOK, RequestStatus, remote
  <1>8. CASE CommitArchive(t)
    BY <1>8, TypeRelease DEF CommitArchive, TypeOK, remote
  <1>9. ASSUME NEW g \in Grants, TakeUp(t, g) PROVE TypeOK'
    <2>1. grant[g].req \in Requests  BY DEF TypeOK, Row
    <2> DEFINE next == IF grant[g].mode = "direct" THEN "remove_key" ELSE "close_row"
               new == [task[t] EXCEPT !.cur = g, !.req = grant[g].req, !.todo = @ \ {g}, !.pc = next]
    <2>a. next \in PCs  BY DEF PCs
    <2>b. new \in Task  BY <1>k, <2>1, <2>a DEF Task
    <2>c. task' = [task EXCEPT ![t] = new]  BY <1>9 DEF TakeUp, TypeOK
    <2>2. task' \in [Threads -> Task]
      <3> HIDE DEF new
      <3> QED  BY <2>b, <2>c DEF TypeOK
    <2> QED  BY <1>9, <2>2 DEF TakeUp, TypeOK, database, remote
  <1>10. CASE RemoveKey(t)
    <2>1. "remove_sudo" \in PCs  BY DEF PCs
    <2> QED  BY <1>10, <2>1, TypeRemote DEF RemoveKey, TypeOK, database
  <1>11. CASE RemoveSudo(t)
    <2>1. (IF OthersActive(t) THEN "close_row" ELSE "remove_hooks") \in PCs  BY DEF PCs
    <2>2. sudo' \in [Accounts -> {"none"} \cup SudoLevels]  BY <1>11 DEF RemoveSudo, TypeOK
    <2> QED  BY <1>11, <2>1, <2>2, TypeRemote DEF RemoveSudo, TypeOK, database
  <1>12. CASE RemoveHooks(t)
    <2>1. "disable_user" \in PCs  BY DEF PCs
    <2> QED  BY <1>12, <2>1, TypeRemote DEF RemoveHooks, TypeOK, database
  <1>13. CASE DisableUser(t)
    <2>1. "close_row" \in PCs  BY DEF PCs
    <2> QED  BY <1>13, <2>1, TypeRemote DEF DisableUser, TypeOK, database
  <1>14. CASE CloseRow(t)
    <2> DEFINE next == IF task[t].todo = {} THEN "commit_close" ELSE "close"
               new == [task[t] EXCEPT !.closed = @ \cup {task[t].cur}, !.pc = next]
    <2>a. next \in PCs  BY DEF PCs
    <2>b. new \in Task
      <3> HIDE DEF next
      <3> QED  BY <1>k, <2>a DEF Task
    <2>c. task' = [task EXCEPT ![t] = new]  BY <1>14 DEF CloseRow, TypeOK
    <2>1. task' \in [Threads -> Task]
      <3> HIDE DEF new
      <3> QED  BY <2>b, <2>c DEF TypeOK
    <2> QED  BY <1>14, <2>1 DEF CloseRow, TypeOK, database, remote
  <1>15. CASE CommitClose(t)
    <2>1. grant' \in [Grants -> Row]  BY <1>15 DEF CommitClose, TypeOK, Row, GrantStatus
    <2>2. request' \in [Requests -> RequestStatus]  BY <1>15 DEF CommitClose, TypeOK, RequestStatus
    <2> QED  BY <1>15, <2>1, <2>2, TypeRelease DEF CommitClose, TypeOK, remote
  <1> QED  BY <1>1, <1>2, <1>3, <1>4, <1>5, <1>6, <1>7, <1>8, <1>9, <1>10, <1>11, <1>12, <1>13,
              <1>14, <1>15 DEF Proceed

LEMMA TypeUnnoticed ==
  ASSUME TypeOK, NEW t \in Threads, LeaveLocked(t) \/ LeaveUnhooked(t) PROVE TypeOK'
  <1>1. "install_sudo" \in PCs /\ "commit_open" \in PCs  BY DEF PCs
  <1>2. CASE LeaveLocked(t)
    BY <1>1, <1>2, TypeRemote DEF LeaveLocked, TypeOK, database
  <1>3. CASE LeaveUnhooked(t)
    BY <1>1, <1>3, TypeRemote DEF LeaveUnhooked, TypeOK, database
  <1> QED  BY <1>2, <1>3

LEMMA TypeRollback ==
  ASSUME TypeOK, NEW t \in Threads, Rollback(t), faults' \in 0..MaxFaults PROVE TypeOK'
  <1>1. task[t].dirty \subseteq Accounts  BY DEF TypeOK, Task
  <1>2. task' \in [Threads -> Task]  BY IdleTaskType DEF Rollback, TypeOK
  <1> QED  BY <1>1, <1>2 DEF Rollback, TypeOK, database, remote

(* TypeOK is inductive.                                                    *)
LEMMA TypeNext == TypeOK /\ [Next]_vars => TypeOK'
  <1> SUFFICES ASSUME TypeOK, [Next]_vars PROVE TypeOK'  OBVIOUS
  <1>0. Scheduler \in Threads  BY DEF Threads
  <1>1. ASSUME NEW t \in Workers, Begin(t) PROVE TypeOK'  BY <1>1, TypeBegin
  <1>2. ASSUME NEW t \in Threads, Proceed(t) PROVE TypeOK'  BY <1>2, TypeProceed
  <1>3. ASSUME NEW t \in Threads, Refuse(t) \/ GiveUp(t) PROVE TypeOK'
    BY <1>3, TypeRollback DEF Refuse, GiveUp, TypeOK
  <1>4. ASSUME NEW t \in Threads, LoseCall(t) PROVE TypeOK'
    <2>1. faults' \in 0..MaxFaults  BY <1>4, Parameters DEF LoseCall, TypeOK
    <2> QED  BY <1>4, <2>1, TypeRollback DEF LoseCall
  <1>14. ASSUME NEW t \in Threads, LeaveLocked(t) \/ LeaveUnhooked(t) PROVE TypeOK'
    BY <1>14, TypeUnnoticed
  <1>5. CASE StartTick
    BY <1>0, <1>5 DEF StartTick, Goto, TypeOK, Task, PCs, database, remote
  <1>6. CASE ImportLogs
    BY <1>0, <1>6 DEF ImportLogs, Goto, TypeOK, Task, PCs, database, remote
  <1>7. CASE SelectDue
    <2> DEFINE next == IF Active \cap due = {} THEN "commit_close" ELSE "close"
               new  == [task[Scheduler] EXCEPT !.todo = Active \cap due, !.pc = next]
    <2>a. next \in PCs /\ Active \cap due \in SUBSET Grants  BY DEF PCs, Active
    <2>b. task[Scheduler] \in Task  BY <1>0 DEF TypeOK
    <2>c. new \in Task
      <3> HIDE DEF next
      <3> QED  BY <2>a, <2>b DEF Task
    <2>d. task' = [task EXCEPT ![Scheduler] = new]  BY <1>0, <1>7 DEF SelectDue, TypeOK
    <2>1. task' \in [Threads -> Task]
      <3> HIDE DEF new
      <3> QED  BY <2>c, <2>d DEF TypeOK
    <2> QED  BY <1>7, <2>1 DEF SelectDue, TypeOK, database, remote
  <1>8. ASSUME NEW g \in Grants, ClockPasses(g) PROVE TypeOK'
    BY <1>8 DEF ClockPasses, TypeOK, remote
  <1>9. ASSUME NEW h \in Hosts, Disable(h) \/ Enable(h) PROVE TypeOK'
    BY <1>9 DEF Disable, Enable, TypeOK, remote
  <1>10. ASSUME NEW u \in Users, NEW h \in Hosts, Join(u, h) PROVE TypeOK'
    BY <1>10 DEF Join, TypeOK, remote
  <1>11. CASE Crash
    <2>1. task' \in [Threads -> Task]  BY <1>11, IdleTaskType DEF Crash
    <2>2. faults' \in 0..MaxFaults  BY <1>11, Parameters DEF Crash, TypeOK
    <2>3. \A t \in Threads : task[t].dirty \subseteq Accounts  BY DEF TypeOK, Task
    <2> QED  BY <1>11, <2>1, <2>2, <2>3 DEF Crash, TypeOK, database, remote
  <1>12. CASE Restart
    BY <1>12 DEF Restart, TypeOK, database, remote
  <1>13. CASE UNCHANGED vars
    BY <1>13 DEF vars, TypeOK, database, remote
  <1> QED  BY <1>1, <1>2, <1>3, <1>4, <1>5, <1>6, <1>7, <1>8, <1>9, <1>10, <1>11, <1>12, <1>13,
              <1>14 DEF Next

(* Every variable keeps its type, for any sets of threads, users, servers, *)
(* requests and any bounds.                                                *)
THEOREM TypeCorrect == Spec => []TypeOK
  <1> QED  BY TypeInit, TypeNext, PTL DEF Spec
-----------------------------------------------------------------------------
(* The steps of Next by whom they belong to: a thread, the whole process,  *)
(* or nobody whose handler is in progress.                                 *)
Own(t) ==
  \/ t \in Workers /\ Begin(t)
  \/ Proceed(t) \/ Refuse(t) \/ LoseCall(t) \/ GiveUp(t) \/ LeaveLocked(t) \/ LeaveUnhooked(t)
  \/ t = Scheduler /\ (StartTick \/ ImportLogs \/ SelectDue)

Handlers == <<request, grant, keys, sudo, hooks, locked, task, writer, tainted>>

LEMMA StepsOf == [Next]_vars => (\E t \in Threads : Own(t)) \/ Crash \/ UNCHANGED Handlers
  <1> SUFFICES ASSUME [Next]_vars PROVE (\E t \in Threads : Own(t)) \/ Crash \/ UNCHANGED Handlers
    OBVIOUS
  <1>1. Workers \subseteq Threads /\ Scheduler \in Threads  BY DEF Threads
  <1>2. ASSUME NEW g \in Grants, ClockPasses(g) PROVE UNCHANGED Handlers
    BY <1>2 DEF ClockPasses, Handlers, remote
  <1>3. ASSUME NEW h \in Hosts, Disable(h) \/ Enable(h) PROVE UNCHANGED Handlers
    BY <1>3 DEF Disable, Enable, Handlers, remote
  <1>4. ASSUME NEW u \in Users, NEW h \in Hosts, Join(u, h) PROVE UNCHANGED Handlers
    BY <1>4 DEF Join, Handlers, remote
  <1>5. ASSUME Restart \/ UNCHANGED vars PROVE UNCHANGED Handlers
    BY <1>5 DEF Restart, vars, Handlers, database, remote
  <1> QED  BY <1>1, <1>2, <1>3, <1>4, <1>5 DEF Next, Own

(* A thread's step leaves the records of the other threads alone.          *)
LEMMA OthersKeepTask ==
  ASSUME TypeOK, NEW t \in Threads, Own(t), NEW s \in Threads, s # t
  PROVE  task'[s] = task[s]
  <1>1. CASE t \in Workers /\ Begin(t)
    BY <1>1 DEF Begin, BeginCreate, BeginApprove, BeginReject, BeginRevoke, BeginRevokeUser,
                LoseMembership, BeginArchive, Start, TypeOK
  <1>2. CASE Proceed(t)
    BY <1>2 DEF Proceed, Submit, OpenGrant, InstallKey, InstallSudo, InstallHooks, CommitOpen,
                CommitReject, CommitArchive, TakeUp, RemoveKey, RemoveSudo, RemoveHooks,
                DisableUser, CloseRow, CommitClose, Remote, SshCall, Release, TypeOK
  <1>3. CASE Refuse(t) \/ LoseCall(t) \/ GiveUp(t)
    BY <1>3 DEF Refuse, LoseCall, GiveUp, Rollback, TypeOK
  <1>4. CASE t = Scheduler /\ (StartTick \/ ImportLogs \/ SelectDue)
    BY <1>4 DEF StartTick, ImportLogs, SelectDue, Goto, TypeOK
  <1>5. CASE LeaveLocked(t) \/ LeaveUnhooked(t)
    BY <1>5 DEF LeaveLocked, LeaveUnhooked, Unnoticed, SshCall, TypeOK
  <1> QED  BY <1>1, <1>2, <1>3, <1>4, <1>5 DEF Own

(* What is lost stays lost.                                                *)
LEMMA TaintedStays ==
  ASSUME NEW t \in Threads, Own(t) PROVE tainted \subseteq tainted'
  <1>1. CASE t \in Workers /\ Begin(t)
    BY <1>1 DEF Begin, BeginCreate, BeginApprove, BeginReject, BeginRevoke, BeginRevokeUser,
                LoseMembership, BeginArchive, Start
  <1>2. CASE Proceed(t)
    BY <1>2 DEF Proceed, Submit, OpenGrant, InstallKey, InstallSudo, InstallHooks, CommitOpen,
                CommitReject, CommitArchive, TakeUp, RemoveKey, RemoveSudo, RemoveHooks,
                DisableUser, CloseRow, CommitClose, Remote
  <1>3. CASE Refuse(t) \/ LoseCall(t) \/ GiveUp(t)
    BY <1>3 DEF Refuse, LoseCall, GiveUp, Rollback
  <1>4. CASE t = Scheduler /\ (StartTick \/ ImportLogs \/ SelectDue)
    BY <1>4 DEF StartTick, ImportLogs, SelectDue
  <1>5. CASE LeaveLocked(t) \/ LeaveUnhooked(t)
    BY <1>5 DEF LeaveLocked, LeaveUnhooked, Unnoticed
  <1> QED  BY <1>1, <1>2, <1>3, <1>4, <1>5 DEF Own

(* What only the lock's holder may change is not changed by another thread: *)
(* rows of grants, the hosts, and the lock itself.                         *)
LEMMA LockProtects ==
  ASSUME TypeOK, HandlerInv, NEW s \in Threads, NEW t \in Threads, s # t, writer = s, Own(t)
  PROVE  UNCHANGED <<grant, keys, sudo, hooks, locked, writer>>
  <1>1. HoldsLock(t)  BY DEF HandlerInv, Handler
  <1>2. task[t].pc \notin LockedPCs /\ task[t].closed = {}  BY <1>1 DEF HoldsLock
  <1>0. s # Nobody  BY Parameters
  <1>3. CASE t \in Workers /\ Begin(t)
    BY <1>0, <1>3 DEF Begin, BeginCreate, BeginApprove, BeginReject, BeginRevoke, BeginRevokeUser,
                LoseMembership, BeginArchive, Start, CanWrite, database, remote
  <1>4. CASE Proceed(t)
    <2>1. CASE Submit(t) \/ OpenGrant(t) \/ CommitReject(t) \/ CommitArchive(t)
      BY <1>0, <2>1 DEF Submit, OpenGrant, CommitReject, CommitArchive, CanWrite
    <2>2. ASSUME NEW g \in Grants, TakeUp(t, g) PROVE FALSE  BY <1>0, <2>2 DEF TakeUp, CanWrite
    <2>3. CASE CommitClose(t)
      <3>1. grant' = grant  BY <1>2, <2>3 DEF CommitClose, TypeOK
      <3> QED  BY <2>3, <3>1 DEF CommitClose, Release, remote
    <2>4. CASE \/ InstallKey(t) \/ InstallSudo(t) \/ InstallHooks(t) \/ CommitOpen(t)
               \/ RemoveKey(t) \/ RemoveSudo(t) \/ RemoveHooks(t) \/ DisableUser(t) \/ CloseRow(t)
      BY <1>2, <2>4 DEF InstallKey, InstallSudo, InstallHooks, CommitOpen, RemoveKey, RemoveSudo,
           RemoveHooks, DisableUser, CloseRow, Remote, SshCall, At, LockedPCs, InstallPCs, RemovePCs
    <2> QED  BY <1>4, <2>1, <2>2, <2>3, <2>4 DEF Proceed
  <1>5. CASE Refuse(t) \/ LoseCall(t) \/ GiveUp(t)
    BY <1>5 DEF Refuse, LoseCall, GiveUp, Rollback, database, remote
  <1>6. CASE t = Scheduler /\ (StartTick \/ ImportLogs \/ SelectDue)
    BY <1>6 DEF StartTick, ImportLogs, SelectDue, database, remote
  <1>7. CASE LeaveLocked(t) \/ LeaveUnhooked(t)
    BY <1>2, <1>7 DEF LeaveLocked, LeaveUnhooked, Unnoticed, SshCall, At, LockedPCs, InstallPCs
  <1> QED  BY <1>3, <1>4, <1>5, <1>6, <1>7 DEF Own

(* A thread takes the lock for itself or gives it back.                    *)
LEMMA LockMoves ==
  ASSUME TypeOK, NEW t \in Threads, Own(t) PROVE writer' \in {writer, t, Nobody}
  <1>1. CASE t \in Workers /\ Begin(t)
    BY <1>1 DEF Begin, BeginCreate, BeginApprove, BeginReject, BeginRevoke, BeginRevokeUser,
                LoseMembership, BeginArchive, Start
  <1>2. CASE Proceed(t)
    BY <1>2 DEF Proceed, Submit, OpenGrant, InstallKey, InstallSudo, InstallHooks, CommitOpen,
                CommitReject, CommitArchive, TakeUp, RemoveKey, RemoveSudo, RemoveHooks,
                DisableUser, CloseRow, CommitClose, Remote, SshCall, Release
  <1>3. CASE Refuse(t) \/ LoseCall(t) \/ GiveUp(t)
    BY <1>3 DEF Refuse, LoseCall, GiveUp, Rollback
  <1>4. CASE t = Scheduler /\ (StartTick \/ ImportLogs \/ SelectDue)
    BY <1>4 DEF StartTick, ImportLogs, SelectDue
  <1>5. CASE LeaveLocked(t) \/ LeaveUnhooked(t)
    BY <1>5 DEF LeaveLocked, LeaveUnhooked, Unnoticed, SshCall
  <1> QED  BY <1>1, <1>2, <1>3, <1>4, <1>5 DEF Own

(* A thread with nothing in hand satisfies its part of the invariant.      *)
LEMMA FreeHandler ==
  ASSUME NEW t \in Threads, task'[t].pc \notin LockedPCs,
         task'[t].closed = {}, task'[t].dirty = {}
  PROVE  Handler(t)'
  <1>1. HoldsLock(t)'  BY DEF HoldsLock
  <1>2. Opens(t)' /\ Closes(t)' /\ LastOne(t)' /\ OpensHooked(t)'
    BY DEF Opens, Closes, LastOne, OpensHooked, LockedPCs, InstallPCs, RemovePCs
  <1>3. NoKey(t)'  BY DEF NoKey, Stripped, AfterKey, LockedPCs, RemovePCs
  <1>4. NoSudo(t)'  BY DEF NoSudo, Stripped, AfterSudo, LockedPCs, RemovePCs
  <1> QED  BY <1>1, <1>2, <1>3, <1>4 DEF Handler

(* Another thread's step cannot disturb it either.                         *)
LEMMA OtherHandlers ==
  ASSUME TypeOK, HandlerInv, NEW t \in Threads, Own(t), NEW s \in Threads, s # t
  PROVE  Handler(s)'
  <1>1. task'[s] = task[s]  BY OthersKeepTask
  <1>2. Handler(s)  BY DEF HandlerInv
  <1>3. CASE writer = s
    <2>1. UNCHANGED <<grant, keys, sudo, hooks, locked, writer>>  BY <1>3, LockProtects
    <2>0. tainted \subseteq tainted'  BY TaintedStays
    <2>2. HoldsLock(s)' /\ Opens(s)' /\ Closes(s)'
      BY <1>1, <1>2, <2>1 DEF Handler, HoldsLock, Opens, Closes
    <2>3. NoKey(s)' /\ NoSudo(s)'
      BY <1>1, <1>2, <2>1 DEF Handler, NoKey, NoSudo, Stripped, Direct
    <2>4. LastOne(s)' /\ OpensHooked(s)'
      BY <1>1, <1>2, <2>0, <2>1 DEF Handler, LastOne, OpensHooked, SameName, Active, Account
    <2> QED  BY <2>2, <2>3, <2>4 DEF Handler
  <1>4. CASE writer # s
    <2>1. task[s].pc \notin LockedPCs /\ task[s].closed = {} /\ task[s].dirty = {}
      BY <1>2, <1>4 DEF Handler, HoldsLock
    <2> QED  BY <1>1, <2>1, FreeHandler
  <1> QED  BY <1>3, <1>4

(* What an SSH call does to the handler that makes it.                     *)
Called(t, pc, next) ==
  /\ task[t].pc = pc /\ task'[t].pc = next
  /\ task'[t].req = task[t].req /\ task'[t].mode = task[t].mode /\ task'[t].cur = task[t].cur
  /\ task'[t].closed = task[t].closed
  /\ task'[t].dirty = task[t].dirty \cup {Account(task[t].req)}
  /\ grant' = grant /\ writer' = writer
  /\ tainted' \in {tainted, tainted \cup {Account(task[t].req)}}

LEMMA CalledBy ==
  ASSUME TypeOK, NEW t \in Threads, NEW pc, NEW next, Remote(t, pc, next) \/ Unnoticed(t, pc, next)
  PROVE  Called(t, pc, next)
  <1>1. SshCall(t, pc, next) /\ tainted' \in {tainted, tainted \cup {Account(task[t].req)}}
    BY DEF Remote, Unnoticed
  <1> QED  BY <1>1 DEF SshCall, Called, At, database, TypeOK, Task

(* The calls of the handler that holds the lock, in the order it makes them. *)
LEMMA OpenHandler ==
  ASSUME TypeOK, HandlerInv, NEW t \in Threads,
         \/ OpenGrant(t) \/ InstallKey(t) \/ InstallSudo(t) \/ InstallHooks(t)
         \/ LeaveLocked(t) \/ LeaveUnhooked(t)
  PROVE  Handler(t)'
  <1>k. task[t] \in Task /\ task[t].dirty \subseteq Accounts /\ task[t].req \in Requests  BY DEF TypeOK, Task
  <1>h. HoldsLock(t) /\ Opens(t) /\ OpensHooked(t)  BY DEF HandlerInv, Handler
  <1>1. ASSUME Opens(t)', OpensHooked(t)', HoldsLock(t)', task'[t].pc \in InstallPCs \cup {"commit_open"}
        PROVE  Handler(t)'
    <2>1. task'[t].closed = {}  BY <1>1 DEF Opens
    <2>2. Closes(t)' /\ LastOne(t)'
      BY <1>1 DEF Closes, LastOne, InstallPCs, RemovePCs
    <2>3. NoKey(t)' /\ NoSudo(t)'
      BY <1>1, <2>1 DEF NoKey, NoSudo, Stripped, AfterKey, AfterSudo, InstallPCs
    <2> QED  BY <1>1, <2>2, <2>3 DEF Handler
  <1>2. CASE OpenGrant(t)
    <2>1. PICK g \in Grants, m \in Modes :
            /\ IsNextId(g)
            /\ task' = [task EXCEPT ![t].cur = g, ![t].mode = m,
                          ![t].pc = IF m = "direct" THEN "install_key" ELSE "commit_open"]
      BY <1>2 DEF OpenGrant
    <2>2. /\ task'[t].cur = g /\ task'[t].mode = m /\ task'[t].closed = task[t].closed
          /\ task'[t].dirty = task[t].dirty
          /\ task'[t].pc = IF m = "direct" THEN "install_key" ELSE "commit_open"
      BY <1>k, <2>1 DEF TypeOK, Task
    <2>3. task[t].closed = {} /\ task[t].dirty = {}
      BY <1>2, <1>h DEF OpenGrant, At, HoldsLock, FreePCs
    <2>4. writer' = t /\ grant' = grant  BY <1>2 DEF OpenGrant, database
    <2>5. Opens(t)'
      <3>1. grant[g].status = "unused"  BY <2>1 DEF IsNextId
      <3>2. task'[t].pc = "commit_open" => task'[t].mode # "direct"  BY <2>2
      <3>3. task'[t].pc \in InstallPCs => task'[t].mode = "direct"  BY <2>2 DEF InstallPCs
      <3>4. task'[t].pc \in {"install_key", "commit_open"}  BY <2>2
      <3> QED  BY <2>2, <2>3, <2>4, <3>1, <3>2, <3>3, <3>4 DEF Opens
    <2>6. OpensHooked(t)' /\ HoldsLock(t)'
      BY <2>2, <2>3, <2>4 DEF OpensHooked, HoldsLock
    <2> QED  BY <1>1, <2>2, <2>5, <2>6 DEF InstallPCs
  <1>3. CASE InstallKey(t)
    <2>1. Called(t, "install_key", "install_sudo")  BY <1>3, CalledBy DEF InstallKey
    <2>2. locked' = locked \ {Account(task[t].req)}  BY <1>3 DEF InstallKey
    <2>3. Opens(t)'  BY <1>h, <2>1 DEF Called, Opens, InstallPCs, Account
    <2>4. OpensHooked(t)'  BY <1>h, <2>1, <2>2 DEF Called, OpensHooked, Account
    <2>5. HoldsLock(t)'  BY <1>h, <2>1 DEF Called, HoldsLock, LockedPCs, InstallPCs, FreePCs
    <2> QED  BY <1>1, <2>1, <2>3, <2>4, <2>5 DEF Called, InstallPCs
  <1>4. CASE InstallSudo(t)
    <2>1. Called(t, "install_sudo", "install_hooks")  BY <1>4, CalledBy DEF InstallSudo
    <2>2. locked' = locked  BY <1>4 DEF InstallSudo
    <2>3. Opens(t)'  BY <1>h, <2>1 DEF Called, Opens, InstallPCs, Account
    <2>4. OpensHooked(t)'  BY <1>h, <2>1, <2>2 DEF Called, OpensHooked, Account
    <2>5. HoldsLock(t)'  BY <1>h, <2>1 DEF Called, HoldsLock, LockedPCs, InstallPCs, FreePCs
    <2> QED  BY <1>1, <2>1, <2>3, <2>4, <2>5 DEF Called, InstallPCs
  <1>5. CASE InstallHooks(t)
    <2>1. Called(t, "install_hooks", "commit_open")  BY <1>5, CalledBy DEF InstallHooks
    <2>2. locked' = locked /\ hooks' = hooks \cup {Account(task[t].req)}  BY <1>5 DEF InstallHooks
    <2>3. Opens(t)'  BY <1>h, <2>1 DEF Called, Opens, InstallPCs, Account
    <2>4. OpensHooked(t)'  BY <1>h, <2>1, <2>2 DEF Called, OpensHooked, Account
    <2>5. HoldsLock(t)'  BY <1>h, <2>1 DEF Called, HoldsLock, LockedPCs, InstallPCs, FreePCs
    <2> QED  BY <1>1, <2>1, <2>3, <2>4, <2>5 DEF Called
  <1>6. CASE LeaveLocked(t)
    <2>1. Called(t, "install_key", "install_sudo")  BY <1>6, CalledBy DEF LeaveLocked
    <2>2. Account(task[t].req) \in tainted'  BY <1>6 DEF LeaveLocked, Unnoticed
    <2>3. Opens(t)'  BY <1>h, <2>1 DEF Called, Opens, InstallPCs, Account
    <2>4. OpensHooked(t)'  BY <2>1, <2>2 DEF Called, OpensHooked, Account
    <2>5. HoldsLock(t)'  BY <1>h, <2>1 DEF Called, HoldsLock, LockedPCs, InstallPCs, FreePCs
    <2> QED  BY <1>1, <2>1, <2>3, <2>4, <2>5 DEF Called, InstallPCs
  <1>7. CASE LeaveUnhooked(t)
    <2>1. Called(t, "install_hooks", "commit_open")  BY <1>7, CalledBy DEF LeaveUnhooked
    <2>2. Account(task[t].req) \in tainted'  BY <1>7 DEF LeaveUnhooked, Unnoticed
    <2>3. Opens(t)'  BY <1>h, <2>1 DEF Called, Opens, InstallPCs, Account
    <2>4. OpensHooked(t)'  BY <2>1, <2>2 DEF Called, OpensHooked, Account
    <2>5. HoldsLock(t)'  BY <1>h, <2>1 DEF Called, HoldsLock, LockedPCs, InstallPCs, FreePCs
    <2> QED  BY <1>1, <2>1, <2>3, <2>4, <2>5 DEF Called
  <1> QED  BY <1>2, <1>3, <1>4, <1>5, <1>6, <1>7

LEMMA CloseHandler ==
  ASSUME TypeOK, HandlerInv, NEW t \in Threads,
         \/ \E g \in Grants : TakeUp(t, g)
         \/ RemoveKey(t) \/ RemoveSudo(t) \/ RemoveHooks(t) \/ DisableUser(t) \/ CloseRow(t)
  PROVE  Handler(t)'
  <1>k. task[t] \in Task /\ task[t].req \in Requests /\ task[t].cur \in Grants  BY DEF TypeOK, Task
  <1>h. HoldsLock(t) /\ Closes(t) /\ NoKey(t) /\ NoSudo(t) /\ LastOne(t)  BY DEF HandlerInv, Handler
  <1>1. ASSUME HoldsLock(t)', Closes(t)', NoKey(t)', NoSudo(t)', LastOne(t)',
               task'[t].pc \in RemovePCs \cup {"close_row", "close", "commit_close"}
        PROVE  Handler(t)'
    <2>1. Opens(t)' /\ OpensHooked(t)'  BY <1>1 DEF Opens, OpensHooked, InstallPCs, RemovePCs
    <2> QED  BY <1>1, <2>1 DEF Handler
  <1>2. ASSUME NEW g \in Grants, TakeUp(t, g) PROVE Handler(t)'
    <2> DEFINE next == IF grant[g].mode = "direct" THEN "remove_key" ELSE "close_row"
    <2>1. /\ task[t].pc = "close" /\ task'[t].pc = next /\ task'[t].cur = g /\ task'[t].req = grant[g].req
          /\ task'[t].closed = task[t].closed /\ task'[t].dirty = task[t].dirty
          /\ grant' = grant /\ keys' = keys /\ sudo' = sudo /\ writer' = t
      BY <1>2, <1>k DEF TakeUp, At, database, remote, TypeOK, Task
    <2>2. HoldsLock(t)'  BY <2>1 DEF HoldsLock, FreePCs
    <2>3. Closes(t)'  BY <2>1 DEF Closes, RemovePCs
    <2>4. \A pcs \in {AfterKey, AfterSudo} : \A k \in Stripped(t, pcs)' : Direct(k)' => k \in Stripped(t, pcs)
      BY <2>1 DEF Stripped, Direct, AfterKey, AfterSudo
    <2>5. NoKey(t)' /\ NoSudo(t)'  BY <1>h, <2>1, <2>4 DEF NoKey, NoSudo, Direct
    <2>6. LastOne(t)'  BY <2>1 DEF LastOne
    <2> QED  BY <1>1, <2>1, <2>2, <2>3, <2>5, <2>6 DEF RemovePCs
  <1>3. CASE RemoveKey(t)
    <2>1. Called(t, "remove_key", "remove_sudo")  BY <1>3, CalledBy DEF RemoveKey
    <2>2. keys' = keys \ {KeyLine(task[t].req)} /\ sudo' = sudo  BY <1>3 DEF RemoveKey
    <2>3. HoldsLock(t)'  BY <1>h, <2>1 DEF Called, HoldsLock, LockedPCs, RemovePCs, FreePCs
    <2>4. Closes(t)'  BY <1>h, <2>1 DEF Called, Closes, RemovePCs
    <2>5. NoKey(t)'
      <3> SUFFICES ASSUME NEW g \in Stripped(t, AfterKey)', Direct(g)
                   PROVE  KeyLine(grant[g].req) \notin keys' /\ Account(grant[g].req) \in task'[t].dirty
        BY <2>1 DEF Called, NoKey, Direct, KeyLine, Account
      <3>1. CASE g = task[t].cur
        BY <1>h, <2>1, <2>2, <3>1 DEF Called, Closes, RemovePCs
      <3>2. CASE g \in Stripped(t, AfterKey)
        BY <1>h, <2>1, <2>2, <3>2 DEF Called, NoKey
      <3> QED  BY <2>1, <3>1, <3>2 DEF Called, Stripped
    <2>6. NoSudo(t)'  BY <1>h, <2>1, <2>2 DEF Called, NoSudo, Stripped, AfterSudo, Direct
    <2>7. LastOne(t)'  BY <2>1 DEF Called, LastOne
    <2> QED  BY <1>1, <2>1, <2>3, <2>4, <2>5, <2>6, <2>7 DEF Called, RemovePCs
  <1>4. CASE RemoveSudo(t)
    <2> DEFINE next == IF OthersActive(t) THEN "close_row" ELSE "remove_hooks"
    <2>1. Called(t, "remove_sudo", next)  BY <1>4, CalledBy DEF RemoveSudo
    <2>2. keys' = keys /\ sudo' = [sudo EXCEPT ![Account(task[t].req)] = "none"]  BY <1>4 DEF RemoveSudo
    <2>3. HoldsLock(t)'  BY <1>h, <2>1 DEF Called, HoldsLock, LockedPCs, RemovePCs, FreePCs
    <2>4. Closes(t)'  BY <1>h, <2>1 DEF Called, Closes, RemovePCs
    <2>5. NoKey(t)'  BY <1>h, <2>1, <2>2 DEF Called, NoKey, Stripped, AfterKey, Direct
    <2>6. NoSudo(t)'
      <3> SUFFICES ASSUME NEW g \in Stripped(t, AfterSudo)', Direct(g)
                   PROVE  sudo'[Account(grant[g].req)] = "none"
        BY <2>1 DEF Called, NoSudo, Direct, Account
      <3>0. g \in Grants /\ grant[g].req \in Requests  BY DEF Stripped, TypeOK, Row
      <3>1. Account(grant[g].req) \in Accounts  BY <3>0, RequestData
      <3>2. CASE g = task[t].cur
        BY <1>h, <2>1, <2>2, <3>1, <3>2 DEF Called, Closes, RemovePCs, TypeOK
      <3>3. CASE g \in Stripped(t, AfterSudo)
        BY <1>h, <2>2, <3>1, <3>3 DEF NoSudo, TypeOK
      <3> QED  BY <2>1, <3>2, <3>3 DEF Called, Stripped
    <2>7. LastOne(t)'
      BY <2>1 DEF Called, LastOne, OthersActive, SameName, Active
    <2> QED  BY <1>1, <2>1, <2>3, <2>4, <2>5, <2>6, <2>7 DEF Called, RemovePCs
  <1>5. CASE RemoveHooks(t) \/ DisableUser(t)
    <2>1. Called(t, "remove_hooks", "disable_user") \/ Called(t, "disable_user", "close_row")
      BY <1>5, CalledBy DEF RemoveHooks, DisableUser
    <2>2. keys' = keys /\ sudo' = sudo  BY <1>5 DEF RemoveHooks, DisableUser
    <2>3. HoldsLock(t)'  BY <1>h, <2>1 DEF Called, HoldsLock, LockedPCs, RemovePCs, FreePCs
    <2>4. Closes(t)'  BY <1>h, <2>1 DEF Called, Closes, RemovePCs
    <2>5. NoKey(t)'  BY <1>h, <2>1, <2>2 DEF Called, NoKey, Stripped, AfterKey, Direct
    <2>6. NoSudo(t)'  BY <1>h, <2>1, <2>2 DEF Called, NoSudo, Stripped, AfterSudo, Direct
    <2>7. LastOne(t)'  BY <1>h, <2>1 DEF Called, LastOne, SameName, Active
    <2> QED  BY <1>1, <2>1, <2>3, <2>4, <2>5, <2>6, <2>7 DEF Called, RemovePCs
  <1>6. CASE CloseRow(t)
    <2>1. /\ task[t].pc = "close_row" /\ task'[t].pc \in {"commit_close", "close"}
          /\ task'[t].closed = task[t].closed \cup {task[t].cur} /\ task'[t].dirty = task[t].dirty
          /\ grant' = grant /\ keys' = keys /\ sudo' = sudo /\ writer' = writer
      BY <1>6, <1>k DEF CloseRow, At, database, remote, TypeOK, Task
    <2>2. HoldsLock(t)'  BY <1>h, <2>1 DEF HoldsLock, LockedPCs, RemovePCs, InstallPCs, FreePCs
    <2>3. Closes(t)' /\ LastOne(t)'  BY <2>1 DEF Closes, LastOne, RemovePCs
    <2>4. Stripped(t, AfterKey)' \subseteq Stripped(t, AfterKey)
      BY <2>1 DEF Stripped, AfterKey
    <2>5. Stripped(t, AfterSudo)' \subseteq Stripped(t, AfterSudo)
      BY <2>1 DEF Stripped, AfterSudo
    <2>6. NoKey(t)' /\ NoSudo(t)'  BY <1>h, <2>1, <2>4, <2>5 DEF NoKey, NoSudo, Direct
    <2> QED  BY <1>1, <2>1, <2>2, <2>3, <2>6
  <1> QED  BY <1>2, <1>3, <1>4, <1>5, <1>6

(* A handler begins with nothing in hand.                                  *)
LEMMA BeginFresh ==
  ASSUME TypeOK, NEW t \in Workers, Begin(t)
  PROVE  task'[t].pc \notin LockedPCs /\ task'[t].closed = {} /\ task'[t].dirty = {}
  <1>0. t \in Threads  BY DEF Threads
  <1> USE <1>0, IdleTaskType
  <1> DEFINE Fresh == task'[t].pc \notin LockedPCs /\ task'[t].closed = {} /\ task'[t].dirty = {}
  <1> USE DEF LockedPCs, InstallPCs, RemovePCs, Start, TypeOK, Task
  <1>1. ASSUME NEW r \in Requests, BeginCreate(t, r) PROVE Fresh  BY <1>1 DEF BeginCreate
  <1>2. ASSUME NEW r \in Requests, BeginApprove(t, r) PROVE Fresh  BY <1>2 DEF BeginApprove
  <1>3. ASSUME NEW r \in Requests, BeginReject(t, r) PROVE Fresh  BY <1>3 DEF BeginReject
  <1>4. ASSUME NEW g \in Grants, BeginRevoke(t, g) PROVE Fresh  BY <1>4 DEF BeginRevoke
  <1>5. ASSUME NEW u \in Users, BeginRevokeUser(t, u) PROVE Fresh  BY <1>5 DEF BeginRevokeUser
  <1>6. ASSUME NEW u \in Users, NEW h \in Hosts, LoseMembership(t, u, h) PROVE Fresh
    BY <1>6 DEF LoseMembership
  <1>7. ASSUME NEW h \in Hosts, BeginArchive(t, h) PROVE Fresh  BY <1>7 DEF BeginArchive
  <1>8. Fresh
    <2> HIDE DEF Fresh
    <2> QED  BY <1>1, <1>2, <1>3, <1>4, <1>5, <1>6, <1>7 DEF Begin
  <1> QED  BY <1>8

(* Every other step of a handler leaves it with nothing in hand.           *)
LEMMA OwnHandler ==
  ASSUME TypeOK, HandlerInv, NEW t \in Threads, Own(t) PROVE Handler(t)'
  <1> USE IdleTaskType
  <1>k. task[t] \in Task  BY DEF TypeOK
  <1>h. HoldsLock(t)  BY DEF HandlerInv, Handler
  <1>i. ASSUME task'[t] = IdleTask PROVE Handler(t)'
    BY <1>i, FreeHandler DEF LockedPCs, InstallPCs, RemovePCs
  <1>1. CASE t \in Workers /\ Begin(t)
    BY <1>1, BeginFresh, FreeHandler
  <1>2. CASE Submit(t) \/ CommitOpen(t) \/ CommitReject(t) \/ CommitArchive(t) \/ CommitClose(t)
    BY <1>2, <1>i DEF Submit, CommitOpen, CommitReject, CommitArchive, CommitClose, Release, TypeOK
  <1>3. CASE Refuse(t) \/ LoseCall(t) \/ GiveUp(t)
    BY <1>3, <1>i DEF Refuse, LoseCall, GiveUp, Rollback, TypeOK
  <1>4. CASE t = Scheduler /\ (StartTick \/ ImportLogs \/ SelectDue)
    <2>1. task[t].pc \in FreePCs  BY <1>4 DEF StartTick, ImportLogs, SelectDue, At, FreePCs
    <2>2. /\ task'[t].pc \in {"import", "select", "commit_close", "close"}
          /\ task'[t].closed = task[t].closed /\ task'[t].dirty = task[t].dirty
      BY <1>4, <1>k DEF StartTick, ImportLogs, SelectDue, Goto, TypeOK, Task
    <2> QED  BY <1>h, <2>1, <2>2, FreeHandler DEF HoldsLock, LockedPCs, InstallPCs, RemovePCs
  <1> QED  BY <1>1, <1>2, <1>3, <1>4, OpenHandler, CloseHandler DEF Own, Proceed

LEMMA HandlerInit == Init => HandlerInv
  <1> SUFFICES ASSUME Init, NEW t \in Threads PROVE Handler(t)  BY DEF HandlerInv
  <1>1. task[t] = IdleTask  BY DEF Init
  <1> QED
    BY <1>1, IdleTaskType DEF Handler, HoldsLock, Opens, Closes, NoKey, NoSudo, LastOne, OpensHooked,
       Stripped, LockedPCs, InstallPCs, RemovePCs, AfterKey, AfterSudo

LEMMA HandlerNext == TypeOK /\ HandlerInv /\ [Next]_vars => HandlerInv'
  <1> SUFFICES ASSUME TypeOK, HandlerInv, [Next]_vars, NEW s \in Threads PROVE Handler(s)'
    BY DEF HandlerInv
  <1>1. ASSUME NEW t \in Threads, Own(t) PROVE Handler(s)'
    BY <1>1, OwnHandler, OtherHandlers
  <1>2. CASE Crash
    <2>1. task'[s] = IdleTask  BY <1>2 DEF Crash
    <2> QED  BY <2>1, IdleTaskType, FreeHandler DEF LockedPCs, InstallPCs, RemovePCs
  <1>3. CASE UNCHANGED Handlers
    BY <1>3 DEF Handlers, HandlerInv, Handler, HoldsLock, Opens, Closes, NoKey, NoSudo, LastOne,
       OpensHooked, Stripped, Direct, SameName, Active
  <1> QED  BY <1>1, <1>2, <1>3, StepsOf

(* No handler changes a server outside the transaction that holds SQLite's *)
(* write lock, whatever the number of threads, servers and grants.         *)
THEOREM HostChangesLocked == Spec => []HostChangesAreLocked
  <1>1. HandlerInv => HostChangesAreLocked
    BY DEF HandlerInv, Handler, HoldsLock, HostChangesAreLocked
  <1> QED  BY <1>1, TypeInit, HandlerInit, TypeNext, HandlerNext, PTL DEF Spec
-----------------------------------------------------------------------------
(* A step that is neither a call, a commit of grants nor a rollback.       *)
Local(t) ==
  /\ UNCHANGED <<grant, keys, sudo, hooks, locked, tainted>>
  /\ task'[t].dirty = task[t].dirty
  /\ task[t].pc \notin {"install_sudo", "install_hooks", "commit_open"}
  /\ Stripped(t, AfterSudo) \subseteq Stripped(t, AfterSudo)'

Call(t) ==
  \/ InstallKey(t) \/ InstallSudo(t) \/ InstallHooks(t)
  \/ RemoveKey(t) \/ RemoveSudo(t) \/ RemoveHooks(t) \/ DisableUser(t)
  \/ LeaveLocked(t) \/ LeaveUnhooked(t)

Abandon(t) ==
  /\ UNCHANGED <<grant, keys, sudo, hooks, locked>>
  /\ task'[t] = IdleTask /\ tainted' = tainted \cup task[t].dirty

LEMMA KindsOfStep ==
  ASSUME TypeOK, HandlerInv, NEW t \in Threads, Own(t)
  PROVE  Call(t) \/ CommitOpen(t) \/ CommitClose(t) \/ Abandon(t) \/ Local(t)
  <1>k. task[t] \in Task  BY DEF TypeOK
  <1>h. HoldsLock(t)  BY DEF HandlerInv, Handler
  <1>i. IdleTask.dirty = {}  BY IdleTaskType
  <1>f. ASSUME task[t].pc \in FreePCs, UNCHANGED <<grant, keys, sudo, hooks, locked, tainted>>,
               task'[t].dirty \in {task[t].dirty, {}}
        PROVE  Local(t)
    BY <1>f, <1>h DEF HoldsLock, Local, Stripped, FreePCs, AfterSudo
  <1>1. CASE t \in Workers /\ Begin(t)
    <2>1. task[t].pc = "idle"
      BY <1>1 DEF Begin, BeginCreate, BeginApprove, BeginReject, BeginRevoke, BeginRevokeUser,
                  LoseMembership, BeginArchive, Start, At
    <2>2. UNCHANGED <<grant, keys, sudo, hooks, locked, tainted>>
      BY <1>1 DEF Begin, BeginCreate, BeginApprove, BeginReject, BeginRevoke, BeginRevokeUser,
                  LoseMembership, BeginArchive, Start, database, remote
    <2>3. task'[t].dirty = {}  BY <1>1, BeginFresh
    <2> QED  BY <1>f, <2>1, <2>2, <2>3 DEF FreePCs
  <1>2. CASE Submit(t) \/ OpenGrant(t) \/ CommitReject(t) \/ CommitArchive(t)
    <2>1. task'[t].dirty \in {task[t].dirty, {}}
      <3>1. CASE OpenGrant(t)
        BY <1>k, <3>1 DEF OpenGrant, TypeOK, Task
      <3>2. CASE Submit(t) \/ CommitReject(t) \/ CommitArchive(t)
        BY <1>i, <3>2 DEF Submit, CommitReject, CommitArchive, Release, TypeOK
      <3> QED  BY <1>2, <3>1, <3>2
    <2> QED
      BY <1>2, <1>f, <2>1 DEF Submit, OpenGrant, CommitReject, CommitArchive, At, FreePCs, database, remote
  <1>3. ASSUME NEW g \in Grants, TakeUp(t, g) PROVE Local(t)
    BY <1>3, <1>k DEF TakeUp, At, database, remote, Local, Stripped, AfterSudo, TypeOK, Task
  <1>4. CASE CloseRow(t)
    BY <1>4, <1>k DEF CloseRow, At, database, remote, Local, Stripped, AfterSudo, TypeOK, Task
  <1>5. CASE Refuse(t) \/ LoseCall(t) \/ GiveUp(t)
    BY <1>5 DEF Refuse, LoseCall, GiveUp, Rollback, Abandon, database, remote, TypeOK
  <1>6. CASE t = Scheduler /\ (StartTick \/ ImportLogs \/ SelectDue)
    <2>1. task'[t].dirty = task[t].dirty
      BY <1>6, <1>k DEF StartTick, ImportLogs, SelectDue, Goto, TypeOK, Task
    <2> QED  BY <1>6, <1>f, <2>1 DEF StartTick, ImportLogs, SelectDue, At, FreePCs, database, remote
  <1> QED  BY <1>1, <1>2, <1>3, <1>4, <1>5, <1>6 DEF Own, Proceed, Call

(* What the two commits do to the grants, and to their own handler.        *)
LEMMA OpenCommit ==
  ASSUME TypeOK, HandlerInv, NEW t \in Threads, CommitOpen(t)
  PROVE  /\ grant' = [grant EXCEPT ![task[t].cur] =
                       [status |-> "active", req |-> task[t].req, mode |-> task[t].mode]]
         /\ grant[task[t].cur].status = "unused" /\ task[t].cur \in Grants
         /\ Active' = Active \cup {task[t].cur}
         /\ UNCHANGED <<keys, sudo, hooks, locked, tainted>>
         /\ task[t].pc = "commit_open" /\ task'[t] = IdleTask /\ task[t].closed = {}
  <1>1. task[t].cur \in Grants  BY DEF TypeOK, Task
  <1>2. task[t].pc = "commit_open" /\ Opens(t)  BY DEF CommitOpen, At, HandlerInv, Handler
  <1>3. grant' = [grant EXCEPT ![task[t].cur] =
                   [status |-> "active", req |-> task[t].req, mode |-> task[t].mode]]
    BY DEF CommitOpen
  <1>4. Active' = Active \cup {task[t].cur}  BY <1>1, <1>3 DEF Active, TypeOK
  <1> QED  BY <1>1, <1>2, <1>3, <1>4 DEF CommitOpen, Release, Opens, remote, TypeOK

LEMMA CloseCommit ==
  ASSUME TypeOK, HandlerInv, NEW t \in Threads, CommitClose(t)
  PROVE  /\ Active' = Active \ task[t].closed
         /\ \A g \in Grants : grant'[g].req = grant[g].req /\ grant'[g].mode = grant[g].mode
         /\ UNCHANGED <<keys, sudo, hooks, locked, tainted>>
         /\ task[t].pc = "commit_close" /\ task'[t] = IdleTask
  <1>1. \A g \in Grants : /\ grant'[g].req = grant[g].req /\ grant'[g].mode = grant[g].mode
                          /\ g \in task[t].closed => grant'[g].status \in {"expired", "revoked"}
                          /\ g \notin task[t].closed => grant'[g].status = grant[g].status
    BY DEF CommitClose, TypeOK, Row
  <1>2. Active' = Active \ task[t].closed  BY <1>1 DEF Active
  <1> QED  BY <1>1, <1>2 DEF CommitClose, At, Release, remote, TypeOK

(* The order of the calls.                                                 *)
NextCall(pc, next) ==
  \/ pc = "install_key"   /\ next = "install_sudo"
  \/ pc = "install_sudo"  /\ next = "install_hooks"
  \/ pc = "install_hooks" /\ next = "commit_open"
  \/ pc = "remove_key"    /\ next = "remove_sudo"
  \/ pc = "remove_sudo"   /\ next \in {"remove_hooks", "close_row"}
  \/ pc = "remove_hooks"  /\ next = "disable_user"
  \/ pc = "disable_user"  /\ next = "close_row"

LEMMA CallMoves ==
  ASSUME TypeOK, NEW t \in Threads, Call(t) PROVE \E pc, next : Called(t, pc, next) /\ NextCall(pc, next)
  <1>1. CASE InstallKey(t)
    <2>1. Called(t, "install_key", "install_sudo")  BY <1>1, CalledBy DEF InstallKey
    <2> QED  BY <2>1 DEF NextCall
  <1>2. CASE InstallSudo(t)
    <2>1. Called(t, "install_sudo", "install_hooks")  BY <1>2, CalledBy DEF InstallSudo
    <2> QED  BY <2>1 DEF NextCall
  <1>3. CASE InstallHooks(t)
    <2>1. Called(t, "install_hooks", "commit_open")  BY <1>3, CalledBy DEF InstallHooks
    <2> QED  BY <2>1 DEF NextCall
  <1>4. CASE RemoveKey(t)
    <2>1. Called(t, "remove_key", "remove_sudo")  BY <1>4, CalledBy DEF RemoveKey
    <2> QED  BY <2>1 DEF NextCall
  <1>5. CASE RemoveSudo(t)
    <2>1. Called(t, "remove_sudo", IF OthersActive(t) THEN "close_row" ELSE "remove_hooks")
      BY <1>5, CalledBy DEF RemoveSudo
    <2> QED  BY <2>1 DEF NextCall
  <1>6. CASE RemoveHooks(t)
    <2>1. Called(t, "remove_hooks", "disable_user")  BY <1>6, CalledBy DEF RemoveHooks
    <2> QED  BY <2>1 DEF NextCall
  <1>7. CASE DisableUser(t)
    <2>1. Called(t, "disable_user", "close_row")  BY <1>7, CalledBy DEF DisableUser
    <2> QED  BY <2>1 DEF NextCall
  <1>8. CASE LeaveLocked(t)
    <2>1. Called(t, "install_key", "install_sudo")  BY <1>8, CalledBy DEF LeaveLocked
    <2> QED  BY <2>1 DEF NextCall
  <1>9. CASE LeaveUnhooked(t)
    <2>1. Called(t, "install_hooks", "commit_open")  BY <1>9, CalledBy DEF LeaveUnhooked
    <2> QED  BY <2>1 DEF NextCall
  <1> QED  BY <1>1, <1>2, <1>3, <1>4, <1>5, <1>6, <1>7, <1>8, <1>9 DEF Call

(* A key line keeps an owner: the grant whose row is active, or the handler *)
(* that installed it and will commit that row.                             *)
LEMMA KeyStep ==
  ASSUME TypeOK, HandlerInv, KeyHasOwner, NEW t \in Threads, Own(t) PROVE KeyHasOwner'
  <1> SUFFICES ASSUME NEW h \in Hosts, NEW u \in Users, <<h, u>> \in keys', <<h, LinuxName[u]>> \notin tainted'
               PROVE  \/ \E g \in Active' : grant'[g].mode = "direct" /\ KeyLine(grant'[g].req) = <<h, u>>
                      \/ \E s \in Threads :
                           /\ task'[s].pc \in {"install_sudo", "install_hooks", "commit_open"}
                           /\ task'[s].mode = "direct" /\ KeyLine(task'[s].req) = <<h, u>>
    BY DEF KeyHasOwner, Direct, KeyLine
  <1> DEFINE ByGrant  == \E g \in Active : grant[g].mode = "direct" /\ KeyLine(grant[g].req) = <<h, u>>
             Owns(s)  == /\ task[s].pc \in {"install_sudo", "install_hooks", "commit_open"}
                         /\ task[s].mode = "direct" /\ KeyLine(task[s].req) = <<h, u>>
             ByThread == \E s \in Threads : Owns(s)
             ByGrantNext  == \E g \in Active' : grant'[g].mode = "direct" /\ KeyLine(grant'[g].req) = <<h, u>>
             OwnsNext(s)  == /\ task'[s].pc \in {"install_sudo", "install_hooks", "commit_open"}
                             /\ task'[s].mode = "direct" /\ KeyLine(task'[s].req) = <<h, u>>
             ByThreadNext == \E s \in Threads : OwnsNext(s)
  <1>a. <<h, u>> \in keys /\ <<h, LinuxName[u]>> \notin tainted => ByGrant \/ ByThread
    BY DEF KeyHasOwner, Direct
  <1>o. ASSUME NEW s \in Threads, s # t, Owns(s) PROVE OwnsNext(s)
    BY <1>o, OthersKeepTask
  <1>s. grant' = grant => (ByGrant => ByGrantNext)  BY DEF Active
  <1>k. task[t] \in Task /\ task[t].cur \in Grants  BY DEF TypeOK, Task
  <1>h. Opens(t) /\ Closes(t) /\ NoKey(t)  BY DEF HandlerInv, Handler
  <1>1. CASE Local(t)
    <2>1. <<h, u>> \in keys /\ <<h, LinuxName[u]>> \notin tainted /\ ~Owns(t) /\ grant' = grant
      BY <1>1 DEF Local
    <2> QED  BY <1>a, <1>o, <1>s, <2>1
  <1>2. CASE Abandon(t)
    <2>1. <<h, u>> \in keys /\ <<h, LinuxName[u]>> \notin tainted /\ grant' = grant
      BY <1>2 DEF Abandon
    <2>2. ~Owns(t)
      <3>1. SUFFICES ASSUME Owns(t) PROVE FALSE  OBVIOUS
      <3>2. Account(task[t].req) \in task[t].dirty  BY <1>h, <3>1 DEF Opens, InstallPCs
      <3>3. Account(task[t].req) = <<h, LinuxName[u]>>  BY <3>1 DEF Account, KeyLine
      <3> QED  BY <1>2, <3>2, <3>3 DEF Abandon
    <2> QED  BY <1>a, <1>o, <1>s, <2>1, <2>2
  <1>3. CASE CommitOpen(t)
    <2>1. <<h, u>> \in keys /\ <<h, LinuxName[u]>> \notin tainted  BY <1>3, OpenCommit
    <2>2. ByGrant => ByGrantNext  BY <1>3, OpenCommit DEF Active, TypeOK
    <2>3. Owns(t) => ByGrantNext
      <3>1. /\ task[t].cur \in Active' /\ grant'[task[t].cur].mode = task[t].mode
            /\ grant'[task[t].cur].req = task[t].req
        <4>1. grant' = [grant EXCEPT ![task[t].cur] =
                          [status |-> "active", req |-> task[t].req, mode |-> task[t].mode]]
          BY <1>3, OpenCommit
        <4>2. task[t].cur \in Active'  BY <1>3, OpenCommit
        <4> QED  BY <1>k, <4>1, <4>2 DEF TypeOK
      <3> QED  BY <3>1
    <2> QED  BY <1>a, <1>o, <2>1, <2>2, <2>3
  <1>4. CASE CommitClose(t)
    <2>1. <<h, u>> \in keys /\ <<h, LinuxName[u]>> \notin tainted /\ ~Owns(t)
      BY <1>4, CloseCommit
    <2>2. ASSUME NEW g \in Active, grant[g].mode = "direct", KeyLine(grant[g].req) = <<h, u>>
          PROVE  ByGrantNext
      <3>0. g \in Grants  BY DEF Active
      <3>1. g \notin task[t].closed  BY <1>h, <2>1, <2>2, <3>0 DEF NoKey, Stripped, Direct
      <3> QED  BY <1>4, <2>2, <3>0, <3>1, CloseCommit
    <2> QED  BY <1>a, <1>o, <2>1, <2>2
  <1>5. CASE InstallKey(t) \/ LeaveLocked(t)
    <2>1. Called(t, "install_key", "install_sudo")  BY <1>5, CalledBy DEF InstallKey, LeaveLocked
    <2>2. keys' = keys \cup {KeyLine(task[t].req)}  BY <1>5 DEF InstallKey, LeaveLocked
    <2>3. CASE <<h, u>> = KeyLine(task[t].req)
      BY <1>h, <2>1, <2>3 DEF Called, Opens, InstallPCs
    <2>4. CASE <<h, u>> \in keys
      <3>1. ~Owns(t) /\ grant' = grant /\ tainted \subseteq tainted'  BY <2>1 DEF Called
      <3> QED  BY <1>a, <1>o, <1>s, <2>4, <3>1
    <2> QED  BY <2>2, <2>3, <2>4
  <1>6. CASE \/ InstallSudo(t) \/ InstallHooks(t) \/ LeaveUnhooked(t)
             \/ RemoveKey(t) \/ RemoveSudo(t) \/ RemoveHooks(t) \/ DisableUser(t)
    <2>1. <<h, u>> \in keys
      BY <1>6 DEF InstallSudo, InstallHooks, LeaveUnhooked, RemoveKey, RemoveSudo, RemoveHooks, DisableUser
    <2>2. PICK pc, next : Called(t, pc, next) /\ NextCall(pc, next)  BY <1>6, CallMoves DEF Call
    <2>3. Owns(t) => OwnsNext(t)  BY <2>2 DEF Called, NextCall
    <2>4. grant' = grant /\ tainted \subseteq tainted'  BY <2>2 DEF Called
    <2> QED  BY <1>a, <1>o, <1>s, <2>1, <2>3, <2>4
  <1> QED  BY <1>1, <1>2, <1>3, <1>4, <1>5, <1>6, KindsOfStep DEF Call

LEMMA KeyNext == TypeOK /\ HandlerInv /\ KeyHasOwner /\ [Next]_vars => KeyHasOwner'
  <1> SUFFICES ASSUME TypeOK, HandlerInv, KeyHasOwner, [Next]_vars PROVE KeyHasOwner'  OBVIOUS
  <1>1. ASSUME NEW t \in Threads, Own(t) PROVE KeyHasOwner'  BY <1>1, KeyStep
  <1>2. CASE Crash
    <2> SUFFICES ASSUME NEW h \in Hosts, NEW u \in Users, <<h, u>> \in keys', <<h, LinuxName[u]>> \notin tainted'
                 PROVE  \E g \in Active' : grant'[g].mode = "direct" /\ KeyLine(grant'[g].req) = <<h, u>>
      BY DEF KeyHasOwner, Direct, KeyLine
    <2>1. /\ keys' = keys /\ grant' = grant
          /\ tainted' = tainted \cup UNION {task[t].dirty : t \in Threads}
      BY <1>2 DEF Crash, database, remote
    <2>2. ASSUME NEW t \in Threads, task[t].pc \in {"install_sudo", "install_hooks", "commit_open"},
                 task[t].mode = "direct", KeyLine(task[t].req) = <<h, u>>
          PROVE  FALSE
      <3>1. Account(task[t].req) \in task[t].dirty
        BY <2>2 DEF HandlerInv, Handler, Opens, InstallPCs
      <3>2. Account(task[t].req) = <<h, LinuxName[u]>>  BY <2>2 DEF Account, KeyLine
      <3> QED  BY <2>1, <3>1, <3>2
    <2> QED  BY <2>1, <2>2 DEF KeyHasOwner, Active, Direct
  <1>3. CASE UNCHANGED Handlers
    BY <1>3 DEF Handlers, KeyHasOwner, Active, Direct, KeyLine
  <1> QED  BY <1>1, <1>2, <1>3, StepsOf

(* A key line in authorized_keys outlives no grant: on every account that  *)
(* no rolled-back handler or silent failure has touched, it has an active  *)
(* direct grant.                                                           *)
THEOREM KeysFollowGrants == Spec => []KeyNeedsGrant
  <1>1. Init => KeyHasOwner  BY DEF Init, KeyHasOwner
  <1>2. TypeOK /\ HandlerInv /\ KeyHasOwner => KeyNeedsGrant
    <2> SUFFICES ASSUME TypeOK, HandlerInv, KeyHasOwner, NEW h \in Hosts, NEW u \in Users,
                        <<h, u>> \in keys, Settled(<<h, LinuxName[u]>>)
                 PROVE  \E g \in Active : grant[g].mode = "direct" /\ KeyLine(grant[g].req) = <<h, u>>
      BY DEF KeyNeedsGrant
    <2>1. ASSUME NEW t \in Threads, task[t].pc \in {"install_sudo", "install_hooks", "commit_open"},
                 task[t].mode = "direct", KeyLine(task[t].req) = <<h, u>>
          PROVE  FALSE
      <3>1. Account(task[t].req) \in task[t].dirty
        BY <2>1 DEF HandlerInv, Handler, Opens, InstallPCs
      <3>2. Account(task[t].req) = <<h, LinuxName[u]>>  BY <2>1 DEF Account, KeyLine
      <3> QED  BY <3>1, <3>2 DEF Settled
    <2> QED  BY <2>1 DEF KeyHasOwner, Settled, Direct
  <1> QED  BY <1>1, <1>2, TypeInit, HandlerInit, TypeNext, HandlerNext, KeyNext, PTL DEF Spec
-----------------------------------------------------------------------------
(* The same for the sudoers file, which the grants of an account share.    *)
LEMMA SudoStep ==
  ASSUME TypeOK, HandlerInv, SudoHasOwner, NEW t \in Threads, Own(t) PROVE SudoHasOwner'
  <1> SUFFICES ASSUME NEW a \in Accounts, sudo'[a] # "none", a \notin tainted'
               PROVE  \/ \E g \in Active' : /\ grant'[g].mode = "direct" /\ Account(grant'[g].req) = a
                                            /\ AccessType[grant'[g].req] = sudo'[a]
                      \/ \E s \in Threads :
                           /\ task'[s].pc \in {"install_hooks", "commit_open"} /\ task'[s].mode = "direct"
                           /\ Account(task'[s].req) = a /\ AccessType[task'[s].req] = sudo'[a]
    BY DEF SudoHasOwner, DirectOn, Account
  <1> DEFINE Gives(g) == /\ grant[g].mode = "direct" /\ Account(grant[g].req) = a
                         /\ AccessType[grant[g].req] = sudo[a]
             ByGrant  == \E g \in Active : Gives(g)
             Owns(s)  == /\ task[s].pc \in {"install_hooks", "commit_open"} /\ task[s].mode = "direct"
                         /\ Account(task[s].req) = a /\ AccessType[task[s].req] = sudo[a]
             ByThread == \E s \in Threads : Owns(s)
             ByGrantNext == \E g \in Active' : /\ grant'[g].mode = "direct" /\ Account(grant'[g].req) = a
                                               /\ AccessType[grant'[g].req] = sudo'[a]
             OwnsNext(s) == /\ task'[s].pc \in {"install_hooks", "commit_open"} /\ task'[s].mode = "direct"
                            /\ Account(task'[s].req) = a /\ AccessType[task'[s].req] = sudo'[a]
             ByThreadNext == \E s \in Threads : OwnsNext(s)
  <1>a. sudo[a] # "none" /\ a \notin tainted => ByGrant \/ ByThread
    BY DEF SudoHasOwner, DirectOn
  <1>o. ASSUME sudo'[a] = sudo[a], NEW s \in Threads, s # t, Owns(s) PROVE OwnsNext(s)
    BY <1>o, OthersKeepTask
  <1>s. sudo'[a] = sudo[a] /\ grant' = grant => (ByGrant => ByGrantNext)  BY DEF Active
  <1>k. /\ task[t] \in Task /\ task[t].cur \in Grants /\ task[t].req \in Requests
        /\ Account(task[t].req) \in Accounts
    BY RequestData DEF TypeOK, Task
  <1>h. Opens(t) /\ Closes(t) /\ NoSudo(t)  BY DEF HandlerInv, Handler
  <1>1. CASE Local(t)
    <2>1. sudo' = sudo /\ tainted' = tainted /\ ~Owns(t) /\ grant' = grant
      BY <1>1 DEF Local
    <2> QED  BY <1>a, <1>o, <1>s, <2>1
  <1>2. CASE Abandon(t)
    <2>1. sudo' = sudo /\ a \notin tainted /\ grant' = grant  BY <1>2 DEF Abandon
    <2>2. ~Owns(t)
      <3>1. SUFFICES ASSUME Owns(t) PROVE FALSE  OBVIOUS
      <3>2. Account(task[t].req) \in task[t].dirty  BY <1>h, <3>1 DEF Opens, InstallPCs
      <3> QED  BY <1>2, <3>1, <3>2 DEF Abandon
    <2> QED  BY <1>a, <1>o, <1>s, <2>1, <2>2
  <1>3. CASE CommitOpen(t)
    <2>1. sudo' = sudo /\ tainted' = tainted  BY <1>3, OpenCommit
    <2>2. ByGrant => ByGrantNext
      <3>1. SUFFICES ASSUME NEW g \in Active, Gives(g) PROVE ByGrantNext  OBVIOUS
      <3>2. g # task[t].cur /\ g \in Grants  BY <1>3, OpenCommit DEF Active
      <3>3. grant'[g] = grant[g] /\ g \in Active'  BY <1>3, <3>2, OpenCommit DEF TypeOK
      <3> QED  BY <2>1, <3>1, <3>3
    <2>3. Owns(t) => ByGrantNext
      <3>1. grant' = [grant EXCEPT ![task[t].cur] =
                        [status |-> "active", req |-> task[t].req, mode |-> task[t].mode]]
        BY <1>3, OpenCommit
      <3>2. task[t].cur \in Active'  BY <1>3, OpenCommit
      <3> QED  BY <1>k, <2>1, <3>1, <3>2 DEF TypeOK
    <2> QED  BY <1>a, <1>o, <2>1, <2>2, <2>3
  <1>4. CASE CommitClose(t)
    <2>1. sudo' = sudo /\ tainted' = tainted /\ ~Owns(t)  BY <1>4, CloseCommit
    <2>2. ASSUME NEW g \in Active, Gives(g) PROVE ByGrantNext
      <3>0. g \in Grants  BY DEF Active
      <3>1. g \notin task[t].closed  BY <1>h, <2>1, <2>2, <3>0 DEF NoSudo, Stripped, Direct
      <3> QED  BY <1>4, <2>1, <2>2, <3>0, <3>1, CloseCommit
    <2> QED  BY <1>a, <1>o, <2>1, <2>2
  <1>5. CASE InstallSudo(t)
    <2>1. Called(t, "install_sudo", "install_hooks")  BY <1>5, CalledBy DEF InstallSudo
    <2>2. CASE sudo' = sudo
      <3>1. ~Owns(t) /\ grant' = grant /\ tainted \subseteq tainted'  BY <2>1 DEF Called
      <3> QED  BY <1>a, <1>o, <1>s, <2>2, <3>1
    <2>3. CASE sudo' = [sudo EXCEPT ![Account(task[t].req)] = AccessType[task[t].req]]
      <3>1. CASE a = Account(task[t].req)
        BY <1>h, <1>k, <2>1, <2>3, <3>1 DEF Called, Opens, InstallPCs, TypeOK
      <3>2. CASE a # Account(task[t].req)
        <4>1. sudo'[a] = sudo[a]  BY <2>3, <3>2 DEF TypeOK
        <4>2. ~Owns(t) /\ grant' = grant /\ tainted \subseteq tainted'  BY <2>1 DEF Called
        <4> QED  BY <1>a, <1>o, <1>s, <4>1, <4>2
      <3> QED  BY <3>1, <3>2
    <2> QED  BY <1>5, <2>2, <2>3 DEF InstallSudo
  <1>6. CASE \/ InstallKey(t) \/ InstallHooks(t) \/ LeaveLocked(t) \/ LeaveUnhooked(t)
             \/ RemoveKey(t) \/ RemoveSudo(t) \/ RemoveHooks(t) \/ DisableUser(t)
    <2>1. sudo'[a] = sudo[a]
      BY <1>6 DEF InstallKey, InstallHooks, LeaveLocked, LeaveUnhooked, RemoveKey, RemoveSudo, RemoveHooks,
                  DisableUser, TypeOK
    <2>2. PICK pc, next : Called(t, pc, next) /\ NextCall(pc, next)  BY <1>6, CallMoves DEF Call
    <2>3. Owns(t) => OwnsNext(t)  BY <2>1, <2>2 DEF Called, NextCall
    <2>4. grant' = grant /\ tainted \subseteq tainted'  BY <2>2 DEF Called
    <2> QED  BY <1>a, <1>o, <1>s, <2>1, <2>3, <2>4
  <1> QED  BY <1>1, <1>2, <1>3, <1>4, <1>5, <1>6, KindsOfStep DEF Call

LEMMA SudoNext == TypeOK /\ HandlerInv /\ SudoHasOwner /\ [Next]_vars => SudoHasOwner'
  <1> SUFFICES ASSUME TypeOK, HandlerInv, SudoHasOwner, [Next]_vars PROVE SudoHasOwner'  OBVIOUS
  <1>1. ASSUME NEW t \in Threads, Own(t) PROVE SudoHasOwner'  BY <1>1, SudoStep
  <1>2. CASE Crash
    <2> SUFFICES ASSUME NEW a \in Accounts, sudo'[a] # "none", a \notin tainted'
                 PROVE  \E g \in Active' : /\ grant'[g].mode = "direct" /\ Account(grant'[g].req) = a
                                           /\ AccessType[grant'[g].req] = sudo'[a]
      BY DEF SudoHasOwner, DirectOn, Account
    <2>1. /\ sudo' = sudo /\ grant' = grant
          /\ tainted' = tainted \cup UNION {task[t].dirty : t \in Threads}
      BY <1>2 DEF Crash, database, remote
    <2>2. ASSUME NEW t \in Threads, task[t].pc \in {"install_hooks", "commit_open"},
                 task[t].mode = "direct", Account(task[t].req) = a
          PROVE  FALSE
      <3>1. Account(task[t].req) \in task[t].dirty
        BY <2>2 DEF HandlerInv, Handler, Opens, InstallPCs
      <3> QED  BY <2>1, <2>2, <3>1
    <2> QED  BY <2>1, <2>2 DEF SudoHasOwner, DirectOn, Active
  <1>3. CASE UNCHANGED Handlers
    BY <1>3 DEF Handlers, SudoHasOwner, DirectOn, Active, Account
  <1> QED  BY <1>1, <1>2, <1>3, StepsOf

(* The sudoers file of an account never gives more than one of its active  *)
(* direct grants does, though all of them overwrite that one file.         *)
THEOREM SudoFollowsGrants == Spec => []SudoNeedsGrant
  <1>1. Init => SudoHasOwner  BY DEF Init, SudoHasOwner
  <1>2. TypeOK /\ HandlerInv /\ SudoHasOwner => SudoNeedsGrant
    <2> SUFFICES ASSUME TypeOK, HandlerInv, SudoHasOwner, NEW a \in Accounts, sudo[a] # "none", Settled(a)
                 PROVE  \E g \in DirectOn(a) : AccessType[grant[g].req] = sudo[a]
      BY DEF SudoNeedsGrant
    <2>1. ASSUME NEW t \in Threads, task[t].pc \in {"install_hooks", "commit_open"},
                 task[t].mode = "direct", Account(task[t].req) = a
          PROVE  FALSE
      <3>1. Account(task[t].req) \in task[t].dirty
        BY <2>1 DEF HandlerInv, Handler, Opens, InstallPCs
      <3> QED  BY <2>1, <3>1 DEF Settled
    <2> QED  BY <2>1 DEF SudoHasOwner, Settled
  <1> QED  BY <1>1, <1>2, TypeInit, HandlerInit, TypeNext, HandlerNext, SudoNext, PTL DEF Spec
-----------------------------------------------------------------------------
(* Monitoring: the hook of an account goes only with its last grant.       *)
LEMMA HookStep ==
  ASSUME TypeOK, HandlerInv, ActiveIsHooked, NEW t \in Threads, Own(t) PROVE ActiveIsHooked'
  <1> SUFFICES ASSUME NEW g \in Active', grant'[g].mode = "direct", Account(grant'[g].req) \notin tainted'
               PROVE  \/ Account(grant'[g].req) \in hooks' /\ Account(grant'[g].req) \notin locked'
                      \/ \E s \in Threads : g \in Stripped(s, AfterSudo)'
    BY DEF ActiveIsHooked, Direct, Hooked, Account
  <1> DEFINE a == Account(grant'[g].req)
             Closing == \E s \in Threads : g \in Stripped(s, AfterSudo)
  <1>g. g \in Grants  BY DEF Active
  <1>a. ASSUME g \in Active, grant'[g].req = grant[g].req, grant'[g].mode = grant[g].mode, a \notin tainted
        PROVE  (a \in hooks /\ a \notin locked) \/ Closing
    BY <1>a DEF ActiveIsHooked, Direct, Hooked
  <1>o. ASSUME NEW s \in Threads, s # t, g \in Stripped(s, AfterSudo) PROVE g \in Stripped(s, AfterSudo)'
    BY <1>o, OthersKeepTask DEF Stripped
  <1>k. task[t] \in Task /\ task[t].req \in Requests /\ task[t].cur \in Grants  BY DEF TypeOK, Task
  <1>h. Opens(t) /\ Closes(t) /\ NoKey(t) /\ LastOne(t) /\ OpensHooked(t)  BY DEF HandlerInv, Handler
  <1>1. CASE Local(t)
    <2>1. grant' = grant /\ hooks' = hooks /\ locked' = locked /\ tainted' = tainted /\ g \in Active
      BY <1>1 DEF Local, Active
    <2>2. g \in Stripped(t, AfterSudo) => g \in Stripped(t, AfterSudo)'  BY <1>1 DEF Local
    <2> QED  BY <1>a, <1>o, <2>1, <2>2
  <1>2. CASE Abandon(t)
    <2>1. grant' = grant /\ hooks' = hooks /\ locked' = locked /\ a \notin tainted /\ g \in Active
      BY <1>2 DEF Abandon, Active
    <2>2. g \notin Stripped(t, AfterSudo)
      <3>1. SUFFICES ASSUME g \in Stripped(t, AfterSudo) PROVE FALSE  OBVIOUS
      <3>2. g \in Stripped(t, AfterKey)  BY <3>1 DEF Stripped, AfterSudo, AfterKey
      <3>3. a \in task[t].dirty  BY <1>h, <2>1, <3>2 DEF NoKey, Direct
      <3> QED  BY <1>2, <3>3 DEF Abandon
    <2> QED  BY <1>a, <1>o, <2>1, <2>2
  <1>3. CASE CommitOpen(t)
    <2>1. /\ grant' = [grant EXCEPT ![task[t].cur] =
                        [status |-> "active", req |-> task[t].req, mode |-> task[t].mode]]
          /\ hooks' = hooks /\ locked' = locked /\ tainted' = tainted
          /\ task[t].pc = "commit_open" /\ task[t].closed = {}
      BY <1>3, OpenCommit
    <2>2. CASE g = task[t].cur
      <3>1. grant'[g].req = task[t].req /\ grant'[g].mode = task[t].mode
        BY <1>g, <2>1, <2>2 DEF TypeOK
      <3> QED  BY <1>h, <2>1, <3>1 DEF OpensHooked
    <2>3. CASE g # task[t].cur
      <3>1. grant'[g] = grant[g]  BY <1>g, <2>1, <2>3 DEF TypeOK
      <3>2. g \in Active  BY <3>1 DEF Active
      <3>3. g \notin Stripped(t, AfterSudo)  BY <2>1 DEF Stripped, AfterSudo
      <3> QED  BY <1>a, <1>o, <2>1, <3>1, <3>2, <3>3
    <2> QED  BY <2>2, <2>3
  <1>4. CASE CommitClose(t)
    <2>1. /\ g \in Active /\ g \notin task[t].closed /\ task[t].pc = "commit_close"
          /\ grant'[g].req = grant[g].req /\ grant'[g].mode = grant[g].mode
          /\ hooks' = hooks /\ locked' = locked /\ tainted' = tainted
      BY <1>4, <1>g, CloseCommit
    <2>2. g \notin Stripped(t, AfterSudo)  BY <2>1 DEF Stripped, AfterSudo
    <2> QED  BY <1>a, <1>o, <2>1, <2>2
  <1>5. CASE Call(t)
    <2>1. PICK pc, next : Called(t, pc, next) /\ NextCall(pc, next)  BY <1>5, CallMoves
    <2>2. grant' = grant /\ tainted \subseteq tainted' /\ g \in Active  BY <2>1 DEF Called, Active
    <2>3. g \in Stripped(t, AfterSudo) => g \in Stripped(t, AfterSudo)'
      BY <2>1 DEF Called, NextCall, Stripped, AfterSudo
    <2>4. CASE \/ InstallKey(t) \/ InstallSudo(t) \/ InstallHooks(t) \/ RemoveKey(t) \/ RemoveSudo(t)
               \/ LeaveLocked(t)
      <3>1. hooks \subseteq hooks' /\ locked' \subseteq locked
        BY <2>4 DEF InstallKey, InstallSudo, InstallHooks, RemoveKey, RemoveSudo, LeaveLocked
      <3> QED  BY <1>a, <1>o, <2>2, <2>3, <3>1
    <2>5. CASE RemoveHooks(t) \/ DisableUser(t)
      <3>1. /\ task[t].pc \in {"remove_hooks", "disable_user"} /\ task'[t].pc \in AfterSudo
            /\ task'[t].closed = task[t].closed /\ task'[t].cur = task[t].cur
        <4>1. task[t].pc \in {"remove_hooks", "disable_user"}
          BY <2>5 DEF RemoveHooks, DisableUser, Remote, SshCall, At
        <4> QED  BY <2>1, <4>1 DEF Called, NextCall, AfterSudo
      <3>2. CASE a = Account(task[t].req)
        <4>1. g \in SameName(task[t].req)  BY <2>2, <3>2 DEF SameName, Account
        <4>2. g \in task[t].closed \cup {task[t].cur}  BY <1>h, <3>1, <4>1 DEF LastOne
        <4> QED  BY <1>g, <3>1, <4>2 DEF Stripped
      <3>3. CASE a # Account(task[t].req)
        <4>1. (a \in hooks => a \in hooks') /\ (a \notin locked => a \notin locked')
          BY <2>5, <3>3 DEF RemoveHooks, DisableUser
        <4> QED  BY <1>a, <1>o, <2>2, <2>3, <4>1
      <3> QED  BY <3>2, <3>3
    <2>6. CASE LeaveUnhooked(t)
      <3>1. hooks' = hooks \ {Account(task[t].req)} /\ locked' = locked /\ Account(task[t].req) \in tainted'
        BY <2>6 DEF LeaveUnhooked, Unnoticed
      <3>2. a # Account(task[t].req)  BY <3>1
      <3> QED  BY <1>a, <1>o, <2>2, <2>3, <3>1, <3>2
    <2> QED  BY <1>5, <2>4, <2>5, <2>6 DEF Call
  <1> QED  BY <1>1, <1>2, <1>3, <1>4, <1>5, KindsOfStep

LEMMA HookNext == TypeOK /\ HandlerInv /\ ActiveIsHooked /\ [Next]_vars => ActiveIsHooked'
  <1> SUFFICES ASSUME TypeOK, HandlerInv, ActiveIsHooked, [Next]_vars PROVE ActiveIsHooked'  OBVIOUS
  <1>1. ASSUME NEW t \in Threads, Own(t) PROVE ActiveIsHooked'  BY <1>1, HookStep
  <1>2. CASE Crash
    <2> SUFFICES ASSUME NEW g \in Active', grant'[g].mode = "direct", Account(grant'[g].req) \notin tainted'
                 PROVE  Account(grant'[g].req) \in hooks' /\ Account(grant'[g].req) \notin locked'
      BY DEF ActiveIsHooked, Direct, Hooked, Account
    <2>1. /\ hooks' = hooks /\ locked' = locked /\ grant' = grant
          /\ tainted' = tainted \cup UNION {task[t].dirty : t \in Threads}
      BY <1>2 DEF Crash, database, remote
    <2>2. ASSUME NEW t \in Threads, g \in Stripped(t, AfterSudo) PROVE FALSE
      <3>1. g \in Stripped(t, AfterKey)  BY <2>2 DEF Stripped, AfterSudo, AfterKey
      <3>2. Account(grant[g].req) \in task[t].dirty
        BY <2>1, <3>1 DEF HandlerInv, Handler, NoKey, Direct
      <3> QED  BY <2>1, <3>2
    <2> QED  BY <2>1, <2>2 DEF ActiveIsHooked, Active, Direct, Hooked
  <1>3. CASE UNCHANGED Handlers
    BY <1>3 DEF Handlers, ActiveIsHooked, Active, Direct, Hooked, Account, Stripped
  <1> QED  BY <1>1, <1>2, <1>3, StepsOf

(* While a direct grant is active its account has the monitoring hook and  *)
(* is not locked, unless a rolled-back handler has touched the account or  *)
(* a command has failed on it in silence.                                  *)
THEOREM ActiveGrantsMonitored == Spec => []ActiveIsMonitored
  <1>1. Init => ActiveIsHooked  BY DEF Init, ActiveIsHooked, Active
  <1>2. TypeOK /\ HandlerInv /\ ActiveIsHooked => ActiveIsMonitored
    <2> SUFFICES ASSUME TypeOK, HandlerInv, ActiveIsHooked, NEW g \in Active,
                        grant[g].mode = "direct", Settled(Account(grant[g].req))
                 PROVE  Account(grant[g].req) \in hooks /\ Account(grant[g].req) \notin locked
      BY DEF ActiveIsMonitored
    <2>1. ASSUME NEW t \in Threads, g \in Stripped(t, AfterSudo) PROVE FALSE
      <3>1. g \in Stripped(t, AfterKey)  BY <2>1 DEF Stripped, AfterSudo, AfterKey
      <3>2. Account(grant[g].req) \in task[t].dirty
        BY <3>1 DEF HandlerInv, Handler, NoKey, Direct
      <3> QED  BY <3>2 DEF Settled
    <2> QED  BY <2>1 DEF ActiveIsHooked, Direct, Hooked, Settled
  <1> QED  BY <1>1, <1>2, TypeInit, HandlerInit, TypeNext, HandlerNext, HookNext, PTL DEF Spec
-----------------------------------------------------------------------------
(* Decisions.  What a handler may do to its own record, and what may happen *)
(* to the status of the request it has in hand, without disturbing what it *)
(* has read.                                                               *)
KeepsTask(s) ==
  \/ task'[s].pc \notin OpeningPCs \cup {"reject"}
  \/ task'[s] = task[s]
  \/ /\ task'[s].req = task[s].req /\ task'[s].seen = task[s].seen
     /\ task[s].pc \in OpeningPCs /\ task'[s].pc \in OpeningPCs \ {"submit"}

KeepsRequest(r) ==
  \/ request'[r] = request[r]
  \/ request[r] # "absent" /\ request'[r] \in {"approved", "rejected"}
  \/ request[r] = "pending" /\ request'[r] = "cancelled"

LEMMA DecisionFrame ==
  ASSUME DecisionInv, \A s \in Threads : KeepsTask(s),
         \A s \in Threads : task'[s].pc \in OpeningPCs \cup {"reject"} => KeepsRequest(task[s].req)
  PROVE  DecisionInv'
  <1> SUFFICES ASSUME NEW s \in Threads PROVE Deciding(s)'  BY DEF DecisionInv
  <1>1. \A k \in Threads : Creating(k)' => Creating(k) /\ task'[k].req = task[k].req
    BY DEF KeepsTask, Creating
  <1>2. Deciding(s) /\ KeepsTask(s)  BY DEF DecisionInv
  <1>3. Creating(s)' => \A k \in Threads : Creating(k)' /\ task'[k].req = task'[s].req => k = s
    BY <1>1, <1>2 DEF Deciding
  <1>4. CASE task'[s].pc \notin OpeningPCs \cup {"reject"}
    BY <1>3, <1>4 DEF Deciding, Creating, OpeningPCs
  <1>5. CASE /\ task'[s].pc \in OpeningPCs \cup {"reject"} /\ KeepsRequest(task[s].req)
             /\ task'[s] = task[s]
    BY <1>2, <1>3, <1>5 DEF Deciding, Creating, KeepsRequest
  <1>6. CASE /\ task'[s].pc \in OpeningPCs \ {"submit"} /\ KeepsRequest(task[s].req)
             /\ task'[s].req = task[s].req /\ task'[s].seen = task[s].seen
             /\ task[s].pc \in OpeningPCs
    BY <1>2, <1>3, <1>6 DEF Deciding, Creating, KeepsRequest, OpeningPCs, InstallPCs
  <1> QED  BY <1>2, <1>4, <1>5, <1>6 DEF KeepsTask

(* The three handlers that read a status and act on it later.              *)
LEMMA DecisionBegin ==
  ASSUME TypeOK, DecisionInv, NEW t \in Threads, Own(t), NEW r \in Requests,
         BeginCreate(t, r) \/ BeginApprove(t, r) \/ BeginReject(t, r)
  PROVE  DecisionInv'
  <1> USE IdleTaskType
  <1>0. request' = request  BY DEF BeginCreate, BeginApprove, BeginReject, Start, database
  <1>o. \A s \in Threads : s # t => task'[s] = task[s]  BY OthersKeepTask
  <1>i. ASSUME DecisionInv, NEW s \in Threads PROVE Deciding(s)  BY <1>i DEF DecisionInv
  <1>1. CASE BeginCreate(t, r)
    <2>1. task'[t].pc = "submit" /\ task'[t].req = r /\ task'[t].seen = "absent" /\ request[r] = "absent"
      BY <1>1 DEF BeginCreate, Start, TypeOK, Task, IdleTask
    <2>2. \A s \in Threads : ~(task[s].pc \in OpeningPCs /\ task[s].req = r)  BY <1>1 DEF BeginCreate
    <2> SUFFICES ASSUME NEW s \in Threads PROVE Deciding(s)'  BY DEF DecisionInv
    <2>3. CASE s = t
      BY <1>0, <1>o, <2>1, <2>2, <2>3 DEF Deciding, Creating, OpeningPCs
    <2>4. CASE s # t
      <3>1. task'[s] = task[s] /\ Deciding(s)  BY <1>o, <1>i, <2>4
      <3>2. Creating(s) => \A k \in Threads : Creating(k)' /\ task'[k].req = task[s].req => k = s
        <4> SUFFICES ASSUME Creating(s), NEW k \in Threads, Creating(k)', task'[k].req = task[s].req PROVE k = s
          OBVIOUS
        <4>1. k # t  BY <2>1, <2>2 DEF Creating
        <4> QED  BY <1>o, <3>1, <4>1 DEF Deciding, Creating
      <3> QED  BY <1>0, <3>1, <3>2 DEF Deciding, Creating
    <2> QED  BY <2>3, <2>4
  <1>2. CASE BeginApprove(t, r) \/ BeginReject(t, r)
    <2>1. /\ task'[t].req = r
          /\ \/ task'[t].pc = "approve" /\ task'[t].seen = request[r] /\ request[r] \in {"pending", "approved"}
             \/ task'[t].pc = "reject" /\ request[r] = "pending"
      <3>1. CASE BeginApprove(t, r)  BY <3>1 DEF BeginApprove, Start, TypeOK, Task
      <3>2. CASE BeginReject(t, r)  BY <3>2 DEF BeginReject, Start, TypeOK, Task
      <3> QED  BY <1>2, <3>1, <3>2
    <2>2. ~Creating(t)'  BY <2>1 DEF Creating, OpeningPCs, InstallPCs
    <2> SUFFICES ASSUME NEW s \in Threads PROVE Deciding(s)'  BY DEF DecisionInv
    <2>3. CASE s = t
      BY <1>0, <2>1, <2>2, <2>3 DEF Deciding, OpeningPCs, InstallPCs
    <2>4. CASE s # t
      <3>1. task'[s] = task[s] /\ Deciding(s)  BY <1>o, <1>i, <2>4
      <3>2. Creating(s) => \A k \in Threads : Creating(k)' /\ task'[k].req = task[s].req => k = s
        <4> SUFFICES ASSUME Creating(s), NEW k \in Threads, Creating(k)', task'[k].req = task[s].req PROVE k = s
          OBVIOUS
        <4>1. k # t  BY <2>2
        <4> QED  BY <1>o, <3>1, <4>1 DEF Deciding, Creating
      <3> QED  BY <1>0, <3>1, <3>2 DEF Deciding, Creating
    <2> QED  BY <2>3, <2>4
  <1> QED  BY <1>1, <1>2

(* A row that exists never goes away, and only commits add or close rows.  *)
LEMMA RowsStay ==
  ASSUME TypeOK, HandlerInv, NEW t \in Threads, Own(t), NEW g \in Grants, grant[g].status # "unused"
  PROVE  grant'[g].status # "unused" /\ grant'[g].req = grant[g].req
  <1>1. CASE Call(t) \/ Abandon(t) \/ Local(t)
    <2>1. Call(t) => grant' = grant  BY CallMoves DEF Called
    <2> QED  BY <1>1, <2>1 DEF Abandon, Local
  <1>2. CASE CommitOpen(t)  BY <1>2, OpenCommit DEF TypeOK
  <1>3. CASE CommitClose(t)
    <2>1. grant'[g].status \in {"expired", "revoked", grant[g].status}
      BY <1>3 DEF CommitClose, TypeOK, Row
    <2> QED  BY <1>3, <2>1, CloseCommit
  <1> QED  BY <1>1, <1>2, <1>3, KindsOfStep

LEMMA InHandStep ==
  ASSUME TypeOK, HandlerInv, RowsExist, NEW t \in Threads, Own(t), NEW g \in InHand(t)'
  PROVE  g \in InHand(t) \cup Active
  <1> USE IdleTaskType
  <1>k. task[t] \in Task  BY DEF TypeOK
  <1>e. IdleTask.todo = {}  BY DEF IdleTask
  <1>i. ASSUME task'[t] = IdleTask PROVE FALSE
    BY <1>i, <1>e DEF InHand, RemovePCs
  <1>1. CASE t \in Workers /\ Begin(t)
    <2> USE DEF InHand, RemovePCs, Start, TypeOK, Task
    <2>1. ASSUME NEW r \in Requests, BeginCreate(t, r) PROVE FALSE  BY <2>1, <1>e DEF BeginCreate
    <2>2. ASSUME NEW r \in Requests, BeginApprove(t, r) PROVE FALSE  BY <2>2, <1>e DEF BeginApprove
    <2>3. ASSUME NEW r \in Requests, BeginReject(t, r) PROVE FALSE  BY <2>3, <1>e DEF BeginReject
    <2>4. ASSUME NEW k \in Grants, BeginRevoke(t, k) PROVE g \in Active  BY <2>4 DEF BeginRevoke
    <2>5. ASSUME NEW u \in Users, BeginRevokeUser(t, u) PROVE g \in Active
      BY <2>5 DEF BeginRevokeUser
    <2>6. ASSUME NEW u \in Users, NEW h \in Hosts, LoseMembership(t, u, h) PROVE g \in Active
      BY <2>6 DEF LoseMembership
    <2>7. ASSUME NEW h \in Hosts, BeginArchive(t, h) PROVE FALSE  BY <2>7, <1>e DEF BeginArchive
    <2> QED  BY <1>1, <2>1, <2>2, <2>3, <2>4, <2>5, <2>6, <2>7 DEF Begin
  <1>2. CASE Submit(t) \/ CommitOpen(t) \/ CommitReject(t) \/ CommitArchive(t) \/ CommitClose(t)
    BY <1>2, <1>i DEF Submit, CommitOpen, CommitReject, CommitArchive, CommitClose, Release, TypeOK
  <1>3. CASE Refuse(t) \/ LoseCall(t) \/ GiveUp(t)
    BY <1>3, <1>i DEF Refuse, LoseCall, GiveUp, Rollback, TypeOK
  <1>4. CASE Call(t)
    <2>1. PICK pc, next : Called(t, pc, next) /\ NextCall(pc, next)  BY <1>4, CallMoves
    <2>2. task'[t].todo = task[t].todo
      BY <1>4, <1>k DEF Call, InstallKey, InstallSudo, InstallHooks, RemoveKey, RemoveSudo, RemoveHooks,
           DisableUser, LeaveLocked, LeaveUnhooked, Remote, Unnoticed, SshCall, TypeOK, Task
    <2> QED  BY <2>1, <2>2 DEF Called, NextCall, InHand, RemovePCs
  <1>5. CASE OpenGrant(t)
    BY <1>5, <1>k DEF OpenGrant, InHand, RemovePCs, TypeOK, Task
  <1>6. ASSUME NEW k \in Grants, TakeUp(t, k) PROVE g \in InHand(t)
    BY <1>6, <1>k DEF TakeUp, InHand, RemovePCs, TypeOK, Task
  <1>7. CASE CloseRow(t)
    BY <1>7, <1>k DEF CloseRow, At, InHand, RemovePCs, TypeOK, Task
  <1>8. CASE t = Scheduler /\ (StartTick \/ ImportLogs \/ SelectDue)
    BY <1>8, <1>k DEF StartTick, ImportLogs, SelectDue, Goto, At, InHand, RemovePCs, TypeOK, Task
  <1> QED  BY <1>1, <1>2, <1>3, <1>4, <1>5, <1>6, <1>7, <1>8 DEF Own, Proceed, Call

LEMMA RowsNext == TypeOK /\ HandlerInv /\ RowsExist /\ [Next]_vars => RowsExist'
  <1> SUFFICES ASSUME TypeOK, HandlerInv, RowsExist, [Next]_vars, NEW s \in Threads, NEW g \in InHand(s)'
               PROVE  grant'[g].status # "unused"
    BY DEF RowsExist, InHand
  <1>1. ASSUME NEW t \in Threads, Own(t) PROVE grant'[g].status # "unused"
    <2>1. g \in InHand(s) \cup Active
      <3>1. CASE s = t  BY <1>1, <3>1, InHandStep
      <3>2. CASE s # t  BY <1>1, <3>2, OthersKeepTask DEF InHand
      <3> QED  BY <3>1, <3>2
    <2>2. g \in Grants /\ grant[g].status # "unused"
      BY <2>1 DEF RowsExist, InHand, Active, TypeOK, Task
    <2> QED  BY <1>1, <2>2, RowsStay
  <1>2. CASE Crash
    <2>1. task'[s] = IdleTask /\ IdleTask.todo = {}  BY <1>2 DEF Crash, IdleTask
    <2> QED  BY <2>1, IdleTaskType DEF InHand, RemovePCs
  <1>3. CASE UNCHANGED Handlers  BY <1>3 DEF Handlers, RowsExist, InHand
  <1> QED  BY <1>1, <1>2, <1>3, StepsOf

(* What a thread's step does to the statuses of requests, and what it may  *)
(* do to the handler that makes it.                                        *)
LEMMA RequestStep ==
  ASSUME TypeOK, HandlerInv, DecisionInv, NEW t \in Threads, Own(t), NEW s \in Threads, s # t,
         task[s].pc \in OpeningPCs \cup {"reject"}
  PROVE  KeepsRequest(task[s].req)
  <1>d. Deciding(s) /\ Deciding(t)  BY DEF DecisionInv
  <1>k. task[s].req \in Requests /\ task[t].req \in Requests  BY DEF TypeOK, Task
  <1>n. request[task[t].req] = "absent" /\ Creating(t) => task[s].req # task[t].req
    BY <1>d DEF Deciding, Creating
  <1>1. CASE UNCHANGED request  BY <1>1 DEF KeepsRequest
  <1>2. CASE Submit(t)
    <2>1. Creating(t) /\ request[task[t].req] = "absent"
      BY <1>2, <1>d DEF Submit, At, Deciding, Creating, OpeningPCs
    <2> QED  BY <1>2, <1>k, <1>n, <2>1 DEF Submit, KeepsRequest, TypeOK
  <1>3. CASE CommitOpen(t)
    <2>0. task[t].pc = "commit_open"  BY <1>3 DEF CommitOpen, At
    <2>1. CASE Creating(t)
      <3>1. request[task[t].req] = "absent"  BY <1>d, <2>1 DEF Deciding
      <3> QED  BY <1>3, <1>k, <1>n, <2>1, <3>1 DEF CommitOpen, KeepsRequest, TypeOK
    <2>2. CASE ~Creating(t)
      <3>1. request[task[t].req] # "absent"
        BY <1>d, <2>0, <2>2 DEF Deciding, Creating, OpeningPCs
      <3> QED  BY <1>3, <1>k, <3>1 DEF CommitOpen, KeepsRequest, TypeOK
    <2> QED  BY <2>1, <2>2
  <1>4. CASE CommitReject(t)
    <2>1. request[task[t].req] # "absent"  BY <1>4, <1>d DEF CommitReject, At, Deciding
    <2> QED  BY <1>4, <1>k, <2>1 DEF CommitReject, KeepsRequest, TypeOK
  <1>5. CASE CommitClose(t)
    BY <1>5, <1>k DEF CommitClose, KeepsRequest
  <1>6. CASE t \in Workers /\ Begin(t)
    <2>1. UNCHANGED request
      BY <1>6 DEF Begin, BeginCreate, BeginApprove, BeginReject, BeginRevoke, BeginRevokeUser,
                  LoseMembership, BeginArchive, Start, database
    <2> QED  BY <1>1, <2>1
  <1>7. CASE Call(t)
    <2>1. UNCHANGED request
      BY <1>7 DEF Call, InstallKey, InstallSudo, InstallHooks, RemoveKey, RemoveSudo, RemoveHooks,
           DisableUser, LeaveLocked, LeaveUnhooked, Remote, Unnoticed, SshCall, database
    <2> QED  BY <1>1, <2>1
  <1>8. CASE OpenGrant(t) \/ CommitArchive(t) \/ CloseRow(t) \/ \E g \in Grants : TakeUp(t, g)
    BY <1>1, <1>8 DEF OpenGrant, CommitArchive, CloseRow, TakeUp, database
  <1>9. CASE Refuse(t) \/ LoseCall(t) \/ GiveUp(t)
    BY <1>1, <1>9 DEF Refuse, LoseCall, GiveUp, Rollback, database
  <1>10. CASE t = Scheduler /\ (StartTick \/ ImportLogs \/ SelectDue)
    BY <1>1, <1>10 DEF StartTick, ImportLogs, SelectDue, database
  <1> QED  BY <1>2, <1>3, <1>4, <1>5, <1>6, <1>7, <1>8, <1>9, <1>10 DEF Own, Proceed, Call

LEMMA DecisionStep ==
  ASSUME TypeOK, HandlerInv, DecisionInv, NEW t \in Threads, Own(t) PROVE DecisionInv'
  <1> USE IdleTaskType
  <1>k. task[t] \in Task  BY DEF TypeOK
  <1>f. ASSUME KeepsTask(t), task'[t].pc \in OpeningPCs \cup {"reject"} => KeepsRequest(task[t].req)
        PROVE  DecisionInv'
    <2>1. ASSUME NEW s \in Threads, s # t PROVE task'[s] = task[s]  BY <2>1, OthersKeepTask
    <2>2. \A s \in Threads : KeepsTask(s)  BY <1>f, <2>1 DEF KeepsTask
    <2>3. ASSUME NEW s \in Threads, task'[s].pc \in OpeningPCs \cup {"reject"}
          PROVE  KeepsRequest(task[s].req)
      BY <1>f, <2>1, <2>3, RequestStep
    <2> QED  BY <2>2, <2>3, DecisionFrame
  <1>i. ASSUME task'[t].pc \notin OpeningPCs \cup {"reject"} PROVE DecisionInv'
    BY <1>f, <1>i DEF KeepsTask
  <1>1. ASSUME NEW r \in Requests, BeginCreate(t, r) \/ BeginApprove(t, r) \/ BeginReject(t, r)
        PROVE  DecisionInv'
    BY <1>1, DecisionBegin
  <1>2. CASE t \in Workers /\ Begin(t)
    <2> DEFINE Away == task'[t].pc \notin OpeningPCs \cup {"reject"}
    <2> USE DEF OpeningPCs, InstallPCs, Start, TypeOK, Task
    <2>1. ASSUME NEW g \in Grants, BeginRevoke(t, g) PROVE Away  BY <2>1 DEF BeginRevoke
    <2>2. ASSUME NEW u \in Users, BeginRevokeUser(t, u) PROVE Away  BY <2>2 DEF BeginRevokeUser
    <2>3. ASSUME NEW u \in Users, NEW h \in Hosts, LoseMembership(t, u, h) PROVE Away
      BY <2>3 DEF LoseMembership
    <2>4. ASSUME NEW h \in Hosts, BeginArchive(t, h) PROVE Away  BY <2>4 DEF BeginArchive
    <2> QED  BY <1>1, <1>2, <1>i, <2>1, <2>2, <2>3, <2>4 DEF Begin
  <1>3. CASE Submit(t) \/ CommitOpen(t) \/ CommitReject(t) \/ CommitArchive(t) \/ CommitClose(t)
    <2>1. task'[t] = IdleTask
      BY <1>3 DEF Submit, CommitOpen, CommitReject, CommitArchive, CommitClose, Release, TypeOK
    <2> QED  BY <1>i, <2>1 DEF OpeningPCs, InstallPCs
  <1>4. CASE Refuse(t) \/ LoseCall(t) \/ GiveUp(t)
    <2>1. task'[t] = IdleTask  BY <1>4 DEF Refuse, LoseCall, GiveUp, Rollback, TypeOK
    <2> QED  BY <1>i, <2>1 DEF OpeningPCs, InstallPCs
  <1>5. CASE OpenGrant(t)
    <2>1. KeepsTask(t)
      BY <1>5, <1>k DEF OpenGrant, At, KeepsTask, OpeningPCs, InstallPCs, TypeOK, Task
    <2>2. KeepsRequest(task[t].req)  BY <1>5 DEF OpenGrant, KeepsRequest, database
    <2> QED  BY <1>f, <2>1, <2>2
  <1>6. CASE Call(t)
    <2>1. PICK pc, next : Called(t, pc, next) /\ NextCall(pc, next)  BY <1>6, CallMoves
    <2>2. task'[t].seen = task[t].seen /\ request' = request
      BY <1>6, <1>k DEF Call, InstallKey, InstallSudo, InstallHooks, RemoveKey, RemoveSudo, RemoveHooks,
           DisableUser, LeaveLocked, LeaveUnhooked, Remote, Unnoticed, SshCall, database, TypeOK, Task
    <2>3. KeepsTask(t)  BY <2>1, <2>2 DEF Called, NextCall, KeepsTask, OpeningPCs, InstallPCs
    <2> QED  BY <1>f, <2>2, <2>3 DEF KeepsRequest
  <1>7. CASE CloseRow(t) \/ \E g \in Grants : TakeUp(t, g)
    <2>1. CloseRow(t) => task'[t].pc \in {"commit_close", "close"}
      BY <1>k DEF CloseRow, TypeOK, Task
    <2>2. ASSUME NEW g \in Grants, TakeUp(t, g) PROVE task'[t].pc \in {"remove_key", "close_row"}
      BY <1>k, <2>2 DEF TakeUp, TypeOK, Task
    <2> QED  BY <1>7, <1>i, <2>1, <2>2 DEF OpeningPCs, InstallPCs
  <1>8. CASE t = Scheduler /\ (StartTick \/ ImportLogs \/ SelectDue)
    BY <1>8, <1>k, <1>i DEF StartTick, ImportLogs, SelectDue, Goto, OpeningPCs, InstallPCs, TypeOK, Task
  <1> QED  BY <1>2, <1>3, <1>4, <1>5, <1>6, <1>7, <1>8 DEF Own, Proceed, Call

LEMMA DecisionNext == TypeOK /\ HandlerInv /\ DecisionInv /\ [Next]_vars => DecisionInv'
  <1> SUFFICES ASSUME TypeOK, HandlerInv, DecisionInv, [Next]_vars PROVE DecisionInv'  OBVIOUS
  <1>1. ASSUME NEW t \in Threads, Own(t) PROVE DecisionInv'  BY <1>1, DecisionStep
  <1>2. CASE Crash
    BY <1>2, IdleTaskType, DecisionFrame DEF Crash, KeepsTask, OpeningPCs, InstallPCs
  <1>3. CASE UNCHANGED Handlers
    BY <1>3, DecisionFrame DEF Handlers, KeepsTask, KeepsRequest
  <1> QED  BY <1>1, <1>2, <1>3, StepsOf

(* A grant's request stays decided.                                        *)
Decided == {"approved", "rejected", "cancelled"}

LEMMA ApprovalNext ==
  TypeOK /\ HandlerInv /\ DecisionInv /\ RowsExist /\ GrantNeedsApproval /\ [Next]_vars => GrantNeedsApproval'
  <1> SUFFICES ASSUME TypeOK, HandlerInv, DecisionInv, RowsExist, GrantNeedsApproval, [Next]_vars,
                      NEW g \in Grants, grant'[g].status # "unused"
               PROVE  request'[grant'[g].req] \in Decided
    BY DEF GrantNeedsApproval, Decided
  <1>a. grant[g].status # "unused" => request[grant[g].req] \in Decided
    BY DEF GrantNeedsApproval, Decided
  <1>r. grant[g].req \in Requests  BY DEF TypeOK, Row
  <1>1. ASSUME NEW t \in Threads, Own(t) PROVE request'[grant'[g].req] \in Decided
    <2>k. task[t].req \in Requests /\ task[t].cur \in Grants  BY DEF TypeOK, Task
    <2>d. Deciding(t)  BY DEF DecisionInv
    <2>1. CASE CommitOpen(t)
      <3>1. request'[task[t].req] \in Decided
        <4>1. task[t].pc = "commit_open"  BY <2>1 DEF CommitOpen, At
        <4> QED  BY <2>1, <2>d, <2>k, <4>1 DEF CommitOpen, Deciding, OpeningPCs, Decided, TypeOK
      <3>2. CASE g = task[t].cur
        <4>1. grant' = [grant EXCEPT ![task[t].cur] =
                          [status |-> "active", req |-> task[t].req, mode |-> task[t].mode]]
          BY <2>1, OpenCommit
        <4>2. grant'[g].req = task[t].req  BY <3>2, <4>1 DEF TypeOK
        <4> QED  BY <3>1, <4>2
      <3>3. CASE g # task[t].cur
        <4>1. grant'[g] = grant[g]  BY <2>1, <3>3, OpenCommit DEF TypeOK
        <4> QED  BY <1>a, <1>r, <2>1, <3>1, <4>1 DEF CommitOpen, TypeOK
      <3> QED  BY <3>2, <3>3
    <2>2. CASE CommitClose(t)
      <3>1. g \in task[t].closed => grant[g].status # "unused"  BY DEF RowsExist, InHand
      <3>2. grant[g].status # "unused"  BY <2>2, <3>1 DEF CommitClose
      <3>3. grant'[g].req = grant[g].req  BY <2>2, CloseCommit
      <3> QED  BY <1>a, <1>r, <2>2, <3>2, <3>3 DEF CommitClose, Decided
    <2>3. CASE Submit(t)
      <3>1. request[task[t].req] = "absent"
        BY <2>3, <2>d DEF Submit, At, Deciding, Creating, OpeningPCs
      <3>2. grant' = grant  BY <2>3 DEF Submit
      <3>3. grant[g].req # task[t].req  BY <1>a, <3>1, <3>2 DEF Decided
      <3> QED  BY <1>a, <1>r, <2>3, <2>k, <3>2, <3>3 DEF Submit, TypeOK
    <2>4. CASE CommitReject(t)
      BY <1>a, <1>r, <2>4, <2>k DEF CommitReject, Decided, TypeOK
    <2>5. CASE request' = request /\ grant' = grant  BY <1>a, <2>5
    <2>6. CASE t \in Workers /\ Begin(t)
      <3>1. request' = request /\ grant' = grant
        BY <2>6 DEF Begin, BeginCreate, BeginApprove, BeginReject, BeginRevoke, BeginRevokeUser,
                    LoseMembership, BeginArchive, Start, database
      <3> QED  BY <2>5, <3>1
    <2>7. CASE Call(t)
      <3>1. request' = request /\ grant' = grant
        BY <2>7 DEF Call, InstallKey, InstallSudo, InstallHooks, RemoveKey, RemoveSudo, RemoveHooks,
             DisableUser, LeaveLocked, LeaveUnhooked, Remote, Unnoticed, SshCall, database
      <3> QED  BY <2>5, <3>1
    <2>8. CASE OpenGrant(t) \/ CommitArchive(t) \/ CloseRow(t) \/ \E k \in Grants : TakeUp(t, k)
      BY <2>5, <2>8 DEF OpenGrant, CommitArchive, CloseRow, TakeUp, database
    <2>9. CASE Refuse(t) \/ LoseCall(t) \/ GiveUp(t)
      BY <2>5, <2>9 DEF Refuse, LoseCall, GiveUp, Rollback, database
    <2>10. CASE t = Scheduler /\ (StartTick \/ ImportLogs \/ SelectDue)
      BY <2>5, <2>10 DEF StartTick, ImportLogs, SelectDue, database
    <2> QED  BY <1>1, <2>1, <2>2, <2>3, <2>4, <2>6, <2>7, <2>8, <2>9, <2>10 DEF Own, Proceed, Call
  <1>2. CASE Crash  BY <1>a, <1>2 DEF Crash, database
  <1>3. CASE UNCHANGED Handlers  BY <1>a, <1>3 DEF Handlers
  <1> QED  BY <1>1, <1>2, <1>3, StepsOf

(* Everything the handlers rely on, in one inductive invariant: it holds   *)
(* initially and every step of every thread preserves it.                  *)
THEOREM InvariantHolds == Spec => []IInv
  <1>1. Init => KeyHasOwner /\ SudoHasOwner /\ ActiveIsHooked
    BY DEF Init, KeyHasOwner, SudoHasOwner, ActiveIsHooked, Active
  <1>2. Init => DecisionInv /\ RowsExist /\ GrantNeedsApproval
    <2> SUFFICES ASSUME Init PROVE DecisionInv /\ RowsExist /\ GrantNeedsApproval  OBVIOUS
    <2>1. \A t \in Threads : task[t] = IdleTask /\ IdleTask.todo = {}  BY DEF Init, IdleTask
    <2>2. DecisionInv
      BY <2>1, IdleTaskType DEF DecisionInv, Deciding, Creating, OpeningPCs, InstallPCs
    <2>3. RowsExist  BY <2>1, IdleTaskType DEF RowsExist, InHand, RemovePCs
    <2>4. GrantNeedsApproval  BY DEF Init, GrantNeedsApproval
    <2> QED  BY <2>2, <2>3, <2>4
  <1>3. Init => IInv  BY <1>1, <1>2, TypeInit, HandlerInit DEF IInv
  <1>4. IInv /\ [Next]_vars => IInv'
    BY TypeNext, HandlerNext, KeyNext, SudoNext, HookNext, DecisionNext, RowsNext, ApprovalNext DEF IInv
  <1> QED  BY <1>3, <1>4, PTL DEF Spec
(* No grant for a request nobody and no policy approved, whatever handlers *)
(* decide on it at the same time.                                          *)
THEOREM GrantsAreApproved == Spec => []GrantNeedsApproval
  <1>1. IInv => GrantNeedsApproval  BY DEF IInv
  <1> QED  BY <1>1, InvariantHolds, PTL
-----------------------------------------------------------------------------
(* The refinement.  The transaction of AccessLedger is that of the thread  *)
(* which holds the lock: only that thread has accounts in hand.            *)
Mine(t) == {a \in Accounts : a \in task[t].dirty /\ a \notin tainted}

LEMMA DirtyAccounts ==
  ASSUME TypeOK, NEW t \in Threads PROVE task[t].dirty \subseteq Accounts
  BY DEF TypeOK, Task

LEMMA HolderHas ==
  ASSUME HandlerInv, NEW t \in Threads, writer = t
  PROVE  /\ \A s \in Threads : s # t => task[s].dirty = {}
         /\ \A a : Custody(a) = IF a \in tainted THEN "lost"
                                ELSE IF a \in task[t].dirty THEN "held" ELSE "settled"
  <1>1. \A s \in Threads : s # t => task[s].dirty = {}
    BY DEF HandlerInv, Handler, HoldsLock
  <1>2. \A a : (\E s \in Threads : a \in task[s].dirty) <=> a \in task[t].dirty
    BY <1>1
  <1> QED  BY <1>1, <1>2 DEF Custody

(* Nothing is seen to happen if rows, hosts and what is in hand stay.      *)
LEMMA LedgerKept ==
  ASSUME Book' = Book, \A a \in Accounts : Seen(a)' = Seen(a) /\ Custody(a)' = Custody(a)
  PROVE  UNCHANGED Ledger!vars
  BY DEF Ledger!vars

LEMMA LedgerEnded ==
  ASSUME NEW outcome, \A a \in Accounts : Seen(a)' = Seen(a),
         \A a \in Accounts : Custody(a)' = IF Custody(a) = "held" THEN outcome ELSE Custody(a)
  PROVE  Ledger!EndAs(outcome)
  BY DEF Ledger!EndAs

LEMMA LedgerWorked ==
  ASSUME NEW a \in Accounts, Book' = Book, Seen(a)' \in Ledger!Access,
         \A b \in Accounts : b # a => Seen(b)' = Seen(b) /\ Custody(b)' = Custody(b),
         NEW c \in {"held", "lost"}, Custody(a)' = IF Custody(a) = "lost" THEN "lost" ELSE c
  PROVE  Ledger!Work(a)
  <1>1. [b \in Accounts |-> Seen(b)]' = [[b \in Accounts |-> Seen(b)] EXCEPT ![a] = Seen(a)']
    OBVIOUS
  <1>2. [b \in Accounts |-> Custody(b)]' =
          [[b \in Accounts |-> Custody(b)] EXCEPT ![a] = IF @ = "lost" THEN @ ELSE c]
    OBVIOUS
  <1> QED  BY <1>1, <1>2 DEF Ledger!Work

LEMMA RowsKept == ASSUME grant' = grant PROVE Book' = Book
  BY DEF Book, Entry, Active, Account

LEMMA HostsKept ==
  ASSUME UNCHANGED <<keys, sudo, hooks, locked>>, NEW a PROVE Seen(a)' = Seen(a)
  BY DEF Seen

(* A call changes one account, and takes it in hand.                       *)
LEMMA SeenType ==
  ASSUME TypeOK', NEW a \in Accounts PROVE Seen(a)' \in Ledger!Access
  BY DEF Seen, Ledger!Access, TypeOK

LEMMA CallSeen ==
  ASSUME TypeOK, NEW t \in Threads, Call(t), NEW b \in Accounts, b # Account(task[t].req)
  PROVE  Seen(b)' = Seen(b)
  <1> DEFINE r == task[t].req
  <1>1. r \in Requests /\ KeyLine(r) = <<Target[r], Subject[r]>> /\ Account(r) \in Accounts
    BY RequestData DEF TypeOK, Task, KeyLine
  <1>2. /\ keys' \in {keys, keys \cup {KeyLine(r)}, keys \ {KeyLine(r)}}
        /\ hooks' \in {hooks, hooks \cup {Account(r)}, hooks \ {Account(r)}}
        /\ locked' \in {locked, locked \cup {Account(r)}, locked \ {Account(r)}}
    BY DEF Call, InstallKey, InstallSudo, InstallHooks, RemoveKey, RemoveSudo, RemoveHooks, DisableUser,
           LeaveLocked, LeaveUnhooked
  <1>3. sudo'[b] = sudo[b]
    BY DEF Call, InstallKey, InstallSudo, InstallHooks, RemoveKey, RemoveSudo, RemoveHooks, DisableUser,
           LeaveLocked, LeaveUnhooked, TypeOK
  <1>4. ASSUME NEW u \in Users, LinuxName[u] = b[2] PROVE <<b[1], u>> \in keys' <=> <<b[1], u>> \in keys
    <2>1. b = <<b[1], b[2]>>  BY DEF Accounts
    <2>2. <<b[1], u>> # KeyLine(r)
      BY <1>1, <1>4, <2>1 DEF Account
    <2> QED  BY <1>2, <2>2
  <1>5. {u \in Users : LinuxName[u] = b[2] /\ <<b[1], u>> \in keys'} =
        {u \in Users : LinuxName[u] = b[2] /\ <<b[1], u>> \in keys}
    BY <1>4
  <1>6. (b \in hooks' /\ b \notin locked') <=> (b \in hooks /\ b \notin locked)
    BY <1>2
  <1> QED  BY <1>3, <1>5, <1>6 DEF Seen

LEMMA LedgerCall ==
  ASSUME TypeOK, TypeOK', NEW t \in Threads, Own(t), Call(t)
  PROVE  \E a \in Accounts : Ledger!Work(a)
  <1>0. Account(task[t].req) \in Accounts  BY RequestData DEF TypeOK, Task
  <1>1. PICK a \in Accounts : a = Account(task[t].req)  BY <1>0
  <1>2. PICK pc, next : Called(t, pc, next)  BY CallMoves
  <1>3. /\ grant' = grant /\ tainted' \in {tainted, tainted \cup {a}}
        /\ task'[t].dirty = task[t].dirty \cup {a}
        /\ \A s \in Threads : s # t => task'[s] = task[s]
    BY <1>1, <1>2, OthersKeepTask DEF Called
  <1>4. \A b : (\E s \in Threads : b \in task'[s].dirty) <=> b = a \/ \E s \in Threads : b \in task[s].dirty
    BY <1>3
  <1>5. Book' = Book  BY <1>3, RowsKept
  <1>6. \A b \in Accounts : b # a => Seen(b)' = Seen(b)  BY <1>1, CallSeen
  <1>7. \A b \in Accounts : b # a => Custody(b)' = Custody(b)  BY <1>3, <1>4 DEF Custody
  <1>8. PICK c \in {"held", "lost"} : Custody(a)' = IF Custody(a) = "lost" THEN "lost" ELSE c
    BY <1>3, <1>4 DEF Custody
  <1>9. Seen(a)' \in Ledger!Access  BY SeenType
  <1> QED  BY <1>5, <1>6, <1>7, <1>8, <1>9, LedgerWorked

(* The three invariants are what AccessLedger asks of an account at a      *)
(* commit: what its host shows is what the rows say.                       *)
LEMMA SettledShows ==
  TypeOK /\ KeyNeedsGrant /\ SudoNeedsGrant /\ ActiveIsMonitored =>
    \A a \in Accounts : Settled(a) => Ledger!Shows(Seen(a), {e \in Book : e.account = a})
  <1> SUFFICES ASSUME TypeOK, KeyNeedsGrant, SudoNeedsGrant, ActiveIsMonitored,
                      NEW a \in Accounts, Settled(a)
               PROVE  Ledger!Shows(Seen(a), {e \in Book : e.account = a})
    OBVIOUS
  <1> DEFINE Entries == {e \in Book : e.account = a}
  <1>1. ASSUME NEW u \in Seen(a).keys PROVE \E e \in Entries : e.user = u
    <2>1. u \in Users /\ LinuxName[u] = a[2] /\ <<a[1], u>> \in keys  BY <1>1 DEF Seen
    <2>2. a = <<a[1], LinuxName[u]>> /\ a[1] \in Hosts  BY <2>1 DEF Accounts
    <2>3. PICK g \in Active : grant[g].mode = "direct" /\ KeyLine(grant[g].req) = <<a[1], u>>
      BY <2>1, <2>2 DEF KeyNeedsGrant
    <2>4. Entry(g) \in Book  BY <2>3 DEF Book
    <2>5. Entry(g).account = a /\ Entry(g).user = u  BY <2>2, <2>3 DEF Entry, Account, KeyLine
    <2> QED  BY <2>4, <2>5
  <1>2. ASSUME Seen(a).sudo # "none" PROVE \E e \in Entries : e.level = Seen(a).sudo
    <2>1. PICK g \in DirectOn(a) : AccessType[grant[g].req] = sudo[a]
      BY <1>2 DEF SudoNeedsGrant, Seen
    <2>2. Entry(g) \in Book /\ Entry(g).account = a  BY DEF Book, DirectOn, Entry
    <2> QED  BY <2>1, <2>2 DEF Entry, Seen
  <1>3. ASSUME Entries # {} PROVE Seen(a).monitored
    <2>1. PICK g \in Active : grant[g].mode = "direct" /\ Account(grant[g].req) = a
      BY <1>3 DEF Book, Entry
    <2> QED  BY <2>1 DEF ActiveIsMonitored, Seen
  <1> HIDE DEF Entries
  <1>4. Ledger!Shows(Seen(a), Entries)  BY <1>1, <1>2, <1>3 DEF Ledger!Shows
  <1> QED  BY <1>4 DEF Entries

LEMMA SettledShowsNext ==
  (TypeOK /\ KeyNeedsGrant /\ SudoNeedsGrant /\ ActiveIsMonitored)' =>
    (\A a \in Accounts : Settled(a) => Ledger!Shows(Seen(a), {e \in Book : e.account = a}))'
  BY SettledShows, PTL

LEMMA EntriesKept ==
  ASSUME NEW a, DirectOn(a)' = DirectOn(a), \A g \in DirectOn(a) : grant'[g].req = grant[g].req
  PROVE  {e \in Book' : e.account = a} = {e \in Book : e.account = a}
  <1>1. \A e : (e \in Book /\ e.account = a) <=> \E g \in DirectOn(a) : e = Entry(g)
    BY DEF Book, DirectOn, Entry
  <1>2. \A e : (e \in Book' /\ e.account = a) <=> \E g \in DirectOn(a)' : e = Entry(g)'
    BY DEF Book, DirectOn, Entry, Account
  <1>3. \A g \in DirectOn(a) : Entry(g)' = Entry(g)  BY DEF Entry, Account
  <1> QED  BY <1>1, <1>2, <1>3

(* A commit: the holder lets go of its accounts, all of them right.        *)
LEMMA LedgerCommitted ==
  ASSUME TypeOK, HandlerInv, NEW t \in Threads, writer = t, Own(t),
         (TypeOK /\ KeyNeedsGrant /\ SudoNeedsGrant /\ ActiveIsMonitored)',
         UNCHANGED <<keys, sudo, hooks, locked, tainted>>, task'[t].dirty = {},
         \A a \in Accounts : a \notin task[t].dirty =>
           {e \in Book' : e.account = a} = {e \in Book : e.account = a}
  PROVE  Ledger!Commit
  <1>1. \A s \in Threads : task'[s].dirty = {}  BY HolderHas, OthersKeepTask
  <1>2. \A a : Custody(a)' = IF a \in tainted THEN "lost" ELSE "settled"  BY <1>1 DEF Custody
  <1>3. \A a : Custody(a) = IF a \in tainted THEN "lost"
                            ELSE IF a \in task[t].dirty THEN "held" ELSE "settled"
    BY HolderHas
  <1>4. \A a \in Accounts : Seen(a)' = Seen(a)  BY HostsKept
  <1>5. Ledger!EndAs("settled")
    <2>1. \A a \in Accounts : Custody(a)' = IF Custody(a) = "held" THEN "settled" ELSE Custody(a)
      BY <1>2, <1>3
    <2> QED  BY <1>4, <2>1, LedgerEnded
  <1>6. ASSUME NEW a \in Accounts, Custody(a) = "settled"
        PROVE  {e \in Book' : e.account = a} = {e \in Book : e.account = a}
    <2>1. a \notin task[t].dirty  BY <1>3, <1>6
    <2> QED  BY <2>1
  <1>7. ASSUME NEW a \in Accounts, Custody(a) = "held"
        PROVE  Ledger!Shows(Seen(a), {e \in Book' : e.account = a})
    <2>1. Settled(a)'
      <3>1. a \notin tainted  BY <1>3, <1>7
      <3> QED  BY <1>1, <3>1 DEF Settled
    <2>2. Ledger!Shows(Seen(a)', {e \in Book' : e.account = a})  BY <2>1, SettledShowsNext
    <2> QED  BY <2>2, <1>4
  <1> QED  BY <1>5, <1>6, <1>7 DEF Ledger!Commit, Ledger!Of

LEMMA LedgerOpened ==
  ASSUME TypeOK, HandlerInv, NEW t \in Threads, Own(t), CommitOpen(t),
         (TypeOK /\ KeyNeedsGrant /\ SudoNeedsGrant /\ ActiveIsMonitored)'
  PROVE  Ledger!Commit
  <1> DEFINE n == task[t].cur
  <1>1. HoldsLock(t) /\ Opens(t)  BY DEF HandlerInv, Handler
  <1>2. /\ grant' = [grant EXCEPT ![n] = [status |-> "active", req |-> task[t].req, mode |-> task[t].mode]]
        /\ grant[n].status = "unused" /\ n \in Grants /\ Active' = Active \cup {n}
        /\ UNCHANGED <<keys, sudo, hooks, locked, tainted>>
        /\ task[t].pc = "commit_open" /\ task'[t] = IdleTask
    BY OpenCommit
  <1>3. writer = t  BY <1>1, <1>2 DEF HoldsLock, LockedPCs
  <1>4. task[t].mode = "direct" => Account(task[t].req) \in task[t].dirty  BY <1>1, <1>2 DEF Opens
  <1>5. n \notin Active  BY <1>2 DEF Active
  <1>6. \A g \in Grants : g # n => grant'[g] = grant[g]  BY <1>2 DEF TypeOK
  <1>7. grant'[n].mode = task[t].mode /\ grant'[n].req = task[t].req  BY <1>2 DEF TypeOK
  <1>8. ASSUME NEW a \in Accounts, a \notin task[t].dirty
        PROVE  {e \in Book' : e.account = a} = {e \in Book : e.account = a}
    <2>1. PICK m \in Grants : m = n  BY <1>2
    <2>2. ~(grant'[m].mode = "direct" /\ Account(grant'[m].req) = a)  BY <1>4, <1>7, <1>8, <2>1
    <2>3. Active \subseteq Grants  BY DEF Active
    <2>4. DirectOn(a)' = {g \in Active' : grant'[g].mode = "direct" /\ Account(grant'[g].req) = a}
      BY DEF DirectOn, Account
    <2>5. DirectOn(a)' = DirectOn(a)
      BY <1>2, <1>5, <1>6, <2>1, <2>2, <2>3, <2>4 DEF DirectOn
    <2>6. \A g \in DirectOn(a) : grant'[g].req = grant[g].req  BY <1>5, <1>6, <2>3 DEF DirectOn
    <2> QED  BY <2>5, <2>6, EntriesKept
  <1>9. task'[t].dirty = {}  BY <1>2, IdleTaskType
  <1> QED  BY <1>2, <1>3, <1>8, <1>9, LedgerCommitted

LEMMA LedgerClosed ==
  ASSUME TypeOK, HandlerInv, NEW t \in Threads, Own(t), CommitClose(t),
         (TypeOK /\ KeyNeedsGrant /\ SudoNeedsGrant /\ ActiveIsMonitored)'
  PROVE  Ledger!Commit \/ UNCHANGED Ledger!vars
  <1>1. HoldsLock(t) /\ NoKey(t)  BY DEF HandlerInv, Handler
  <1>2. /\ Active' = Active \ task[t].closed
        /\ \A g \in Grants : grant'[g].req = grant[g].req /\ grant'[g].mode = grant[g].mode
        /\ UNCHANGED <<keys, sudo, hooks, locked, tainted>>
        /\ task'[t] = IdleTask
    BY CloseCommit
  <1>3. task'[t].dirty = {}  BY <1>2, IdleTaskType
  <1>4. Active \subseteq Grants  BY DEF Active
  <1>5. \A a : DirectOn(a)' = {g \in Active' : grant'[g].mode = "direct" /\ Account(grant'[g].req) = a}
    BY DEF DirectOn, Account
  <1>6. CASE writer = t
    <2>1. ASSUME NEW a \in Accounts, a \notin task[t].dirty
          PROVE  {e \in Book' : e.account = a} = {e \in Book : e.account = a}
      <3>1. \A g \in DirectOn(a) : g \notin task[t].closed
        BY <1>1, <1>4, <2>1 DEF DirectOn, NoKey, Stripped, Direct
      <3>2. DirectOn(a)' = DirectOn(a)  BY <1>2, <1>4, <1>5, <3>1 DEF DirectOn
      <3>3. \A g \in DirectOn(a) : grant'[g].req = grant[g].req  BY <1>2, <1>4 DEF DirectOn
      <3> QED  BY <3>2, <3>3, EntriesKept
    <2> QED  BY <1>2, <1>3, <1>6, <2>1, LedgerCommitted
  <1>7. CASE writer # t
    <2>1. task[t].closed = {} /\ task[t].dirty = {}  BY <1>1, <1>7 DEF HoldsLock
    <2>2. grant' = grant  BY <2>1 DEF CommitClose, TypeOK
    <2>3. \A s \in Threads : task'[s].dirty = task[s].dirty  BY <1>3, <2>1, OthersKeepTask
    <2>4. \A a : Custody(a)' = Custody(a)  BY <1>2, <2>3 DEF Custody
    <2>5. \A a \in Accounts : Seen(a)' = Seen(a)  BY <1>2, HostsKept
    <2> QED  BY <2>2, <2>4, <2>5, RowsKept, LedgerKept
  <1> QED  BY <1>6, <1>7

(* A rollback: the holder's accounts are lost, the rows are as before.     *)
LEMMA LedgerAbandoned ==
  ASSUME TypeOK, HandlerInv, NEW t \in Threads, Own(t), Abandon(t)
  PROVE  Ledger!Fail \/ UNCHANGED Ledger!vars
  <1>1. HoldsLock(t)  BY DEF HandlerInv, Handler
  <1>2. task'[t].dirty = {} /\ Book' = Book  BY IdleTaskType, RowsKept DEF Abandon
  <1>3. \A a \in Accounts : Seen(a)' = Seen(a)  BY HostsKept DEF Abandon
  <1>4. CASE writer = t
    <2>1. \A s \in Threads : task'[s].dirty = {}  BY <1>2, <1>4, HolderHas, OthersKeepTask
    <2>2. \A a : Custody(a)' = IF a \in tainted \/ a \in task[t].dirty THEN "lost" ELSE "settled"
      BY <2>1 DEF Custody, Abandon
    <2>3. \A a \in Accounts : Custody(a)' = IF Custody(a) = "held" THEN "lost" ELSE Custody(a)
      BY <1>4, <2>2, HolderHas
    <2>4. Ledger!EndAs("lost")  BY <1>3, <2>3, LedgerEnded
    <2> QED  BY <1>2, <2>4 DEF Ledger!Fail
  <1>5. CASE writer # t
    <2>1. task[t].dirty = {}  BY <1>1, <1>5 DEF HoldsLock
    <2>2. tainted' = tainted  BY <2>1 DEF Abandon
    <2>3. \A s \in Threads : task'[s].dirty = task[s].dirty  BY <1>2, <2>1, OthersKeepTask
    <2>4. \A a : Custody(a)' = Custody(a)  BY <2>2, <2>3 DEF Custody
    <2> QED  BY <1>2, <1>3, <2>4, LedgerKept
  <1> QED  BY <1>4, <1>5

LEMMA LedgerCrashed == ASSUME Crash PROVE Ledger!Fail
  <1>1. \A s \in Threads : task'[s].dirty = {}  BY IdleTaskType DEF Crash
  <1>2. \A a : a \in tainted' <=> a \in tainted \/ \E s \in Threads : a \in task[s].dirty
    BY DEF Crash
  <1>3. \A a \in Accounts : Custody(a)' = IF Custody(a) = "held" THEN "lost" ELSE Custody(a)
    BY <1>1, <1>2 DEF Custody
  <1>4. UNCHANGED <<grant, keys, sudo, hooks, locked>>  BY DEF Crash, database, remote
  <1>5. \A a \in Accounts : Seen(a)' = Seen(a)  BY <1>4, HostsKept
  <1>6. Ledger!EndAs("lost")  BY <1>3, <1>5, LedgerEnded
  <1>7. Book' = Book  BY <1>4, RowsKept
  <1> QED  BY <1>6, <1>7 DEF Ledger!Fail

LEMMA LedgerUnseen ==
  ASSUME UNCHANGED <<grant, keys, sudo, hooks, locked, tainted>>,
         \A s \in Threads : task'[s].dirty = task[s].dirty
  PROVE  UNCHANGED Ledger!vars
  <1>1. \A a \in Accounts : Seen(a)' = Seen(a)  BY HostsKept
  <1>2. \A a : Custody(a)' = Custody(a)  BY DEF Custody
  <1> QED  BY <1>1, <1>2, RowsKept, LedgerKept

LEMMA LedgerInit == Init => Ledger!Init
  <1> SUFFICES ASSUME Init PROVE Ledger!Init  OBVIOUS
  <1>1. Book = {}  BY DEF Init, Book, Active
  <1>2. \A s \in Threads : task[s].dirty = {}  BY IdleTaskType DEF Init
  <1>3. \A a \in Accounts : Custody(a) = "settled"  BY <1>2 DEF Custody, Init
  <1>4. \A a \in Accounts : Seen(a) = Ledger!Bare
    <2> SUFFICES ASSUME NEW a \in Accounts PROVE Seen(a) = Ledger!Bare  OBVIOUS
    <2>1. {u \in Users : LinuxName[u] = a[2] /\ <<a[1], u>> \in keys} = {}  BY DEF Init
    <2>2. sudo[a] = "none"  BY DEF Init
    <2>3. (a \in hooks /\ a \notin locked) = FALSE  BY DEF Init
    <2> QED  BY <2>1, <2>2, <2>3 DEF Seen, Ledger!Bare
  <1> QED  BY <1>1, <1>3, <1>4 DEF Ledger!Init

LEMMA LedgerStep ==
  TypeOK /\ HandlerInv /\ (TypeOK /\ KeyNeedsGrant /\ SudoNeedsGrant /\ ActiveIsMonitored)' /\ [Next]_vars
    => [Ledger!Next]_(Ledger!vars)
  <1> SUFFICES ASSUME TypeOK, HandlerInv, [Next]_vars,
                      (TypeOK /\ KeyNeedsGrant /\ SudoNeedsGrant /\ ActiveIsMonitored)'
               PROVE  Ledger!Next \/ UNCHANGED Ledger!vars
    OBVIOUS
  <1>1. ASSUME NEW t \in Threads, Own(t) PROVE Ledger!Next \/ UNCHANGED Ledger!vars
    <2>1. CASE Call(t)
      <3>1. \E a \in Accounts : Ledger!Work(a)  BY <1>1, <2>1, LedgerCall
      <3> QED  BY <3>1 DEF Ledger!Next
    <2>2. CASE CommitOpen(t)
      <3>1. Ledger!Commit  BY <1>1, <2>2, LedgerOpened
      <3> QED  BY <3>1 DEF Ledger!Next
    <2>3. CASE CommitClose(t)
      <3>1. Ledger!Commit \/ UNCHANGED Ledger!vars  BY <1>1, <2>3, LedgerClosed
      <3> QED  BY <3>1 DEF Ledger!Next
    <2>4. CASE Abandon(t)
      <3>1. Ledger!Fail \/ UNCHANGED Ledger!vars  BY <1>1, <2>4, LedgerAbandoned
      <3> QED  BY <3>1 DEF Ledger!Next
    <2>5. CASE Local(t)
      <3>1. \A s \in Threads : task'[s].dirty = task[s].dirty  BY <1>1, <2>5, OthersKeepTask DEF Local
      <3> QED  BY <2>5, <3>1, LedgerUnseen DEF Local
    <2> QED  BY <1>1, <2>1, <2>2, <2>3, <2>4, <2>5, KindsOfStep
  <1>2. CASE Crash
    <2>1. Ledger!Fail  BY <1>2, LedgerCrashed
    <2> QED  BY <2>1 DEF Ledger!Next
  <1>3. CASE UNCHANGED Handlers
    BY <1>3, LedgerUnseen DEF Handlers
  <1> QED  BY <1>1, <1>2, <1>3, StepsOf

(* Handlers, calls and rollbacks of any number of threads implement        *)
(* AccessLedger: what they do to hosts and rows is its transactions.       *)
THEOREM LedgerImplemented == Spec => ImplementsLedger
  <1>1. Spec => [](TypeOK /\ HandlerInv)
    <2>1. IInv => TypeOK /\ HandlerInv  BY DEF IInv
    <2> QED  BY <2>1, InvariantHolds, PTL
  <1> QED
    BY <1>1, LedgerInit, LedgerStep, KeysFollowGrants, SudoFollowsGrants, ActiveGrantsMonitored, PTL
    DEF Spec, ImplementsLedger, Ledger!Spec
=============================================================================
