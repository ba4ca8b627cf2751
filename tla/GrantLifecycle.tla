--------------------------- MODULE GrantLifecycle ---------------------------
(***************************************************************************)
(* Access requests, access grants and the Linux hosts they open, as run by *)
(* the API's thread pool and the scheduler thread over one SQLite file.    *)
(*                                                                         *)
(* Every handler has the same shape: it reads rows without a lock, then    *)
(* its first flush takes SQLite's database-wide write lock, then it drives *)
(* the host over SSH call by call, and only then commits.  A handler that  *)
(* raises is rolled back; what it already did to the host stays.  Reads    *)
(* are separate steps from the locked part, so decisions can be stale.     *)
(***************************************************************************)
EXTENDS Integers, FiniteSets

CONSTANTS
  Workers,      \* threads that run API handlers
  Scheduler,    \* the APScheduler thread that runs tick()
  Nobody,       \* the write lock's holder when it is free
  Requests,     \* ids of access requests that may be submitted
  Users, Hosts, Names,   \* users, servers, Linux account names
  Subject,      \* request -> the user it is for
  Target,       \* request -> the server it is for
  AccessType,   \* request -> ssh_only, limited_sudo or full_sudo
  LinuxName,    \* user -> sanitize_linux_username(username), not injective
  ForeignLines, \* accounts whose authorized_keys has a line PAM did not write
  Retirable,    \* servers an administrator may disable or archive
  Movable,      \* (user, server) pairs whose membership may be lost and given back
  MaxActive,    \* max_concurrent_grants of the server group
  MaxGrants,    \* bound: grant rows a behaviour may commit
  MaxFaults     \* bound: lost SSH calls and crashes of the API process

Threads  == Workers \cup {Scheduler}
Grants   == 1..MaxGrants
Accounts == Hosts \X Names
Modes    == {"direct", "gateway"}
SudoLevels == {"limited_sudo", "full_sudo"}
AccessTypes == {"ssh_only"} \cup SudoLevels

ASSUME Parameters ==
  /\ Scheduler \notin Workers
  /\ Nobody \notin Threads
  /\ Requests # {} /\ Hosts # {}
  /\ Subject \in [Requests -> Users]
  /\ Target \in [Requests -> Hosts]
  /\ AccessType \in [Requests -> AccessTypes]
  /\ LinuxName \in [Users -> Names]
  /\ ForeignLines \subseteq Accounts /\ Retirable \subseteq Hosts
  /\ Movable \subseteq Users \X Hosts
  /\ MaxActive \in Nat
  /\ MaxGrants \in Nat \ {0}
  /\ MaxFaults \in Nat

VARIABLES
  request,  \* access_requests.status
  grant,    \* access_grants rows: status, request_id, access_mode
  due,      \* grants whose valid_to has passed
  member,   \* (user, server) pairs with an enabled membership giving access
  enabled,  \* servers.enabled
  keys,     \* (server, user): the user's key line is in authorized_keys
  sudo,     \* account -> level written in /etc/sudoers.d/<account>
  hooks,    \* accounts whose .bashrc sources the monitoring profile
  locked,   \* accounts locked by usermod -L
  task,     \* what each thread's handler has read and where it is
  writer,   \* the thread that holds SQLite's write lock
  phase,    \* the API process: down, starting (first tick) or up
  faults,   \* disruptions so far
  tainted   \* history: accounts of a handler that rolled back, or of a silent failure

database == <<request, grant, due, member, enabled>>
remote   == <<keys, sudo, hooks, locked>>
vars     == <<database, remote, task, writer, phase, faults, tainted>>

RequestStatus == {"absent", "pending", "approved", "denied", "rejected", "cancelled"}
GrantStatus   == {"unused", "active", "revoked", "expired"}
Row == [status : GrantStatus, req : Requests, mode : Modes]
-----------------------------------------------------------------------------
(* Data of a grant, from the request it was made for. *)
Account(r) == <<Target[r], LinuxName[Subject[r]]>>
KeyLine(r) == <<Target[r], Subject[r]>>

Active     == {g \in Grants : grant[g].status = "active"}
DirectOn(a) == {g \in Active : grant[g].mode = "direct" /\ Account(grant[g].req) = a}

(* Mutant: other grants are found by user instead of by account name. *)
SameUser(r) == {g \in Active : Subject[grant[g].req] = Subject[r]}

(* Every active grant, on any server, that uses the same account name. *)
SameName(r) == {g \in Active : LinuxName[Subject[grant[g].req]] = LinuxName[Subject[r]]}

PCs == {"idle", "submit", "approve", "reject", "archive",
        "install_key", "install_sudo", "install_hooks", "commit_open",
        "import", "select", "close", "remove_key", "remove_sudo",
        "remove_hooks", "disable_user", "close_row", "commit_close"}
InstallPCs == {"install_key", "install_sudo", "install_hooks"}
RemovePCs  == {"remove_key", "remove_sudo", "remove_hooks", "disable_user"}
OpeningPCs == {"submit", "approve", "commit_open"} \cup InstallPCs
Task == [pc : PCs, req : Requests, seen : RequestStatus, mode : Modes, cur : Grants,
         todo : SUBSET Grants, closed : SUBSET Grants,
         leave : SUBSET (Users \X Hosts), host : Hosts, dirty : SUBSET Accounts]
IdleTask == [pc |-> "idle", req |-> CHOOSE r \in Requests : TRUE, seen |-> "absent",
             mode |-> "direct", cur |-> 1, todo |-> {}, closed |-> {}, leave |-> {},
             host |-> CHOOSE h \in Hosts : TRUE, dirty |-> {}]

TypeOK ==
  /\ request \in [Requests -> RequestStatus]
  /\ grant \in [Grants -> Row]
  /\ due \subseteq Grants
  /\ member \subseteq Users \X Hosts
  /\ enabled \subseteq Hosts
  /\ keys \subseteq Hosts \X Users
  /\ sudo \in [Accounts -> {"none"} \cup SudoLevels]
  /\ hooks \subseteq Accounts
  /\ locked \subseteq Accounts
  /\ task \in [Threads -> Task]
  /\ writer \in Threads \cup {Nobody}
  /\ phase \in {"down", "starting", "up"}
  /\ faults \in 0..MaxFaults
  /\ tainted \subseteq Accounts

Init ==
  /\ request = [r \in Requests |-> "absent"]
  /\ grant = [g \in Grants |-> [status |-> "unused", req |-> IdleTask.req, mode |-> "direct"]]
  /\ due = {}
  /\ member = Users \X Hosts
  /\ enabled = Hosts
  /\ keys = {} /\ hooks = {} /\ locked = {}
  /\ sudo = [a \in Accounts |-> "none"]
  /\ task = [t \in Threads |-> IdleTask]
  /\ writer = Nobody
  /\ phase = "up" /\ faults = 0 /\ tainted = {}
-----------------------------------------------------------------------------
(* The write lock: a flush may proceed when no other thread has one open. *)
CanWrite(t) == writer \in {Nobody, t}

Start(t, new) ==
  /\ phase = "up" /\ task[t].pc = "idle"
  /\ task' = [task EXCEPT ![t] = new]
  /\ UNCHANGED <<database, remote, writer, phase, faults, tainted>>

At(t, pc) == task[t].pc = pc
Goto(t, pc) == task' = [task EXCEPT ![t].pc = pc]

(* The end of a handler that committed: the lock is free again. *)
Release(t) ==
  /\ task' = [task EXCEPT ![t] = IdleTask]
  /\ writer' = IF writer = t THEN Nobody ELSE writer

(***************************************************************************)
(* create_request.  The membership and the limit are read before the lock; *)
(* the policy then denies, asks for approval, or grants at once.           *)
(***************************************************************************)
ActiveFor(r) == {g \in Active : KeyLine(grant[g].req) = KeyLine(r)}

Permitted(r) == <<Subject[r], Target[r]>> \in member

BeginCreate(t, r) ==
  /\ request[r] = "absent"
  /\ \A s \in Threads : ~(task[s].pc \in OpeningPCs /\ task[s].req = r)  \* one id, one row
  /\ Permitted(r) /\ Target[r] \in enabled
  /\ Cardinality(ActiveFor(r)) < MaxActive
  /\ Start(t, [IdleTask EXCEPT !.pc = "submit", !.req = r])

Submit(t) ==
  /\ At(t, "submit") /\ CanWrite(t)
  /\ \E s \in {"denied", "pending"} : request' = [request EXCEPT ![task[t].req] = s]
  /\ Release(t)
  /\ UNCHANGED <<grant, due, member, enabled, remote, phase, faults, tainted>>

(***************************************************************************)
(* approve_request accepts a pending or an already approved request.       *)
(***************************************************************************)
BeginApprove(t, r) ==
  /\ request[r] \in {"pending", "approved"}
  /\ Permitted(r)
  /\ Start(t, [IdleTask EXCEPT !.pc = "approve", !.req = r, !.seen = request[r]])

(***************************************************************************)
(* create_grant_for_request up to its first flush, which inserts the grant *)
(* row under the next id and so takes the write lock.  The transport comes *)
(* from policy, permissions and server flags: either may be chosen.        *)
(***************************************************************************)
IsNextId(g) == grant[g].status = "unused" /\ \A k \in 1..(g - 1) : grant[k].status # "unused"

(* What enabled may be on the object a handler has of server h.  It was    *)
(* loaded before the lock was taken, so the row may be switched since, one *)
(* way or the other; under the handler's own lock it cannot be.            *)
LoadedAs(t, h) ==
  IF h \in Retirable /\ writer = Nobody /\ phase = "up" THEN BOOLEAN ELSE {h \in enabled}

(* Mutant: no flush before the host is changed. *)
OpenGrantUnflushed(t) ==
  /\ At(t, "approve") \/ At(t, "submit")
  /\ \E g \in Grants, m \in Modes :
       /\ IsNextId(g)
       /\ task' = [task EXCEPT ![t].cur = g, ![t].mode = m,
                     ![t].pc = IF m = "direct" THEN "install_key" ELSE "commit_open"]
  /\ UNCHANGED <<database, remote, writer, phase, faults, tainted>>

OpenGrant(t) ==
  /\ At(t, "approve") \/ At(t, "submit")
  /\ CanWrite(t) /\ writer' = t
  /\ \E g \in Grants, m \in Modes :
       /\ IsNextId(g)
       /\ At(t, "approve") /\ m = "direct" => TRUE \in LoadedAs(t, Target[task[t].req])
       /\ task' = [task EXCEPT ![t].cur = g, ![t].mode = m,
                     ![t].pc = IF m = "direct" THEN "install_key" ELSE "commit_open"]
  /\ UNCHANGED <<database, remote, phase, faults, tainted>>

(* One SSH call of the handler that holds the lock.                        *)
SshCall(t, pc, next) ==
  /\ At(t, pc)
  /\ task' = [task EXCEPT ![t].pc = next, ![t].dirty = @ \cup {Account(task[t].req)}]
  /\ UNCHANGED <<database, writer, phase>>

Remote(t, pc, next) == SshCall(t, pc, next) /\ UNCHANGED <<faults, tainted>>

(* A call whose script goes on after the command that failed, and exits 0. *)
Unnoticed(t, pc, next) ==
  /\ SshCall(t, pc, next)
  /\ faults < MaxFaults /\ faults' = faults + 1
  /\ tainted' = tainted \cup {Account(task[t].req)}

InstallKey(t) ==
  /\ Remote(t, "install_key", "install_sudo")
  /\ keys' = keys \cup {KeyLine(task[t].req)}
  /\ locked' = locked \ {Account(task[t].req)}
  /\ UNCHANGED <<sudo, hooks>>

(* usermod -U ... || true *)
LeaveLocked(t) ==
  /\ Account(task[t].req) \in locked
  /\ Unnoticed(t, "install_key", "install_sudo")
  /\ keys' = keys \cup {KeyLine(task[t].req)}
  /\ UNCHANGED <<sudo, hooks, locked>>

(* Mutant: no early return for ssh_only. *)
InstallSudoAlways(t) ==
  /\ Remote(t, "install_sudo", "install_hooks")
  /\ sudo' = [sudo EXCEPT ![Account(task[t].req)] = AccessType[task[t].req]]
  /\ UNCHANGED <<keys, hooks, locked>>

InstallSudo(t) ==
  LET r == task[t].req IN
  /\ Remote(t, "install_sudo", "install_hooks")
  /\ sudo' = IF AccessType[r] = "ssh_only" THEN sudo
             ELSE [sudo EXCEPT ![Account(r)] = AccessType[r]]
  /\ UNCHANGED <<keys, hooks, locked>>

InstallHooks(t) ==
  /\ Remote(t, "install_hooks", "commit_open")
  /\ hooks' = hooks \cup {Account(task[t].req)}
  /\ UNCHANGED <<keys, sudo, locked>>

(* No set -e: the old lines are taken out of .bashrc and none are put in.  *)
LeaveUnhooked(t) ==
  /\ Unnoticed(t, "install_hooks", "commit_open")
  /\ hooks' = hooks \ {Account(task[t].req)}
  /\ UNCHANGED <<keys, sudo, locked>>

(* Mutant: the request keeps its status. *)
CommitOpenOnly(t) ==
  /\ At(t, "commit_open")
  /\ grant' = [grant EXCEPT ![task[t].cur] =
                 [status |-> "active", req |-> task[t].req, mode |-> task[t].mode]]
  /\ Release(t)
  /\ UNCHANGED <<request, due, member, enabled, remote, phase, faults, tainted>>

(* The UPDATE of the status is emitted only when the value read differs. *)
CommitOpen(t) ==
  LET k == task[t] IN
  /\ At(t, "commit_open")
  /\ grant' = [grant EXCEPT ![k.cur] = [status |-> "active", req |-> k.req, mode |-> k.mode]]
  /\ request' = IF k.seen = "approved" THEN request ELSE [request EXCEPT ![k.req] = "approved"]
  /\ Release(t)
  /\ UNCHANGED <<due, member, enabled, remote, phase, faults, tainted>>

(***************************************************************************)
(* reject_request: the status is read first, written at the commit.        *)
(***************************************************************************)
BeginReject(t, r) ==
  /\ request[r] = "pending"
  /\ Start(t, [IdleTask EXCEPT !.pc = "reject", !.req = r])

CommitReject(t) ==
  /\ At(t, "reject") /\ CanWrite(t)
  /\ request' = [request EXCEPT ![task[t].req] = "rejected"]
  /\ Release(t)
  /\ UNCHANGED <<grant, due, member, enabled, remote, phase, faults, tainted>>
-----------------------------------------------------------------------------
(***************************************************************************)
(* Closing grants.  A handler loads the active grants it will revoke, then *)
(* revoke_grant runs for each; one commit ends them all.                   *)
(***************************************************************************)
BeginRevoke(t, g) ==
  /\ g \in Active
  /\ Start(t, [IdleTask EXCEPT !.pc = "close", !.todo = {g}])

BeginRevokeUser(t, u) ==
  LET mine == {g \in Active : Subject[grant[g].req] = u} IN
  /\ mine # {}
  /\ Start(t, [IdleTask EXCEPT !.pc = "close", !.todo = mine])

(* remove_user flushes the membership first, so it loads the grants it will *)
(* revoke, and cancels the pending requests, under the write lock.         *)
LoseMembership(t, u, h) ==
  LET lost == {g \in Active : KeyLine(grant[g].req) = <<h, u>>} IN
  /\ phase = "up" /\ At(t, "idle") /\ CanWrite(t)
  /\ <<u, h>> \in member \cap Movable
  /\ writer' = t
  /\ task' = [task EXCEPT ![t] = [IdleTask EXCEPT !.pc = IF lost = {} THEN "commit_close" ELSE "close",
                                    !.todo = lost, !.leave = {<<u, h>>}]]
  /\ UNCHANGED <<database, remote, phase, faults, tainted>>

(* Mutant: a grant on a disabled server is closed in the database only.    *)
TakeUpOrSkip(t, g) ==
  LET r == grant[g].req IN
  /\ At(t, "close") /\ g \in task[t].todo /\ CanWrite(t)
  /\ writer' = t
  /\ \E live \in LoadedAs(t, Target[r]) :
       task' = [task EXCEPT ![t].cur = g, ![t].req = r, ![t].todo = @ \ {g},
                  ![t].pc = IF grant[g].mode = "direct" /\ live THEN "remove_key" ELSE "close_row"]
  /\ UNCHANGED <<database, remote, phase, faults, tainted>>

(***************************************************************************)
(* revoke_grant for one loaded grant.  Its status was checked on the loaded *)
(* object, not again here.  Fetching the final logs needs the server and   *)
(* changes nothing on it; the flush of their rows takes the write lock.    *)
(***************************************************************************)
TakeUp(t, g) ==
  LET r == grant[g].req IN
  /\ At(t, "close") /\ g \in task[t].todo /\ CanWrite(t)
  /\ grant[g].mode = "direct" => TRUE \in LoadedAs(t, Target[r])
  /\ writer' = t
  /\ task' = [task EXCEPT ![t].cur = g, ![t].req = r, ![t].todo = @ \ {g},
                ![t].pc = IF grant[g].mode = "direct" THEN "remove_key" ELSE "close_row"]
  /\ UNCHANGED <<database, remote, phase, faults, tainted>>

(* grep -v exits 1 when it leaves no line, and then the && stops the mv.   *)
SoleLine(r) ==
  /\ Account(r) \notin ForeignLines
  /\ \A u \in Users : (LinuxName[u] = LinuxName[Subject[r]] /\ <<Target[r], u>> \in keys) => u = Subject[r]

(* Mutant: the removal that leaves no line is skipped and taken for done. *)
RemoveKeyQuietly(t) ==
  LET r == task[t].req IN
  /\ Remote(t, "remove_key", "remove_sudo")
  /\ keys' = IF SoleLine(r) THEN keys ELSE keys \ {KeyLine(r)}
  /\ UNCHANGED <<sudo, hooks, locked>>

RemoveKey(t) ==
  LET r == task[t].req IN
  /\ Remote(t, "remove_key", "remove_sudo")
  /\ ~SoleLine(r)
  /\ keys' = keys \ {KeyLine(r)}
  /\ UNCHANGED <<sudo, hooks, locked>>

(* The account is shut down when no other active grant has its name, on    *)
(* whatever server: the query does not look at the server.                 *)
OthersActive(t) == SameName(task[t].req) \ (task[t].closed \cup {task[t].cur}) # {}

(* Mutant: the sudoers file is kept while another grant has the account. *)
RemoveSudoIfLast(t) ==
  /\ Remote(t, "remove_sudo", IF OthersActive(t) THEN "close_row" ELSE "remove_hooks")
  /\ sudo' = IF OthersActive(t) THEN sudo ELSE [sudo EXCEPT ![Account(task[t].req)] = "none"]
  /\ UNCHANGED <<keys, hooks, locked>>

RemoveSudo(t) ==
  /\ Remote(t, "remove_sudo", IF OthersActive(t) THEN "close_row" ELSE "remove_hooks")
  /\ sudo' = [sudo EXCEPT ![Account(task[t].req)] = "none"]
  /\ UNCHANGED <<keys, hooks, locked>>

(* Both commands end in || true: they may leave the hook.                  *)
RemoveHooks(t) ==
  /\ Remote(t, "remove_hooks", "disable_user")
  /\ hooks' \in {hooks, hooks \ {Account(task[t].req)}}
  /\ UNCHANGED <<keys, sudo, locked>>

DisableUser(t) ==
  /\ Remote(t, "disable_user", "close_row")
  /\ locked' = locked \cup {Account(task[t].req)}
  /\ UNCHANGED <<keys, sudo, hooks>>

CloseRow(t) ==
  /\ At(t, "close_row")
  /\ task' = [task EXCEPT ![t].closed = @ \cup {task[t].cur},
                ![t].pc = IF task[t].todo = {} THEN "commit_close" ELSE "close"]
  /\ UNCHANGED <<database, remote, writer, phase, faults, tainted>>

CommitClose(t) ==
  LET k == task[t] IN
  /\ At(t, "commit_close")
  /\ grant' = [g \in Grants |-> IF g \in k.closed
                                THEN [grant[g] EXCEPT !.status = IF t = Scheduler THEN "expired" ELSE "revoked"]
                                ELSE grant[g]]
  /\ request' = [r \in Requests |-> IF request[r] = "pending" /\ <<Subject[r], Target[r]>> \in k.leave
                                    THEN "cancelled" ELSE request[r]]
  /\ member' = member \ k.leave
  /\ phase' = IF t = Scheduler /\ phase = "starting" THEN "up" ELSE phase
  /\ Release(t)
  /\ UNCHANGED <<due, enabled, remote, faults, tainted>>
-----------------------------------------------------------------------------
(***************************************************************************)
(* tick(): import the logs of every active direct grant, then expire the   *)
(* due ones.  It runs every interval, and once inside the API's start-up.  *)
(***************************************************************************)
StartTick ==
  /\ phase \in {"starting", "up"} /\ At(Scheduler, "idle")
  /\ Goto(Scheduler, "import")
  /\ UNCHANGED <<database, remote, writer, phase, faults, tainted>>

ImportServers == {Target[grant[g].req] : g \in {k \in Active : grant[k].mode = "direct"}}

ImportLogs ==
  /\ At(Scheduler, "import") /\ CanWrite(Scheduler)
  /\ ImportServers \subseteq enabled
  /\ Goto(Scheduler, "select")
  /\ UNCHANGED <<database, remote, writer, phase, faults, tainted>>

(* Mutant: the comparison with the clock is the wrong way round. *)
SelectNotDue ==
  LET current == Active \ due IN
  /\ At(Scheduler, "select")
  /\ task' = [task EXCEPT ![Scheduler].todo = current,
                ![Scheduler].pc = IF current = {} THEN "commit_close" ELSE "close"]
  /\ UNCHANGED <<database, remote, writer, phase, faults, tainted>>

(* Mutant: an empty selection ends the job before the start-up goes on. *)
SelectDueOrStop ==
  LET overdue == Active \cap due IN
  /\ At(Scheduler, "select")
  /\ task' = [task EXCEPT ![Scheduler].todo = overdue,
                ![Scheduler].pc = IF overdue = {} THEN "idle" ELSE "close"]
  /\ UNCHANGED <<database, remote, writer, phase, faults, tainted>>

SelectDue ==
  LET overdue == Active \cap due IN
  /\ At(Scheduler, "select")
  /\ task' = [task EXCEPT ![Scheduler].todo = overdue,
                ![Scheduler].pc = IF overdue = {} THEN "commit_close" ELSE "close"]
  /\ UNCHANGED <<database, remote, writer, phase, faults, tainted>>

ClockPasses(g) ==
  /\ g \in Active /\ g \notin due
  /\ due' = due \cup {g}
  /\ UNCHANGED <<request, grant, member, enabled, remote, task, writer, phase, faults, tainted>>
-----------------------------------------------------------------------------
(* Servers and memberships change in one short transaction each, except    *)
(* delete_server, which counts the active grants before its flush.         *)
Disable(h) ==
  /\ writer = Nobody /\ phase = "up" /\ h \in enabled \cap Retirable
  /\ enabled' = enabled \ {h}
  /\ UNCHANGED <<request, grant, due, member, remote, task, writer, phase, faults, tainted>>

Enable(h) ==
  /\ writer = Nobody /\ phase = "up" /\ h \notin enabled
  /\ enabled' = enabled \cup {h}
  /\ UNCHANGED <<request, grant, due, member, remote, task, writer, phase, faults, tainted>>

BeginArchive(t, h) ==
  /\ h \in enabled \cap Retirable
  /\ \A g \in Active : Target[grant[g].req] # h
  /\ Start(t, [IdleTask EXCEPT !.pc = "archive", !.host = h])

CommitArchive(t) ==
  /\ At(t, "archive") /\ CanWrite(t)
  /\ enabled' = enabled \ {task[t].host}
  /\ Release(t)
  /\ UNCHANGED <<request, grant, due, member, remote, phase, faults, tainted>>

Join(u, h) ==
  /\ writer = Nobody /\ phase = "up" /\ <<u, h>> \notin member
  /\ member' = member \cup {<<u, h>>}
  /\ UNCHANGED <<request, grant, due, enabled, remote, task, writer, phase, faults, tainted>>
-----------------------------------------------------------------------------
(* An exception: the transaction is rolled back, the host keeps its state. *)
Rollback(t) ==
  /\ task' = [task EXCEPT ![t] = IdleTask]
  /\ writer' = IF writer = t THEN Nobody ELSE writer
  /\ tainted' = tainted \cup task[t].dirty
  /\ phase' = IF t = Scheduler /\ phase = "starting" THEN "down" ELSE phase
  /\ UNCHANGED <<database, remote>>

(* The step the thread is at raises: its object of the server says that it *)
(* is disabled, or the key to remove is the last line of its file.  (The   *)
(* first call of a grant to open is refused before it has done anything.)  *)
Refused(t) ==
  \/ At(t, "import") /\ ~(ImportServers \subseteq enabled)
  \/ At(t, "approve") /\ CanWrite(t) /\ FALSE \in LoadedAs(t, Target[task[t].req])
  \/ At(t, "close") /\ \E g \in task[t].todo :
       grant[g].mode = "direct" /\ FALSE \in LoadedAs(t, Target[grant[g].req])
  \/ At(t, "remove_key") /\ SoleLine(task[t].req)

Refuse(t) == Refused(t) /\ Rollback(t) /\ UNCHANGED faults

(* An SSH call whose connection or reply is lost. *)
LoseCall(t) ==
  /\ task[t].pc \in InstallPCs \cup RemovePCs \cup {"commit_open", "close", "close_row", "import"}
  /\ faults < MaxFaults /\ faults' = faults + 1
  /\ Rollback(t)

(* A handler that waits for the write lock longer than SQLite's timeout, or *)
(* that ends with a 4xx answer before it wrote anything.                   *)
GiveUp(t) ==
  /\ \/ task[t].pc \in {"submit", "approve", "reject", "archive"}
     \/ task[t].pc \in {"close", "import"} /\ writer \notin {Nobody, t}
  /\ Rollback(t) /\ UNCHANGED faults

(* The API process dies with every handler in flight; uvicorn is restarted *)
(* and serves nothing until lifespan's own tick() has returned.            *)
Crash ==
  /\ phase # "down" /\ faults < MaxFaults /\ faults' = faults + 1
  /\ phase' = "down" /\ writer' = Nobody
  /\ task' = [t \in Threads |-> IdleTask]
  /\ tainted' = tainted \cup UNION {task[t].dirty : t \in Threads}
  /\ UNCHANGED <<database, remote>>

Restart ==
  /\ phase = "down" /\ phase' = "starting"
  /\ UNCHANGED <<database, remote, task, writer, faults, tainted>>
-----------------------------------------------------------------------------
Begin(t) ==
  \/ \E r \in Requests : BeginCreate(t, r) \/ BeginApprove(t, r) \/ BeginReject(t, r)
  \/ \E g \in Grants : BeginRevoke(t, g)
  \/ \E u \in Users : BeginRevokeUser(t, u)
  \/ \E u \in Users, h \in Hosts : LoseMembership(t, u, h)
  \/ \E h \in Hosts : BeginArchive(t, h)

(* What a handler in progress does next, when nothing goes wrong. *)
Proceed(t) ==
  \/ Submit(t) \/ OpenGrant(t) \/ InstallKey(t) \/ InstallSudo(t) \/ InstallHooks(t)
  \/ CommitOpen(t) \/ CommitReject(t) \/ CommitArchive(t)
  \/ \E g \in Grants : TakeUp(t, g)
  \/ RemoveKey(t) \/ RemoveSudo(t) \/ RemoveHooks(t) \/ DisableUser(t)
  \/ CloseRow(t) \/ CommitClose(t)

Next ==
  \/ \E t \in Workers : Begin(t)
  \/ \E t \in Threads : Proceed(t) \/ Refuse(t) \/ LoseCall(t) \/ GiveUp(t)
                           \/ LeaveLocked(t) \/ LeaveUnhooked(t)
  \/ StartTick \/ ImportLogs \/ SelectDue
  \/ \E g \in Grants : ClockPasses(g)
  \/ \E h \in Hosts : Disable(h) \/ Enable(h)
  \/ \E u \in Users, h \in Hosts : Join(u, h)
  \/ Crash \/ Restart

(* Handlers run to their end, the scheduler's job is started again and     *)
(* again, and systemd restarts the process; nobody has to submit, decide,  *)
(* revoke or re-enable anything.                                           *)
Fairness ==
  /\ \A t \in Threads : WF_vars(Proceed(t) \/ Refuse(t))
  /\ WF_vars(StartTick \/ ImportLogs \/ SelectDue)
  /\ WF_vars(Restart)

Spec     == Init /\ [][Next]_vars
FairSpec == Spec /\ Fairness
-----------------------------------------------------------------------------
(* An account no rolled-back handler has touched, on which no command has  *)
(* failed in silence, and on which no handler is working.                  *)
Settled(a) == a \notin tainted /\ \A t \in Threads : a \notin task[t].dirty

(* A key line on a server belongs to a user with an active direct grant    *)
(* there (revoke_ssh_access and the order of revoke_grant and its commit). *)
KeyNeedsGrant ==
  \A h \in Hosts, u \in Users :
    <<h, u>> \in keys /\ Settled(<<h, LinuxName[u]>>)
      => \E g \in Active : grant[g].mode = "direct" /\ KeyLine(grant[g].req) = <<h, u>>

(* A sudoers file exists only while a direct grant of exactly its level is *)
(* active for the account, whichever grants shared that one file.          *)
SudoNeedsGrant ==
  \A a \in Accounts :
    sudo[a] # "none" /\ Settled(a) => \E g \in DirectOn(a) : AccessType[grant[g].req] = sudo[a]

(* While any direct grant of an account is active, its monitoring hook is  *)
(* installed and the account is not locked: revoke_grant removes them only *)
(* with the last one.                                                      *)
ActiveIsMonitored ==
  \A g \in Active :
    LET a == Account(grant[g].req) IN
    grant[g].mode = "direct" /\ Settled(a) => a \in hooks /\ a \notin locked

(* A grant exists only for a request that was approved at some time: never *)
(* for one that is denied, still pending, or whose submission rolled back. *)
GrantNeedsApproval ==
  \A g \in Grants : grant[g].status # "unused"
    => request[grant[g].req] \in {"approved", "rejected", "cancelled"}

(* Only the thread that holds SQLite's write lock has changed a server in a *)
(* transaction that is still open.                                         *)
HostChangesAreLocked == \A t \in Threads : task[t].dirty # {} => writer = t
-----------------------------------------------------------------------------
(* The hosts as an administrator sees them: what an account lets users do, *)
(* and the active direct grants that it is to follow.                      *)
Seen(a) == [keys |-> {u \in Users : LinuxName[u] = a[2] /\ <<a[1], u>> \in keys},
            sudo |-> sudo[a], monitored |-> a \in hooks /\ a \notin locked]

Entry(g) == [id |-> g, account |-> Account(grant[g].req), user |-> Subject[grant[g].req],
             level |-> AccessType[grant[g].req]]
Book == {Entry(g) : g \in {k \in Active : grant[k].mode = "direct"}}

Custody(a) == IF a \in tainted THEN "lost"
              ELSE IF \E t \in Threads : a \in task[t].dirty THEN "held" ELSE "settled"

(* revoke_grant and create_grant_for_request change host and rows as one   *)
(* transaction of AccessLedger: no row is opened or closed without work on *)
(* its account, whatever a handler touched is right when it commits, and   *)
(* what it does not commit is what its rollback leaves behind.             *)
Ledger == INSTANCE AccessLedger WITH
            Levels <- SudoLevels, ledger <- Book,
            access <- [a \in Accounts |-> Seen(a)], custody <- [a \in Accounts |-> Custody(a)]
ImplementsLedger == Ledger!Spec
-----------------------------------------------------------------------------
(* expire_due_grants: a grant whose time has passed is closed.             *)
DueGrantsEnd == \A g \in Grants : (g \in Active /\ g \in due) ~> g \notin Active

(* lifespan: after a crash the API serves requests again.                  *)
ApiComesBack == phase = "down" ~> phase = "up"
=============================================================================
