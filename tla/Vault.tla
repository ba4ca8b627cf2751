------------------------------- MODULE Vault -------------------------------
(***************************************************************************)
(* The secrets vault (vault/, routes/secrets.py, routes/secret_rotation.py *)
(* and the rotations of the scheduler).  A secret keeps its value twice:   *)
(* in its own row and in the row of its active version; a reader takes the *)
(* active version's.  A handler loads rows without a lock, then writes and *)
(* commits in one step under SQLite's write lock; it writes the columns    *)
(* that differ from what it loaded and no others.  SSH callers read a      *)
(* secret from a session of their own, which writes an access-log row.     *)
(***************************************************************************)
EXTENDS Naturals, Sequences, FiniteSets

CONSTANTS
  Secrets,      \* secrets
  Files,        \* those of FileReferenceBackend
  HostKey,      \* the secret named "<hostname>-ssh-auth" of the server
  Admins,       \* request threads
  Scheduler,    \* the thread of tick()
  Callers,      \* handlers that open SSH connections to the server
  RiskEngine,   \* setting risk.engine_enabled
  None,         \* no value
  MaxDue,       \* bound: times a rotation becomes due
  MaxRequests,  \* bound: requests and SSH calls
  MaxFaults     \* bound: failed rotations and lock timeouts

Threads == Admins \cup {Scheduler}
Local == Secrets \ Files

ASSUME VaultAssumption ==
  /\ Files \subseteq Secrets /\ HostKey \in Local
  /\ Scheduler \notin Admins /\ Callers \cap Threads = {}
  /\ None \notin Secrets \cup Threads \cup Callers
  /\ RiskEngine \in BOOLEAN
  /\ {MaxDue, MaxRequests, MaxFaults} \subseteq Nat

VARIABLES
  secret,   \* secrets: status, version, whose value, next_rotation_at passed
  version,  \* secret_versions of each secret, in the order of their ids
  bound,    \* ssh_auth_secret_id of the server
  task,     \* thread -> the handler it runs
  call,     \* caller -> where it is
  lock,     \* the caller that holds the write lock over its SSH call, or None
  raced,    \* ghost: secrets an update or activation changed on stale rows
  budget    \* what is left of the bounds

vars == <<secret, version, bound, task, call, lock, raced, budget>>
-----------------------------------------------------------------------------
Status == {"none", "active", "disabled", "revoked", "rotation_failed"}

(* val is the id of the version whose ciphertext the row holds; 0 is the   *)
(* content of the file, which no handler changes.                          *)
Secret == [status : Status, num : Nat, val : Nat, due : BOOLEAN]
Version == [num : Nat, status : {"active", "revoked"}]

(* list: the versions that were active when the handler looked.  was: the  *)
(* version ver as it was loaded.                                           *)
Job == {"idle", "value", "status", "activate", "revoke", "rotate", "server", "due"}
Idle == [job |-> "idle", pc |-> "idle", on |-> {}, to |-> None, ver |-> 0,
         seen |-> [s \in Secrets |-> [status |-> "none", num |-> 0, val |-> 0, due |-> FALSE]],
         list |-> {}, was |-> "revoked"]

Init ==
  /\ secret = [s \in Secrets |-> [status |-> "none", num |-> 0, val |-> 0, due |-> FALSE]]
  /\ version = [s \in Secrets |-> << >>]
  /\ bound = None
  /\ task = [t \in Threads |-> Idle]
  /\ call = [c \in Callers |-> "idle"]
  /\ lock = None
  /\ raced = {}
  /\ budget = [due |-> MaxDue, requests |-> MaxRequests, faults |-> MaxFaults]
-----------------------------------------------------------------------------
Active(s) == {i \in DOMAIN version[s] : version[s][i].status = "active"}
Readable(s) == secret[s].status = "active"

(* get_secret_value: of the active versions one with the highest number,   *)
(* of none the row's own copy.                                             *)
Served(s) ==
  IF Active(s) = {} THEN {secret[s].val}
  ELSE {i \in Active(s) : \A j \in Active(s) : version[s][j].num <= version[s][i].num}

(* Mutant: the handler writes every column it has loaded.                  *)
MergeAll(seen, new, now) == new

(* An UPDATE has the columns that differ from what was loaded.             *)
Merge(seen, new, now) ==
  [c \in DOMAIN now |-> IF new[c] # seen[c] THEN new[c] ELSE now[c]]

NewVersion(s, n) == [num |-> n, status |-> "active"]
Revoked(rows, ids) ==
  [i \in DOMAIN rows |-> IF i \in ids THEN [rows[i] EXCEPT !.status = "revoked"] ELSE rows[i]]

Created(s) == [status |-> "active", num |-> 1, val |-> IF s \in Files THEN 0 ELSE 1, due |-> FALSE]
-----------------------------------------------------------------------------
(* rotate_secret_value.  The job row is flushed first, so the versions are *)
(* read under the lock; the secret may have been loaded long before it.    *)
(* Mutant: the version that is replaced is the one of the loaded number.   *)
RotatedRowsByNumber(s, seen) ==
  Append(Revoked(version[s], {i \in DOMAIN version[s] : version[s][i].num = seen.num}),
         NewVersion(s, seen.num + 1))

RotatedRows(s, seen) ==
  Append(Revoked(version[s], Active(s)), NewVersion(s, seen.num + 1))

Rotated(s, seen) ==
  [Merge(seen, [seen EXCEPT !.status = "active", !.num = @ + 1,
                  !.val = IF s \in Files THEN @ ELSE Len(version[s]) + 1], secret[s])
   EXCEPT !.due = FALSE]

(* encrypt_secret fails: the job is failed, and so is the secret.          *)
RotationFailed(s, seen) ==
  Merge(seen, [seen EXCEPT !.status = "rotation_failed"], secret[s])

(* The rotation of every secret of a set, in one transaction.              *)
Rotate(on, seen, failed) ==
  /\ secret' = [s \in Secrets |-> IF s \notin on THEN secret[s]
                                  ELSE IF s \in failed THEN RotationFailed(s, seen[s])
                                  ELSE Rotated(s, seen[s])]
  /\ version' = [s \in Secrets |-> IF s \in on \ failed THEN RotatedRows(s, seen[s])
                                   ELSE version[s]]
-----------------------------------------------------------------------------
(* Requests.  The route loads the secret, the backend then looks for the   *)
(* versions it has to change.                                              *)
Start(w, t) ==
  /\ task[w] = Idle /\ budget.requests > 0
  /\ task' = [task EXCEPT ![w] = [t EXCEPT !.seen = secret]]
  /\ budget' = [budget EXCEPT !.requests = @ - 1]
  /\ UNCHANGED <<secret, version, bound, call, lock, raced>>

CreateSecret(s) ==
  /\ secret[s].status = "none" /\ lock = None
  /\ secret' = [secret EXCEPT ![s] = Created(s)]
  /\ version' = [version EXCEPT ![s] = <<NewVersion(s, 1)>>]
  /\ UNCHANGED <<bound, task, call, lock, raced, budget>>

StartUpdate(w, s) ==
  /\ secret[s].status # "none" /\ s \in Local
  /\ Start(w, [Idle EXCEPT !.job = "value", !.pc = "list", !.on = {s}])

(* update_secret with a status, disable_secret, delete_secret.             *)
StartStatus(w, s) ==
  /\ secret[s].status # "none"
  /\ \E to \in {"active", "disabled", "revoked"} :
       Start(w, [Idle EXCEPT !.job = "status", !.pc = "apply", !.on = {s}, !.to = to])

StartActivate(w, s) ==
  \E v \in DOMAIN version[s] :
    Start(w, [Idle EXCEPT !.job = "activate", !.pc = "version", !.on = {s}, !.ver = v])

StartRevokeVersion(w, s) ==
  \E v \in DOMAIN version[s] :
    Start(w, [Idle EXCEPT !.job = "revoke", !.pc = "version", !.on = {s}, !.ver = v])

StartRotate(w, s) ==
  /\ secret[s].status # "none"
  /\ Start(w, [Idle EXCEPT !.job = "rotate", !.pc = "apply", !.on = {s}])

(* rotate_server_ssh_key: the server's secret, or one to be created.       *)
StartRotateServer(w) ==
  Start(w, [Idle EXCEPT !.job = "server", !.pc = "apply", !.on = {bound} \ {None}])

(* run_due_rotations, from POST /run-due and from the tick.  After it the  *)
(* tick rotates the secrets of pending job rows: no code inserts one, so   *)
(* that loop of process_secret_rotations finds nothing.                    *)
(* Mutant: a secret without a ciphertext is passed over.                   *)
DueLocal == {s \in Local : secret[s].status = "active" /\ secret[s].due}

Due == {s \in Secrets : secret[s].status = "active" /\ secret[s].due}

StartRunDue(w) == Start(w, [Idle EXCEPT !.job = "due", !.pc = "apply", !.on = Due])

Tick ==
  /\ task[Scheduler] = Idle /\ Due # {}
  /\ task' = [task EXCEPT ![Scheduler] =
                [Idle EXCEPT !.job = "due", !.pc = "apply", !.on = Due, !.seen = secret]]
  /\ UNCHANGED <<secret, version, bound, call, lock, raced, budget>>

(* activate_version and revoke_version load the version by its id.         *)
LoadVersion(w) ==
  /\ task[w].pc = "version"
  /\ \E s \in task[w].on :
       task' = [task EXCEPT ![w].was = version[s][task[w].ver].status,
                  ![w].pc = IF task[w].job = "activate" THEN "list" ELSE "apply"]
  /\ UNCHANGED <<secret, version, bound, call, lock, raced, budget>>

(* The active versions are looked up, in a query of its own: the version   *)
(* that was loaded keeps in it the status it was loaded with.              *)
ListVersions(w) ==
  LET loaded == {task[w].ver} IN
  /\ task[w].pc = "list"
  /\ \E s \in task[w].on :
       task' = [task EXCEPT ![w].pc = "apply",
                  ![w].list = IF task[w].was = "active" THEN Active(s) \cup loaded
                              ELSE Active(s) \ loaded]
  /\ UNCHANGED <<secret, version, bound, call, lock, raced, budget>>
-----------------------------------------------------------------------------
(* The writes and the commit.                                              *)
Ready(w, job) == task[w].job = job /\ task[w].pc = "apply" /\ lock = None
Done(w) == task' = [task EXCEPT ![w] = Idle]

Stale(w, s) ==
  \/ task[w].seen[s].num # secret[s].num \/ task[w].seen[s].val # secret[s].val
  \/ task[w].list # Active(s)

ApplyValue(w) ==
  /\ Ready(w, "value")
  /\ \E s \in task[w].on :
       LET seen == task[w].seen[s] IN
       /\ secret' = [secret EXCEPT ![s] = Merge(seen, [seen EXCEPT !.num = @ + 1,
                                                  !.val = Len(version[s]) + 1], @)]
       /\ version' = [version EXCEPT ![s] =
                        Append(Revoked(@, task[w].list), NewVersion(s, seen.num + 1))]
       /\ raced' = IF Stale(w, s) THEN raced \cup {s} ELSE raced
  /\ Done(w)
  /\ UNCHANGED <<bound, call, lock, budget>>

ApplyStatus(w) ==
  /\ Ready(w, "status")
  /\ \E s \in task[w].on :
       secret' = [secret EXCEPT ![s] =
                    Merge(task[w].seen[s], [task[w].seen[s] EXCEPT !.status = task[w].to], @)]
  /\ Done(w)
  /\ UNCHANGED <<version, bound, call, lock, raced, budget>>

(* activate_version: a version that was active when it was loaded is       *)
(* revoked and activated in memory, which leaves nothing to write.         *)
ActivatedRows(rows, list, v, was) ==
  LET others == Revoked(rows, list \ {v})
  IN IF was = "active" THEN others ELSE [others EXCEPT ![v].status = "active"]

(* Mutant: the copy in the secret's row is not replaced.                   *)
ActivatedNumber(s, seen, v) == Merge(seen, [seen EXCEPT !.num = version[s][v].num], secret[s])

Activated(s, seen, v) ==
  Merge(seen, [seen EXCEPT !.num = version[s][v].num, !.val = v], secret[s])

(* FileReferenceBackend only marks the version.                            *)
ApplyActivate(w) ==
  LET v == task[w].ver IN
  /\ Ready(w, "activate")
  /\ \E s \in task[w].on :
       IF s \in Files
       THEN /\ version' = [version EXCEPT ![s] = ActivatedRows(@, {}, v, task[w].was)]
            /\ UNCHANGED <<secret, raced>>
       ELSE /\ version' = [version EXCEPT ![s] = ActivatedRows(@, task[w].list, v, task[w].was)]
            /\ secret' = [secret EXCEPT ![s] = Activated(s, task[w].seen[s], v)]
            /\ raced' = IF Stale(w, s) THEN raced \cup {s} ELSE raced
  /\ Done(w)
  /\ UNCHANGED <<bound, call, lock, budget>>

ApplyRevokeVersion(w) ==
  /\ Ready(w, "revoke")
  /\ \E s \in task[w].on :
       version' = [version EXCEPT ![s] =
                     IF task[w].was = "revoked" THEN @ ELSE Revoked(@, {task[w].ver})]
  /\ Done(w)
  /\ UNCHANGED <<secret, bound, call, lock, raced, budget>>

(* Without a master key every encryption fails; a file reference needs     *)
(* none.  With the risk engine on, the log row of a failure raises         *)
(* (policy/engine.py:198) and the transaction is rolled back.              *)
ApplyRotation(w) ==
  LET on == task[w].on IN
  /\ \/ \E job \in {"rotate", "due"} : Ready(w, job)
     \/ Ready(w, "server") /\ on # {}
  /\ \/ Rotate(on, task[w].seen, {}) /\ UNCHANGED budget
     \/ /\ budget.faults > 0
        /\ IF RiskEngine /\ on \cap Local # {}
           THEN UNCHANGED <<secret, version>>
           ELSE Rotate(on, task[w].seen, on \cap Local)
        /\ budget' = [budget EXCEPT !.faults = @ - 1]
  /\ Done(w)
  /\ UNCHANGED <<bound, call, lock, raced>>

(* The server had no secret: it is created and rotated at once.  Its name  *)
(* is unique: where it exists the request fails.                           *)
CreateHostKey(w) ==
  /\ Ready(w, "server") /\ task[w].on = {}
  /\ IF secret[HostKey].status = "none"
     THEN /\ secret' = [secret EXCEPT ![HostKey] = [Created(HostKey) EXCEPT !.num = 2, !.val = 2]]
          /\ version' = [version EXCEPT ![HostKey] =
                           <<[NewVersion(HostKey, 1) EXCEPT !.status = "revoked"],
                             NewVersion(HostKey, 2)>>]
          /\ bound' = HostKey
     ELSE UNCHANGED <<secret, version, bound>>
  /\ Done(w)
  /\ UNCHANGED <<call, lock, raced, budget>>

(* A flush waits for the lock for too long.                                *)
GiveUp(w) ==
  /\ task[w].pc = "apply" /\ lock # None /\ budget.faults > 0
  /\ Done(w)
  /\ budget' = [budget EXCEPT !.faults = @ - 1]
  /\ UNCHANGED <<secret, version, bound, call, lock, raced>>

(* next_rotation_at passes; a file reference has none before its first     *)
(* rotation.                                                               *)
BecomesDue(s) ==
  /\ secret[s].status # "none" /\ ~secret[s].due
  /\ s \in Files => secret[s].num > 1
  /\ budget.due > 0
  /\ secret' = [secret EXCEPT ![s].due = TRUE]
  /\ budget' = [budget EXCEPT !.due = @ - 1]
  /\ UNCHANGED <<version, bound, task, call, lock, raced>>

Assign(s) ==
  /\ secret[s].status # "none" /\ bound # s /\ lock = None
  /\ bound' = s
  /\ UNCHANGED <<secret, version, task, call, lock, raced, budget>>
-----------------------------------------------------------------------------
(* A handler connects to the server, before its first flush or after it.   *)
(* _resolve_auth reads the secret in a second session, whose access-log    *)
(* row needs the write lock that the caller's own session may hold.        *)
Flush(c) ==
  /\ call[c] = "idle" /\ lock = None /\ budget.requests > 0
  /\ lock' = c
  /\ call' = [call EXCEPT ![c] = "busy"]
  /\ budget' = [budget EXCEPT !.requests = @ - 1]
  /\ UNCHANGED <<secret, version, bound, task, raced>>

Connect(c) ==
  /\ bound # None
  /\ \/ call[c] = "busy" /\ UNCHANGED budget
     \/ /\ call[c] = "idle" /\ budget.requests > 0
        /\ budget' = [budget EXCEPT !.requests = @ - 1]
  /\ call' = [call EXCEPT ![c] = "auth"]
  /\ UNCHANGED <<secret, version, bound, task, lock, raced>>

Release(c) == lock' = IF lock = c THEN None ELSE lock

(* The file of a reference may be missing.  With the risk engine on, the   *)
(* log row of a use raises.  A call that gets no key fails.                *)
GetSecretValue(c) ==
  /\ call[c] = "auth" /\ lock = None
  /\ \E found \in (IF bound \in Files THEN BOOLEAN ELSE {TRUE}) :
       call' = [call EXCEPT ![c] =
                  IF Readable(bound) /\ found /\ ~RiskEngine THEN "open" ELSE "idle"]
  /\ UNCHANGED <<secret, version, bound, task, lock, raced, budget>>

(* Mutant: a second session waits for its own request's lock without end.  *)
LockTimeoutOther(c) ==
  /\ call[c] = "auth" /\ lock \notin {None, c}
  /\ call' = [call EXCEPT ![c] = "idle"]
  /\ Release(c)
  /\ UNCHANGED <<secret, version, bound, task, raced, budget>>

LockTimeout(c) ==
  /\ call[c] = "auth" /\ lock # None
  /\ call' = [call EXCEPT ![c] = "idle"]
  /\ Release(c)
  /\ UNCHANGED <<secret, version, bound, task, raced, budget>>

Disconnect(c) ==
  /\ \/ call[c] = "open"
     \/ call[c] = "busy" /\ bound = None
  /\ call' = [call EXCEPT ![c] = "idle"]
  /\ Release(c)
  /\ UNCHANGED <<secret, version, bound, task, raced, budget>>
-----------------------------------------------------------------------------
Request(w, s) ==
  \/ StartUpdate(w, s) \/ StartStatus(w, s) \/ StartActivate(w, s)
  \/ StartRevokeVersion(w, s) \/ StartRotate(w, s)

Apply(w) ==
  \/ LoadVersion(w) \/ ListVersions(w)
  \/ ApplyValue(w) \/ ApplyStatus(w) \/ ApplyActivate(w)
  \/ ApplyRevokeVersion(w) \/ ApplyRotation(w) \/ CreateHostKey(w)

Ssh(c) == Connect(c) \/ GetSecretValue(c) \/ LockTimeout(c) \/ Disconnect(c)

Next ==
  \/ \E s \in Secrets : CreateSecret(s) \/ BecomesDue(s) \/ Assign(s)
  \/ \E w \in Admins, s \in Secrets : Request(w, s)
  \/ \E w \in Admins : StartRotateServer(w) \/ StartRunDue(w)
  \/ Tick
  \/ \E w \in Threads : Apply(w) \/ GiveUp(w)
  \/ \E c \in Callers : Flush(c) \/ Ssh(c)

Spec == Init /\ [][Next]_vars

(* The tick comes round, no request stops half way, an SSH call ends.      *)
FairSpec ==
  /\ Spec
  /\ WF_vars(Tick \/ Apply(Scheduler))
  /\ \A w \in Admins : WF_vars(Apply(w))
  /\ \A c \in Callers : WF_vars(Ssh(c))
-----------------------------------------------------------------------------
TypeOK ==
  /\ secret \in [Secrets -> Secret]
  /\ version \in [Secrets -> Seq(Version)]
  /\ bound \in Secrets \cup {None}
  /\ task \in [Threads -> [job : Job, pc : {"idle", "version", "list", "apply"}, on : SUBSET Secrets,
                           to : Status \cup {None}, ver : Nat, seen : [Secrets -> Secret],
                           list : SUBSET Nat, was : {"active", "revoked"}]]
  /\ call \in [Callers -> {"idle", "busy", "auth", "open"}]
  /\ lock \in Callers \cup {None}
  /\ raced \subseteq Secrets
  /\ budget \in [due : Nat, requests : Nat, faults : Nat]

(* However rotations, activations and updates follow and overlap, and      *)
(* although an activation sets the number the next rotation adds one to    *)
(* back, a secret has at most one active version; only an update or an     *)
(* activation that acts on rows changed since it read them can leave two.  *)
OneActiveVersion ==
  \A s \in Local \ raced : \A i, j \in Active(s) : i = j

(* The two copies of a value agree: what a reader is given is the value    *)
(* the secret's own row holds, after any order of rotations and of         *)
(* activating and revoking versions.                                       *)
ServedIsCurrent ==
  \A s \in Local \ raced : Served(s) = {secret[s].val}

(* A secret that was disabled, deleted or failed is served again only by   *)
(* an administrator who saw it so, never by a rotation that had loaded it  *)
(* before.                                                                 *)
NoQuietRevival ==
  [][\A s \in Secrets :
       (secret[s].status # "none" /\ ~Readable(s) /\ Readable(s)') =>
         \E w \in Admins : /\ task[w].job \in {"rotate", "status", "server"}
                           /\ s \in task[w].on
                           /\ task[w].seen[s].status # "active"]_vars

(* A secret whose rotation is due is rotated, or is not active any more.   *)
DueAreRotated ==
  \A s \in Secrets : (Readable(s) /\ secret[s].due) ~> ~(Readable(s) /\ secret[s].due)

(* A handler that holds the write lock while its SSH call waits for the    *)
(* second session, which waits for that lock, does not stop everyone: the  *)
(* lock comes back.                                                        *)
LockComesBack == \A c \in Callers : (lock = c) ~> (lock # c)
=============================================================================
