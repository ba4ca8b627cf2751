---------------------------- MODULE VaultProofs ----------------------------
(***************************************************************************)
(* What Vault promises for any number of secrets, threads and callers.  A  *)
(* writer commits values it computed from rows it loaded earlier; the      *)
(* strengthening says what remains true of such a copy however the rows    *)
(* have moved since: its version ids still exist, its secret is still      *)
(* there, and the id of the next version is above every value it may hold, *)
(* so that the write always differs from the copy and reaches the row.     *)
(***************************************************************************)
EXTENDS Vault, TLAPS

Handler ==
  [job : Job, pc : {"idle", "version", "list", "apply"}, on : SUBSET Secrets,
   to : Status \cup {None}, ver : Nat, seen : [Secrets -> Secret],
   list : SUBSET Nat, was : {"active", "revoked"}]

Budget == [due : Nat, requests : Nat, faults : Nat]

(* The row of a secret and the rows of its versions.                       *)
RowsAgree(s) ==
  /\ secret[s].status = "none" => version[s] = << >>
  /\ s \in Local => secret[s].val <= Len(version[s])
  /\ s \in Local \ raced => Active(s) \subseteq {secret[s].val}

(* What a handler has loaded, against the rows as they are now.            *)
Sound(k) ==
  /\ \A s \in Local : k.seen[s].val <= Len(version[s])
  /\ \A s \in k.on : secret[s].status # "none"
  /\ k.ver # 0 => \A s \in k.on : k.ver \in DOMAIN version[s]
  /\ k.pc = "version" \/ k.job \in {"activate", "revoke"} => k.ver # 0
  /\ k.job = "activate" /\ k.pc = "apply" => (k.was = "active" <=> k.ver \in k.list)
  /\ k.job = "status" => k.to \in Status \ {"none"}
  /\ k.job = "due" => \A s \in k.on : k.seen[s].status = "active"

BoundExists == bound # None => secret[bound].status # "none"

SchedulerRotates == task[Scheduler].job \in {"idle", "due"}

IInv ==
  /\ TypeOK
  /\ \A s \in Secrets : RowsAgree(s)
  /\ \A w \in Threads : Sound(task[w])
  /\ BoundExists
  /\ SchedulerRotates
-----------------------------------------------------------------------------
LEMMA BudgetHolds == TypeOK => budget \in Budget
  BY DEF TypeOK, Budget

LEMMA Spent ==
  ASSUME NEW b \in Budget
  PROVE  /\ b.due > 0 => [b EXCEPT !.due = @ - 1] \in Budget
         /\ b.requests > 0 => [b EXCEPT !.requests = @ - 1] \in Budget
         /\ b.faults > 0 => [b EXCEPT !.faults = @ - 1] \in Budget
  <1>1. b.due \in Nat /\ b.requests \in Nat /\ b.faults \in Nat
    BY DEF Budget
  <1>2. \A n \in Nat : n > 0 => n - 1 \in Nat
    OBVIOUS
  <1>3. \A n \in Nat : /\ [b EXCEPT !.due = n] \in Budget
                       /\ [b EXCEPT !.requests = n] \in Budget
                       /\ [b EXCEPT !.faults = n] \in Budget
    BY DEF Budget
  <1> QED  BY <1>1, <1>2, <1>3

LEMMA MergeColumns ==
  ASSUME NEW seen \in Secret, NEW new \in Secret, NEW now \in Secret
  PROVE  /\ Merge(seen, new, now) \in Secret
         /\ Merge(seen, new, now).status =
              IF new.status # seen.status THEN new.status ELSE now.status
         /\ Merge(seen, new, now).num = IF new.num # seen.num THEN new.num ELSE now.num
         /\ Merge(seen, new, now).val = IF new.val # seen.val THEN new.val ELSE now.val
         /\ Merge(seen, new, now).due = IF new.due # seen.due THEN new.due ELSE now.due
  BY DEF Merge, Secret

LEMMA RevokedRow ==
  ASSUME NEW row \in Version
  PROVE  /\ [row EXCEPT !.status = "revoked"] \in Version
         /\ [row EXCEPT !.status = "revoked"].status = "revoked"
  BY DEF Version

LEMMA RevokedRows ==
  ASSUME NEW rows \in Seq(Version), NEW ids
  PROVE  /\ Revoked(rows, ids) \in Seq(Version)
         /\ Len(Revoked(rows, ids)) = Len(rows)
         /\ \A i \in 1 .. Len(rows) :
              Revoked(rows, ids)[i].status = IF i \in ids THEN "revoked" ELSE rows[i].status
  <1> DEFINE new(i) == IF i \in ids THEN [rows[i] EXCEPT !.status = "revoked"] ELSE rows[i]
             r == [i \in 1 .. Len(rows) |-> new(i)]
  <1>1. DOMAIN rows = 1 .. Len(rows) /\ Len(rows) \in Nat
    OBVIOUS
  <1>2. \A i \in 1 .. Len(rows) : rows[i] \in Version
    OBVIOUS
  <1>3. \A i \in 1 .. Len(rows) :
          new(i) \in Version /\ new(i).status = IF i \in ids THEN "revoked" ELSE rows[i].status
    BY <1>2, RevokedRow
  <1>4. Revoked(rows, ids) = r
    BY <1>1 DEF Revoked
  <1> HIDE DEF new
  <1>5. r \in Seq(Version) /\ Len(r) = Len(rows)
    BY <1>1, <1>3
  <1> QED  BY <1>3, <1>4, <1>5
-----------------------------------------------------------------------------
(* What a step may do to the rows of one secret.                           *)
Moves(s) ==
  /\ RowsAgree(s)'
  /\ secret[s].status # "none" => secret'[s].status # "none"
  /\ Len(version[s]) <= Len(version'[s])

LEMMA IdleIsHandler == Idle \in Handler /\ Idle.job = "idle"
  <1>1. [s \in Secrets |-> [status |-> "none", num |-> 0, val |-> 0, due |-> FALSE]]
          \in [Secrets -> Secret]
    BY DEF Secret, Status
  <1> QED  BY <1>1 DEF Idle, Handler, Job

LEMMA RowTypes ==
  ASSUME TypeOK
  PROVE  /\ \A s \in Secrets : /\ secret[s] \in Secret
                               /\ version[s] \in Seq(Version)
                               /\ DOMAIN version[s] = 1 .. Len(version[s])
                               /\ Len(version[s]) \in Nat
         /\ \A w \in Threads : task[w] \in Handler
  BY DEF TypeOK, Handler

LEMMA IdleIsSound == ASSUME TypeOK PROVE Sound(Idle)
  <1>1. \A s \in Local : Idle.seen[s].val = 0 /\ Len(version[s]) \in Nat
    BY RowTypes DEF Idle, Local
  <1>2. Idle.on = {} /\ Idle.pc = "idle" /\ Idle.ver = 0 /\ Idle.job = "idle"
    BY DEF Idle
  <1> QED  BY <1>1, <1>2 DEF Sound

(* The rows stay, or only lose nothing a handler relies on.                *)
LEMMA SoundStays ==
  ASSUME IInv, NEW k \in Handler, Sound(k), \A s \in Secrets : Moves(s),
         version' \in [Secrets -> Seq(Version)]
  PROVE  Sound(k)'
  <1>1. \A s \in Secrets : DOMAIN version[s] = 1 .. Len(version[s]) /\ DOMAIN version'[s] = 1 .. Len(version'[s])
    BY RowTypes DEF IInv
  <1>2. \A s \in Secrets : Len(version[s]) \in Nat /\ Len(version'[s]) \in Nat
    BY RowTypes DEF IInv
  <1>3. k.on \subseteq Secrets /\ k.ver \in Nat /\ \A s \in Secrets : k.seen[s].val \in Nat
    BY DEF Handler, Secret
  <1>4. \A s \in Local : k.seen[s].val <= Len(version'[s])
    BY <1>2, <1>3 DEF Sound, Moves, Local
  <1>5. \A s \in k.on : secret'[s].status # "none"
    BY <1>3 DEF Sound, Moves
  <1>6. k.ver # 0 => \A s \in k.on : k.ver \in DOMAIN version'[s]
    BY <1>1, <1>2, <1>3 DEF Sound, Moves
  <1> QED  BY <1>4, <1>5, <1>6 DEF Sound

LEMMA StillRow ==
  ASSUME IInv, NEW s \in Secrets, secret'[s] = secret[s], version'[s] = version[s],
         raced \subseteq raced'
  PROVE  Moves(s)
  <1>1. RowsAgree(s) /\ Len(version[s]) \in Nat
    BY RowTypes DEF IInv
  <1> QED  BY <1>1 DEF Moves, RowsAgree, Active

(* A step that leaves the rows alone and replaces at most one handler.     *)
LEMMA OneHandler ==
  ASSUME IInv, NEW w \in Threads, NEW k \in Handler, Sound(k),
         w = Scheduler => k.job \in {"idle", "due"},
         task' = [task EXCEPT ![w] = k],
         UNCHANGED <<secret, version, bound, call, lock, raced>>, budget' \in Budget
  PROVE  IInv'
  <1>1. \A v \in Threads : task'[v] = IF v = w THEN k ELSE task[v]
    BY DEF IInv, TypeOK
  <1>2. TypeOK'
    BY DEF IInv, TypeOK, Handler, Budget
  <1>3. \A s \in Secrets : RowsAgree(s)'
    BY StillRow DEF Moves
  <1>4. \A v \in Threads : Sound(task[v])'
    BY <1>1 DEF IInv, Sound
  <1>5. SchedulerRotates'
    BY <1>1 DEF IInv, SchedulerRotates, Threads
  <1> QED  BY <1>2, <1>3, <1>4, <1>5 DEF IInv, BoundExists

(* A step that moves rows and ends at most one handler.                    *)
LEMMA RowsMove ==
  ASSUME IInv, secret' \in [Secrets -> Secret], version' \in [Secrets -> Seq(Version)],
         raced' \subseteq Secrets, \A s \in Secrets : Moves(s),
         bound' \in Secrets \cup {None}, BoundExists',
         task' = task \/ \E w \in Threads : Done(w),
         UNCHANGED <<call, lock>>, budget' \in Budget
  PROVE  IInv'
  <1>1. /\ task' \in [Threads -> Handler]
        /\ \A v \in Threads : task'[v] = task[v] \/ task'[v] = Idle
    <2>1. task \in [Threads -> Handler] /\ Idle \in Handler
      BY IdleIsHandler DEF IInv, TypeOK, Handler
    <2>2. ASSUME NEW w \in Threads, Done(w)
          PROVE  /\ task' \in [Threads -> Handler]
                 /\ \A v \in Threads : task'[v] = task[v] \/ task'[v] = Idle
      BY <2>1, <2>2 DEF Done
    <2> QED  BY <2>1, <2>2
  <1>2. TypeOK'
    BY <1>1 DEF IInv, TypeOK, Handler, Budget
  <1>3. ASSUME NEW v \in Threads PROVE Sound(task[v])'
    <2>1. PICK k \in Handler : k = task'[v] /\ Sound(k)
      BY <1>1, IdleIsSound DEF IInv
    <2>2. Sound(k)'
      BY <2>1, SoundStays
    <2> QED  BY <2>1, <2>2 DEF Sound
  <1>4. SchedulerRotates'
    BY <1>1, IdleIsHandler DEF IInv, SchedulerRotates, Threads
  <1> QED  BY <1>2, <1>3, <1>4 DEF IInv, Moves
-----------------------------------------------------------------------------
(* A handler that starts has just loaded the rows.                         *)
LEMMA Loaded ==
  ASSUME IInv, NEW t \in Handler,
         \A s \in t.on : secret[s].status # "none",
         t.ver # 0 => \A s \in t.on : t.ver \in DOMAIN version[s],
         t.job \in {"activate", "revoke"} => t.ver # 0 /\ t.pc = "version",
         t.pc = "version" => t.ver # 0,
         t.job = "status" => t.to \in Status \ {"none"},
         t.job = "due" => \A s \in t.on : secret[s].status = "active"
  PROVE  /\ [t EXCEPT !.seen = secret] \in Handler /\ Sound([t EXCEPT !.seen = secret])
         /\ [t EXCEPT !.seen = secret].job = t.job
  <1> DEFINE k == [t EXCEPT !.seen = secret]
  <1>1. k \in Handler
    BY DEF Handler, IInv, TypeOK
  <1>2. /\ k.job = t.job /\ k.pc = t.pc /\ k.on = t.on /\ k.to = t.to /\ k.ver = t.ver
        /\ k.seen = secret
    BY DEF Handler
  <1> HIDE DEF k
  <1>3. \A s \in Local : k.seen[s].val <= Len(version[s])
    BY <1>2 DEF IInv, RowsAgree, Local
  <1>4. Sound(k)
    BY <1>2, <1>3 DEF Sound
  <1> QED  BY <1>1, <1>2, <1>4 DEF k

LEMMA Started ==
  ASSUME IInv, NEW w \in Admins, NEW t \in Handler, Start(w, t),
         \A s \in t.on : secret[s].status # "none",
         t.ver # 0 => \A s \in t.on : t.ver \in DOMAIN version[s],
         t.job \in {"activate", "revoke"} => t.ver # 0 /\ t.pc = "version",
         t.pc = "version" => t.ver # 0,
         t.job = "status" => t.to \in Status \ {"none"},
         t.job = "due" => \A s \in t.on : secret[s].status = "active"
  PROVE  IInv'
  <1>1. w \in Threads /\ w # Scheduler
    BY VaultAssumption DEF Threads
  <1>2. budget' \in Budget
    BY BudgetHolds, Spent DEF Start, IInv
  <1> QED  BY <1>1, <1>2, Loaded, OneHandler DEF Start

LEMMA RequestKeeps ==
  ASSUME IInv, NEW w \in Admins, NEW s \in Secrets, Request(w, s)
  PROVE  IInv'
  <1>1. CASE StartUpdate(w, s)
    <2> DEFINE t == [Idle EXCEPT !.job = "value", !.pc = "list", !.on = {s}]
    <2>1. t \in Handler /\ t.job = "value" /\ t.on = {s} /\ t.ver = 0 /\ t.pc = "list"
      BY IdleIsHandler DEF Handler, Idle, Job
    <2>2. Start(w, t) /\ secret[s].status # "none"
      BY <1>1 DEF StartUpdate
    <2> HIDE DEF t
    <2> QED  BY <2>1, <2>2, Started
  <1>2. CASE StartStatus(w, s)
    <2>1. PICK to \in {"active", "disabled", "revoked"} :
            Start(w, [Idle EXCEPT !.job = "status", !.pc = "apply", !.on = {s}, !.to = to])
      BY <1>2 DEF StartStatus
    <2> DEFINE t == [Idle EXCEPT !.job = "status", !.pc = "apply", !.on = {s}, !.to = to]
    <2>2. t \in Handler /\ t.job = "status" /\ t.on = {s} /\ t.ver = 0 /\ t.to = to /\ t.pc = "apply"
      BY IdleIsHandler DEF Handler, Idle, Job, Status
    <2>3. secret[s].status # "none" /\ to \in Status \ {"none"}
      BY <1>2 DEF StartStatus, Status
    <2> HIDE DEF t
    <2> QED  BY <2>1, <2>2, <2>3, Started DEF t
  <1>3. ASSUME NEW v \in DOMAIN version[s], NEW job \in {"activate", "revoke"},
               Start(w, [Idle EXCEPT !.job = job, !.pc = "version", !.on = {s}, !.ver = v])
        PROVE  IInv'
    <2> DEFINE t == [Idle EXCEPT !.job = job, !.pc = "version", !.on = {s}, !.ver = v]
    <2>1. v \in Nat \ {0} /\ version[s] # << >>
      BY RowTypes DEF IInv
    <2>2. t \in Handler /\ t.job = job /\ t.on = {s} /\ t.ver = v /\ t.pc = "version"
      BY <2>1, IdleIsHandler DEF Handler, Idle, Job
    <2>3. secret[s].status # "none"
      BY <2>1 DEF IInv, RowsAgree
    <2> HIDE DEF t
    <2> QED  BY <1>3, <2>1, <2>2, <2>3, Started DEF t
  <1>4. CASE StartActivate(w, s)  BY <1>3, <1>4 DEF StartActivate
  <1>5. CASE StartRevokeVersion(w, s)  BY <1>3, <1>5 DEF StartRevokeVersion
  <1>6. CASE StartRotate(w, s)
    <2> DEFINE t == [Idle EXCEPT !.job = "rotate", !.pc = "apply", !.on = {s}]
    <2>1. t \in Handler /\ t.job = "rotate" /\ t.on = {s} /\ t.ver = 0 /\ t.pc = "apply"
      BY IdleIsHandler DEF Handler, Idle, Job
    <2>2. Start(w, t) /\ secret[s].status # "none"
      BY <1>6 DEF StartRotate
    <2> HIDE DEF t
    <2> QED  BY <2>1, <2>2, Started
  <1> QED  BY <1>1, <1>2, <1>4, <1>5, <1>6 DEF Request

LEMMA RotateServerKeeps ==
  ASSUME IInv, NEW w \in Admins, StartRotateServer(w)
  PROVE  IInv'
  <1> DEFINE t == [Idle EXCEPT !.job = "server", !.pc = "apply", !.on = {bound} \ {None}]
  <1>1. bound \in Secrets \cup {None}
    BY DEF IInv, TypeOK
  <1>2. t \in Handler /\ t.job = "server" /\ t.on = {bound} \ {None} /\ t.ver = 0 /\ t.pc = "apply"
    BY <1>1, IdleIsHandler DEF Handler, Idle, Job
  <1>3. Start(w, t) /\ \A s \in t.on : secret[s].status # "none"
    BY <1>2 DEF StartRotateServer, IInv, BoundExists
  <1> HIDE DEF t
  <1> QED  BY <1>2, <1>3, Started

LEMMA DueHandler ==
  LET t == [Idle EXCEPT !.job = "due", !.pc = "apply", !.on = Due]
  IN  /\ t \in Handler /\ t.job = "due" /\ t.on = Due /\ t.ver = 0 /\ t.pc = "apply"
      /\ \A s \in t.on : secret[s].status = "active"
  BY IdleIsHandler DEF Handler, Idle, Job, Due

LEMMA RunDueKeeps ==
  ASSUME IInv, NEW w \in Admins, StartRunDue(w)
  PROVE  IInv'
  <1> DEFINE t == [Idle EXCEPT !.job = "due", !.pc = "apply", !.on = Due]
  <1>1. /\ t \in Handler /\ t.job = "due" /\ t.on = Due /\ t.ver = 0 /\ t.pc = "apply"
        /\ \A s \in t.on : secret[s].status = "active"
    BY DueHandler
  <1>2. Start(w, t)
    BY DEF StartRunDue
  <1> HIDE DEF t
  <1> QED  BY <1>1, <1>2, Started

LEMMA TickKeeps ==
  ASSUME IInv, Tick
  PROVE  IInv'
  <1> DEFINE t == [Idle EXCEPT !.job = "due", !.pc = "apply", !.on = Due]
  <1>1. /\ t \in Handler /\ t.job = "due" /\ t.on = Due /\ t.ver = 0 /\ t.pc = "apply"
        /\ \A s \in t.on : secret[s].status = "active"
    BY DueHandler
  <1>2. [t EXCEPT !.seen = secret]
          = [Idle EXCEPT !.job = "due", !.pc = "apply", !.on = Due, !.seen = secret]
    BY DEF Idle
  <1>3. task' = [task EXCEPT ![Scheduler] = [t EXCEPT !.seen = secret]]
    BY <1>2 DEF Tick
  <1>4. Scheduler \in Threads /\ budget' \in Budget
    BY BudgetHolds DEF Threads, Tick, IInv
  <1> HIDE DEF t
  <1> QED  BY <1>1, <1>3, <1>4, Loaded, OneHandler DEF Tick

LEMMA LoadKeeps ==
  ASSUME IInv, NEW w \in Threads, LoadVersion(w)
  PROVE  IInv'
  <1> DEFINE k == task[w]
  <1>1. PICK s \in k.on :
          task' = [task EXCEPT ![w].was = version[s][task[w].ver].status,
                     ![w].pc = IF task[w].job = "activate" THEN "list" ELSE "apply"]
    BY DEF LoadVersion
  <1> DEFINE was == version[s][k.ver].status
             pc == IF k.job = "activate" THEN "list" ELSE "apply"
             n == [k EXCEPT !.was = was, !.pc = pc]
  <1>2. /\ k \in Handler /\ s \in Secrets /\ Sound(k) /\ task \in [Threads -> Handler]
        /\ version[s] \in Seq(Version) /\ DOMAIN version[s] = 1 .. Len(version[s])
    BY RowTypes DEF IInv, Handler, TypeOK
  <1>3. k.pc = "version"
    BY DEF LoadVersion
  <1>4. was \in {"active", "revoked"}
    <2>1. k.ver # 0
      BY <1>2, <1>3 DEF Sound
    <2>2. version[s][k.ver] \in Version
      BY <1>2, <2>1 DEF Sound
    <2> QED  BY <2>2 DEF Version
  <1>5. task' = [task EXCEPT ![w] = n]
    BY <1>1, <1>2
  <1> HIDE DEF was
  <1>6. n \in Handler
    BY <1>2, <1>4 DEF Handler
  <1>7. /\ n.job = k.job /\ n.on = k.on /\ n.to = k.to /\ n.ver = k.ver /\ n.seen = k.seen
        /\ n.pc \in {"list", "apply"} /\ (k.job = "activate" => n.pc = "list")
    BY <1>2 DEF Handler
  <1> HIDE DEF n
  <1>8. Sound(n)
    BY <1>2, <1>7 DEF Sound
  <1>9. w = Scheduler => n.job \in {"idle", "due"}
    BY <1>7 DEF IInv, SchedulerRotates
  <1>10. budget' \in Budget /\ UNCHANGED <<secret, version, bound, call, lock, raced>>
    BY DEF LoadVersion, IInv, TypeOK, Budget
  <1> QED  BY <1>5, <1>6, <1>8, <1>9, <1>10, OneHandler

LEMMA ListKeeps ==
  ASSUME IInv, NEW w \in Threads, ListVersions(w)
  PROVE  IInv'
  <1> DEFINE k == task[w]
  <1>1. PICK s \in k.on :
          task' = [task EXCEPT ![w].pc = "apply",
                     ![w].list = IF task[w].was = "active" THEN Active(s) \cup {task[w].ver}
                                 ELSE Active(s) \ {task[w].ver}]
    BY DEF ListVersions
  <1> DEFINE list == IF k.was = "active" THEN Active(s) \cup {k.ver} ELSE Active(s) \ {k.ver}
             n == [k EXCEPT !.pc = "apply", !.list = list]
  <1>2. k \in Handler /\ s \in Secrets /\ Sound(k) /\ k.on \subseteq Secrets /\ task \in [Threads -> Handler]
    BY RowTypes DEF IInv, Handler, TypeOK
  <1>3. Active(s) \subseteq Nat
    BY <1>2, RowTypes DEF Active, IInv
  <1>4. list \subseteq Nat /\ (k.was = "active" <=> k.ver \in list)
    BY <1>2, <1>3 DEF Handler
  <1>5. task' = [task EXCEPT ![w] = n]
    BY <1>1, <1>2
  <1> HIDE DEF list
  <1>6. n \in Handler
    BY <1>2, <1>3, <1>4 DEF Handler
  <1>7. /\ n.job = k.job /\ n.on = k.on /\ n.to = k.to /\ n.ver = k.ver /\ n.seen = k.seen
        /\ n.list = list /\ n.was = k.was /\ n.pc = "apply"
    BY <1>2 DEF Handler
  <1> HIDE DEF n
  <1>8. Sound(n)
    BY <1>2, <1>4, <1>7 DEF Sound
  <1>9. w = Scheduler => n.job \in {"idle", "due"}
    BY <1>7 DEF IInv, SchedulerRotates
  <1>10. budget' \in Budget /\ UNCHANGED <<secret, version, bound, call, lock, raced>>
    BY DEF ListVersions, IInv, TypeOK, Budget
  <1> QED  BY <1>5, <1>6, <1>8, <1>9, <1>10, OneHandler
-----------------------------------------------------------------------------
(* The version that replaces others gets the next id.                      *)
LEMMA AppendedRows ==
  ASSUME NEW rows \in Seq(Version), NEW ids, NEW n \in Nat, NEW s
  PROVE  LET r == Append(Revoked(rows, ids), NewVersion(s, n)) IN
         /\ r \in Seq(Version) /\ Len(r) = Len(rows) + 1
         /\ r[Len(rows) + 1].status = "active"
         /\ \A i \in 1 .. Len(rows) :
              r[i].status = IF i \in ids THEN "revoked" ELSE rows[i].status
  <1> DEFINE q == Revoked(rows, ids)
             v == NewVersion(s, n)
             r == Append(Revoked(rows, ids), NewVersion(s, n))
  <1>1. v \in Version /\ v.status = "active"
    BY DEF NewVersion, Version
  <1>2. q \in Seq(Version) /\ Len(q) = Len(rows) /\ Len(rows) \in Nat
    BY RevokedRows
  <1>3. \A i \in 1 .. Len(rows) : q[i].status = IF i \in ids THEN "revoked" ELSE rows[i].status
    BY RevokedRows
  <1>4. r = Append(q, v)
    OBVIOUS
  <1> HIDE DEF q, v, r
  <1>5. r \in Seq(Version) /\ Len(r) = Len(rows) + 1 /\ r[Len(rows) + 1] = v
    BY <1>1, <1>2, <1>4
  <1>6. \A i \in 1 .. Len(rows) : r[i] = q[i]
    BY <1>1, <1>2, <1>4
  <1> QED  BY <1>1, <1>3, <1>5, <1>6 DEF r

(* It is the only active one if every version that was active is replaced. *)
LEMMA Replaced ==
  ASSUME IInv, NEW s \in Secrets, NEW ids, NEW n \in Nat,
         version'[s] = Append(Revoked(version[s], ids), NewVersion(s, n)),
         s \in Local => secret'[s].val = Len(version[s]) + 1,
         secret[s].status # "none" /\ secret'[s].status # "none",
         raced \subseteq raced', s \in Local \ raced' => Active(s) \subseteq ids
  PROVE  Moves(s)
  <1> DEFINE rows == version[s]
             next == version'[s]
  <1>1. rows \in Seq(Version) /\ Len(rows) \in Nat /\ DOMAIN rows = 1 .. Len(rows)
    BY RowTypes DEF IInv
  <1>a. next = Append(Revoked(rows, ids), NewVersion(s, n))
    OBVIOUS
  <1> HIDE DEF rows, next
  <1>2. /\ next \in Seq(Version) /\ Len(next) = Len(rows) + 1
        /\ \A i \in 1 .. Len(rows) : next[i].status = IF i \in ids THEN "revoked" ELSE rows[i].status
    BY <1>1, <1>a, AppendedRows
  <1>3. DOMAIN next = 1 .. Len(rows) + 1
    BY <1>2
  <1>4. ASSUME s \in Local \ raced', NEW i \in 1 .. Len(rows) + 1, next[i].status = "active"
        PROVE  i = Len(rows) + 1
    <2> SUFFICES ASSUME i \in 1 .. Len(rows) PROVE FALSE
      BY <1>1
    <2>1. rows[i].status = "active" /\ i \notin ids
      BY <1>2, <1>4
    <2> QED  BY <1>1, <1>4, <2>1 DEF Active, rows
  <1>5. s \in Local \ raced' => Active(s)' \subseteq {Len(rows) + 1}
    BY <1>3, <1>4 DEF Active, next
  <1>6. RowsAgree(s)'
    BY <1>1, <1>2, <1>5 DEF RowsAgree, rows, next
  <1> QED  BY <1>1, <1>2, <1>6 DEF Moves, rows, next

(* What a handler may rely on of the secret it is about to write.          *)
LEMMA Copy ==
  ASSUME IInv, NEW w \in Threads, NEW s \in task[w].on
  PROVE  /\ s \in Secrets /\ secret[s] \in Secret /\ secret[s].status # "none"
         /\ task[w].seen[s] \in Secret
         /\ version[s] \in Seq(Version) /\ Len(version[s]) \in Nat
         /\ s \in Local => task[w].seen[s].val \in 0 .. Len(version[s])
  <1>1. task[w] \in Handler /\ Sound(task[w])
    BY RowTypes DEF IInv
  <1>2. s \in Secrets /\ task[w].seen[s] \in Secret
    BY <1>1 DEF Handler
  <1>3. secret[s] \in Secret /\ version[s] \in Seq(Version) /\ Len(version[s]) \in Nat
    BY <1>2, RowTypes DEF IInv
  <1>4. task[w].seen[s].val \in Nat
    BY <1>2 DEF Secret
  <1> QED  BY <1>1, <1>2, <1>3, <1>4 DEF Sound

(* One secret is written, the others stay as they are.                     *)
LEMMA OneSecret ==
  ASSUME IInv, NEW w \in Threads, NEW s \in Secrets, NEW x \in Secret, NEW r \in Seq(Version),
         secret' = [secret EXCEPT ![s] = x], version' = [version EXCEPT ![s] = r],
         Moves(s), raced \subseteq raced', raced' \subseteq Secrets,
         Done(w), UNCHANGED <<bound, call, lock, budget>>
  PROVE  IInv'
  <1>1. /\ secret' \in [Secrets -> Secret] /\ version' \in [Secrets -> Seq(Version)]
        /\ \A u \in Secrets : u # s => secret'[u] = secret[u] /\ version'[u] = version[u]
    BY DEF IInv, TypeOK
  <1>2. \A u \in Secrets : Moves(u)
    BY <1>1, StillRow
  <1>3. bound' \in Secrets \cup {None} /\ BoundExists' /\ budget' \in Budget
    BY <1>2 DEF IInv, TypeOK, BoundExists, Moves, Budget
  <1> QED  BY <1>1, <1>2, <1>3, RowsMove

LEMMA ValueKeeps ==
  ASSUME IInv, NEW w \in Threads, ApplyValue(w)
  PROVE  IInv'
  <1>1. PICK s \in task[w].on :
          LET seen == task[w].seen[s] IN
          /\ secret' = [secret EXCEPT ![s] = Merge(seen, [seen EXCEPT !.num = @ + 1,
                                                     !.val = Len(version[s]) + 1], @)]
          /\ version' = [version EXCEPT ![s] =
                           Append(Revoked(@, task[w].list), NewVersion(s, seen.num + 1))]
          /\ raced' = IF Stale(w, s) THEN raced \cup {s} ELSE raced
    BY DEF ApplyValue
  <1> DEFINE seen == task[w].seen[s]
             new == [seen EXCEPT !.num = @ + 1, !.val = Len(version[s]) + 1]
             x == Merge(seen, new, secret[s])
             r == Append(Revoked(version[s], task[w].list), NewVersion(s, seen.num + 1))
  <1>2. /\ s \in Secrets /\ secret[s] \in Secret /\ seen \in Secret /\ secret[s].status # "none"
        /\ version[s] \in Seq(Version) /\ Len(version[s]) \in Nat
        /\ s \in Local => seen.val \in 0 .. Len(version[s])
    BY Copy
  <1>3. secret' = [secret EXCEPT ![s] = x] /\ version' = [version EXCEPT ![s] = r]
    BY <1>1, <1>2
  <1> HIDE DEF seen
  <1>a. seen.num \in Nat /\ seen.num + 1 \in Nat /\ Len(version[s]) + 1 \in Nat
    BY <1>2 DEF Secret
  <1>4. /\ new \in Secret /\ new.status = seen.status /\ new.val = Len(version[s]) + 1
    BY <1>2, <1>a DEF Secret
  <1> HIDE DEF new
  <1>5. /\ x \in Secret /\ x.status = secret[s].status
        /\ s \in Local => x.val = Len(version[s]) + 1
    BY <1>2, <1>4, MergeColumns
  <1>b. r = Append(Revoked(version[s], task[w].list), NewVersion(s, seen.num + 1))
    OBVIOUS
  <1> HIDE DEF x, r
  <1>6. r \in Seq(Version)
    BY <1>2, <1>a, <1>b, AppendedRows
  <1>7. secret'[s] = x /\ version'[s] = r
    BY <1>2, <1>3 DEF IInv, TypeOK
  <1>8. raced \subseteq raced' /\ raced' \subseteq Secrets
    BY <1>1, <1>2 DEF IInv, TypeOK
  <1>9. s \in Local \ raced' => Active(s) \subseteq task[w].list
    BY <1>1 DEF Stale
  <1>10. Moves(s)
    BY <1>2, <1>a, <1>b, <1>5, <1>7, <1>8, <1>9, Replaced
  <1> QED  BY <1>2, <1>3, <1>5, <1>6, <1>8, <1>10, OneSecret DEF ApplyValue

(* No version becomes active and the value stays.                          *)
LEMMA NothingActivated ==
  ASSUME IInv, NEW s \in Secrets, NEW r \in Seq(Version), version'[s] = r,
         Len(r) = Len(version[s]),
         \A i \in 1 .. Len(version[s]) : r[i].status = "active" => version[s][i].status = "active",
         secret'[s].val = secret[s].val,
         secret[s].status = "none" <=> secret'[s].status = "none", raced \subseteq raced'
  PROVE  Moves(s)
  <1>1. /\ version[s] \in Seq(Version) /\ Len(version[s]) \in Nat /\ RowsAgree(s)
        /\ DOMAIN version[s] = 1 .. Len(version[s]) /\ DOMAIN r = 1 .. Len(version[s])
    BY RowTypes DEF IInv
  <1>2. Active(s)' \subseteq Active(s)
    BY <1>1 DEF Active
  <1>3. version[s] = << >> => r = << >>
    BY <1>1
  <1> QED  BY <1>1, <1>2, <1>3 DEF Moves, RowsAgree

LEMMA SameVersions ==
  ASSUME IInv, NEW s \in Secrets, version'[s] = version[s], secret'[s].val = secret[s].val,
         secret[s].status = "none" <=> secret'[s].status = "none", raced \subseteq raced'
  PROVE  Moves(s)
  BY RowTypes, NothingActivated DEF IInv

LEMMA StatusKeeps ==
  ASSUME IInv, NEW w \in Threads, ApplyStatus(w)
  PROVE  IInv'
  <1>1. PICK s \in task[w].on :
          secret' = [secret EXCEPT ![s] =
            Merge(task[w].seen[s], [task[w].seen[s] EXCEPT !.status = task[w].to], @)]
    BY DEF ApplyStatus
  <1> DEFINE seen == task[w].seen[s]
             new == [seen EXCEPT !.status = task[w].to]
             x == Merge(seen, new, secret[s])
  <1>2. /\ s \in Secrets /\ secret[s] \in Secret /\ seen \in Secret /\ secret[s].status # "none"
        /\ version[s] \in Seq(Version) /\ Sound(task[w])
    BY Copy DEF IInv
  <1>3. task[w].to \in Status \ {"none"}
    BY <1>2 DEF Sound, ApplyStatus, Ready
  <1>4. secret' = [secret EXCEPT ![s] = x] /\ version' = [version EXCEPT ![s] = version[s]]
    BY <1>1, <1>2 DEF ApplyStatus, IInv, TypeOK
  <1> HIDE DEF seen
  <1>5. new \in Secret /\ new.status = task[w].to /\ new.val = seen.val
    BY <1>2, <1>3 DEF Secret
  <1> HIDE DEF new
  <1>6. x \in Secret /\ x.status # "none" /\ x.val = secret[s].val
    BY <1>2, <1>3, <1>5, MergeColumns
  <1> HIDE DEF x
  <1>7. secret'[s] = x /\ version'[s] = version[s] /\ raced' = raced
    BY <1>2, <1>4 DEF IInv, TypeOK, ApplyStatus
  <1>8. Moves(s)
    BY <1>2, <1>6, <1>7, SameVersions
  <1>9. raced' \subseteq Secrets
    BY <1>7 DEF IInv, TypeOK
  <1> QED  BY <1>2, <1>4, <1>6, <1>7, <1>8, <1>9, OneSecret DEF ApplyStatus

LEMMA ActiveRow ==
  ASSUME NEW row \in Version
  PROVE  /\ [row EXCEPT !.status = "active"] \in Version
         /\ [row EXCEPT !.status = "active"].status = "active"
  BY DEF Version

LEMMA RowsActivated ==
  ASSUME NEW rows \in Seq(Version), NEW list, NEW v \in 1 .. Len(rows), NEW was
  PROVE  LET r == ActivatedRows(rows, list, v, was) IN
         /\ r \in Seq(Version) /\ Len(r) = Len(rows)
         /\ \A i \in 1 .. Len(rows) : i # v =>
              r[i].status = IF i \in list THEN "revoked" ELSE rows[i].status
  <1> DEFINE others == Revoked(rows, list \ {v})
             new == [others[v] EXCEPT !.status = "active"]
             r == ActivatedRows(rows, list, v, was)
  <1>1. others \in Seq(Version) /\ Len(others) = Len(rows) /\ Len(rows) \in Nat
    BY RevokedRows
  <1>2. \A i \in 1 .. Len(rows) :
          others[i].status = IF i \in list \ {v} THEN "revoked" ELSE rows[i].status
    BY RevokedRows
  <1>3. r = IF was = "active" THEN others ELSE [others EXCEPT ![v] = new]
    BY DEF ActivatedRows
  <1> HIDE DEF r, others
  <1>4. others[v] \in Version
    BY <1>1
  <1>5. new \in Version
    BY <1>4, ActiveRow
  <1> HIDE DEF new
  <1>6. r \in Seq(Version) /\ Len(r) = Len(rows)
        /\ \A i \in 1 .. Len(rows) : i # v => r[i] = others[i]
    BY <1>1, <1>3, <1>5
  <1> QED  BY <1>2, <1>6 DEF r

LEMMA ActivateKeeps ==
  ASSUME IInv, NEW w \in Threads, ApplyActivate(w)
  PROVE  IInv'
  <1> DEFINE v == task[w].ver
             list == task[w].list
             was == task[w].was
  <1>1. PICK s \in task[w].on :
          IF s \in Files
          THEN /\ version' = [version EXCEPT ![s] = ActivatedRows(@, {}, v, was)]
               /\ UNCHANGED <<secret, raced>>
          ELSE /\ version' = [version EXCEPT ![s] = ActivatedRows(@, list, v, was)]
               /\ secret' = [secret EXCEPT ![s] = Activated(s, task[w].seen[s], v)]
               /\ raced' = IF Stale(w, s) THEN raced \cup {s} ELSE raced
    BY DEF ApplyActivate
  <1> DEFINE rows == version[s]
             seen == task[w].seen[s]
  <1>2. /\ s \in Secrets /\ secret[s] \in Secret /\ seen \in Secret /\ secret[s].status # "none"
        /\ rows \in Seq(Version) /\ Len(rows) \in Nat /\ Sound(task[w]) /\ RowsAgree(s)
        /\ DOMAIN rows = 1 .. Len(rows)
    BY Copy, RowTypes DEF IInv
  <1>3. v \in 1 .. Len(rows) /\ (was = "active" <=> v \in list)
    BY <1>2 DEF Sound, ApplyActivate, Ready
  <1>4. Done(w) /\ UNCHANGED <<bound, call, lock, budget>>
    BY DEF ApplyActivate
  <1> HIDE DEF v, list, was
  <1>5. CASE s \in Files
    <2> DEFINE r == ActivatedRows(rows, {}, v, was)
    <2>1. r \in Seq(Version) /\ Len(r) = Len(rows)
      BY <1>2, <1>3, RowsActivated
    <2> HIDE DEF r
    <2>2. version' = [version EXCEPT ![s] = r] /\ version'[s] = r /\ secret' = secret /\ raced' = raced
      BY <1>1, <1>2, <1>5 DEF r, IInv, TypeOK
    <2>3. RowsAgree(s)'
      BY <1>2, <1>5, <2>1, <2>2 DEF RowsAgree, Local
    <2>4. Moves(s)
      BY <1>2, <2>1, <2>2, <2>3 DEF Moves
    <2>5. secret' = [secret EXCEPT ![s] = secret[s]] /\ raced' \subseteq Secrets
      BY <2>2 DEF IInv, TypeOK
    <2> QED  BY <1>2, <1>4, <2>1, <2>2, <2>4, <2>5, OneSecret
  <1>6. CASE s \notin Files
    <2> DEFINE r == ActivatedRows(rows, list, v, was)
               new == [seen EXCEPT !.num = version[s][v].num, !.val = v]
               x == Merge(seen, new, secret[s])
    <2>1. /\ r \in Seq(Version) /\ Len(r) = Len(rows)
          /\ \A i \in 1 .. Len(rows) : i # v =>
               r[i].status = IF i \in list THEN "revoked" ELSE rows[i].status
      BY <1>2, <1>3, RowsActivated
    <2> HIDE DEF r
    <2>2. version' = [version EXCEPT ![s] = r] /\ secret' = [secret EXCEPT ![s] = x]
      BY <1>1, <1>2, <1>6 DEF r, Activated
    <2>3. raced' = IF Stale(w, s) THEN raced \cup {s} ELSE raced
      BY <1>1, <1>6
    <2>4. version[s][v] \in Version /\ v \in Nat
      BY <1>2, <1>3
    <2>5. version[s][v].num \in Nat
      BY <2>4 DEF Version
    <2> HIDE DEF seen
    <2>6. new \in Secret /\ new.status = seen.status /\ new.val = v
      BY <1>2, <2>4, <2>5 DEF Secret
    <2> HIDE DEF new
    <2>7. /\ x \in Secret /\ x.status = secret[s].status
          /\ x.val = IF v # seen.val THEN v ELSE secret[s].val
      BY <1>2, <2>6, MergeColumns
    <2> HIDE DEF x
    <2>8. version'[s] = r /\ secret'[s] = x
      BY <1>2, <2>2 DEF IInv, TypeOK
    <2>9. s \notin raced' => x.val = v /\ list = Active(s)
      BY <2>3, <2>7 DEF Stale, seen, list
    <2>10. s \notin raced' => Active(s)' \subseteq {v}
      BY <1>2, <2>1, <2>8, <2>9 DEF Active
    <2>11. secret[s].val <= Len(rows)
      BY <1>2, <1>6 DEF RowsAgree, Local
    <2> HIDE DEF rows
    <2>12. x.val <= Len(r)
      BY <1>3, <2>1, <2>7, <2>11
    <2>13. RowsAgree(s)'
      BY <1>2, <2>7, <2>8, <2>9, <2>10, <2>12 DEF RowsAgree
    <2>14. Moves(s)
      BY <1>2, <2>1, <2>7, <2>8, <2>13 DEF Moves, rows
    <2>15. raced \subseteq raced' /\ raced' \subseteq Secrets
      BY <1>2, <2>3 DEF IInv, TypeOK
    <2> QED  BY <1>2, <1>4, <2>1, <2>2, <2>7, <2>14, <2>15, OneSecret
  <1> QED  BY <1>5, <1>6

LEMMA RevokeKeeps ==
  ASSUME IInv, NEW w \in Threads, ApplyRevokeVersion(w)
  PROVE  IInv'
  <1>1. PICK s \in task[w].on :
          version' = [version EXCEPT ![s] =
            IF task[w].was = "revoked" THEN @ ELSE Revoked(@, {task[w].ver})]
    BY DEF ApplyRevokeVersion
  <1> DEFINE rows == version[s]
             q == Revoked(rows, {task[w].ver})
             r == IF task[w].was = "revoked" THEN rows ELSE q
  <1>2. /\ s \in Secrets /\ secret[s] \in Secret /\ rows \in Seq(Version)
    BY Copy
  <1>3. /\ q \in Seq(Version) /\ Len(q) = Len(rows)
        /\ \A i \in 1 .. Len(rows) : q[i].status = "active" => rows[i].status = "active"
    BY <1>2, RevokedRows
  <1>4. version' = [version EXCEPT ![s] = r]
    BY <1>1, <1>2
  <1> HIDE DEF q
  <1>5. /\ r \in Seq(Version) /\ Len(r) = Len(rows)
        /\ \A i \in 1 .. Len(rows) : r[i].status = "active" => rows[i].status = "active"
    BY <1>2, <1>3
  <1> HIDE DEF r
  <1>6. version'[s] = r /\ secret' = secret /\ raced' = raced /\ raced' \subseteq Secrets
    BY <1>2, <1>4 DEF IInv, TypeOK, ApplyRevokeVersion
  <1>7. Moves(s)
    BY <1>2, <1>5, <1>6, NothingActivated
  <1>8. secret' = [secret EXCEPT ![s] = secret[s]]
    BY <1>6 DEF IInv, TypeOK
  <1> QED  BY <1>2, <1>4, <1>5, <1>6, <1>7, <1>8, OneSecret DEF ApplyRevokeVersion
-----------------------------------------------------------------------------
(* What rotate_secret_value writes to the row of one secret.               *)
LEMMA RotatedRow ==
  ASSUME NEW s \in Secrets, NEW seen \in Secret, secret[s] \in Secret, Len(version[s]) \in Nat
  PROVE  /\ Rotated(s, seen) \in Secret
         /\ Rotated(s, seen).status =
              IF seen.status # "active" THEN "active" ELSE secret[s].status
         /\ s \in Local /\ seen.val <= Len(version[s]) => Rotated(s, seen).val = Len(version[s]) + 1
  <1> DEFINE new == [seen EXCEPT !.status = "active", !.num = @ + 1,
                       !.val = IF s \in Files THEN @ ELSE Len(version[s]) + 1]
             val == IF s \in Files THEN seen.val ELSE Len(version[s]) + 1
             x == Merge(seen, new, secret[s])
  <1>1. seen.num + 1 \in Nat /\ val \in Nat /\ seen.val \in Nat
    BY DEF Secret
  <1>2. new = [seen EXCEPT !.status = "active", !.num = seen.num + 1, !.val = val]
    BY DEF Secret
  <1>3. new \in Secret /\ new.status = "active" /\ new.val = val
    BY <1>1, <1>2 DEF Secret, Status
  <1>4. Rotated(s, seen) = [x EXCEPT !.due = FALSE]
    BY DEF Rotated
  <1> HIDE DEF new
  <1>5. /\ x \in Secret
        /\ x.status = IF seen.status # "active" THEN "active" ELSE secret[s].status
        /\ x.val = IF val # seen.val THEN val ELSE secret[s].val
    BY <1>3, MergeColumns
  <1> HIDE DEF x
  <1>6. /\ Rotated(s, seen) \in Secret /\ Rotated(s, seen).status = x.status
        /\ Rotated(s, seen).val = x.val
    BY <1>4, <1>5 DEF Secret
  <1> QED  BY <1>1, <1>5, <1>6 DEF Local

LEMMA FailedRow ==
  ASSUME NEW s \in Secrets, NEW seen \in Secret, secret[s] \in Secret
  PROVE  /\ RotationFailed(s, seen) \in Secret
         /\ RotationFailed(s, seen).status \in {"rotation_failed", secret[s].status}
         /\ RotationFailed(s, seen).val = secret[s].val
  <1> DEFINE new == [seen EXCEPT !.status = "rotation_failed"]
  <1>1. new \in Secret /\ new.status = "rotation_failed" /\ new.val = seen.val
    BY DEF Secret, Status
  <1>2. RotationFailed(s, seen) = Merge(seen, new, secret[s])
    BY DEF RotationFailed
  <1> HIDE DEF new
  <1> QED  BY <1>1, <1>2, MergeColumns

LEMMA RotateMoves ==
  ASSUME IInv, NEW w \in Threads, NEW failed,
         Rotate(task[w].on, task[w].seen, failed), raced' = raced
  PROVE  /\ secret' \in [Secrets -> Secret] /\ version' \in [Secrets -> Seq(Version)]
         /\ \A s \in Secrets : Moves(s)
  <1> DEFINE on == task[w].on
             seen == task[w].seen
  <1>1. ASSUME NEW s \in Secrets
        PROVE  secret'[s] \in Secret /\ version'[s] \in Seq(Version) /\ Moves(s)
    <2>0. secret[s] \in Secret /\ version[s] \in Seq(Version) /\ Len(version[s]) \in Nat
      BY RowTypes DEF IInv
    <2>1. CASE s \notin on
      <3>1. secret'[s] = secret[s] /\ version'[s] = version[s]
        BY <2>1 DEF Rotate
      <3> QED  BY <2>0, <3>1, StillRow
    <2>2. CASE s \in on /\ s \in failed
      <3>1. secret'[s] = RotationFailed(s, seen[s]) /\ version'[s] = version[s]
        BY <2>2 DEF Rotate
      <3>2. seen[s] \in Secret /\ secret[s].status # "none"
        BY <2>2, Copy
      <3>3. secret'[s] \in Secret /\ secret'[s].status # "none" /\ secret'[s].val = secret[s].val
        BY <2>0, <3>1, <3>2, FailedRow
      <3> QED  BY <2>0, <3>1, <3>2, <3>3, SameVersions
    <2>3. CASE s \in on /\ s \notin failed
      <3> DEFINE r == Append(Revoked(version[s], Active(s)), NewVersion(s, seen[s].num + 1))
      <3>1. secret'[s] = Rotated(s, seen[s]) /\ version'[s] = r
        BY <2>3 DEF Rotate, RotatedRows
      <3>2. /\ seen[s] \in Secret /\ secret[s].status # "none"
            /\ s \in Local => seen[s].val <= Len(version[s])
        BY <2>3, Copy
      <3>3. seen[s].num + 1 \in Nat
        BY <3>2 DEF Secret
      <3>4. /\ secret'[s] \in Secret /\ secret'[s].status # "none"
            /\ s \in Local => secret'[s].val = Len(version[s]) + 1
        BY <2>0, <3>1, <3>2, RotatedRow
      <3> HIDE DEF seen
      <3>5. r \in Seq(Version)
        BY <2>0, <3>3, AppendedRows
      <3>6. Moves(s)
        BY <3>1, <3>2, <3>3, <3>4, Replaced
      <3> QED  BY <3>1, <3>4, <3>5, <3>6
    <2> QED  BY <2>1, <2>2, <2>3
  <1>2. /\ secret' = [s \in Secrets |-> secret'[s]] /\ version' = [s \in Secrets |-> version'[s]]
    BY DEF Rotate
  <1> QED  BY <1>1, <1>2

LEMMA RotationKeeps ==
  ASSUME IInv, NEW w \in Threads, ApplyRotation(w)
  PROVE  IInv'
  <1> DEFINE on == task[w].on
             Same == UNCHANGED <<secret, version>>
  <1>1. Same \/ \E failed : Rotate(on, task[w].seen, failed)
    BY DEF ApplyRotation
  <1>2. Done(w) /\ UNCHANGED <<bound, call, lock, raced>>
    BY DEF ApplyRotation
  <1>3. budget' \in Budget
    <2>1. UNCHANGED budget \/ (budget.faults > 0 /\ budget' = [budget EXCEPT !.faults = @ - 1])
      BY DEF ApplyRotation
    <2> QED  BY <2>1, BudgetHolds, Spent DEF IInv
  <1>4. /\ secret' \in [Secrets -> Secret] /\ version' \in [Secrets -> Seq(Version)]
        /\ \A s \in Secrets : Moves(s)
    <2>1. CASE Same
      BY <1>2, <2>1, StillRow DEF IInv, TypeOK
    <2>2. CASE \E failed : Rotate(on, task[w].seen, failed)
      BY <1>2, <2>2, RotateMoves
    <2> QED  BY <1>1, <2>1, <2>2
  <1>5. bound' \in Secrets \cup {None} /\ BoundExists' /\ raced' \subseteq Secrets
    BY <1>2, <1>4 DEF IInv, TypeOK, BoundExists, Moves
  <1> QED  BY <1>2, <1>3, <1>4, <1>5, RowsMove

LEMMA HostKeyKeeps ==
  ASSUME IInv, NEW w \in Threads, CreateHostKey(w)
  PROVE  IInv'
  <1>0. HostKey \in Secrets /\ HostKey \in Local /\ HostKey \notin Files
    BY VaultAssumption DEF Local
  <1>1. CASE secret[HostKey].status = "none"
    <2> DEFINE x == [Created(HostKey) EXCEPT !.num = 2, !.val = 2]
               old == [NewVersion(HostKey, 1) EXCEPT !.status = "revoked"]
               new == NewVersion(HostKey, 2)
               r == <<old, new>>
    <2>1. x \in Secret /\ x.status = "active" /\ x.val = 2
      BY <1>0 DEF Created, Secret, Status
    <2>2. old \in Version /\ new \in Version /\ old.status = "revoked"
      BY DEF NewVersion, Version
    <2>3. /\ secret' = [secret EXCEPT ![HostKey] = x] /\ version' = [version EXCEPT ![HostKey] = r]
          /\ bound' = HostKey /\ raced' = raced
      BY <1>1 DEF CreateHostKey
    <2> HIDE DEF x, old, new
    <2>4. r \in Seq(Version) /\ Len(r) = 2 /\ r[1] = old /\ r[2] = new /\ DOMAIN r = 1 .. 2
      BY <2>2
    <2> HIDE DEF r
    <2>5. /\ secret' \in [Secrets -> Secret] /\ version' \in [Secrets -> Seq(Version)]
          /\ secret'[HostKey] = x /\ version'[HostKey] = r
          /\ \A s \in Secrets : s # HostKey => secret'[s] = secret[s] /\ version'[s] = version[s]
      BY <1>0, <2>1, <2>3, <2>4 DEF IInv, TypeOK
    <2>6. Active(HostKey)' \subseteq {2}
      BY <2>2, <2>4, <2>5 DEF Active
    <2>7. Len(version[HostKey]) = 0
      BY <1>0, <1>1 DEF IInv, RowsAgree
    <2>a. Active(HostKey)' \subseteq {secret'[HostKey].val}
      BY <2>1, <2>5, <2>6
    <2>b. RowsAgree(HostKey)'
      <3>1. secret'[HostKey].status # "none"
        BY <2>1, <2>5
      <3>2. secret'[HostKey].val <= Len(version'[HostKey])
        <4>1. secret'[HostKey].val = 2 /\ Len(version'[HostKey]) = 2
          BY <2>1, <2>4, <2>5
        <4> QED  BY <4>1
      <3> QED  BY <2>a, <3>1, <3>2 DEF RowsAgree
    <2>8. Moves(HostKey)
      BY <2>1, <2>4, <2>5, <2>7, <2>b DEF Moves
    <2>9. \A s \in Secrets : Moves(s)
      BY <2>3, <2>5, <2>8, StillRow
    <2>10. bound' \in Secrets \cup {None} /\ BoundExists'
      BY <1>0, <2>1, <2>3, <2>5 DEF BoundExists
    <2>11. raced' \subseteq Secrets /\ budget' \in Budget /\ UNCHANGED <<call, lock>> /\ Done(w)
      BY DEF CreateHostKey, IInv, TypeOK, Budget
    <2> QED  BY <2>5, <2>9, <2>10, <2>11, RowsMove
  <1>2. CASE secret[HostKey].status # "none"
    <2>1. /\ UNCHANGED <<secret, version, bound, call, lock, raced, budget>>
          /\ task' = [task EXCEPT ![w] = Idle]
      BY <1>2 DEF CreateHostKey, Done
    <2> QED  BY <2>1, IdleIsHandler, IdleIsSound, OneHandler DEF IInv, TypeOK, Budget
  <1> QED  BY <1>1, <1>2

LEMMA GiveUpKeeps ==
  ASSUME IInv, NEW w \in Threads, GiveUp(w)
  PROVE  IInv'
  <1>1. budget' \in Budget
    BY BudgetHolds, Spent DEF GiveUp, IInv
  <1> QED  BY <1>1, IdleIsHandler, IdleIsSound, OneHandler DEF GiveUp, Done, IInv

LEMMA SecretKeeps ==
  ASSUME IInv, NEW s \in Secrets, CreateSecret(s) \/ BecomesDue(s) \/ Assign(s)
  PROVE  IInv'
  <1>0. /\ secret[s] \in Secret /\ version[s] \in Seq(Version) /\ Len(version[s]) \in Nat
        /\ RowsAgree(s)
    BY RowTypes DEF IInv
  <1>1. CASE CreateSecret(s)
    <2> DEFINE x == Created(s)
               new == NewVersion(s, 1)
               r == <<new>>
    <2>1. x \in Secret /\ x.status = "active" /\ (s \in Local => x.val = 1) /\ x.val \in {0, 1}
      BY DEF Created, Secret, Status, Local
    <2>2. new \in Version
      BY DEF NewVersion, Version
    <2>3. secret' = [secret EXCEPT ![s] = x] /\ version' = [version EXCEPT ![s] = r] /\ raced' = raced
      BY <1>1 DEF CreateSecret
    <2> HIDE DEF x, new
    <2>4. r \in Seq(Version) /\ Len(r) = 1 /\ DOMAIN r = {1}
      BY <2>2
    <2> HIDE DEF r
    <2>5. /\ secret' \in [Secrets -> Secret] /\ version' \in [Secrets -> Seq(Version)]
          /\ secret'[s] = x /\ version'[s] = r
          /\ \A u \in Secrets : u # s => secret'[u] = secret[u] /\ version'[u] = version[u]
      BY <2>1, <2>3, <2>4 DEF IInv, TypeOK
    <2>6. Active(s)' \subseteq {1} /\ Len(version[s]) = 0
      BY <1>0, <1>1, <2>4, <2>5 DEF Active, RowsAgree, CreateSecret
    <2>a. s \in Local => Active(s)' \subseteq {secret'[s].val}
      BY <2>1, <2>5, <2>6
    <2>b. RowsAgree(s)'
      <3>1. secret'[s].status # "none"
        BY <2>1, <2>5
      <3>2. s \in Local => secret'[s].val <= Len(version'[s])
        <4>1. Len(version'[s]) = 1 /\ (s \in Local => secret'[s].val = 1)
          BY <2>1, <2>4, <2>5
        <4> QED  BY <4>1
      <3> QED  BY <2>a, <3>1, <3>2 DEF RowsAgree
    <2>7. Moves(s)
      BY <2>1, <2>4, <2>5, <2>6, <2>b DEF Moves
    <2>8. \A u \in Secrets : Moves(u)
      BY <2>3, <2>5, <2>7, StillRow
    <2>9. bound' = bound /\ bound' \in Secrets \cup {None} /\ raced' \subseteq Secrets /\ budget' \in Budget
      BY <1>1 DEF CreateSecret, IInv, TypeOK, Budget
    <2>10. BoundExists'
      BY <2>8, <2>9 DEF IInv, BoundExists, Moves
    <2> QED  BY <1>1, <2>5, <2>8, <2>9, <2>10, RowsMove DEF CreateSecret
  <1>2. CASE BecomesDue(s)
    <2> DEFINE x == [secret[s] EXCEPT !.due = TRUE]
    <2>1. x \in Secret /\ x.status = secret[s].status /\ x.val = secret[s].val
      BY <1>0 DEF Secret
    <2>2. secret' = [secret EXCEPT ![s] = x]
      BY <1>2 DEF BecomesDue
    <2> HIDE DEF x
    <2>3. /\ secret' \in [Secrets -> Secret] /\ secret'[s] = x
          /\ \A u \in Secrets : u # s => secret'[u] = secret[u]
      BY <2>1, <2>2 DEF IInv, TypeOK
    <2>4. UNCHANGED <<version, bound, task, call, lock, raced>>
      BY <1>2 DEF BecomesDue
    <2>5. \A u \in Secrets : Moves(u)
      BY <2>1, <2>3, <2>4, SameVersions
    <2>6. bound' \in Secrets \cup {None} /\ raced' \subseteq Secrets /\ version' \in [Secrets -> Seq(Version)]
      BY <2>4 DEF IInv, TypeOK
    <2>7. budget' \in Budget
      BY <1>2, BudgetHolds, Spent DEF BecomesDue, IInv
    <2>8. BoundExists'
      BY <2>4, <2>5, <2>6 DEF IInv, BoundExists, Moves
    <2> QED  BY <2>3, <2>4, <2>5, <2>6, <2>7, <2>8, RowsMove
  <1>3. CASE Assign(s)
    <2>1. /\ secret' \in [Secrets -> Secret] /\ version' \in [Secrets -> Seq(Version)]
          /\ raced' \subseteq Secrets /\ budget' \in Budget
      BY <1>3 DEF Assign, IInv, TypeOK, Budget
    <2>2. \A u \in Secrets : Moves(u)
      BY <1>3, StillRow DEF Assign
    <2>3. bound' \in Secrets \cup {None} /\ BoundExists'
      BY <1>3 DEF Assign, BoundExists
    <2> QED  BY <1>3, <2>1, <2>2, <2>3, RowsMove DEF Assign
  <1> QED  BY <1>1, <1>2, <1>3
-----------------------------------------------------------------------------
(* An SSH call reads secrets and takes the lock; it moves no row.          *)
LEMMA CallSteps ==
  ASSUME TypeOK, NEW c \in Callers, Flush(c) \/ Ssh(c)
  PROVE  /\ UNCHANGED <<secret, version, bound, task, raced>>
         /\ call' \in [Callers -> {"idle", "busy", "auth", "open"}]
         /\ lock' \in Callers \cup {None} /\ budget' \in Budget
  <1>0. budget.requests > 0 => [budget EXCEPT !.requests = @ - 1] \in Budget
    BY BudgetHolds, Spent
  <1>1. CASE Flush(c)
    BY <1>0, <1>1 DEF Flush, TypeOK
  <1>2. CASE Connect(c)
    BY <1>0, <1>2 DEF Connect, TypeOK, Budget
  <1>3. CASE GetSecretValue(c)
    BY <1>3 DEF GetSecretValue, TypeOK, Budget
  <1>4. CASE LockTimeout(c)
    BY <1>4 DEF LockTimeout, Release, TypeOK, Budget
  <1>5. CASE Disconnect(c)
    BY <1>5 DEF Disconnect, Release, TypeOK, Budget
  <1> QED  BY <1>1, <1>2, <1>3, <1>4, <1>5 DEF Ssh

LEMMA CallKeeps ==
  ASSUME IInv, NEW c \in Callers, Flush(c) \/ Ssh(c)
  PROVE  IInv'
  <1>1. /\ UNCHANGED <<secret, version, bound, task, raced>>
        /\ call' \in [Callers -> {"idle", "busy", "auth", "open"}]
        /\ lock' \in Callers \cup {None} /\ budget' \in Budget
    BY CallSteps DEF IInv
  <1>2. TypeOK'
    BY <1>1 DEF IInv, TypeOK, Budget
  <1> QED  BY <1>1, <1>2
           DEF IInv, RowsAgree, Sound, BoundExists, SchedulerRotates, Active

LEMMA InitInvariant == Init => IInv
  <1> SUFFICES ASSUME Init PROVE IInv  OBVIOUS
  <1>1. \A s \in Secrets : /\ secret[s] = [status |-> "none", num |-> 0, val |-> 0, due |-> FALSE]
                           /\ version[s] = << >>
    BY DEF Init
  <1>2. secret \in [Secrets -> Secret] /\ version \in [Secrets -> Seq(Version)]
    BY DEF Init, Secret, Status
  <1>3. task \in [Threads -> Handler] /\ \A w \in Threads : task[w] = Idle
    BY IdleIsHandler DEF Init
  <1>4. TypeOK
    BY <1>2, <1>3, VaultAssumption DEF Init, TypeOK, Handler
  <1>5. \A s \in Secrets : RowsAgree(s)
    BY <1>1 DEF RowsAgree, Active, Local
  <1>6. \A w \in Threads : Sound(task[w])
    BY <1>3, <1>4, IdleIsSound
  <1>7. BoundExists /\ SchedulerRotates
    BY <1>3, IdleIsHandler DEF Init, BoundExists, SchedulerRotates, Threads
  <1> QED  BY <1>4, <1>5, <1>6, <1>7 DEF IInv

LEMMA NextKeeps == IInv /\ [Next]_vars => IInv'
  <1> SUFFICES ASSUME IInv, [Next]_vars PROVE IInv'  OBVIOUS
  <1>1. ASSUME NEW w \in Threads, Apply(w) PROVE IInv'
    BY <1>1, LoadKeeps, ListKeeps, ValueKeeps, StatusKeeps, ActivateKeeps, RevokeKeeps, RotationKeeps,
       HostKeyKeeps DEF Apply
  <1>2. CASE UNCHANGED vars
    BY <1>2 DEF vars, IInv, TypeOK, RowsAgree, Sound, BoundExists, SchedulerRotates, Active
  <1> QED  BY <1>1, <1>2, SecretKeeps, RequestKeeps, RotateServerKeeps, RunDueKeeps, TickKeeps,
              GiveUpKeeps, CallKeeps DEF Next

(* The rows, the handlers and the calls keep their types.                  *)
THEOREM VaultTypes == Spec => []TypeOK
  <1>1. IInv => TypeOK  BY DEF IInv
  <1> QED  BY <1>1, InitInvariant, NextKeeps, PTL DEF Spec

(* A secret that no update or activation changed on stale rows has at most *)
(* one active version, in any history of rotations, activations and        *)
(* revocations by any number of threads (vault/local_encrypted.py).               *)
THEOREM AtMostOneActive == Spec => []OneActiveVersion
  <1>1. IInv => OneActiveVersion  BY DEF IInv, RowsAgree, OneActiveVersion, Local
  <1> QED  BY <1>1, InitInvariant, NextKeeps, PTL DEF Spec

(* The version such a secret serves is the one its own row holds.          *)
THEOREM CopiesAgree == Spec => []ServedIsCurrent
  <1>1. ASSUME IInv, NEW s \in Local \ raced PROVE Served(s) = {secret[s].val}
    <2>1. Active(s) \subseteq {secret[s].val} /\ s \in Secrets
      BY <1>1 DEF IInv, RowsAgree, Local
    <2>2. CASE Active(s) = {}
      BY <2>2 DEF Served
    <2>3. CASE Active(s) # {}
      <3>1. Active(s) = {secret[s].val}
        BY <2>1, <2>3
      <3>2. version[s][secret[s].val] \in Version
        BY <1>1, <2>1, <3>1, RowTypes DEF IInv, Active
      <3>3. version[s][secret[s].val].num <= version[s][secret[s].val].num
        BY <3>2 DEF Version
      <3> QED  BY <3>1, <3>3 DEF Served
    <2> QED  BY <2>2, <2>3
  <1>2. IInv => ServedIsCurrent  BY <1>1 DEF ServedIsCurrent
  <1> QED  BY <1>2, InitInvariant, NextKeeps, PTL DEF Spec
-----------------------------------------------------------------------------
Revives(s) == secret[s].status # "none" /\ ~Readable(s) /\ Readable(s)'

Informed(s) ==
  \E w \in Admins : /\ task[w].job \in {"rotate", "status", "server"}
                    /\ s \in task[w].on
                    /\ task[w].seen[s].status # "active"

(* A write to one secret that merges the status it has loaded revives none.*)
LEMMA MergedRow ==
  ASSUME IInv, NEW s \in Secrets, NEW u \in Secrets, NEW x \in Secret,
         secret' = [secret EXCEPT ![u] = x], x.status = secret[u].status
  PROVE  ~Revives(s)
  BY DEF IInv, TypeOK, Revives, Readable

LEMMA ValueRevivesNone ==
  ASSUME IInv, NEW w \in Threads, ApplyValue(w), NEW s \in Secrets
  PROVE  ~Revives(s)
  <1>1. PICK u \in task[w].on :
          LET seen == task[w].seen[u]
          IN  secret' = [secret EXCEPT ![u] = Merge(seen, [seen EXCEPT !.num = @ + 1,
                                                     !.val = Len(version[u]) + 1], @)]
    BY DEF ApplyValue
  <1> DEFINE seen == task[w].seen[u]
             new == [seen EXCEPT !.num = @ + 1, !.val = Len(version[u]) + 1]
             x == Merge(seen, new, secret[u])
  <1>2. u \in Secrets /\ secret[u] \in Secret /\ seen \in Secret /\ Len(version[u]) + 1 \in Nat
    BY Copy
  <1>3. secret' = [secret EXCEPT ![u] = x]
    BY <1>1, <1>2
  <1> HIDE DEF seen
  <1>4. seen.num + 1 \in Nat
    BY <1>2 DEF Secret
  <1>5. new \in Secret /\ new.status = seen.status
    BY <1>2, <1>4 DEF Secret
  <1> HIDE DEF new
  <1>6. x \in Secret /\ x.status = secret[u].status
    BY <1>2, <1>5, MergeColumns
  <1> HIDE DEF x
  <1> QED  BY <1>2, <1>3, <1>6, MergedRow

LEMMA ActivateRevivesNone ==
  ASSUME IInv, NEW w \in Threads, ApplyActivate(w), NEW s \in Secrets
  PROVE  ~Revives(s)
  <1> DEFINE v == task[w].ver
  <1>1. PICK u \in task[w].on :
          \/ secret' = secret
          \/ secret' = [secret EXCEPT ![u] = Activated(u, task[w].seen[u], v)]
    BY DEF ApplyActivate
  <1> DEFINE seen == task[w].seen[u]
             new == [seen EXCEPT !.num = version[u][v].num, !.val = v]
             x == Merge(seen, new, secret[u])
  <1>2. /\ u \in Secrets /\ secret[u] \in Secret /\ seen \in Secret /\ Sound(task[w])
        /\ version[u] \in Seq(Version) /\ DOMAIN version[u] = 1 .. Len(version[u])
        /\ Len(version[u]) \in Nat
    BY Copy, RowTypes DEF IInv
  <1>3. v \in 1 .. Len(version[u])
    BY <1>2 DEF Sound, ApplyActivate, Ready
  <1> HIDE DEF v
  <1>4. version[u][v] \in Version /\ v \in Nat
    BY <1>2, <1>3
  <1>5. version[u][v].num \in Nat
    BY <1>4 DEF Version
  <1>6. secret' = secret \/ secret' = [secret EXCEPT ![u] = x]
    BY <1>1 DEF Activated
  <1> HIDE DEF seen
  <1>7. new \in Secret /\ new.status = seen.status
    BY <1>2, <1>4, <1>5 DEF Secret
  <1> HIDE DEF new
  <1>8. x \in Secret /\ x.status = secret[u].status
    BY <1>2, <1>7, MergeColumns
  <1> HIDE DEF x
  <1> QED  BY <1>2, <1>6, <1>8, MergedRow DEF Revives, Readable

LEMMA StatusInforms ==
  ASSUME IInv, NEW w \in Threads, ApplyStatus(w), NEW s \in Secrets, Revives(s)
  PROVE  Informed(s)
  <1>1. PICK u \in task[w].on :
          secret' = [secret EXCEPT ![u] =
            Merge(task[w].seen[u], [task[w].seen[u] EXCEPT !.status = task[w].to], @)]
    BY DEF ApplyStatus
  <1> DEFINE seen == task[w].seen[u]
             new == [seen EXCEPT !.status = task[w].to]
             x == Merge(seen, new, secret[u])
  <1>2. u \in Secrets /\ secret[u] \in Secret /\ seen \in Secret /\ Sound(task[w])
    BY Copy DEF IInv
  <1>3. task[w].to \in Status /\ task[w].job = "status"
    BY <1>2 DEF Sound, ApplyStatus, Ready
  <1>4. secret' = [secret EXCEPT ![u] = x]
    BY <1>1, <1>2
  <1> HIDE DEF seen
  <1>5. new \in Secret /\ new.status = task[w].to
    BY <1>2, <1>3 DEF Secret
  <1> HIDE DEF new
  <1>6. x.status = IF task[w].to # seen.status THEN task[w].to ELSE secret[u].status
    BY <1>2, <1>5, MergeColumns
  <1> HIDE DEF x
  <1>7. s = u /\ seen.status # "active"
    BY <1>2, <1>4, <1>6 DEF Revives, Readable, IInv, TypeOK
  <1>8. w \in Admins
    BY <1>3 DEF IInv, SchedulerRotates, Threads
  <1> QED  BY <1>3, <1>7, <1>8 DEF Informed, seen

LEMMA RotationInforms ==
  ASSUME IInv, NEW w \in Threads, ApplyRotation(w), NEW s \in Secrets, Revives(s)
  PROVE  Informed(s)
  <1>1. PICK failed : Rotate(task[w].on, task[w].seen, failed)
    BY DEF ApplyRotation, Revives, Readable
  <1>2. s \in task[w].on /\ s \notin failed
    <2>1. s \in task[w].on
      BY <1>1 DEF Rotate, Revives, Readable
    <2>2. ASSUME s \in failed PROVE FALSE
      <3>1. secret'[s] = RotationFailed(s, task[w].seen[s])
        BY <1>1, <2>1, <2>2 DEF Rotate
      <3>2. secret'[s].status \in {"rotation_failed", secret[s].status}
        BY <2>1, <3>1, Copy, FailedRow
      <3> QED  BY <3>2 DEF Revives, Readable
    <2> QED  BY <2>1, <2>2
  <1>3. secret'[s] = Rotated(s, task[w].seen[s])
    BY <1>1, <1>2 DEF Rotate
  <1>4. task[w].seen[s].status # "active"
    BY <1>2, <1>3, Copy, RotatedRow DEF Revives, Readable
  <1>5. task[w].job \in {"rotate", "due", "server"} /\ Sound(task[w])
    BY DEF ApplyRotation, Ready, IInv
  <1>6. task[w].job # "due"
    BY <1>2, <1>4, <1>5 DEF Sound
  <1>7. w \in Admins
    BY <1>5, <1>6 DEF IInv, SchedulerRotates, Threads
  <1> QED  BY <1>2, <1>4, <1>5, <1>6, <1>7 DEF Informed

LEMMA StepInforms ==
  ASSUME IInv, [Next]_vars, NEW s \in Secrets, Revives(s)
  PROVE  Informed(s)
  <1>1. ASSUME secret' = secret PROVE FALSE
    BY <1>1 DEF Revives, Readable
  <1>2. ASSUME NEW u \in Secrets, CreateSecret(u) \/ BecomesDue(u) \/ Assign(u) PROVE FALSE
    <2>1. \A v \in Secrets : v # u => secret'[v] = secret[v]
      BY <1>2 DEF CreateSecret, BecomesDue, Assign, IInv, TypeOK
    <2>2. CASE CreateSecret(u)
      BY <2>1, <2>2 DEF CreateSecret, Revives, Readable
    <2>3. CASE BecomesDue(u)
      <3>1. secret[u] \in Secret
        BY RowTypes DEF IInv
      <3>2. [secret[u] EXCEPT !.due = TRUE] \in Secret
            /\ [secret[u] EXCEPT !.due = TRUE].status = secret[u].status
        BY <3>1 DEF Secret
      <3> QED  BY <2>3, <3>2, MergedRow DEF BecomesDue
    <2> QED  BY <1>1, <1>2, <2>2, <2>3 DEF Assign
  <1>3. ASSUME NEW w \in Threads, Apply(w) PROVE Informed(s)
    <2>1. ~CreateHostKey(w)
      <3> SUFFICES ASSUME CreateHostKey(w) PROVE FALSE  OBVIOUS
      <3>1. secret' = secret \/ (secret[HostKey].status = "none"
              /\ \A v \in Secrets : v # HostKey => secret'[v] = secret[v])
        BY DEF CreateHostKey, IInv, TypeOK
      <3> QED  BY <3>1 DEF Revives, Readable
    <2>2. ~LoadVersion(w) /\ ~ListVersions(w) /\ ~ApplyRevokeVersion(w)
      BY <1>1 DEF LoadVersion, ListVersions, ApplyRevokeVersion
    <2> QED  BY <1>3, <2>1, <2>2, ValueRevivesNone, StatusInforms, ActivateRevivesNone,
                RotationInforms DEF Apply
  <1>4. ASSUME NEW w \in Admins, NEW u \in Secrets, Request(w, u) PROVE FALSE
    BY <1>1, <1>4 DEF Request, StartUpdate, StartStatus, StartActivate, StartRevokeVersion,
                     StartRotate, Start
  <1>5. ASSUME NEW w \in Admins, StartRotateServer(w) \/ StartRunDue(w) PROVE FALSE
    BY <1>1, <1>5 DEF StartRotateServer, StartRunDue, Start
  <1>6. ~Tick /\ ~UNCHANGED vars /\ \A w \in Threads : ~GiveUp(w)
    BY <1>1 DEF Tick, vars, GiveUp
  <1>7. ASSUME NEW c \in Callers, Flush(c) \/ Ssh(c) PROVE FALSE
    BY <1>1, <1>7, CallSteps DEF IInv
  <1> QED  BY <1>2, <1>3, <1>4, <1>5, <1>6, <1>7 DEF Next

(* No rotation of the scheduler and none that had loaded the secret while  *)
(* it was active brings back a secret that was disabled, deleted or failed *)
(* meanwhile: an UPDATE writes the columns it changed                      *)
(* (vault/rotation.py, scheduler.py).                                      *)
THEOREM RevivalIsSeen == Spec => NoQuietRevival
  <1>1. IInv /\ [Next]_vars =>
          [\A s \in Secrets :
             (secret[s].status # "none" /\ ~Readable(s) /\ Readable(s)') =>
               \E w \in Admins : /\ task[w].job \in {"rotate", "status", "server"}
                                 /\ s \in task[w].on
                                 /\ task[w].seen[s].status # "active"]_vars
    BY StepInforms DEF Revives, Informed
  <1> QED  BY <1>1, InitInvariant, NextKeeps, PTL DEF Spec, NoQuietRevival
=============================================================================
