----------------------------- MODULE LogImport -----------------------------
(***************************************************************************)
(* The import of shell logs (session_monitor.py).  The hook that a grant   *)
(* installs makes every shell of the Linux account append to two files on  *)
(* the host; the scheduler, "Import logs" and the final import of a        *)
(* revocation copy the new part of both files into the tables sessions and *)
(* session_commands, remembering per grant how far they have read.         *)
(*                                                                         *)
(* An import runs in one transaction of its caller.  What it reads before  *)
(* its first flush it reads without a lock; from that flush on it holds    *)
(* SQLite's write lock.  db is what the lock holder sees, base is what is  *)
(* committed: they are equal while nobody holds the lock.                  *)
(***************************************************************************)
EXTENDS Naturals, Sequences, FiniteSets

CONSTANTS
  Grants,       \* direct grants
  Accounts,     \* Linux accounts on hosts
  Account,      \* grant -> the account its user logs in to
  Shells,       \* interactive shells: one session_id each
  Home,         \* shell -> the account it runs under
  Workers,      \* request threads
  Scheduler,    \* the thread of tick()
  None,         \* no value
  MaxRows,      \* bound: rows of sessions
  MaxLines,     \* bound: commands ever typed under one account
  MaxRequests,  \* bound: handlers started by requests
  MaxFaults,    \* bound: failed SSH calls, crashes, truncations of a command file
  Launched,     \* grants with a web session, whose row has no marker yet
  Kinds,        \* what the n-th command may be: plain, risky, critical
  RiskEngine,   \* policy risk.engine_enabled
  AutoRevoke    \* policy risk.auto_revoke

Paths == {"commands", "sessions"}
Threads == Workers \cup {Scheduler}
Rows == 1..MaxRows
Numbers == 1..(MaxLines + 2 * Cardinality(Shells))

ASSUME LogAssumption ==
  /\ Account \in [Grants -> Accounts] /\ Home \in [Shells -> Accounts]
  /\ Scheduler \notin Workers /\ None \notin Grants \cup Shells \cup Threads
  /\ IsFiniteSet(Shells)
  /\ {MaxRows, MaxLines, MaxRequests, MaxFaults} \subseteq Nat
  /\ Launched \subseteq Grants
  /\ Kinds \in [1..MaxLines -> SUBSET {"plain", "risky", "critical"}]
  /\ RiskEngine \in BOOLEAN /\ AutoRevoke \in BOOLEAN

VARIABLES
  log,     \* account -> path -> the file
  shell,   \* shell -> idle, open or ended
  keyed,   \* grants whose key is on the host
  db,      \* the tables as the holder of the write lock sees them
  base,    \* the tables as committed
  lock,    \* the holder of the write lock, or None
  task,    \* thread -> the handler it runs
  gapped,  \* ghost: grants some of whose lines no import could have read
  budget   \* what is left of the bounds on requests and faults

vars == <<log, shell, keyed, db, base, lock, task, gapped, budget>>
host == <<log, shell, keyed>>
-----------------------------------------------------------------------------
(* line holds every line ever written, so a line keeps its number; the     *)
(* file has those after cut, which truncating it moves.                    *)
Events == {"started", "finished"}
Line == [shell : Shells, kind : {"plain", "risky", "critical"} \cup Events]
File == [line : Seq(Line), cut : Nat]
EmptyFile == [line |-> << >>, cut |-> 0]

(* log_import_offsets: len is last_offset, in lines.  end is the number of *)
(* the line read last: last_hash could tell, but is never compared.        *)
NoOffset == [len |-> 0, end |-> 0]
Offset == [len : Nat, end : Nat]

(* sessions: shell is the marker session_id=<token>, None when it is NULL; *)
(* closed stands for every status of a session that is over.               *)
FreeRow == [grant |-> None, shell |-> None, status |-> "free"]
Row == [grant : Grants \cup {None}, shell : Shells \cup {None},
        status : {"free", "active", "closed"}]

Tables == [known  : SUBSET Grants,              \* grants with offset rows
           offset : [Grants -> [Paths -> Offset]],
           row    : [Rows -> Row],
           cmds   : SUBSET (Rows \X Numbers),   \* session_commands
           status : [Grants -> {"waiting", "active", "closed"}]]

(* A handler.  close: the import is the final one of a revocation.  outer: *)
(* the entries left in the imports that were interrupted by a revocation.  *)
(* live: the grant was active when the handler loaded it.  mark, stale:    *)
(* the offsets it will write, and the paths for which they differ from     *)
(* what it loaded.  adopt: the marker to write into the grant's first row. *)
(* reach is history: how many lines the command file had when the import   *)
(* (an interrupted one: the import inside it) fetched it.                  *)
Idle == [job |-> "idle", pc |-> "idle", grant |-> None, queue |-> {}, close |-> FALSE,
         outer |-> << >>, live |-> FALSE, got |-> [p \in Paths |-> EmptyFile],
         todo |-> {}, mark |-> [p \in Paths |-> NoOffset], stale |-> {},
         found |-> 0, adopt |-> None, reach |-> 0]

Init ==
  /\ log = [a \in Accounts |-> [p \in Paths |-> EmptyFile]]
  /\ shell = [s \in Shells |-> "idle"]
  /\ keyed = {}
  /\ db = [known |-> {}, offset |-> [g \in Grants |-> [p \in Paths |-> NoOffset]],
           row |-> [r \in Rows |-> FreeRow], cmds |-> {},
           status |-> [g \in Grants |-> "waiting"]]
  /\ base = db
  /\ lock = None
  /\ task = [t \in Threads |-> Idle]
  /\ gapped = {}
  /\ budget = [requests |-> MaxRequests, faults |-> MaxFaults]
-----------------------------------------------------------------------------
(* The write lock.  A reader without it sees what is committed.            *)
View(w) == IF lock = w THEN db ELSE base
Free(w) == lock \in {None, w}

FirstRow(d, g) ==
  LET mine == {r \in Rows : d.row[r].grant = g}
  IN IF mine = {} THEN 0 ELSE CHOOSE r \in mine : \A q \in mine : r <= q
NewRow(d) == CHOOSE r \in Rows : /\ d.row[r] = FreeRow
                                 /\ \A q \in 1..(r - 1) : d.row[q] # FreeRow
HasRoom(d) == \E r \in Rows : d.row[r] = FreeRow

(* A flush writes the attributes that were changed before it.              *)
Flushed(w) ==
  LET t == task[w]
      d == View(w)
      marked == [d EXCEPT !.offset[t.grant] =
                   [p \in Paths |-> IF p \in t.stale THEN t.mark[p] ELSE @[p]]]
  IN IF t.adopt = None THEN marked
     ELSE [marked EXCEPT !.row[FirstRow(d, t.grant)].shell = t.adopt]

Clean(t) == [t EXCEPT !.mark = Idle.mark, !.stale = {}, !.adopt = None]
Goto(w, t) == task' = [task EXCEPT ![w] = t]

(* An exception leaves the handler: its session is closed, which rolls     *)
(* back.  tick() has no handler of its own: the rest of the tick is lost.  *)
(* Mutant: what the failed handler had flushed stays in its session.       *)
AbortKeeps(w) ==
  /\ db' = db
  /\ lock' = IF lock = w THEN None ELSE lock
  /\ Goto(w, Idle)

Abort(w) ==
  /\ db' = IF lock = w THEN base ELSE db
  /\ lock' = IF lock = w THEN None ELSE lock
  /\ Goto(w, Idle)

(* An import of grant g begins: fetch_session_logs is next.                *)
Begin(t, g, close, live) ==
  [t EXCEPT !.pc = "commands", !.grant = g, !.close = close, !.live = live,
            !.outer = << >>, !.todo = {}]
-----------------------------------------------------------------------------
(* The shells.  The profile writes session_started when it is sourced, a   *)
(* command from PROMPT_COMMAND, session_finished from the EXIT trap.       *)
Log(s, p, k) ==
  log' = [log EXCEPT ![Home[s]][p].line = Append(@, [shell |-> s, kind |-> k])]

ShellStart(s) ==
  /\ shell[s] = "idle"
  /\ \E g \in keyed : Account[g] = Home[s]
  /\ shell' = [shell EXCEPT ![s] = "open"]
  /\ Log(s, "sessions", "started")
  /\ UNCHANGED <<keyed, db, base, lock, task, gapped, budget>>

ShellCommand(s, k) ==
  /\ shell[s] = "open"
  /\ Len(log[Home[s]]["commands"].line) < MaxLines
  /\ k \in Kinds[Len(log[Home[s]]["commands"].line) + 1]
  /\ Log(s, "commands", k)
  /\ UNCHANGED <<shell, keyed, db, base, lock, task, gapped, budget>>

ShellExit(s) ==
  /\ shell[s] = "open"
  /\ shell' = [shell EXCEPT ![s] = "ended"]
  /\ Log(s, "sessions", "finished")
  /\ UNCHANGED <<keyed, db, base, lock, task, gapped, budget>>

(* Somebody truncates the command file.                                    *)
Rotate(a) ==
  LET end == Len(log[a]["commands"].line) IN
  /\ budget.faults > 0
  /\ log[a]["commands"].cut < end
  /\ log' = [log EXCEPT ![a]["commands"].cut = end]
  /\ gapped' = gapped \cup {g \in Grants : /\ Account[g] = a
                                           /\ base.offset[g]["commands"].end < end}
  /\ budget' = [budget EXCEPT !.faults = @ - 1]
  /\ UNCHANGED <<shell, keyed, db, base, lock, task>>

(* A request is approved (GrantLifecycle).  With a web session of the      *)
(* grant, the first of its rows has no marker.                             *)
Open(g) ==
  LET d == [base EXCEPT !.status[g] = "active"] IN
  /\ lock = None /\ base.status[g] = "waiting"
  /\ IF g \in Launched
     THEN /\ HasRoom(base)
          /\ base' = [d EXCEPT !.row[NewRow(base)] =
                        [grant |-> g, shell |-> None, status |-> "active"]]
     ELSE base' = d
  /\ db' = base'
  /\ keyed' = keyed \cup {g}
  /\ UNCHANGED <<log, shell, lock, task, gapped, budget>>

(* The web session ends or its launch fails: protocol_sessions updates its *)
(* row, the grant's first, whether a shell has adopted it or not.          *)
LaunchEnds(g) ==
  LET web == FirstRow(base, g) IN
  /\ lock = None /\ g \in Launched
  /\ web # 0 /\ base.row[web].status = "active"
  /\ base' = [base EXCEPT !.row[web].status = "closed"]
  /\ db' = base'
  /\ UNCHANGED <<host, lock, task, gapped, budget>>
-----------------------------------------------------------------------------
(* The handlers.                                                           *)
StartImport(w, g) ==
  /\ task[w] = Idle /\ base.status[g] # "waiting" /\ budget.requests > 0
  /\ Goto(w, Begin([Idle EXCEPT !.job = "import"], g, FALSE, base.status[g] = "active"))
  /\ budget' = [budget EXCEPT !.requests = @ - 1]
  /\ UNCHANGED <<host, db, base, lock, gapped>>

StartRevoke(w, g) ==
  /\ task[w] = Idle /\ base.status[g] = "active" /\ budget.requests > 0
  /\ Goto(w, Begin([Idle EXCEPT !.job = "revoke"], g, TRUE, TRUE))
  /\ budget' = [budget EXCEPT !.requests = @ - 1]
  /\ UNCHANGED <<host, db, base, lock, gapped>>

StartTick ==
  /\ task[Scheduler] = Idle
  /\ Goto(Scheduler, [Idle EXCEPT !.job = "tick", !.pc = "next",
                        !.queue = {g \in Grants : base.status[g] = "active"}])
  /\ UNCHANGED <<host, db, base, lock, gapped, budget>>

(* The next grant of the tick; in its second half it revokes what is due.  *)
NextGrant(w) ==
  /\ task[w].pc = "next"
  /\ \E g \in task[w].queue :
       Goto(w, Begin([task[w] EXCEPT !.queue = @ \ {g}], g, task[w].job = "expire", TRUE))
  /\ UNCHANGED <<host, db, base, lock, gapped, budget>>

(* The request commits and ends; the tick commits and goes on to the       *)
(* grants whose valid_to has passed.                                       *)
Commit(w) ==
  /\ task[w].pc = "next" /\ task[w].queue = {}
  /\ base' = View(w)
  /\ lock' = IF lock = w THEN None ELSE lock
  /\ \E due \in SUBSET {g \in Grants : View(w).status[g] = "active"} :
       IF task[w].job = "tick" /\ due # {}
       THEN Goto(w, [Idle EXCEPT !.job = "expire", !.pc = "next", !.queue = due])
       ELSE Goto(w, Idle)
  /\ UNCHANGED <<host, db, gapped, budget>>

(* An SSH call fails, or a flush waits for the write lock for too long.    *)
Fault(w) ==
  /\ budget.faults > 0
  /\ \/ task[w].pc \in {"commands", "sessions"}
     \/ task[w].pc \in {"insert", "write", "finish"} /\ ~Free(w)
  /\ Abort(w)
  /\ budget' = [budget EXCEPT !.faults = @ - 1]
  /\ UNCHANGED <<host, base, gapped>>

Crash ==
  /\ budget.faults > 0
  /\ db' = base /\ lock' = None
  /\ task' = [t \in Threads |-> Idle]
  /\ budget' = [budget EXCEPT !.faults = @ - 1]
  /\ UNCHANGED <<host, base, gapped>>
-----------------------------------------------------------------------------
(* fetch_session_logs: one SSH command per file.                           *)
Fetch(w, p, next) ==
  /\ task[w].pc = p
  /\ Goto(w, [task[w] EXCEPT !.pc = next, !.got[p] = log[Account[task[w].grant]][p]])
  /\ UNCHANGED <<host, db, base, lock, gapped, budget>>

FetchCommands(w) == Fetch(w, "commands", "sessions")
FetchSessions(w) == Fetch(w, "sessions", "offsets")

(* _new_content for both files.  A stored offset beyond the end of the     *)
(* file means that it was truncated; one within it is taken as it is.      *)
Length(f) == Len(f.line) - f.cut
(* Mutant: an offset beyond the end of a truncated file is kept.           *)
FreshNoReset(f, off) == (f.cut + off.len + 1)..Len(f.line)

Fresh(f, off) ==
  LET from == IF off.len > Length(f) THEN 0 ELSE off.len
  IN (f.cut + from + 1)..Len(f.line)

Missed(f, off) == off.len <= Length(f) /\ f.cut + off.len # off.end

(* Mutant: the file is taken as longer than what was fetched.              *)
ReadLate(t, off) ==
  LET now == log[Account[t.grant]] IN
  [t EXCEPT !.pc = "look",
     !.got = Idle.got,
     !.reach = Len(t.got["commands"].line),
     !.todo = UNION {{p} \X Fresh(t.got[p], off[p]) : p \in Paths},
     !.mark = [p \in Paths |-> [len |-> Length(now[p]), end |-> Len(now[p].line)]],
     !.stale = {p \in Paths : off[p].len # Length(now[p])}]

Read(t, off) ==
  [t EXCEPT !.pc = "look",
     !.got = Idle.got,
     !.reach = Len(t.got["commands"].line),
     !.todo = UNION {{p} \X Fresh(t.got[p], off[p]) : p \in Paths},
     !.mark = [p \in Paths |-> [len |-> Length(t.got[p]), end |-> Len(t.got[p].line)]],
     !.stale = {p \in Paths : off[p].len # Length(t.got[p])}]

(* The import of a nested revocation comes after a flush, which wrote the  *)
(* offsets of the interrupted one: what its transaction sees.              *)
ReadOffsets(w) ==
  LET t == task[w]
      off == View(w).offset[t.grant]
  IN
  /\ t.pc = "offsets"
  /\ IF t.grant \in View(w).known
     THEN /\ Goto(w, Read(t, off))
          /\ gapped' = IF \E p \in Paths : Missed(t.got[p], off[p])
                       THEN gapped \cup {t.grant} ELSE gapped
     ELSE /\ Goto(w, [t EXCEPT !.pc = "insert"])
          /\ UNCHANGED gapped
  /\ UNCHANGED <<host, db, base, lock, budget>>

(* _offset_for found no row.  Another import may have inserted it since:   *)
(* the flush raises IntegrityError, which import_session_logs passes on.   *)
InsertOffsets(w) ==
  LET t == task[w] IN
  /\ t.pc = "insert" /\ Free(w)
  /\ IF t.grant \in db.known THEN Abort(w)
     ELSE /\ db' = [db EXCEPT !.known = @ \cup {t.grant}]
          /\ lock' = w
          /\ Goto(w, Read(t, [p \in Paths |-> NoOffset]))
  /\ UNCHANGED <<host, base, gapped, budget>>

(* The entries: events before commands, each in the order it was written.  *)
Entry(w) ==
  LET todo == task[w].todo
      p == IF \E e \in todo : e[1] = "sessions" THEN "sessions" ELSE "commands"
      n == CHOOSE n \in {e[2] : e \in {e \in todo : e[1] = p}} :
             \A e \in todo : e[1] = p => n <= e[2]
  IN [path |-> p, num |-> n, line |-> log[Account[task[w].grant]][p].line[n]]

(* The rows with the marker of a shell, else the grant's first row if it   *)
(* has no marker yet, else 0.  _find_or_create_session takes the least.    *)
(* For a command, sessions_by_token may still hold the row of an event of  *)
(* its shell: one of those with the marker, but not always the least, for  *)
(* two imports side by side can both create one.  After CommandTaken the   *)
(* object is loaded again and still has the marker: the import that        *)
(* inserted the command had committed the markers of the grant's rows.     *)
Marker(w, r) == IF task[w].adopt # None /\ r = FirstRow(View(w), task[w].grant)
                THEN task[w].adopt ELSE View(w).row[r].shell
Matching(w, s) ==
  LET d == View(w)
      marked == {r \in Rows : d.row[r].grant = task[w].grant /\ Marker(w, r) = s}
      first == FirstRow(d, task[w].grant)
  IN IF marked # {} THEN marked
     ELSE IF first # 0 /\ Marker(w, first) = None THEN {first} ELSE {0}

SessionsOf(w, e) ==
  LET found == Matching(w, e.line.shell)
  IN IF e.path = "commands" THEN found ELSE {r \in found : \A q \in found : r <= q}

Rest(w) == task[w].todo \ {<<Entry(w).path, Entry(w).num>>}

(* An entry for which row r was found.  A start whose row exists and a     *)
(* command that was imported before need no flush.                         *)
LookAt(w, r) ==
  LET t == task[w]
      e == Entry(w)
      done == \/ e.line.kind = "started" /\ r # 0
              \/ e.path = "commands" /\ <<r, e.num>> \in View(w).cmds
      seen == [t EXCEPT !.adopt = IF r # 0 /\ Marker(w, r) = None THEN e.line.shell ELSE @]
  IN IF done THEN Goto(w, [seen EXCEPT !.todo = Rest(w)])
     ELSE Goto(w, [seen EXCEPT !.pc = "write", !.found = r])

Look(w) ==
  /\ task[w].pc = "look"
  /\ IF task[w].todo = {} THEN Goto(w, [task[w] EXCEPT !.pc = "finish"])
     ELSE \E r \in SessionsOf(w, Entry(w)) : LookAt(w, r)
  /\ UNCHANGED <<host, db, base, lock, gapped, budget>>

(* Mutant: the end of a shell whose row exists is not recorded in it.      *)
WriteEventOpen(w) ==
  LET t == task[w]
      d == Flushed(w)
      r == IF t.found # 0 THEN t.found ELSE NewRow(d)
  IN
  /\ t.pc = "write" /\ Entry(w).path = "sessions" /\ Free(w)
  /\ t.found = 0 => HasRoom(d)
  /\ db' = [d EXCEPT !.row[r] =
              IF t.found # 0 THEN @
              ELSE [grant |-> t.grant, shell |-> Entry(w).line.shell, status |-> "active"]]
  /\ lock' = w
  /\ Goto(w, [Clean(t) EXCEPT !.pc = "look", !.found = 0, !.todo = Rest(w)])
  /\ UNCHANGED <<host, base, gapped, budget>>

WriteEvent(w) ==
  LET t == task[w]
      d == Flushed(w)
      r == IF t.found # 0 THEN t.found ELSE NewRow(d)
      kind == Entry(w).line.kind
  IN
  /\ t.pc = "write" /\ Entry(w).path = "sessions" /\ Free(w)
  /\ t.found = 0 => HasRoom(d)
  /\ db' = [d EXCEPT !.row[r] =
              [grant |-> t.grant,
               shell |-> IF t.found # 0 THEN @.shell ELSE Entry(w).line.shell,
               status |-> IF kind = "finished" THEN "closed" ELSE "active"]]
  /\ lock' = w
  /\ Goto(w, [Clean(t) EXCEPT !.pc = "look", !.found = 0, !.todo = Rest(w)])
  /\ UNCHANGED <<host, base, gapped, budget>>

(* A critical command revokes the grant: the import of that revocation     *)
(* runs before the rest of this one.                                       *)
AfterCommand(w) ==
  LET t == [task[w] EXCEPT !.found = 0, !.pc = "look", !.todo = Rest(w)]
  IN IF Entry(w).line.kind = "critical" /\ AutoRevoke /\ t.live
     THEN [t EXCEPT !.pc = "commands", !.outer = <<t.todo>> \o @, !.todo = {}]
     ELSE t

(* record_risk_event passes a keyword that RiskEvent does not have: with   *)
(* the risk engine on, a command above its threshold is a TypeError.       *)
Raises(kind) == RiskEngine /\ kind \in {"risky", "critical"}

WriteCommand(w) ==
  LET t == task[w]
      d == Flushed(w)
      r == IF t.found # 0 THEN t.found ELSE NewRow(d)
      e == Entry(w)
  IN
  /\ t.pc = "write" /\ e.path = "commands" /\ Free(w)
  /\ t.found = 0 => HasRoom(d)
  /\ <<r, e.num>> \notin db.cmds
  /\ IF Raises(e.line.kind) THEN Abort(w)
     ELSE /\ db' = [d EXCEPT !.cmds = @ \cup {<<r, e.num>>},
                       !.row[r] = IF t.found # 0 THEN @
                                  ELSE [grant |-> t.grant, shell |-> e.line.shell,
                                        status |-> "active"]]
          /\ lock' = w
          /\ Goto(w, Clean(AfterCommand(w)))
  /\ UNCHANGED <<host, base, gapped, budget>>

(* Another import inserted the command since _command_exists: the handler  *)
(* rolls back, which forgets the new offsets too, and goes on.             *)
CommandTaken(w) ==
  LET t == task[w]
      e == Entry(w)
  IN
  /\ t.pc = "write" /\ e.path = "commands" /\ Free(w)
  /\ t.found # 0 /\ <<t.found, e.num>> \in db.cmds
  /\ db' = base /\ lock' = None
  /\ Goto(w, [Clean(t) EXCEPT !.pc = "look", !.found = 0, !.todo = Rest(w),
                              !.live = base.status[t.grant] = "active"])
  /\ UNCHANGED <<host, base, gapped, budget>>

(* The audit entry of the import is flushed; a final import is followed by *)
(* the rest of revoke_grant.                                               *)
FinishImport(w) ==
  LET t == task[w] IN
  /\ t.pc = "finish" /\ Free(w)
  /\ db' = Flushed(w)
  /\ lock' = w
  /\ Goto(w, [Clean(t) EXCEPT !.pc = IF t.close \/ t.outer # << >> THEN "remove"
                                     ELSE "next"])
  /\ UNCHANGED <<host, base, gapped, budget>>

(* The host is changed, the grant closed; then the interrupted import goes *)
(* on, or the request commits, or the tick takes the next due grant.       *)
Remove(w) ==
  LET t == task[w] IN
  /\ t.pc = "remove"
  /\ keyed' = keyed \ {t.grant}
  /\ db' = [db EXCEPT !.status[t.grant] = "closed"]
  /\ Goto(w, IF t.outer # << >>
             THEN [t EXCEPT !.pc = "look", !.todo = Head(t.outer), !.outer = Tail(@),
                            !.live = FALSE]
             ELSE [t EXCEPT !.pc = "next"])
  /\ UNCHANGED <<log, shell, base, lock, gapped, budget>>

RemoveFails(w) ==
  /\ task[w].pc = "remove" /\ budget.faults > 0
  /\ \E gone \in SUBSET {task[w].grant} : keyed' = keyed \ gone
  /\ Abort(w)
  /\ budget' = [budget EXCEPT !.faults = @ - 1]
  /\ UNCHANGED <<log, shell, base, gapped>>
-----------------------------------------------------------------------------
Step(w) ==
  \/ NextGrant(w) \/ Commit(w) \/ FetchCommands(w) \/ FetchSessions(w)
  \/ ReadOffsets(w) \/ InsertOffsets(w) \/ Look(w) \/ WriteEvent(w)
  \/ WriteCommand(w) \/ CommandTaken(w) \/ FinishImport(w) \/ Remove(w)

Next ==
  \/ \E s \in Shells : \/ ShellStart(s) \/ ShellExit(s)
                       \/ \E k \in {"plain", "risky", "critical"} : ShellCommand(s, k)
  \/ \E a \in Accounts : Rotate(a)
  \/ \E g \in Grants : \/ Open(g) \/ LaunchEnds(g)
                       \/ \E w \in Workers : StartImport(w, g) \/ StartRevoke(w, g)
  \/ StartTick
  \/ \E w \in Threads : Step(w) \/ Fault(w) \/ RemoveFails(w)
  \/ Crash

Spec == Init /\ [][Next]_vars
-----------------------------------------------------------------------------
TypeOK ==
  /\ log \in [Accounts -> [Paths -> File]]
  /\ shell \in [Shells -> {"idle", "open", "ended"}]
  /\ keyed \subseteq Grants /\ gapped \subseteq Grants
  /\ db \in Tables /\ base \in Tables
  /\ lock \in Threads \cup {None}
  /\ lock = None => db = base
  /\ task \in [Threads ->
       [job : {"idle", "import", "revoke", "tick", "expire"},
        pc : {"idle", "next", "commands", "sessions", "offsets", "insert", "look",
              "write", "finish", "remove"},
        grant : Grants \cup {None}, queue : SUBSET Grants,
        close : BOOLEAN, outer : Seq(SUBSET (Paths \X Nat)), live : BOOLEAN,
        got : [Paths -> File], todo : SUBSET (Paths \X Nat),
        mark : [Paths -> Offset], stale : SUBSET Paths,
        found : Rows \cup {0}, adopt : Shells \cup {None}, reach : Nat]]
  /\ budget \in [requests : Nat, faults : Nat]

(* What an offset has passed is in the tables: whatever imports ran side   *)
(* by side, failed or were rolled back half way, a command before the      *)
(* committed offset of a grant is in session_commands under that grant,    *)
(* unless it was lost to a truncation before any import could read it.     *)
Imported(d, g, n) == \E r \in Rows : d.row[r].grant = g /\ <<r, n>> \in d.cmds

NothingSkipped ==
  \A g \in Grants \ gapped :
    \A n \in 1..base.offset[g]["commands"].end : Imported(base, g, n)

(* A revocation takes the access away only after every command its final   *)
(* import fetched is in the tables of its transaction (README.md, "import  *)
(* koncowy"), or, for a revocation inside another import, among the        *)
(* entries that import has still to write: whatever it read of offsets     *)
(* and rows while others committed, and although a command that another    *)
(* import inserted first makes it roll back and forget its new offsets.    *)
ClosingSawEverything ==
  \A w \in Threads : task[w].pc = "remove" =>
    \A g \in {task[w].grant} \ gapped :
      \A n \in 1..task[w].reach :
        \/ Imported(db, g, n)
        \/ \E i \in DOMAIN task[w].outer : <<"commands", n>> \in task[w].outer[i]

(* A shell whose end was imported has a closed row: an import that runs    *)
(* against another one does not leave it active.                           *)
FinishedIsClosed ==
  \A g \in Grants :
    \A n \in 1..base.offset[g]["sessions"].end :
      LET l == log[Account[g]]["sessions"].line[n] IN
      l.kind = "finished" =>
        \E r \in Rows : base.row[r] = [grant |-> g, shell |-> l.shell, status |-> "closed"]
=============================================================================
