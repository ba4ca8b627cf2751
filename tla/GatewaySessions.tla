-------------------------- MODULE GatewaySessions --------------------------
(***************************************************************************)
(* SSH sessions through the PAM gateway.                                   *)
(*                                                                         *)
(* The gateway is a process of its own with one event loop: its callbacks  *)
(* run one at a time.  The API's threads and the scheduler end sessions    *)
(* over the same SQLite file.  All of them end a connection the same way:  *)
(* they read it without a lock, take the checksum of its recording, and    *)
(* write the rows at a commit that does not look at them again, so the     *)
(* last commit wins.  Nobody but the client closes the SSH channel.        *)
(***************************************************************************)
EXTENDS Naturals, FiniteSets

CONSTANTS
  Workers,     \* API threads that revoke grants and terminate sessions
  Scheduler,   \* the APScheduler thread
  Gateway,     \* the gateway's event loop
  Clients,     \* SSH connections to the gateway
  Grants,      \* gateway grants, all active at the start
  Sessions,    \* bound: ids of the session rows a behaviour may insert
  Users, Hosts,
  Owner,       \* grant -> its user
  Target,      \* grant -> its server
  Strict,      \* servers whose group has terminate_sessions_on_membership_loss
  AutoRevoke,  \* the policy risk.auto_revoke is on
  MaxSessions, \* max_active_sessions of the server group
  Ageing,      \* bound: sessions that may get idle or too old
  MaxLines,    \* bound: lines a client sends in one session
  MaxFaults,   \* bound: crashes and lock timeouts
  None         \* no value

Threads == Workers \cup {Scheduler, Gateway}
ClientReasons == {"completed", "client_disconnect"}
AdminReasons  == {"manual_terminate", "bulk_admin_termination"}
Reasons == ClientReasons \cup AdminReasons \cup
           {"grant_revoked", "grant_expired", "idle_timeout", "max_session_time",
            "membership_removed"}

ASSUME GatewayParameters ==
  /\ Scheduler \notin Workers /\ Gateway \notin Workers /\ Gateway # Scheduler
  /\ None \notin Clients \cup Grants /\ None \notin Reasons /\ None \notin 0..MaxLines
  /\ Owner \in [Grants -> Users]
  /\ Target \in [Grants -> Hosts]
  /\ Strict \subseteq Hosts /\ AutoRevoke \in BOOLEAN /\ Ageing \subseteq Sessions
  /\ MaxSessions \in Nat /\ MaxLines \in Nat /\ MaxFaults \in Nat
  /\ None \notin [why : Reasons, seal : 0..MaxLines \cup {None}]

VARIABLES
  grant,    \* access_grants.status
  late,     \* grants whose valid_to has passed
  enabled,  \* servers that are enabled for the gateway
  login,    \* client -> context.grant_id, set when its key was accepted
  chan,     \* session -> the client whose channel is open, or None
  row,      \* sessions, gateway_connections and gateway_recordings rows
  lines,    \* session -> lines in its recording file
  idle,     \* sessions without input for idle_timeout_seconds
  long,     \* sessions older than max_session_seconds
  task,     \* what each thread has read and will write
  faults    \* disruptions so far

rights == <<grant, late, enabled>>
clock  == <<idle, long>>
vars   == <<rights, login, chan, row, lines, clock, task, faults>>

Status == {"unused", "active", "closed", "terminated"}
Size   == 0..MaxLines \cup {None}

(* One session: its grant, status and reason of the connection row and of  *)
(* the session row, and the size its recording's checksum was taken at.    *)
Row == [grant : Grants \cup {None}, conn : Status, why : Reasons \cup {None},
        sess : Status, sessWhy : Reasons \cup {None}, seal : Size]
Unused == [grant |-> None, conn |-> "unused", why |-> None,
           sess |-> "unused", sessWhy |-> None, seal |-> None]

(* What a thread will write about a session; without a seal it writes the  *)
(* session row only.                                                       *)
End  == [why : Reasons, seal : Size]
Plan == [Sessions -> End \cup {None}]
NoPlan == [s \in Sessions |-> None]
PCs  == {"idle", "query", "enforced", "expire", "commit"}
Task == [pc : PCs, todo : SUBSET Sessions, why : Reasons, plan : Plan, ends : SUBSET Grants]
IdleTask == [pc |-> "idle", todo |-> {}, why |-> "manual_terminate", plan |-> NoPlan, ends |-> {}]

TypeOK ==
  /\ grant \in [Grants -> {"active", "revoked", "expired"}]
  /\ late \subseteq Grants
  /\ enabled \subseteq Hosts
  /\ login \in [Clients -> Grants \cup {None}]
  /\ chan \in [Sessions -> Clients \cup {None}]
  /\ row \in [Sessions -> Row]
  /\ lines \in [Sessions -> 0..MaxLines]
  /\ idle \subseteq Sessions /\ long \subseteq Sessions
  /\ task \in [Threads -> Task]
  /\ faults \in 0..MaxFaults

Init ==
  /\ grant = [g \in Grants |-> "active"]
  /\ late = {} /\ enabled = Hosts
  /\ login = [c \in Clients |-> None]
  /\ chan = [s \in Sessions |-> None]
  /\ row = [s \in Sessions |-> Unused]
  /\ lines = [s \in Sessions |-> 0]
  /\ idle = {} /\ long = {}
  /\ task = [t \in Threads |-> IdleTask]
  /\ faults = 0
-----------------------------------------------------------------------------
(* Mutant: the reason is stored as the status. *)
OutcomeIsReason(why) == why

(* Status of a row that ends for a reason. *)
Outcome(why) == IF why = "completed" THEN "closed" ELSE "terminated"

(* Mutant: finishing forgets the session row. *)
EndedConnectionOnly(r, e) ==
  IF e.seal = None
  THEN [r EXCEPT !.sess = Outcome(e.why), !.sessWhy = e.why]
  ELSE [r EXCEPT !.conn = Outcome(e.why), !.why = e.why, !.seal = e.seal]

(* finish_gateway_connection's rows, or a session row without connection.  *)
Ended(r, e) ==
  IF e.seal = None
  THEN [r EXCEPT !.sess = Outcome(e.why), !.sessWhy = e.why]
  ELSE [r EXCEPT !.conn = Outcome(e.why), !.why = e.why, !.seal = e.seal,
                 !.sess = Outcome(e.why), !.sessWhy = e.why]

Written(plan) == [s \in Sessions |-> IF plan[s] = None THEN row[s] ELSE Ended(row[s], plan[s])]

Open == {s \in Sessions : row[s].conn = "active"}
Of(G) == {s \in Open : row[s].grant \in G}

(* Each connection of S is finished with the checksum of its file as it is. *)
Finishing(S, why) == [s \in Sessions |-> IF s \in S THEN [why |-> why, seal |-> lines[s]] ELSE None]

(* Loop free: a callback of the gateway runs until it returns. *)
LoopFree == task[Gateway].pc = "idle"

Busy(g) == {s \in Sessions : /\ row[s].sess = "active"
                             /\ Owner[row[s].grant] = Owner[g] /\ Target[row[s].grant] = Target[g]}

(* The grant that a login may use: active_gateway_grants. *)
Usable(g) ==
  /\ grant[g] = "active" /\ g \notin late
  /\ Target[g] \in enabled
  /\ Cardinality(Busy(g)) < MaxSessions
-----------------------------------------------------------------------------
(* validate_public_key: the grant is checked here and kept in the context. *)
Login(c, g) ==
  /\ LoopFree /\ login[c] = None /\ Usable(g)
  /\ login' = [login EXCEPT ![c] = g]
  /\ UNCHANGED <<rights, chan, row, lines, clock, task, faults>>

(* A channel of the client asks for a shell, and a task of the loop starts *)
(* the session: the grant is looked up again, its state is not.  A client  *)
(* may open several channels.  A channel that is lost before its task runs *)
(* finds no connection to finish, and its session starts without a client; *)
(* the slot of a login counts as taken until the tasks it asked for ran.   *)
StartSession(c, s) ==
  /\ LoopFree /\ login[c] # None /\ row[s].conn = "unused"
  /\ row' = [row EXCEPT ![s] = [Unused EXCEPT !.grant = login[c], !.conn = "active", !.sess = "active"]]
  /\ \E end \in {c, None} : chan' = [chan EXCEPT ![s] = end]
  /\ UNCHANGED <<rights, login, lines, clock, task, faults>>

(* data_received appends to the recording whatever the rows say.  The row  *)
(* is touched unless the commit times out on the lock.                     *)
Input(s) ==
  /\ LoopFree /\ chan[s] # None /\ lines[s] < MaxLines
  /\ lines' = [lines EXCEPT ![s] = @ + 1]
  /\ \/ idle' = idle \ {s} /\ UNCHANGED faults
     \/ faults < MaxFaults /\ faults' = faults + 1 /\ UNCHANGED idle
  /\ UNCHANGED <<rights, login, chan, row, long, task>>

(* The same with a command of critical risk and risk.auto_revoke set: the  *)
(* grant and its connections end in the transaction of the input.          *)
InputRevokes(s) ==
  LET g == row[s].grant
      now == [lines EXCEPT ![s] = @ + 1]
  IN /\ AutoRevoke /\ LoopFree /\ chan[s] # None /\ lines[s] < MaxLines /\ grant[g] = "active"
     /\ lines' = now
     /\ row' = [x \in Sessions |-> IF x \in Of({g})
                                   THEN Ended(row[x], [why |-> "grant_revoked", seal |-> now[x]])
                                   ELSE row[x]]
     /\ grant' = [grant EXCEPT ![g] = "revoked"]
     /\ idle' = idle \ {s}
     /\ UNCHANGED <<late, enabled, login, chan, long, task, faults>>

(* Mutant: the loop serves the channel until the rows are committed. *)
ChannelLostLate(s, why) ==
  /\ LoopFree /\ chan[s] # None
  /\ task' = IF s \in Open
             THEN [task EXCEPT ![Gateway] = [IdleTask EXCEPT !.pc = "commit", !.plan = Finishing({s}, why)]]
             ELSE task
  /\ UNCHANGED <<rights, login, chan, row, lines, clock, faults>>

(* connection_lost: the channel is gone; its connection, if it is read as  *)
(* active, will be finished for this reason.                               *)
ChannelLost(s, why) ==
  /\ LoopFree /\ chan[s] # None
  /\ chan' = [chan EXCEPT ![s] = None]
  /\ task' = IF s \in Open
             THEN [task EXCEPT ![Gateway] = [IdleTask EXCEPT !.pc = "commit", !.plan = Finishing({s}, why)]]
             ELSE task
  /\ UNCHANGED <<rights, login, row, lines, clock, faults>>

(* The TCP connection ends after its channels. *)
Disconnect(c) ==
  /\ LoopFree /\ login[c] # None /\ \A s \in Sessions : chan[s] # c
  /\ login' = [login EXCEPT ![c] = None]
  /\ UNCHANGED <<rights, chan, row, lines, clock, task, faults>>
-----------------------------------------------------------------------------
(* revoke: the grant is read as active, its connections are finished. *)
BeginRevoke(t, g) ==
  /\ task[t].pc = "idle" /\ grant[g] = "active"
  /\ task' = [task EXCEPT ![t] = [IdleTask EXCEPT !.pc = "commit", !.ends = {g},
                                    !.plan = Finishing(Of({g}), "grant_revoked")]]
  /\ UNCHANGED <<rights, login, chan, row, lines, clock, faults>>

(* terminate_connection: the connection row is read directly. *)
TerminateConnection(t, s) ==
  /\ task[t].pc = "idle" /\ s \in Open
  /\ task' = [task EXCEPT ![t] = [IdleTask EXCEPT !.pc = "commit",
                                    !.plan = Finishing({s}, "manual_terminate")]]
  /\ UNCHANGED <<rights, login, chan, row, lines, clock, faults>>

(* terminate_session and terminate_user_sessions read active session rows  *)
(* first and then, one query per session, the connection rows.             *)
BeginTerminate(t, S, why) ==
  /\ task[t].pc = "idle" /\ S # {}
  /\ task' = [task EXCEPT ![t] = [IdleTask EXCEPT !.pc = "query", !.todo = S, !.why = why]]
  /\ UNCHANGED <<rights, login, chan, row, lines, clock, faults>>

SessionsOf(u) == {s \in Sessions : row[s].sess = "active" /\ Owner[row[s].grant] = u}

QueryConnections(t) ==
  LET todo == task[t].todo
      plan == [s \in Sessions |->
                 IF s \notin todo THEN None
                 ELSE [why |-> task[t].why, seal |-> IF s \in Open THEN lines[s] ELSE None]]
  IN /\ task[t].pc = "query"
     /\ task' = [task EXCEPT ![t].pc = "commit", ![t].plan = plan, ![t].todo = {}]
     /\ UNCHANGED <<rights, login, chan, row, lines, clock, faults>>

(* remove_user, all of it under the lock of its first flush: the user's    *)
(* grants on the server are revoked with their connections, and then the   *)
(* session rows that are still active are ended without their connections. *)
LoseMembership(u, h) ==
  LET lost == {g \in Grants : Owner[g] = u /\ Target[g] = h}
      gone == {g \in lost : grant[g] = "active"}
      closed == Written(Finishing(Of(gone), "grant_revoked"))
      left == {s \in Sessions : closed[s].sess = "active" /\ closed[s].grant \in lost}
  IN /\ gone # {} \/ (h \in Strict /\ left # {})
     /\ grant' = [g \in Grants |-> IF g \in gone THEN "revoked" ELSE grant[g]]
     /\ row' = [s \in Sessions |->
                  IF h \in Strict /\ s \in left
                  THEN Ended(closed[s], [why |-> "membership_removed", seal |-> None])
                  ELSE closed[s]]
     /\ UNCHANGED <<late, enabled, login, chan, lines, clock, task, faults>>
-----------------------------------------------------------------------------
(* Mutant: only the time of the grant is compared. *)
VerdictByClock(s) ==
  CASE row[s].grant \in late -> "grant_expired"
    [] s \in idle -> "idle_timeout"
    [] s \in long -> "max_session_time"
    [] OTHER -> None

(* Mutant: a session with a live grant is ended by its age only. *)
VerdictByAge(s) ==
  CASE grant[row[s].grant] # "active" \/ row[s].grant \in late -> "grant_expired"
    [] s \in long -> "max_session_time"
    [] OTHER -> None

(* Why enforce_gateway_sessions ends an active connection, if it does. *)
Verdict(s) ==
  CASE grant[row[s].grant] # "active" \/ row[s].grant \in late -> "grant_expired"
    [] s \in idle -> "idle_timeout"
    [] s \in long -> "max_session_time"
    [] OTHER -> None

(* tick(): enforce_gateway_sessions, then expire_due_grants. *)
Enforce ==
  LET plan == [s \in Sessions |-> IF s \in Open /\ Verdict(s) # None
                                  THEN [why |-> Verdict(s), seal |-> lines[s]] ELSE None]
  IN /\ task[Scheduler].pc = "idle"
     /\ task' = [task EXCEPT ![Scheduler] = [IdleTask EXCEPT !.pc = "enforced", !.plan = plan]]
     /\ UNCHANGED <<rights, login, chan, row, lines, clock, faults>>

ExpireDue ==
  LET due == {g \in late : grant[g] = "active"}
  IN /\ task[Scheduler].pc = "expire"
     /\ task' = [task EXCEPT ![Scheduler] = [IdleTask EXCEPT !.pc = "commit", !.ends = due,
                                               !.plan = Finishing(Of(due), "grant_expired")]]
     /\ UNCHANGED <<rights, login, chan, row, lines, clock, faults>>

(* The commit writes what was planned, whatever the rows are by now. *)
Commit(t) ==
  /\ task[t].pc \in {"commit", "enforced"}
  /\ row' = Written(task[t].plan)
  /\ grant' = [g \in Grants |-> IF g \notin task[t].ends THEN grant[g]
                                ELSE IF t = Scheduler THEN "expired" ELSE "revoked"]
  /\ task' = [task EXCEPT ![t] = [IdleTask EXCEPT !.pc = IF task[t].pc = "enforced" THEN "expire" ELSE "idle"]]
  /\ UNCHANGED <<late, enabled, login, chan, lines, clock, faults>>
-----------------------------------------------------------------------------
(* The lock is not free within SQLite's timeout: nothing is written. *)
GiveUp(t) ==
  /\ task[t].pc # "idle" /\ faults < MaxFaults /\ faults' = faults + 1
  /\ task' = [task EXCEPT ![t] = IdleTask]
  /\ UNCHANGED <<rights, login, chan, row, lines, clock>>

(* The gateway process dies with its connections; nobody ends their rows. *)
GatewayCrash ==
  /\ faults < MaxFaults /\ faults' = faults + 1
  /\ chan' = [s \in Sessions |-> None]
  /\ login' = [c \in Clients |-> None]
  /\ task' = [task EXCEPT ![Gateway] = IdleTask]
  /\ UNCHANGED <<rights, row, lines, clock>>

(* The API process dies and is restarted: its handlers and tick are lost. *)
ApiCrash ==
  /\ faults < MaxFaults /\ faults' = faults + 1
  /\ task' = [t \in Threads |-> IF t = Gateway THEN task[t] ELSE IdleTask]
  /\ UNCHANGED <<rights, login, chan, row, lines, clock>>

(* The clock, and an administrator who takes a server off the gateway. *)
GrantRunsOut(g) ==
  /\ g \notin late /\ late' = late \cup {g}
  /\ UNCHANGED <<grant, enabled, login, chan, row, lines, clock, task, faults>>

IdlePasses(s) ==
  /\ s \in (Open \cap Ageing) \ idle /\ idle' = idle \cup {s}
  /\ UNCHANGED <<rights, login, chan, row, lines, long, task, faults>>

LongPasses(s) ==
  /\ s \in (Open \cap Ageing) \ long /\ long' = long \cup {s}
  /\ UNCHANGED <<rights, login, chan, row, lines, idle, task, faults>>

DisableServer(h) ==
  /\ h \in enabled /\ enabled' = enabled \ {h}
  /\ UNCHANGED <<grant, late, login, chan, row, lines, clock, task, faults>>
-----------------------------------------------------------------------------
Serve ==
  \/ \E c \in Clients : \/ Disconnect(c)
                        \/ \E g \in Grants : Login(c, g)
                        \/ \E s \in Sessions : StartSession(c, s)
  \/ \E s \in Sessions : \/ Input(s) \/ InputRevokes(s)
                         \/ \E why \in ClientReasons : ChannelLost(s, why)

Administer(t) ==
  \/ \E g \in Grants : BeginRevoke(t, g)
  \/ \E s \in Sessions : TerminateConnection(t, s)
  \/ \E s \in Sessions : row[s].sess = "active" /\ BeginTerminate(t, {s}, "manual_terminate")
  \/ \E u \in Users : BeginTerminate(t, SessionsOf(u), "bulk_admin_termination")

Tick == Enforce \/ ExpireDue \/ Commit(Scheduler)

Next ==
  \/ Serve
  \/ \E t \in Workers : Administer(t) \/ QueryConnections(t) \/ Commit(t)
  \/ Commit(Gateway) \/ Tick
  \/ \E u \in Users, h \in Hosts : LoseMembership(u, h)
  \/ \E t \in Threads : GiveUp(t)
  \/ GatewayCrash \/ ApiCrash
  \/ \E g \in Grants : GrantRunsOut(g)
  \/ \E s \in Sessions : IdlePasses(s) \/ LongPasses(s)
  \/ \E h \in Hosts : DisableServer(h)

Spec == Init /\ [][Next]_vars

(* APScheduler runs the tick, threads are scheduled, and time passes for a *)
(* session whose client is gone.  Nothing is assumed of people or clients. *)
FairSpec ==
  /\ Spec
  /\ WF_vars(Tick)
  /\ WF_vars(Commit(Gateway))
  /\ \A t \in Workers : WF_vars(QueryConnections(t) \/ Commit(t))
  /\ \A s \in Sessions : WF_vars(chan[s] = None /\ IdlePasses(s))
-----------------------------------------------------------------------------
(* A recording whose connection ended because the client left was sealed   *)
(* over every line of the file, although revocation, termination and the   *)
(* scheduler may commit an older seal for the same session.                *)
SealIsExact ==
  \A s \in Sessions : row[s].why \in ClientReasons => row[s].seal = lines[s]

(* The connection row and the session row are written by six paths.  The   *)
(* session is never open without its connection; a connection is open      *)
(* without its session only after a removed membership.                    *)
RowsAgree ==
  \A s \in Sessions :
    /\ row[s].sess = "active" => row[s].conn = "active"
    /\ row[s].conn = "active" /\ row[s].sess # "active" => row[s].sessWhy = "membership_removed"

(* A session that no usable grant covers is ended: it may have started     *)
(* after its grant was revoked, or between the revocation's query and its  *)
(* commit, and then no revocation will look at it again.                   *)
StraySessionsEnd ==
  \A s \in Sessions :
    (s \in Open /\ (grant[row[s].grant] # "active" \/ row[s].grant \in late)) ~> s \notin Open

(* A connection that lost its client, by a crash of the gateway, by a      *)
(* finish that could not be written, or before its session started, does   *)
(* not stay active for ever.                                               *)
OrphansEnd == \A s \in Sessions : (s \in Open /\ chan[s] = None) ~> s \notin Open
=============================================================================
