----------------------- MODULE GatewaySessionsProofs -----------------------
(***************************************************************************)
(* Proofs about GatewaySessions, for any number of clients, grants,        *)
(* sessions and threads: types, the exact seal of recordings whose client  *)
(* left, and the agreement of the connection and session rows.             *)
(*                                                                         *)
(* Rows are written from what a thread read earlier, so what the           *)
(* inductive invariant adds is what a plan in a thread's memory still      *)
(* implies when it is committed: SealPlan and RowPlan.                     *)
(***************************************************************************)
EXTENDS GatewaySessions, TLAPS

Over == {"closed", "terminated"}

(* A plan k of thread t that was made because the client left belongs to   *)
(* the gateway, holds the file's size, and the channel writes no more.     *)
SealPlan(t, k, rows, channels, files) ==
  /\ k.why \notin ClientReasons
  /\ \A s \in Sessions :
       k.plan[s] # None /\ k.plan[s].why \in ClientReasons
         => /\ t = Gateway /\ k.plan[s].seal = files[s]
            /\ channels[s] = None /\ rows[s].conn # "unused"

(* A plan that leaves the connection alone was made for a connection that  *)
(* had ended, and such a connection stays ended.                           *)
RowPlan(k, rows) ==
  \A s \in Sessions :
    /\ s \in k.todo => rows[s].conn # "unused"
    /\ k.plan[s] # None /\ k.plan[s].seal = None => rows[s].conn \in Over

PlansHold ==
  \A t \in Threads : SealPlan(t, task[t], row, chan, lines) /\ RowPlan(task[t], row)

(* The seal is exact and stays so: the channel is gone for good. *)
SealedForGood ==
  \A s \in Sessions : row[s].why \in ClientReasons
    => row[s].seal = lines[s] /\ chan[s] = None /\ row[s].conn # "unused"

IInv == TypeOK /\ PlansHold /\ SealedForGood /\ RowsAgree
-----------------------------------------------------------------------------
LEMMA NoneIsNoEnd == \A e \in End : e # None
  BY GatewayParameters DEF End, Size

LEMMA EndedType == \A r \in Row, e \in End : Ended(r, e) \in Row
  <1> SUFFICES ASSUME NEW r \in Row, NEW e \in End PROVE Ended(r, e) \in Row
    OBVIOUS
  <1>1. e.why \in Reasons \cup {None} /\ e.seal \in Size /\ Outcome(e.why) \in Status
    BY DEF End, Outcome, Status
  <1>2. CASE e.seal = None
    BY <1>1, <1>2 DEF Ended, Row
  <1>3. CASE e.seal # None
    BY <1>1, <1>3 DEF Ended, Row
  <1> QED  BY <1>2, <1>3

LEMMA IdleTaskType == IdleTask \in Task
  BY DEF IdleTask, Task, PCs, NoPlan, Plan, Reasons, AdminReasons

LEMMA FinishingType ==
  ASSUME TypeOK, NEW S, NEW why \in Reasons PROVE Finishing(S, why) \in Plan
  BY DEF TypeOK, Finishing, Plan, End, Size

LEMMA WrittenType ==
  ASSUME TypeOK, NEW plan \in Plan PROVE Written(plan) \in [Sessions -> Row]
  BY EndedType DEF TypeOK, Written, Plan

(* A thread that makes a new plan, and nothing else. *)
LEMMA NewTaskType ==
  ASSUME TypeOK, NEW t \in Threads, NEW new \in Task, task' = [task EXCEPT ![t] = new],
         UNCHANGED <<rights, login, chan, row, lines, clock, faults>>
  PROVE  TypeOK'
  BY DEF TypeOK, rights, clock

LEMMA ReasonsAreReasons ==
  /\ ClientReasons \subseteq Reasons /\ AdminReasons \subseteq Reasons
  /\ {"grant_revoked", "grant_expired", "idle_timeout", "max_session_time",
      "membership_removed"} \subseteq Reasons
  BY DEF Reasons

LEMMA VerdictType == \A s \in Sessions : Verdict(s) \in {"grant_expired", "idle_timeout", "max_session_time", None}
  BY DEF Verdict

LEMMA TypeInit == Init => TypeOK
  BY IdleTaskType, GatewayParameters DEF Init, TypeOK, Unused, Row, Status, Size, Threads

LEMMA TypeServe == ASSUME TypeOK, Serve PROVE TypeOK'
  <1>1. ASSUME NEW c \in Clients, Disconnect(c) PROVE TypeOK'
    BY <1>1 DEF Disconnect, TypeOK, rights, clock
  <1>2. ASSUME NEW c \in Clients, NEW g \in Grants, Login(c, g) PROVE TypeOK'
    BY <1>2 DEF Login, TypeOK, rights, clock
  <1>3. ASSUME NEW c \in Clients, NEW s \in Sessions, StartSession(c, s) PROVE TypeOK'
    <2> DEFINE new == [Unused EXCEPT !.grant = login[c], !.conn = "active", !.sess = "active"]
    <2>1. new \in Row  BY DEF TypeOK, Unused, Row, Status, Size
    <2>2. row' = [row EXCEPT ![s] = new]  BY <1>3 DEF StartSession
    <2>3. chan' \in [Sessions -> Clients \cup {None}]  BY <1>3 DEF StartSession, TypeOK
    <2> HIDE DEF new
    <2> QED  BY <1>3, <2>1, <2>2, <2>3 DEF StartSession, TypeOK, rights, clock
  <1>4. ASSUME NEW s \in Sessions, Input(s) PROVE TypeOK'
    <2>1. lines' \in [Sessions -> 0..MaxLines] /\ idle' \subseteq Sessions /\ faults' \in 0..MaxFaults
      BY <1>4, GatewayParameters DEF Input, TypeOK
    <2> QED  BY <1>4, <2>1 DEF Input, TypeOK, rights
  <1>5. ASSUME NEW s \in Sessions, InputRevokes(s) PROVE TypeOK'
    <2>1. lines' \in [Sessions -> 0..MaxLines]
      BY <1>5, GatewayParameters DEF InputRevokes, TypeOK
    <2>2. \A x \in Sessions : [why |-> "grant_revoked", seal |-> lines'[x]] \in End
      BY <2>1, ReasonsAreReasons DEF End, Size
    <2>3. row' \in [Sessions -> Row]
      <3>1. \A x \in Sessions : Ended(row[x], [why |-> "grant_revoked", seal |-> lines'[x]]) \in Row
        BY <2>2, EndedType DEF TypeOK
      <3>2. row' = [x \in Sessions |-> IF x \in Of({row[s].grant})
                      THEN Ended(row[x], [why |-> "grant_revoked", seal |-> lines'[x]]) ELSE row[x]]
        BY <1>5 DEF InputRevokes
      <3> QED  BY <3>1, <3>2 DEF TypeOK
    <2>4. grant' \in [Grants -> {"active", "revoked", "expired"}]
      BY <1>5 DEF InputRevokes, TypeOK
    <2> QED  BY <1>5, <2>1, <2>3, <2>4 DEF InputRevokes, TypeOK
  <1>6. ASSUME NEW s \in Sessions, NEW why \in ClientReasons, ChannelLost(s, why) PROVE TypeOK'
    <2> DEFINE new == [IdleTask EXCEPT !.pc = "commit", !.plan = Finishing({s}, why)]
    <2>1. new \in Task
      BY IdleTaskType, FinishingType, ReasonsAreReasons DEF Task, PCs
    <2>2. task' = [task EXCEPT ![Gateway] = new] \/ task' = task
      BY <1>6 DEF ChannelLost
    <2>3. task' \in [Threads -> Task]
      <3> HIDE DEF new
      <3> QED  BY <2>1, <2>2 DEF TypeOK
    <2> QED  BY <1>6, <2>3 DEF ChannelLost, TypeOK, rights, clock
  <1> QED  BY <1>1, <1>2, <1>3, <1>4, <1>5, <1>6 DEF Serve

LEMMA TypeAdminister ==
  ASSUME TypeOK, NEW t \in Workers, Administer(t) PROVE TypeOK'
  <1>t. t \in Threads  BY DEF Threads
  <1>1. ASSUME NEW g \in Grants, BeginRevoke(t, g) PROVE TypeOK'
    <2>1. [IdleTask EXCEPT !.pc = "commit", !.ends = {g},
             !.plan = Finishing(Of({g}), "grant_revoked")] \in Task
      BY IdleTaskType, FinishingType, ReasonsAreReasons DEF Task, PCs
    <2> QED  BY <1>1, <1>t, <2>1, NewTaskType DEF BeginRevoke
  <1>2. ASSUME NEW s \in Sessions, TerminateConnection(t, s) PROVE TypeOK'
    <2>1. [IdleTask EXCEPT !.pc = "commit", !.plan = Finishing({s}, "manual_terminate")] \in Task
      BY IdleTaskType, FinishingType, ReasonsAreReasons DEF Task, PCs, AdminReasons
    <2> QED  BY <1>2, <1>t, <2>1, NewTaskType DEF TerminateConnection
  <1>3. ASSUME NEW S \in SUBSET Sessions, NEW why \in AdminReasons, BeginTerminate(t, S, why)
        PROVE TypeOK'
    <2>1. [IdleTask EXCEPT !.pc = "query", !.todo = S, !.why = why] \in Task
      BY IdleTaskType, ReasonsAreReasons DEF Task, PCs
    <2> QED  BY <1>3, <1>t, <2>1, NewTaskType DEF BeginTerminate
  <1>4. \A u \in Users : SessionsOf(u) \in SUBSET Sessions  BY DEF SessionsOf
  <1>5. \A s \in Sessions : {s} \in SUBSET Sessions  OBVIOUS
  <1>6. "manual_terminate" \in AdminReasons /\ "bulk_admin_termination" \in AdminReasons
    BY DEF AdminReasons
  <1> QED  BY <1>1, <1>2, <1>3, <1>4, <1>5, <1>6 DEF Administer

LEMMA TypeQuery ==
  ASSUME TypeOK, NEW t \in Threads, QueryConnections(t) PROVE TypeOK'
  <1> DEFINE plan == [s \in Sessions |->
                 IF s \notin task[t].todo THEN None
                 ELSE [why |-> task[t].why, seal |-> IF s \in Open THEN lines[s] ELSE None]]
             new == [task[t] EXCEPT !.pc = "commit", !.plan = plan, !.todo = {}]
  <1>1. task[t] \in Task /\ task[t].why \in Reasons  BY DEF TypeOK, Task
  <1>2. plan \in Plan
    <2>1. \A s \in Sessions : (IF s \in Open THEN lines[s] ELSE None) \in Size  BY DEF TypeOK, Size
    <2> QED  BY <1>1, <2>1 DEF Plan, End
  <1>3. new \in Task
    <2> HIDE DEF plan
    <2> QED  BY <1>1, <1>2 DEF Task, PCs
  <1>4. task' = [task EXCEPT ![t] = new]  BY DEF QueryConnections, TypeOK
  <1>5. UNCHANGED <<rights, login, chan, row, lines, clock, faults>>  BY DEF QueryConnections
  <1> HIDE DEF new
  <1> QED  BY <1>3, <1>4, <1>5, NewTaskType

LEMMA TypeCommit ==
  ASSUME TypeOK, NEW t \in Threads, Commit(t) PROVE TypeOK'
  <1>1. task[t].plan \in Plan  BY DEF TypeOK, Task
  <1>2. row' \in [Sessions -> Row]  BY <1>1, WrittenType DEF Commit
  <1>3. grant' \in [Grants -> {"active", "revoked", "expired"}]  BY DEF Commit, TypeOK
  <1> DEFINE next == IF task[t].pc = "enforced" THEN "expire" ELSE "idle"
  <1>4. next \in PCs  BY DEF PCs
  <1>5. [IdleTask EXCEPT !.pc = next] \in Task
    <2> HIDE DEF next
    <2> QED  BY <1>4, IdleTaskType DEF Task
  <1>6. task' \in [Threads -> Task]  BY <1>5 DEF Commit, TypeOK
  <1> QED  BY <1>2, <1>3, <1>6 DEF Commit, TypeOK, clock

LEMMA TypeTick == ASSUME TypeOK, Tick PROVE TypeOK'
  <1>t. Scheduler \in Threads  BY DEF Threads
  <1>1. CASE Enforce
    <2> DEFINE plan == [s \in Sessions |-> IF s \in Open /\ Verdict(s) # None
                          THEN [why |-> Verdict(s), seal |-> lines[s]] ELSE None]
               new == [IdleTask EXCEPT !.pc = "enforced", !.plan = plan]
    <2>1. plan \in Plan
      <3>1. \A s \in Sessions : Verdict(s) # None => Verdict(s) \in Reasons
        BY VerdictType, ReasonsAreReasons
      <3>2. \A s \in Sessions : lines[s] \in Size  BY DEF TypeOK, Size
      <3> QED  BY <3>1, <3>2 DEF Plan, End
    <2>2. new \in Task
      <3> HIDE DEF plan
      <3> QED  BY <2>1, IdleTaskType DEF Task, PCs
    <2>3. task' = [task EXCEPT ![Scheduler] = new]  BY <1>1 DEF Enforce
    <2>4. UNCHANGED <<rights, login, chan, row, lines, clock, faults>>  BY <1>1 DEF Enforce
    <2> HIDE DEF new
    <2> QED  BY <1>t, <2>2, <2>3, <2>4, NewTaskType
  <1>2. CASE ExpireDue
    <2> DEFINE due == {g \in late : grant[g] = "active"}
    <2>1. due \subseteq Grants  BY DEF TypeOK
    <2>2. [IdleTask EXCEPT !.pc = "commit", !.ends = due, !.plan = Finishing(Of(due), "grant_expired")] \in Task
      BY <2>1, IdleTaskType, FinishingType, ReasonsAreReasons DEF Task, PCs
    <2> QED  BY <1>2, <1>t, <2>2, NewTaskType DEF ExpireDue
  <1>3. CASE Commit(Scheduler)  BY <1>3, <1>t, TypeCommit
  <1> QED  BY <1>1, <1>2, <1>3 DEF Tick

LEMMA TypeLoseMembership ==
  ASSUME TypeOK, NEW u \in Users, NEW h \in Hosts, LoseMembership(u, h) PROVE TypeOK'
  <1> DEFINE lost == {g \in Grants : Owner[g] = u /\ Target[g] = h}
             gone == {g \in lost : grant[g] = "active"}
             closed == Written(Finishing(Of(gone), "grant_revoked"))
             left == {s \in Sessions : closed[s].sess = "active" /\ closed[s].grant \in lost}
             removed == [why |-> "membership_removed", seal |-> None]
  <1>1. closed \in [Sessions -> Row]  BY WrittenType, FinishingType, ReasonsAreReasons
  <1>2. removed \in End  BY ReasonsAreReasons DEF End, Size
  <1>3. row' = [s \in Sessions |-> IF h \in Strict /\ s \in left THEN Ended(closed[s], removed) ELSE closed[s]]
    BY DEF LoseMembership
  <1>4. row' \in [Sessions -> Row]
    <2> HIDE DEF closed, removed, left
    <2> QED  BY <1>1, <1>2, <1>3, EndedType
  <1>5. grant' \in [Grants -> {"active", "revoked", "expired"}]  BY DEF LoseMembership, TypeOK
  <1> QED  BY <1>4, <1>5 DEF LoseMembership, TypeOK, clock

LEMMA TypeWorld ==
  ASSUME TypeOK,
         \/ \E t \in Threads : GiveUp(t)
         \/ GatewayCrash \/ ApiCrash
         \/ \E g \in Grants : GrantRunsOut(g)
         \/ \E s \in Sessions : IdlePasses(s) \/ LongPasses(s)
         \/ \E h \in Hosts : DisableServer(h)
  PROVE  TypeOK'
  <1>f. ASSUME faults < MaxFaults, faults' = faults + 1 PROVE faults' \in 0..MaxFaults
    BY <1>f, GatewayParameters DEF TypeOK
  <1>1. ASSUME NEW t \in Threads, GiveUp(t) PROVE TypeOK'
    BY <1>1, <1>f, IdleTaskType DEF GiveUp, TypeOK, rights, clock
  <1>2. CASE GatewayCrash
    BY <1>2, <1>f, IdleTaskType DEF GatewayCrash, TypeOK, rights, clock
  <1>3. CASE ApiCrash
    BY <1>3, <1>f, IdleTaskType DEF ApiCrash, TypeOK, rights, clock
  <1>4. ASSUME NEW g \in Grants, GrantRunsOut(g) PROVE TypeOK'
    BY <1>4 DEF GrantRunsOut, TypeOK, clock
  <1>5. ASSUME NEW s \in Sessions, IdlePasses(s) \/ LongPasses(s) PROVE TypeOK'
    BY <1>5 DEF IdlePasses, LongPasses, TypeOK, rights
  <1>6. ASSUME NEW h \in Hosts, DisableServer(h) PROVE TypeOK'
    BY <1>6 DEF DisableServer, TypeOK, clock
  <1> QED  BY <1>1, <1>2, <1>3, <1>4, <1>5, <1>6

LEMMA TypeNext == TypeOK /\ [Next]_vars => TypeOK'
  <1> SUFFICES ASSUME TypeOK, [Next]_vars PROVE TypeOK'  OBVIOUS
  <1>1. CASE UNCHANGED vars  BY <1>1 DEF TypeOK, vars, rights, clock
  <1>2. CASE Serve  BY <1>2, TypeServe
  <1>3. ASSUME NEW t \in Workers, Administer(t) \/ QueryConnections(t) \/ Commit(t) PROVE TypeOK'
    BY <1>3, TypeAdminister, TypeQuery, TypeCommit DEF Threads
  <1>4. CASE Commit(Gateway)  BY <1>4, TypeCommit DEF Threads
  <1>5. CASE Tick  BY <1>5, TypeTick
  <1>6. ASSUME NEW u \in Users, NEW h \in Hosts, LoseMembership(u, h) PROVE TypeOK'
    BY <1>6, TypeLoseMembership
  <1> QED  BY <1>1, <1>2, <1>3, <1>4, <1>5, <1>6, TypeWorld DEF Next

(* Every variable keeps its type, in every behaviour of the gateway, the   *)
(* API's threads and the scheduler.                                        *)
THEOREM GatewayTypeCorrect == Spec => []TypeOK
  BY TypeInit, TypeNext, PTL DEF Spec
-----------------------------------------------------------------------------
(* What every step does to the rows, files and plans. *)
Forward == \A s \in Sessions : /\ row[s].conn # "unused" => row'[s].conn # "unused"
                               /\ row[s].conn \in Over => row'[s].conn \in Over
Quiet   == \A s \in Sessions : row[s].conn # "unused" /\ chan[s] = None
                                 => lines'[s] = lines[s] /\ chan'[s] = None
Exact   == \A s \in Sessions : row'[s].why \in ClientReasons
             => \/ row'[s].why = row[s].why /\ row'[s].seal = row[s].seal
                \/ row'[s].seal = lines[s] /\ chan[s] = None /\ row[s].conn # "unused"
Planned == \A t \in Threads :
             \/ task'[t] = task[t]
             \/ /\ SealPlan(t, task'[t], row', chan', lines')
                /\ RowPlan(task'[t], row')

LEMMA StepKeeps ==
  ASSUME IInv, TypeOK', Forward, Quiet, Exact, Planned, RowsAgree' PROVE IInv'
  <1>1. PlansHold'
    <2> SUFFICES ASSUME NEW t \in Threads
                 PROVE SealPlan(t, task'[t], row', chan', lines') /\ RowPlan(task'[t], row')
      BY DEF PlansHold
    <2>1. SealPlan(t, task[t], row, chan, lines) /\ RowPlan(task[t], row)  BY DEF IInv, PlansHold
    <2>2. CASE task'[t] = task[t]
      <3>1. SealPlan(t, task[t], row', chan', lines')
        BY <2>1 DEF SealPlan, Forward, Quiet
      <3>2. RowPlan(task[t], row')  BY <2>1 DEF RowPlan, Forward
      <3> QED  BY <2>2, <3>1, <3>2
    <2> QED  BY <2>2 DEF Planned
  <1>2. SealedForGood'  BY DEF IInv, SealedForGood, Exact, Forward, Quiet
  <1> QED  BY <1>1, <1>2 DEF IInv

LEMMA EndedForm ==
  \A r \in Row, e \in End :
    /\ Ended(r, e).sess \in Over /\ Ended(r, e).sessWhy = e.why
    /\ e.seal = None => /\ Ended(r, e).conn = r.conn /\ Ended(r, e).why = r.why
                        /\ Ended(r, e).seal = r.seal
    /\ e.seal # None => /\ Ended(r, e).conn \in Over /\ Ended(r, e).why = e.why
                        /\ Ended(r, e).seal = e.seal
  BY DEF Ended, Row, End, Outcome, Over

EmptyTask(k) == k.plan = NoPlan /\ k.todo = {} /\ k.why \notin ClientReasons

LEMMA EmptyPlan ==
  \A t, k, rows, channels, files :
    EmptyTask(k) => SealPlan(t, k, rows, channels, files) /\ RowPlan(k, rows)
  BY DEF EmptyTask, SealPlan, RowPlan, NoPlan

LEMMA IdleTaskEmpty == EmptyTask(IdleTask) /\ \A pc : EmptyTask([IdleTask EXCEPT !.pc = pc])
  BY DEF EmptyTask, IdleTask, ClientReasons

LEMMA SameRows ==
  ASSUME IInv, UNCHANGED row PROVE Forward /\ Exact /\ RowsAgree'
  BY DEF Forward, Exact, RowsAgree, IInv

(* A thread makes a new plan; rows, channels and files stay. *)
LEMMA NewPlan ==
  ASSUME IInv, TypeOK', NEW t \in Threads, NEW new, task' = [task EXCEPT ![t] = new],
         SealPlan(t, new, row, chan, lines), RowPlan(new, row),
         UNCHANGED <<row, chan, lines>>
  PROVE  IInv'
  <1>1. Forward /\ Exact /\ RowsAgree'  BY SameRows
  <1>2. Quiet  BY DEF Quiet
  <1>3. Planned  BY DEF Planned, IInv, TypeOK
  <1> QED  BY <1>1, <1>2, <1>3, StepKeeps

LEMMA LinesAreSizes == ASSUME TypeOK PROVE \A s \in Sessions : lines[s] # None
  <1>1. \A s \in Sessions : lines[s] \in 0..MaxLines  BY DEF TypeOK
  <1>2. None \notin 0..MaxLines  BY GatewayParameters
  <1> QED  BY <1>1, <1>2

(* A plan that finishes open connections for a reason of the PAM side. *)
LEMMA FinishingPlan ==
  ASSUME TypeOK, NEW S, NEW why, why \notin ClientReasons, NEW t, NEW new,
         new.plan = Finishing(S, why), new.todo = {}, new.why \notin ClientReasons
  PROVE  SealPlan(t, new, row, chan, lines) /\ RowPlan(new, row)
  <1>1. \A s \in Sessions : new.plan[s] # None
          => new.plan[s].why = why /\ new.plan[s].seal = lines[s]
    BY DEF Finishing
  <1>2. \A s \in Sessions : lines[s] # None  BY LinesAreSizes
  <1>3. SealPlan(t, new, row, chan, lines)  BY <1>1 DEF SealPlan
  <1>4. RowPlan(new, row)  BY <1>1, <1>2 DEF RowPlan
  <1> QED  BY <1>3, <1>4

LEMMA NotClient ==
  /\ "manual_terminate" \notin ClientReasons /\ "grant_revoked" \notin ClientReasons
  /\ "grant_expired" \notin ClientReasons /\ "membership_removed" \notin ClientReasons
  /\ "idle_timeout" \notin ClientReasons /\ "max_session_time" \notin ClientReasons
  /\ AdminReasons \cap ClientReasons = {}
  BY DEF ClientReasons, AdminReasons

LEMMA InvAdminister ==
  ASSUME IInv, TypeOK', NEW t \in Workers, Administer(t) PROVE IInv'
  <1>t. t \in Threads /\ TypeOK  BY DEF Threads, IInv
  <1>1. ASSUME NEW g \in Grants, BeginRevoke(t, g) PROVE IInv'
    <2> DEFINE new == [IdleTask EXCEPT !.pc = "commit", !.ends = {g},
                         !.plan = Finishing(Of({g}), "grant_revoked")]
    <2>1. new.plan = Finishing(Of({g}), "grant_revoked") /\ new.todo = {} /\ new.why = "manual_terminate"
      BY DEF IdleTask
    <2>2. task' = [task EXCEPT ![t] = new] /\ UNCHANGED <<row, chan, lines>>
      BY <1>1 DEF BeginRevoke
    <2> HIDE DEF new
    <2>3. SealPlan(t, new, row, chan, lines) /\ RowPlan(new, row)
      BY <1>t, <2>1, FinishingPlan, NotClient
    <2> QED  BY <1>t, <2>2, <2>3, NewPlan
  <1>2. ASSUME NEW s \in Sessions, TerminateConnection(t, s) PROVE IInv'
    <2> DEFINE new == [IdleTask EXCEPT !.pc = "commit", !.plan = Finishing({s}, "manual_terminate")]
    <2>1. new.plan = Finishing({s}, "manual_terminate") /\ new.todo = {} /\ new.why = "manual_terminate"
      BY DEF IdleTask
    <2>2. task' = [task EXCEPT ![t] = new] /\ UNCHANGED <<row, chan, lines>>
      BY <1>2 DEF TerminateConnection
    <2> HIDE DEF new
    <2>3. SealPlan(t, new, row, chan, lines) /\ RowPlan(new, row)
      BY <1>t, <2>1, FinishingPlan, NotClient
    <2> QED  BY <1>t, <2>2, <2>3, NewPlan
  <1>3. ASSUME NEW S \in SUBSET Sessions, NEW why \in AdminReasons, BeginTerminate(t, S, why),
               \A s \in S : row[s].sess = "active"
        PROVE IInv'
    <2> DEFINE new == [IdleTask EXCEPT !.pc = "query", !.todo = S, !.why = why]
    <2>1. new.plan = NoPlan /\ new.todo = S /\ new.why = why  BY DEF IdleTask
    <2>2. task' = [task EXCEPT ![t] = new] /\ UNCHANGED <<row, chan, lines>>
      BY <1>3 DEF BeginTerminate
    <2>3. \A s \in S : row[s].conn # "unused"  BY <1>3 DEF IInv, RowsAgree
    <2> HIDE DEF new
    <2>4. SealPlan(t, new, row, chan, lines) /\ RowPlan(new, row)
      BY <2>1, <2>3, NotClient DEF SealPlan, RowPlan, NoPlan
    <2> QED  BY <1>t, <2>2, <2>4, NewPlan
  <1>4. \A u \in Users : /\ SessionsOf(u) \in SUBSET Sessions
                         /\ \A s \in SessionsOf(u) : row[s].sess = "active"
    BY DEF SessionsOf
  <1>5. \A s \in Sessions : {s} \in SUBSET Sessions  OBVIOUS
  <1>6. "manual_terminate" \in AdminReasons /\ "bulk_admin_termination" \in AdminReasons
    BY DEF AdminReasons
  <1> QED  BY <1>1, <1>2, <1>3, <1>4, <1>5, <1>6 DEF Administer

LEMMA InvQuery ==
  ASSUME IInv, TypeOK', NEW t \in Threads, QueryConnections(t) PROVE IInv'
  <1> DEFINE plan == [s \in Sessions |->
                 IF s \notin task[t].todo THEN None
                 ELSE [why |-> task[t].why, seal |-> IF s \in Open THEN lines[s] ELSE None]]
             new == [task[t] EXCEPT !.pc = "commit", !.plan = plan, !.todo = {}]
  <1>1. task[t] \in Task /\ SealPlan(t, task[t], row, chan, lines) /\ RowPlan(task[t], row)
    BY DEF IInv, TypeOK, PlansHold
  <1>2. new.plan = plan /\ new.todo = {} /\ new.why = task[t].why  BY <1>1 DEF Task
  <1>3. \A s \in Sessions : plan[s] # None =>
          /\ plan[s].why = task[t].why /\ row[s].conn # "unused"
          /\ plan[s].seal = None => s \notin Open
    <2>1. \A s \in Sessions : lines[s] # None  BY LinesAreSizes DEF IInv
    <2> QED  BY <1>1, <2>1 DEF RowPlan
  <1>4. \A s \in Sessions : row[s].conn # "unused" /\ s \notin Open => row[s].conn \in Over
    BY DEF IInv, TypeOK, Row, Status, Open, Over
  <1>5. task' = [task EXCEPT ![t] = new] /\ UNCHANGED <<row, chan, lines>>
    BY DEF QueryConnections, IInv, TypeOK
  <1> HIDE DEF plan, new
  <1>6. task[t].why \notin ClientReasons  BY <1>1 DEF SealPlan
  <1>7. SealPlan(t, new, row, chan, lines)  BY <1>2, <1>3, <1>6 DEF SealPlan
  <1>8. RowPlan(new, row)  BY <1>2, <1>3, <1>4 DEF RowPlan
  <1> QED  BY <1>5, <1>7, <1>8, NewPlan

(* The rows a plan writes. *)
LEMMA WrittenForm ==
  ASSUME TypeOK, NEW plan \in Plan, NEW s \in Sessions
  PROVE  LET w == Written(plan)[s] IN
         /\ plan[s] = None => w = row[s]
         /\ plan[s] # None => w.sess \in Over /\ w.sessWhy = plan[s].why
         /\ plan[s] # None /\ plan[s].seal = None
              => w.conn = row[s].conn /\ w.why = row[s].why /\ w.seal = row[s].seal
         /\ plan[s] # None /\ plan[s].seal # None
              => w.conn \in Over /\ w.why = plan[s].why /\ w.seal = plan[s].seal
  <1>1. row[s] \in Row /\ (plan[s] # None => plan[s] \in End)  BY DEF TypeOK, Plan
  <1>2. Written(plan)[s] = IF plan[s] = None THEN row[s] ELSE Ended(row[s], plan[s])
    BY DEF Written
  <1> QED  BY <1>1, <1>2, EndedForm

LEMMA InvCommit ==
  ASSUME IInv, TypeOK', NEW t \in Threads, Commit(t) PROVE IInv'
  <1> DEFINE plan == task[t].plan
  <1>1. plan \in Plan /\ SealPlan(t, task[t], row, chan, lines) /\ RowPlan(task[t], row)
    BY DEF IInv, TypeOK, Task, PlansHold
  <1>2. row' = Written(plan) /\ UNCHANGED <<chan, lines>>  BY DEF Commit
  <1>3. \A s \in Sessions :
          /\ plan[s] = None => row'[s] = row[s]
          /\ plan[s] # None => row'[s].sess \in Over /\ row'[s].sessWhy = plan[s].why
          /\ plan[s] # None /\ plan[s].seal = None
               => /\ row'[s].conn = row[s].conn /\ row'[s].why = row[s].why
                  /\ row'[s].seal = row[s].seal /\ row[s].conn \in Over
          /\ plan[s] # None /\ plan[s].seal # None
               => row'[s].conn \in Over /\ row'[s].why = plan[s].why /\ row'[s].seal = plan[s].seal
    <2>1. TypeOK  BY DEF IInv
    <2>2. \A s \in Sessions : plan[s] # None /\ plan[s].seal = None => row[s].conn \in Over
      BY <1>1 DEF RowPlan
    <2> HIDE DEF plan
    <2> QED  BY <1>1, <1>2, <2>1, <2>2, WrittenForm
  <1>4. \A s \in Sessions : plan[s] # None /\ plan[s].why \in ClientReasons
          => plan[s].seal = lines[s] /\ chan[s] = None /\ row[s].conn # "unused"
    BY <1>1 DEF SealPlan
  <1>5. \A x \in Threads : task'[x] = task[x] \/ EmptyTask(task'[x])
    BY IdleTaskEmpty DEF Commit, IInv, TypeOK
  <1>6. Planned  BY <1>5, EmptyPlan DEF Planned
  <1> HIDE DEF plan
  <1>7. Forward  BY <1>3 DEF Forward, Over
  <1>8. Quiet  BY <1>2 DEF Quiet
  <1>9. Exact  BY <1>3, <1>4 DEF Exact
  <1>10. RowsAgree'  BY <1>3 DEF RowsAgree, IInv, Over
  <1> QED  BY <1>6, <1>7, <1>8, <1>9, <1>10, StepKeeps

LEMMA InvTick == ASSUME IInv, TypeOK', Tick PROVE IInv'
  <1>t. Scheduler \in Threads /\ TypeOK  BY DEF Threads, IInv
  <1>1. CASE Enforce
    <2> DEFINE plan == [s \in Sessions |-> IF s \in Open /\ Verdict(s) # None
                          THEN [why |-> Verdict(s), seal |-> lines[s]] ELSE None]
               new == [IdleTask EXCEPT !.pc = "enforced", !.plan = plan]
    <2>1. new.plan = plan /\ new.todo = {} /\ new.why = "manual_terminate"  BY DEF IdleTask
    <2>2. task' = [task EXCEPT ![Scheduler] = new] /\ UNCHANGED <<row, chan, lines>>
      BY <1>1 DEF Enforce
    <2>3. \A s \in Sessions : plan[s] # None => plan[s].why \notin ClientReasons /\ plan[s].seal = lines[s]
      BY VerdictType, NotClient
    <2>4. \A s \in Sessions : lines[s] # None  BY <1>t, LinesAreSizes
    <2> HIDE DEF plan, new
    <2>5. SealPlan(Scheduler, new, row, chan, lines)  BY <2>1, <2>3, NotClient DEF SealPlan
    <2>6. RowPlan(new, row)  BY <2>1, <2>3, <2>4 DEF RowPlan
    <2> QED  BY <1>t, <2>2, <2>5, <2>6, NewPlan
  <1>2. CASE ExpireDue
    <2> DEFINE due == {g \in late : grant[g] = "active"}
               new == [IdleTask EXCEPT !.pc = "commit", !.ends = due,
                         !.plan = Finishing(Of(due), "grant_expired")]
    <2>1. new.plan = Finishing(Of(due), "grant_expired") /\ new.todo = {} /\ new.why = "manual_terminate"
      BY DEF IdleTask
    <2>2. task' = [task EXCEPT ![Scheduler] = new] /\ UNCHANGED <<row, chan, lines>>
      BY <1>2 DEF ExpireDue
    <2> HIDE DEF new
    <2>3. SealPlan(Scheduler, new, row, chan, lines) /\ RowPlan(new, row)
      BY <1>t, <2>1, FinishingPlan, NotClient
    <2> QED  BY <1>t, <2>2, <2>3, NewPlan
  <1>3. CASE Commit(Scheduler)  BY <1>3, <1>t, InvCommit
  <1> QED  BY <1>1, <1>2, <1>3 DEF Tick

LEMMA InvLoseMembership ==
  ASSUME IInv, TypeOK', NEW u \in Users, NEW h \in Hosts, LoseMembership(u, h) PROVE IInv'
  <1> DEFINE lost == {g \in Grants : Owner[g] = u /\ Target[g] = h}
             gone == {g \in lost : grant[g] = "active"}
             plan == Finishing(Of(gone), "grant_revoked")
             closed == Written(plan)
             left == {s \in Sessions : closed[s].sess = "active" /\ closed[s].grant \in lost}
             removed == [why |-> "membership_removed", seal |-> None]
  <1>1. TypeOK /\ plan \in Plan
    BY FinishingType, ReasonsAreReasons DEF IInv
  <1>2. \A s \in Sessions : plan[s] # None
          => plan[s].why = "grant_revoked" /\ plan[s].seal = lines[s] /\ plan[s].seal # None
    BY <1>1, LinesAreSizes DEF Finishing
  <1>3. closed \in [Sessions -> Row]  BY <1>1, WrittenType
  <1>4. removed \in End /\ removed.seal = None /\ removed.why = "membership_removed"
    BY ReasonsAreReasons DEF End, Size
  <1>5. row' = [s \in Sessions |-> IF h \in Strict /\ s \in left THEN Ended(closed[s], removed) ELSE closed[s]]
    BY DEF LoseMembership
  <1>6. UNCHANGED <<chan, lines, task>>  BY DEF LoseMembership
  <1> HIDE DEF plan
  <1>7. \A s \in Sessions :
          \/ closed[s] = row[s]
          \/ /\ closed[s].sess \in Over /\ closed[s].conn \in Over
             /\ closed[s].why = "grant_revoked"
    BY <1>1, <1>2, WrittenForm
  <1> HIDE DEF closed, removed
  <1>8. \A s \in Sessions :
          \/ row'[s] = closed[s]
          \/ /\ row'[s].sess \in Over /\ row'[s].sessWhy = "membership_removed"
             /\ row'[s].conn = closed[s].conn /\ row'[s].why = closed[s].why
             /\ row'[s].seal = closed[s].seal
    BY <1>3, <1>4, <1>5, EndedForm
  <1>9. Forward  BY <1>7, <1>8 DEF Forward, Over
  <1>10. Quiet  BY <1>6 DEF Quiet
  <1>11. Exact  BY <1>7, <1>8, NotClient DEF Exact
  <1>12. Planned  BY <1>6 DEF Planned
  <1>13. RowsAgree'  BY <1>7, <1>8 DEF RowsAgree, IInv, Over
  <1> QED  BY <1>9, <1>10, <1>11, <1>12, <1>13, StepKeeps

LEMMA InvServe == ASSUME IInv, TypeOK', Serve PROVE IInv'
  <1>t. TypeOK  BY DEF IInv
  <1>1. ASSUME NEW c \in Clients, Disconnect(c) \/ \E g \in Grants : Login(c, g) PROVE IInv'
    <2>1. UNCHANGED <<row, chan, lines, task>>  BY <1>1 DEF Disconnect, Login
    <2>2. Forward /\ Exact /\ RowsAgree'  BY <2>1, SameRows
    <2>3. Quiet /\ Planned  BY <2>1 DEF Quiet, Planned
    <2> QED  BY <2>2, <2>3, StepKeeps
  <1>2. ASSUME NEW c \in Clients, NEW s \in Sessions, StartSession(c, s) PROVE IInv'
    <2> DEFINE new == [Unused EXCEPT !.grant = login[c], !.conn = "active", !.sess = "active"]
    <2>1. new.conn = "active" /\ new.sess = "active" /\ new.why = None  BY DEF Unused
    <2>2. /\ row[s].conn = "unused" /\ row' = [row EXCEPT ![s] = new]
          /\ \A x \in Sessions \ {s} : chan'[x] = chan[x]
          /\ UNCHANGED <<lines, task>>
      BY <1>t, <1>2 DEF StartSession, TypeOK
    <2> HIDE DEF new
    <2>3. None \notin ClientReasons  BY GatewayParameters, ReasonsAreReasons
    <2>4. Forward  BY <1>t, <2>1, <2>2 DEF Forward, Over, TypeOK
    <2>5. Quiet  BY <1>t, <2>2 DEF Quiet, TypeOK
    <2>6. Exact  BY <1>t, <2>1, <2>2, <2>3 DEF Exact, TypeOK
    <2>7. Planned  BY <2>2 DEF Planned
    <2>8. RowsAgree'  BY <1>t, <2>1, <2>2 DEF RowsAgree, IInv, TypeOK
    <2> QED  BY <2>4, <2>5, <2>6, <2>7, <2>8, StepKeeps
  <1>3. ASSUME NEW s \in Sessions, Input(s) PROVE IInv'
    <2>1. chan[s] # None /\ lines' = [lines EXCEPT ![s] = @ + 1] /\ UNCHANGED <<row, chan, task>>
      BY <1>3 DEF Input
    <2>2. Forward /\ Exact /\ RowsAgree'  BY <2>1, SameRows
    <2>3. Quiet  BY <1>t, <2>1 DEF Quiet, TypeOK
    <2>4. Planned  BY <2>1 DEF Planned
    <2> QED  BY <2>2, <2>3, <2>4, StepKeeps
  <1>4. ASSUME NEW s \in Sessions, InputRevokes(s) PROVE IInv'
    <2> DEFINE end(x) == [why |-> "grant_revoked", seal |-> lines'[x]]
    <2>1. chan[s] # None /\ lines' = [lines EXCEPT ![s] = @ + 1] /\ UNCHANGED <<chan, task>>
      BY <1>4 DEF InputRevokes
    <2>2. \A x \in Sessions : end(x) \in End /\ end(x).seal # None /\ end(x).why = "grant_revoked"
      <3>1. \A x \in Sessions : lines'[x] \in 0..MaxLines  BY DEF TypeOK
      <3>2. None \notin 0..MaxLines  BY GatewayParameters
      <3> QED  BY <3>1, <3>2, ReasonsAreReasons DEF End, Size
    <2>3. row' = [x \in Sessions |-> IF x \in Of({row[s].grant}) THEN Ended(row[x], end(x)) ELSE row[x]]
      BY <1>4 DEF InputRevokes
    <2> HIDE DEF end
    <2>4. \A x \in Sessions :
            \/ row'[x] = row[x]
            \/ /\ row'[x].sess \in Over /\ row'[x].conn \in Over
               /\ row'[x].why = "grant_revoked"
      <3>1. \A x \in Sessions : row'[x] = row[x] \/ row'[x] = Ended(row[x], end(x))  BY <2>3
      <3>2. \A x \in Sessions : row[x] \in Row  BY <1>t DEF TypeOK
      <3> QED  BY <2>2, <3>1, <3>2, EndedForm
    <2>5. Forward  BY <2>4 DEF Forward, Over
    <2>6. Quiet  BY <1>t, <2>1 DEF Quiet, TypeOK
    <2>7. Exact  BY <2>4, NotClient DEF Exact
    <2>8. Planned  BY <2>1 DEF Planned
    <2>9. RowsAgree'  BY <2>4 DEF RowsAgree, IInv, Over
    <2> QED  BY <2>5, <2>6, <2>7, <2>8, <2>9, StepKeeps
  <1>5. ASSUME NEW s \in Sessions, NEW why \in ClientReasons, ChannelLost(s, why) PROVE IInv'
    <2> DEFINE new == [IdleTask EXCEPT !.pc = "commit", !.plan = Finishing({s}, why)]
    <2>1. /\ chan' = [chan EXCEPT ![s] = None] /\ UNCHANGED <<row, lines>>
          /\ task' = IF s \in Open THEN [task EXCEPT ![Gateway] = new] ELSE task
      BY <1>5 DEF ChannelLost
    <2>2. new.plan = Finishing({s}, why) /\ new.todo = {} /\ new.why = "manual_terminate"
      BY DEF IdleTask
    <2> HIDE DEF new
    <2>3. Forward /\ Exact /\ RowsAgree'  BY <2>1, SameRows
    <2>4. Quiet  BY <1>t, <2>1 DEF Quiet, TypeOK
    <2>5. chan'[s] = None  BY <1>t, <2>1 DEF TypeOK
    <2>6. ASSUME s \in Open PROVE SealPlan(Gateway, new, row', chan', lines') /\ RowPlan(new, row')
      <3>1. \A x \in Sessions : new.plan[x] # None => x = s /\ new.plan[x].seal = lines[x]
        BY <2>2 DEF Finishing
      <3>2. row[s].conn # "unused"  BY <2>6 DEF Open
      <3>3. lines[s] # None  BY <1>t, LinesAreSizes
      <3>4. SealPlan(Gateway, new, row', chan', lines')
        BY <2>1, <2>2, <2>5, <3>1, <3>2, NotClient DEF SealPlan
      <3>5. RowPlan(new, row')  BY <2>2, <3>1, <3>3 DEF RowPlan
      <3> QED  BY <3>4, <3>5
    <2>7. Planned
      <3>1. \A t \in Threads : task'[t] = task[t] \/ (t = Gateway /\ s \in Open /\ task'[t] = new)
        BY <1>t, <2>1 DEF TypeOK
      <3> QED  BY <2>6, <3>1 DEF Planned
    <2> QED  BY <2>3, <2>4, <2>7, StepKeeps
  <1> QED  BY <1>1, <1>2, <1>3, <1>4, <1>5 DEF Serve

LEMMA InvWorld ==
  ASSUME IInv, TypeOK',
         \/ \E t \in Threads : GiveUp(t)
         \/ GatewayCrash \/ ApiCrash
         \/ \E g \in Grants : GrantRunsOut(g)
         \/ \E s \in Sessions : IdlePasses(s) \/ LongPasses(s)
         \/ \E h \in Hosts : DisableServer(h)
         \/ UNCHANGED vars
  PROVE  IInv'
  <1>1. UNCHANGED <<row, lines>>
    BY DEF GiveUp, GatewayCrash, ApiCrash, GrantRunsOut, IdlePasses, LongPasses, DisableServer, vars
  <1>2. \A s \in Sessions : chan[s] = None => chan'[s] = None
    BY DEF GiveUp, GatewayCrash, ApiCrash, GrantRunsOut, IdlePasses, LongPasses, DisableServer, vars
  <1>3. \A t \in Threads : task'[t] = task[t] \/ EmptyTask(task'[t])
    <2>1. TypeOK  BY DEF IInv
    <2>2. ASSUME NEW x \in Threads, GiveUp(x)
          PROVE \A t \in Threads : task'[t] = task[t] \/ EmptyTask(task'[t])
      BY <2>1, <2>2, IdleTaskEmpty DEF GiveUp, TypeOK
    <2>3. ASSUME GatewayCrash \/ ApiCrash
          PROVE \A t \in Threads : task'[t] = task[t] \/ EmptyTask(task'[t])
      BY <2>1, <2>3, IdleTaskEmpty DEF GatewayCrash, ApiCrash, TypeOK
    <2> QED  BY <2>2, <2>3 DEF GrantRunsOut, IdlePasses, LongPasses, DisableServer, vars
  <1>4. Forward /\ Exact /\ RowsAgree'  BY <1>1, SameRows
  <1>5. Quiet  BY <1>1, <1>2 DEF Quiet
  <1>6. Planned  BY <1>3, EmptyPlan DEF Planned
  <1> QED  BY <1>4, <1>5, <1>6, StepKeeps
-----------------------------------------------------------------------------
LEMMA InvInit == Init => IInv
  <1> SUFFICES ASSUME Init PROVE IInv  OBVIOUS
  <1>1. \A t \in Threads : EmptyTask(task[t])  BY IdleTaskEmpty DEF Init
  <1>2. PlansHold  BY <1>1, EmptyPlan DEF PlansHold
  <1>3. \A s \in Sessions : row[s].why = None /\ row[s].sess = "unused" /\ row[s].conn = "unused"
    BY DEF Init, Unused
  <1>4. None \notin ClientReasons  BY GatewayParameters, ReasonsAreReasons
  <1>5. SealedForGood /\ RowsAgree  BY <1>3, <1>4 DEF SealedForGood, RowsAgree
  <1> QED  BY <1>2, <1>5, TypeInit DEF IInv

LEMMA InvNext == IInv /\ [Next]_vars => IInv'
  <1> SUFFICES ASSUME IInv, [Next]_vars PROVE IInv'  OBVIOUS
  <1>0. TypeOK'  BY TypeNext DEF IInv
  <1>1. CASE Serve  BY <1>0, <1>1, InvServe
  <1>2. ASSUME NEW t \in Workers, Administer(t) \/ QueryConnections(t) \/ Commit(t) PROVE IInv'
    BY <1>0, <1>2, InvAdminister, InvQuery, InvCommit DEF Threads
  <1>3. CASE Commit(Gateway)  BY <1>0, <1>3, InvCommit DEF Threads
  <1>4. CASE Tick  BY <1>0, <1>4, InvTick
  <1>5. ASSUME NEW u \in Users, NEW h \in Hosts, LoseMembership(u, h) PROVE IInv'
    BY <1>0, <1>5, InvLoseMembership
  <1> QED  BY <1>0, <1>1, <1>2, <1>3, <1>4, <1>5, InvWorld DEF Next

(* The inductive invariant holds in every reachable state. *)
THEOREM GatewayInvariantHolds == Spec => []IInv
  BY InvInit, InvNext, PTL DEF Spec

(* A recording whose connection ended because its client left is sealed    *)
(* over the whole file, whatever the API and the scheduler commit later    *)
(* from older reads.                                                       *)
THEOREM SealsAreExact == Spec => []SealIsExact
  <1>1. IInv => SealIsExact  BY DEF IInv, SealedForGood, SealIsExact
  <1> QED  BY <1>1, GatewayInvariantHolds, PTL

(* Connection row and session row agree after every commit of every path   *)
(* that ends a session, except where a removed membership parts them.      *)
THEOREM RowsAlwaysAgree == Spec => []RowsAgree
  <1>1. IInv => RowsAgree  BY DEF IInv
  <1> QED  BY <1>1, GatewayInvariantHolds, PTL
=============================================================================
