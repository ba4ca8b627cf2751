---------------------------- MODULE AccessGroups ----------------------------
(***************************************************************************)
(* Server groups and the decisions read from them: rbac.py, the handlers   *)
(* of routes/access_groups.py that change groups, members, scope and       *)
(* rules, the account handlers of routes/users.py, and how requests and    *)
(* grants follow (routes/access_requests.py, services.py).  A handler      *)
(* loads rows without a lock (its Start), and from its first flush to its  *)
(* commit it holds SQLite's write lock (its commit, one step).  Objects    *)
(* loaded by the Start, the accounts of the caller and of the user he      *)
(* names among them, are not refreshed by later queries, and an UPDATE     *)
(* writes only the columns the handler changed.                            *)
(***************************************************************************)
EXTENDS Naturals, Sequences, FiniteSetsExt

CONSTANTS
  Users, Servers, Threads,
  MaxGroups,    \* bound: ids of groups
  Rows,         \* payloads of a membership
  Rules,        \* payloads of permission entries
  Templates,    \* payloads of a template
  Limits,       \* payloads of a group's allowed_durations
  Minutes,      \* durations a request may ask for
  None,         \* no row
  MaxRequests,  \* bound: requests and starts of the API
  MaxFaults     \* bound: lock timeouts and failing hosts

Groups == 1..MaxGroups
Perms == {"connect", "gateway", "direct", "sudo", "request", "approve", "manage"}

ASSUME AccessGroupsAssumption ==
  /\ {MaxGroups, MaxRequests, MaxFaults} \subseteq Nat
  /\ Users # {} /\ Minutes # {} /\ Limits \subseteq (SUBSET Minutes) \ {{}}

VARIABLES
  rbac,      \* the tables decisions are read from
  legacy,    \* servers.server_group_id: server -> group, or 0
  request,   \* access requests, in the order of their ids
  grant,     \* access grants, in the order of their ids
  task,      \* thread -> its handler
  budget     \* what is left of the bounds

vars == <<rbac, legacy, request, grant, task, budget>>
-----------------------------------------------------------------------------
(* What a table of permissions allows and denies.  A template may name one *)
(* permission twice, by an alias, and allow and deny it; a group's entries *)
(* and a user's may not.                                                   *)
Entries == [allow : SUBSET Perms, deny : SUBSET Perms]
Rule == {r \in Entries : r.allow \cap r.deny = {}}
NoRule == [allow |-> {}, deny |-> {}]

Account == [admin : BOOLEAN, active : BOOLEAN]

Request == [user : Users, server : Servers, sudo : BOOLEAN, minutes : Minutes,
            status : {"pending", "approved", "cancelled"}]

Grant == [user : Users, server : Servers, sudo : BOOLEAN, gateway : BOOLEAN,
          status : {"active", "revoked"}]

RolePermissions ==
  [group_admin |-> Perms, operator |-> {"connect", "gateway", "approve"},
   user |-> {"connect", "gateway", "request"}, custom |-> {}]

Row == [role : DOMAIN RolePermissions, on : BOOLEAN,
        ends : {"never", "later", "past"}, template : BOOLEAN]

NoGroup == [status |-> "none", limit |-> {}, system |-> FALSE]
Group == {NoGroup} \cup
  [status : {"on", "off"}, limit : SUBSET Minutes, system : BOOLEAN]

(* What the schemas of the payloads admit, and update_template.            *)
ASSUME PayloadAssumption ==
  /\ Rows \subseteq Row /\ None \notin Row
  /\ Rules \subseteq Rule /\ Templates \subseteq Entries

GroupPayload == [status : {"on", "off"}, limit : Limits, system : {FALSE}]

(* What _active asks of a membership and its group.                        *)
ActiveIn(w, u, g) ==
  /\ w.account[u].active /\ w.group[g].status = "on"
  /\ w.member[g][u] # None
  /\ w.member[g][u].on /\ w.member[g][u].ends # "past"

Through(w, u, s) == {g \in Groups : s \in w.scope[g] /\ ActiveIn(w, u, g)}

Presets(w, u, g) == IF w.member[g][u].template THEN w.template ELSE NoRule

Allows(w, u, g) ==
  RolePermissions[w.member[g][u].role] \cup Presets(w, u, g).allow
    \cup w.rule[g].allow \cup w.override[g][u].allow

Denies(w, u, g) ==
  Presets(w, u, g).deny \cup w.rule[g].deny \cup w.override[g][u].deny

(* has_permission, for a server and for a group.                           *)
HasVia(w, u, p, gs) ==
  \/ w.account[u].admin
  \/ (\E g \in gs : p \in Allows(w, u, g)) /\ \A g \in gs : p \notin Denies(w, u, g)
HasOn(w, u, p, s) == HasVia(w, u, p, Through(w, u, s))
HasIn(w, u, p, g) == HasVia(w, u, p, {h \in {g} : ActiveIn(w, u, h)})

Transport(gr) == IF gr.gateway THEN "gateway" ELSE "direct"

Authorized(w, gr) ==
  /\ HasOn(w, gr.user, "connect", gr.server)
  /\ HasOn(w, gr.user, Transport(gr), gr.server)
  /\ gr.sudo => HasOn(w, gr.user, "sudo", gr.server)

(* The intersection of the groups' durations; none at all restricts none.  *)
DurationAllowed(w, u, s, m) ==
  LET common == {d \in Minutes : \A g \in Through(w, u, s) : d \in w.group[g].limit}
  IN \/ w.account[u].admin
     \/ Through(w, u, s) # {} /\ (common # {} => m \in common)
-----------------------------------------------------------------------------
Existing(w) == {g \in Groups : w.group[g].status # "none"}
NextId(w) == 1 + Max({0} \cup Existing(w))
Admins(w) == {u \in Users : w.account[u].admin /\ w.account[u].active}

Active == {i \in DOMAIN grant : grant[i].status = "active"}

Idle == [job |-> "idle", g |-> 0, u |-> None, s |-> None, seen |-> None,
         new |-> None, on |-> TRUE, ids |-> {}, held |-> << >>]

FirstRow == [role |-> "user", on |-> TRUE, ends |-> "never", template |-> FALSE]

(* Two groups that exist, with members, servers and rules that only allow, *)
(* and at most one request or grant, of a member, that they allow.         *)
Installed(member, scope, rule, limit, admins) ==
  /\ rbac =
       [account |-> [u \in Users |-> [admin |-> u \in admins, active |-> TRUE]],
        group |-> [g \in Groups |-> IF g <= 2 THEN [status |-> "on", limit |-> limit[g], system |-> FALSE]
                                    ELSE NoGroup],
        member |-> member, scope |-> scope, template |-> NoRule,
        rule |-> rule,
        override |-> [g \in Groups |-> [u \in Users |-> NoRule]]]
  /\ \A g \in Groups : g > 2 =>
       scope[g] = {} /\ member[g] = [u \in Users |-> None] /\ rule[g] = NoRule
  /\ legacy = [s \in Servers |-> 0]
  /\ \/ request = << >> /\ grant = << >>
     \/ \E x \in Request : /\ request = <<x>> /\ grant = << >> /\ x.status = "pending"
                           /\ HasOn(rbac, x.user, "request", x.server)
                           /\ \E g \in Groups : member[g][x.user] # None
     \/ \E x \in Grant : /\ request = << >> /\ grant = <<x>> /\ x.status = "active"
                         /\ Authorized(rbac, x)
                         /\ \E g \in Groups : member[g][x.user] # None
  /\ task = [t \in Threads |-> Idle]
  /\ budget = [requests |-> MaxRequests, faults |-> MaxFaults]

(* The administrator is in no group, or all users are administrators and   *)
(* members of a first group with all servers.                              *)
OneAdmin(member, admin) == \A g \in Groups : member[g][admin] = None
AllAdmins(member, scope, rule) ==
  \A g \in Groups :
    /\ rule[g] = NoRule /\ scope[g] = IF g = 1 THEN Servers ELSE {}
    /\ \A u \in Users : member[g][u] = IF g = 1 THEN FirstRow ELSE None

Init ==
  \E member \in [Groups -> [Users -> {None, FirstRow}]], scope \in [Groups -> SUBSET Servers],
     rule \in [Groups -> {r \in Rules : r.deny = {}}], limit \in [Groups -> Limits],
     admins \in SUBSET Users :
    /\ \/ \E admin \in Users : admins = {admin} /\ OneAdmin(member, admin)
       \/ admins = Users /\ AllAdmins(member, scope, rule)
    /\ Installed(member, scope, rule, limit, admins)
-----------------------------------------------------------------------------
Spend == budget.requests > 0 /\ budget' = [budget EXCEPT !.requests = @ - 1]

Start(t, handler) ==
  /\ Spend
  /\ task' = [task EXCEPT ![t] = handler]
  /\ UNCHANGED <<rbac, legacy, request, grant>>

Finish(t) ==
  /\ task' = [task EXCEPT ![t] = Idle]
  /\ UNCHANGED budget

Keep == UNCHANGED <<legacy, request, grant>>

(* The database stays locked too long, or a host does not answer while a   *)
(* direct grant is revoked: the whole transaction is rolled back.          *)
GiveUp(t) ==
  /\ task[t] # Idle /\ budget.faults > 0
  /\ budget' = [budget EXCEPT !.faults = @ - 1]
  /\ task' = [task EXCEPT ![t] = Idle]
  /\ UNCHANGED <<rbac, legacy, request, grant>>

(* A row or a group the handler loaded is gone, or one it inserts is there *)
(* already: an IntegrityError, a StaleDataError or a 404 rolls back.       *)
Conflict(t) == Finish(t) /\ UNCHANGED <<rbac, legacy, request, grant>>

Gone(g) == rbac.group[g].status = "none"

Revoke(ids) ==
  grant' = [i \in DOMAIN grant |->
    IF i \in ids THEN [grant[i] EXCEPT !.status = "revoked"] ELSE grant[i]]

Cancel(ids) ==
  request' = [i \in DOMAIN request |->
    IF i \in ids THEN [request[i] EXCEPT !.status = "cancelled"] ELSE request[i]]

Pending == {i \in DOMAIN request : request[i].status = "pending"}

Touched(x, w, g, servers) == x.server \in servers /\ w.member[g][x.user] # None

(* Mutant: permissions are read before the flush.                          *)
LostUnflushed(w, v, g, servers) ==
  {i \in Active : Touched(grant[i], w, g, servers) /\ ~Authorized(rbac, grant[i])}

(* Mutant: other groups that contain the server are not asked.             *)
LostInGroup(w, v, g, servers) ==
  LET own == [v EXCEPT !.scope = [h \in Groups |-> IF h = g THEN v.scope[h] ELSE {}]]
  IN {i \in Active : Touched(grant[i], w, g, servers) /\ ~Authorized(own, grant[i])}

LostGrants(w, v, g, servers) ==
  {i \in Active : Touched(grant[i], w, g, servers) /\ ~Authorized(v, grant[i])}

(* Mutant: pending requests are left alone.                                *)
LostNoRequests(w, v, g, servers) == {}

LostRequests(w, v, g, servers) ==
  {i \in Pending : /\ Touched(request[i], w, g, servers)
                   /\ ~HasOn(v, request[i].user, "request", request[i].server)}

(* _revoke_lost_server_access, for everyone with a row in g: w is what the *)
(* database holds, v what the session sees of it.                          *)
Sync(w, v, g, servers) ==
  Revoke(LostGrants(w, v, g, servers)) /\ Cancel(LostRequests(w, v, g, servers))

(* A query keeps the attributes of the objects the handler holds: accounts *)
(* as they were loaded.  Rows and groups that are off in the database are  *)
(* filtered there.                                                         *)
SeenAccounts(w, t) ==
  LET held == task[t].held
  IN [w EXCEPT !.account = [x \in Users |-> IF x \in DOMAIN held THEN held[x] ELSE w.account[x]]]

SeenGroup(w, t) ==
  [SeenAccounts(w, t) EXCEPT
     !.group[task[t].g].status = IF @ = "on" /\ ~task[t].on THEN "off" ELSE @]

SeenRow(w, t) ==
  LET k == task[t]
  IN [SeenGroup(w, t) EXCEPT !.member[k.g][k.u] = [k.new EXCEPT !.on = @ /\ w.member[k.g][k.u].on]]

(* What an UPDATE makes of a row: only changed columns are written.        *)
Merge(row, seen, new) == [f \in DOMAIN row |-> IF new[f] # seen[f] THEN new[f] ELSE row[f]]

(* require_permission for the group's members, servers or permissions, and *)
(* can_manage_user; then the handler holds these accounts.                 *)
Manages(a, g) == rbac.account[a].active /\ HasIn(rbac, a, "manage", g)
MayManage(a, u) == rbac.account[u].admin => rbac.account[a].admin
Loaded(us) == [x \in us |-> rbac.account[x]]

SeenOn(g) == rbac.group[g].status = "on"
-----------------------------------------------------------------------------
(* add_users, which holds the group, and update_user_membership, which     *)
(* loads it again after its flush and may find it gone.                    *)
StartMember(t) ==
  \E g \in Existing(rbac), a, u \in Users, new \in Rows, held \in BOOLEAN :
    /\ Manages(a, g) /\ MayManage(a, u)
    /\ new # rbac.member[g][u]
    /\ Start(t, [Idle EXCEPT !.job = "member", !.g = g, !.u = u, !.new = new,
                             !.seen = rbac.member[g][u], !.on = held => SeenOn(g),
                             !.held = Loaded({a, u})])

SetMember(t) ==
  LET k == task[t]
      row == rbac.member[k.g][k.u]
      w == [rbac EXCEPT !.member[k.g][k.u] = IF k.seen = None THEN k.new ELSE Merge(row, k.seen, k.new)]
  IN /\ k.job = "member"
     /\ \/ /\ (row = None) # (k.seen = None) \/ (Gone(k.g) /\ k.seen # None)
           /\ Conflict(t)
        \/ /\ (row = None) = (k.seen = None)
           /\ rbac' = w
           /\ Sync(w, SeenRow(w, t), k.g, w.scope[k.g])
           /\ Finish(t) /\ UNCHANGED legacy

(* remove_user: the group's servers are listed before the flush.           *)
StartRemove(t) ==
  \E g \in Existing(rbac), a, u \in Users :
    /\ Manages(a, g) /\ MayManage(a, u)
    /\ rbac.member[g][u] # None
    /\ Start(t, [Idle EXCEPT !.job = "remove", !.g = g, !.u = u, !.on = SeenOn(g),
                             !.seen = rbac.member[g][u], !.ids = rbac.scope[g],
                             !.held = Loaded({a, u})])

RemoveMember(t) ==
  LET k == task[t]
      off == [rbac EXCEPT !.member[k.g][k.u] = None]
      lost == {s \in k.ids : ~HasOn(SeenGroup(off, t), k.u, "connect", s)}
  IN /\ k.job = "remove"
     /\ IF rbac.member[k.g][k.u] = None /\ k.seen.on THEN Conflict(t)
        ELSE /\ rbac' = [off EXCEPT !.override[k.g][k.u] = NoRule]
             /\ Revoke({i \in Active : grant[i].user = k.u /\ grant[i].server \in lost})
             /\ Cancel({i \in Pending : request[i].user = k.u /\ request[i].server \in lost})
             /\ Finish(t) /\ UNCHANGED legacy
-----------------------------------------------------------------------------
(* _change_servers, for one server.                                        *)
StartServers(t) ==
  \E g \in Existing(rbac), a \in Users, s \in Servers, add \in BOOLEAN :
    /\ Manages(a, g)
    /\ Start(t, [Idle EXCEPT !.job = IF add THEN "add" ELSE "drop", !.g = g, !.s = s,
                             !.on = SeenOn(g), !.seen = s \in rbac.scope[g],
                             !.held = Loaded({a})])

AddServer(t) ==
  LET k == task[t]
  IN /\ k.job = "add"
     /\ IF ~k.seen /\ k.s \in rbac.scope[k.g] THEN Conflict(t)
        ELSE /\ rbac' = [rbac EXCEPT !.scope[k.g] = IF k.seen THEN @ ELSE @ \cup {k.s}]
             /\ Keep /\ Finish(t)

DropServer(t) ==
  LET k == task[t]
      w == [rbac EXCEPT !.scope[k.g] = IF k.seen THEN @ \ {k.s} ELSE @]
  IN /\ k.job = "drop"
     /\ rbac' = w
     /\ Sync(w, SeenGroup(w, t), k.g, {k.s})
     /\ Finish(t) /\ UNCHANGED legacy

(* update_server with a list of groups, which it has checked to exist: the *)
(* legacy field may be set beside it, and no grant is looked at.           *)
StartAssign(t) ==
  \E s \in Servers, gs \in SUBSET Existing(rbac) : \E g \in {legacy[s]} \cup Existing(rbac) :
    Start(t, [Idle EXCEPT !.job = "assign", !.s = s, !.ids = gs, !.g = g])

AssignGroups(t) ==
  LET k == task[t]
  IN /\ k.job = "assign"
     /\ rbac' = [rbac EXCEPT !.scope = [g \in Groups |->
          IF g \in k.ids THEN @[g] \cup {k.s} ELSE @[g] \ {k.s}]]
     /\ legacy' = [legacy EXCEPT ![k.s] = k.g]
     /\ Finish(t) /\ UNCHANGED <<request, grant>>
-----------------------------------------------------------------------------
Codes(r) == r.allow \cup r.deny
Both(r, q) == [allow |-> r.allow \cup q.allow, deny |-> r.deny \cup q.deny]

(* Mutant: two entries of one permission are not refused.                  *)
StartRulesAny(t) ==
  \E g \in Existing(rbac), r \in Rules \cup {rbac.template}, a \in Users, u \in Users \cup {None} :
    /\ Manages(a, g)
    /\ Start(t, [Idle EXCEPT !.job = "rules", !.g = g, !.u = u, !.new = r,
                             !.held = Loaded({a})])

(* replace_permissions and apply_template, which refuse to name one        *)
(* permission twice; an entry that names a member goes to the overrides of *)
(* that user instead.                                                      *)
StartRules(t) ==
  \E g \in Existing(rbac), r \in Rules \cup ({rbac.template} \cap Rule),
     a \in Users, u \in Users \cup {None} :
    /\ Manages(a, g)
    /\ Start(t, [Idle EXCEPT !.job = "rules", !.g = g, !.u = u, !.new = r,
                             !.held = Loaded({a})])

NotEntered(k) ==
  \/ rbac.member[k.g][k.u] = None
  \/ Codes(rbac.override[k.g][k.u]) \cap Codes(k.new) # {}

SetRules(t) ==
  LET k == task[t]
      w == IF k.u = None THEN [rbac EXCEPT !.rule[k.g] = k.new]
           ELSE [rbac EXCEPT !.rule[k.g] = NoRule, !.override[k.g][k.u] = Both(@, k.new)]
  IN /\ k.job = "rules"
     /\ IF Gone(k.g) \/ (k.u # None /\ NotEntered(k)) THEN Conflict(t)
        ELSE /\ rbac' = w
             /\ Sync(w, SeenAccounts(w, t), k.g, w.scope[k.g])
             /\ Finish(t) /\ UNCHANGED legacy

(* replace_user_permissions: the membership is looked up before the flush. *)
StartOverride(t) ==
  \E g \in Existing(rbac), a, u \in Users, r \in Rules :
    /\ Manages(a, g)
    /\ rbac.member[g][u] # None
    /\ Start(t, [Idle EXCEPT !.job = "override", !.g = g, !.u = u, !.new = r,
                             !.held = Loaded({a})])

SetOverride(t) ==
  LET k == task[t]
      w == [rbac EXCEPT !.override[k.g][k.u] = k.new]
  IN /\ k.job = "override"
     /\ IF Gone(k.g) THEN Conflict(t)
        ELSE /\ rbac' = w
             /\ Sync(w, SeenAccounts(w, t), k.g, w.scope[k.g])
             /\ Finish(t) /\ UNCHANGED legacy

(* update_template of the one template that is not built in: every code is *)
(* in the catalogue, under its name or an alias.                           *)
StartTemplate(t) ==
  \E r \in Templates : Start(t, [Idle EXCEPT !.job = "template", !.new = r])

SetTemplate(t) ==
  /\ task[t].job = "template"
  /\ rbac' = [rbac EXCEPT !.template = task[t].new]
  /\ Keep /\ Finish(t)

(* copy_settings: the group's own columns and its rules.                   *)
StartCopy(t) ==
  \E g, h \in Existing(rbac) :
    /\ g # h /\ \E a \in Users : Manages(a, g) /\ Manages(a, h)
    /\ Start(t, [Idle EXCEPT !.job = "copy", !.g = g, !.s = h,
                             !.seen = rbac.group[g].limit, !.new = rbac.group[h].limit])

CopySettings(t) ==
  LET k == task[t]
      changed == k.new # k.seen
  IN /\ k.job = "copy"
     /\ IF Gone(k.g) /\ changed THEN Conflict(t)
        ELSE /\ rbac' = [rbac EXCEPT !.rule[k.g] = rbac.rule[k.s],
                         !.group[k.g].limit = IF changed THEN k.new ELSE @]
             /\ Keep /\ Finish(t)
-----------------------------------------------------------------------------
StartCreate(t) ==
  \E new \in GroupPayload :
    Admins(rbac) # {} /\ Start(t, [Idle EXCEPT !.job = "create", !.new = new])

(* create_group: SQLite gives the largest id plus one.                     *)
CreateGroup(t) ==
  LET g == NextId(rbac)
  IN /\ task[t].job = "create" /\ g \in Groups
     /\ rbac' = [rbac EXCEPT !.group[g] = task[t].new]
     /\ Keep /\ Finish(t)

(* complete_transaction of the access wizard, for a server that exists: it *)
(* puts the server into a group and assigns users.  The group is loaded,   *)
(* or new, with whatever durations the draft names: the flush that inserts *)
(* it comes before everything else is looked up.                           *)
StartWizard(t) ==
  \E s \in Servers, us \in SUBSET Users :
    \/ \E g \in Existing(rbac) :
         Start(t, [Idle EXCEPT !.job = "assign users", !.g = g, !.s = s,
                               !.seen = s \in rbac.scope[g],
                               !.ids = {u \in us : rbac.member[g][u] = None}])
    \/ \E limit \in Limits \cup {{}} :
         Start(t, [Idle EXCEPT !.job = "new profile", !.s = s, !.ids = us, !.new = limit])

Assigned(members, us) ==
  [u \in Users |-> IF u \in us /\ members[u] = None THEN FirstRow ELSE members[u]]

AssignUsers(t) ==
  LET k == task[t]
      taken == \/ ~k.seen /\ k.s \in rbac.scope[k.g]
               \/ \E u \in k.ids : rbac.member[k.g][u] # None
  IN /\ k.job = "assign users"
     /\ IF taken THEN Conflict(t)
        ELSE /\ rbac' = [rbac EXCEPT !.scope[k.g] = IF k.seen THEN @ ELSE @ \cup {k.s},
                                     !.member[k.g] = Assigned(@, k.ids)]
             /\ Keep /\ Finish(t)

NewProfile(t) ==
  LET k == task[t]
      g == NextId(rbac)
  IN /\ k.job = "new profile" /\ g \in Groups
     /\ rbac' = [rbac EXCEPT !.group[g] = [status |-> "on", limit |-> k.new, system |-> FALSE],
                             !.scope[g] = @ \cup {k.s},
                             !.member[g] = Assigned(@, k.ids)]
     /\ Keep /\ Finish(t)

StartUpdate(t) ==
  \E g \in Existing(rbac), a \in Users, new \in GroupPayload :
    /\ Manages(a, g)
    /\ Start(t, [Idle EXCEPT !.job = "update", !.g = g, !.seen = rbac.group[g],
                             !.new = [new EXCEPT !.system = rbac.group[g].system],
                             !.held = Loaded({a})])

(* update_group                                                            *)
UpdateGroup(t) ==
  LET k == task[t]
      w == [rbac EXCEPT !.group[k.g] = Merge(@, k.seen, k.new)]
  IN /\ k.job = "update"
     /\ IF Gone(k.g) THEN Conflict(t)
        ELSE /\ rbac' = w
             /\ IF k.seen.status = "on" /\ k.new.status = "off"
                THEN Sync(w, SeenAccounts(w, t), k.g, w.scope[k.g]) ELSE UNCHANGED <<request, grant>>
             /\ Finish(t) /\ UNCHANGED legacy

Empty(g) == rbac.scope[g] = {} /\ \A u \in Users : rbac.member[g][u] = None

(* delete_group: whether the group is empty is read before the write.      *)
StartDelete(t) ==
  \E g \in Existing(rbac), a \in Users :
    /\ Manages(a, g)
    /\ Start(t, [Idle EXCEPT !.g = g, !.on = SeenOn(g), !.held = Loaded({a}),
         !.job = IF Empty(g) /\ ~rbac.group[g].system THEN "delete" ELSE "disable"])

DisableGroup(t) ==
  LET k == task[t]
      w == [rbac EXCEPT !.group[k.g].status = IF k.on THEN "off" ELSE @]
      v == [SeenAccounts(w, t) EXCEPT !.group[k.g].status = "off"]
  IN /\ k.job = "disable"
     /\ IF Gone(k.g) /\ k.on THEN Conflict(t)
        ELSE /\ rbac' = w
             /\ Sync(w, v, k.g, w.scope[k.g])
             /\ Finish(t) /\ UNCHANGED legacy

(* Members and servers that came into the group since keep their rows.     *)
DeleteGroup(t) ==
  LET k == task[t]
  IN /\ k.job = "delete"
     /\ rbac' = [rbac EXCEPT !.group[k.g] = NoGroup, !.rule[k.g] = NoRule,
                             !.override[k.g] = [u \in Users |-> NoRule]]
     /\ Keep /\ Finish(t)
-----------------------------------------------------------------------------
(* set_user_role, set_user_status, update_user, delete_user: the active    *)
(* administrators are counted before the write.                            *)
StartAccount(t) ==
  \E u \in Users, new \in Account :
    /\ Admins(rbac) # {} /\ new # rbac.account[u]
    /\ rbac.account[u].admin /\ ~(new.admin /\ new.active) => Cardinality(Admins(rbac)) > 1
    /\ Start(t, [Idle EXCEPT !.job = "account", !.u = u, !.seen = rbac.account[u], !.new = new])

SetAccount(t) ==
  LET k == task[t]
  IN /\ k.job = "account"
     /\ rbac' = [rbac EXCEPT !.account[k.u] = Merge(@, k.seen, k.new)]
     /\ Keep /\ Finish(t)

(* revoke_user_grants: the grants are listed before the first write.       *)
StartRevokeAll(t) ==
  \E u \in Users :
    /\ Admins(rbac) # {}
    /\ Start(t, [Idle EXCEPT !.job = "revoke", !.u = u, !.ids = {i \in Active : grant[i].user = u}])

RevokeAll(t) ==
  /\ task[t].job = "revoke"
  /\ Revoke(task[t].ids)
  /\ Finish(t) /\ UNCHANGED <<rbac, legacy, request>>
-----------------------------------------------------------------------------
(* create_grant_for_request: gateway or direct, as far as permitted.       *)
Transports(w, u, s) ==
  {gateway \in BOOLEAN : /\ HasOn(w, u, "connect", s)
                         /\ HasOn(w, u, IF gateway THEN "gateway" ELSE "direct", s)}

GrantFor(x, gateway) ==
  [user |-> x.user, server |-> x.server, sudo |-> x.sudo, gateway |-> gateway, status |-> "active"]

(* create_request: a group admits one grant at a time.                     *)
StartSubmit(t) ==
  \E u \in Users, s \in Servers, sudo \in BOOLEAN, m \in Minutes :
    /\ rbac.account[u].active
    /\ HasOn(rbac, u, "request", s) /\ (sudo => HasOn(rbac, u, "sudo", s))
    /\ DurationAllowed(rbac, u, s, m)
    /\ rbac.account[u].admin \/ \A i \in Active : grant[i].user # u \/ grant[i].server # s
    /\ Start(t, [Idle EXCEPT !.job = "submit", !.held = Loaded({u}),
         !.new = [user |-> u, server |-> s, sudo |-> sudo, minutes |-> m, status |-> "pending"]])

(* Its policy decides whether it waits for an approval; otherwise the      *)
(* permissions to connect are read after the flush of its row.             *)
Submit(t) ==
  LET x == task[t].new
      transports == Transports(SeenAccounts(rbac, t), x.user, x.server)
  IN /\ task[t].job = "submit"
     /\ \/ /\ request' = Append(request, x)
           /\ Finish(t) /\ UNCHANGED <<rbac, legacy, grant>>
        \/ \E gateway \in transports :
             /\ request' = Append(request, [x EXCEPT !.status = "approved"])
             /\ grant' = Append(grant, GrantFor(x, gateway))
             /\ Finish(t) /\ UNCHANGED <<rbac, legacy>>
        \/ transports = {} /\ Conflict(t)

(* approve_request: here those permissions are read before the flush.      *)
StartApprove(t) ==
  \E i \in DOMAIN request, a \in Users :
    \E gateway \in Transports(rbac, request[i].user, request[i].server) :
      /\ request[i].status \in {"pending", "approved"}
      /\ a # request[i].user /\ rbac.account[a].active
      /\ HasOn(rbac, a, "approve", request[i].server)
      /\ Start(t, [Idle EXCEPT !.job = "approve", !.g = i, !.on = gateway])

Approve(t) ==
  LET k == task[t]
  IN /\ k.job = "approve"
     /\ request' = [request EXCEPT ![k.g].status = "approved"]
     /\ grant' = Append(grant, GrantFor(request[k.g], k.on))
     /\ Finish(t) /\ UNCHANGED <<rbac, legacy>>
-----------------------------------------------------------------------------
Aged(row) == IF row.ends = "later" THEN [row EXCEPT !.ends = "past"] ELSE row
AgedRow(row) == IF row = None THEN None ELSE Aged(row)

(* Memberships that end later end; a loaded row tells its end just as well.*)
TimePasses ==
  /\ \E g \in Groups, u \in Users : rbac.member[g][u] # AgedRow(rbac.member[g][u])
  /\ rbac' = [rbac EXCEPT !.member = [g \in Groups |-> [u \in Users |-> AgedRow(@[g][u])]]]
  /\ task' = [t \in Threads |->
       IF task[t].job = "member"
       THEN [task[t] EXCEPT !.seen = AgedRow(@), !.new = Aged(@)] ELSE task[t]]
  /\ UNCHANGED <<legacy, request, grant, budget>>

LegacyRow(u) == [FirstRow EXCEPT !.role = IF rbac.account[u].admin THEN "group_admin" ELSE "user"]

(* seed_access_control at every start: the legacy field of a server is     *)
(* copied again, and an installation without memberships gets a group of   *)
(* all users and servers.                                                  *)
Restart ==
  LET linked == [rbac EXCEPT !.scope = [g \in Groups |->
                  IF g \in Existing(rbac) THEN @[g] \cup {s \in Servers : legacy[s] = g} ELSE @[g]]]
      g == NextId(rbac)
      unscoped == /\ \A h \in Groups : ~rbac.group[h].system
                  /\ \A h \in Groups, u \in Users : rbac.member[h][u] = None
  IN /\ Spend
     /\ unscoped => g \in Groups
     /\ rbac' = IF ~unscoped THEN linked
                ELSE [linked EXCEPT
                  !.group[g] = [status |-> "on", limit |-> Minutes, system |-> TRUE],
                  !.scope[g] = Servers,
                  !.member[g] = [u \in Users |-> LegacyRow(u)],
                  !.rule[g] = [allow |-> {"sudo", "gateway"}, deny |-> {}]]
     /\ task' = [t \in Threads |-> Idle]
     /\ Keep

Starts(t) ==
  /\ task[t] = Idle /\ budget.requests > 0
  /\ \/ StartMember(t) \/ StartRemove(t) \/ StartServers(t) \/ StartAssign(t)
     \/ StartRules(t) \/ StartOverride(t) \/ StartTemplate(t) \/ StartCopy(t)
     \/ StartCreate(t) \/ StartWizard(t) \/ StartUpdate(t) \/ StartDelete(t) \/ StartAccount(t)
     \/ StartRevokeAll(t) \/ StartSubmit(t) \/ StartApprove(t)

Ends(t) ==
  \/ SetMember(t) \/ RemoveMember(t) \/ AddServer(t) \/ DropServer(t) \/ AssignGroups(t)
  \/ SetRules(t) \/ SetOverride(t) \/ SetTemplate(t) \/ CopySettings(t)
  \/ CreateGroup(t) \/ AssignUsers(t) \/ NewProfile(t) \/ UpdateGroup(t) \/ DisableGroup(t) \/ DeleteGroup(t)
  \/ SetAccount(t) \/ RevokeAll(t) \/ Submit(t) \/ Approve(t) \/ GiveUp(t)

Next ==
  \/ \E t \in Threads : Starts(t) \/ Ends(t)
  \/ TimePasses
  \/ Restart

Spec == Init /\ [][Next]_vars
-----------------------------------------------------------------------------
World ==
  [account : [Users -> Account], group : [Groups -> Group],
   member : [Groups -> [Users -> Row \cup {None}]], scope : [Groups -> SUBSET Servers],
   rule : [Groups -> Rule], override : [Groups -> [Users -> Rule]], template : Entries]

(* Every row has its columns' types, and no permission is both allowed and *)
(* denied by the entries of a group or by a user's in it, although a       *)
(* template may do both.                                                   *)
TypeOK ==
  /\ rbac \in World
  /\ legacy \in [Servers -> {0} \cup Groups]
  /\ request \in Seq(Request) /\ grant \in Seq(Grant)
  /\ budget \in [requests : 0..MaxRequests, faults : 0..MaxFaults]

(* The account of u is what the handler loaded, if it did.                 *)
Known(t, u) == u \in DOMAIN task[t].held => task[t].held[u] = rbac.account[u]

Commits(t, jobs) == task[t].job \in jobs /\ task'[t] = Idle /\ budget' = budget

(* The rows the handler holds are still what the database holds.           *)
Fresh(t) ==
  LET k == task[t]
  IN /\ k.job = "member" => k.seen = rbac.member[k.g][k.u]
     /\ k.on \/ ~SeenOn(k.g)

(* update_group looks at the grants only if it switches the group off.     *)
Synced(t) ==
  /\ \/ Commits(t, {"member", "drop", "rules", "override", "disable"})
     \/ Commits(t, {"update"}) /\ task[t].new.status = "off"
  /\ Fresh(t)

(* When a change of a membership, a group's rules or a user's overrides    *)
(* commits, or one that takes a server out of a group or switches a group  *)
(* off, no grant stays active whose user it took a permission from,        *)
(* through whatever other groups the user reaches the server; a removal    *)
(* leaves none that can no longer connect, on the servers it has listed.   *)
(* Excepted is a user whose account changed since the handler loaded it.   *)
LossIsRevoked ==
  [][\A t \in Threads : \A i \in Active :
       \/ grant'[i].status # "active" \/ ~Known(t, grant[i].user)
       \/ /\ Synced(t) /\ Authorized(rbac, grant[i]) => Authorized(rbac', grant[i])
          /\ Commits(t, {"remove"}) /\ Fresh(t) /\ grant[i].server \in task[t].ids
               /\ HasOn(rbac, grant[i].user, "connect", grant[i].server)
               => HasOn(rbac', grant[i].user, "connect", grant[i].server)]_vars

(* Such a change revokes no grant that another group still covers, of a    *)
(* user whose account is as the handler loaded it.                         *)
RevokedWasLost ==
  [][\A t \in Threads : \A i \in Active :
       (Synced(t) \/ (Commits(t, {"remove"}) /\ Fresh(t))) /\ Known(t, grant[i].user) =>
         grant'[i].status = "active" \/ ~Authorized(rbac', grant[i])]_vars

(* And no request is left pending whose user it took the right to ask      *)
(* from, with the same exception.                                          *)
CancelledWithScope ==
  [][\A t \in Threads : \A i \in Pending :
       Synced(t) /\ Known(t, request[i].user) /\ HasOn(rbac, request[i].user, "request", request[i].server) =>
         \/ HasOn(rbac', request[i].user, "request", request[i].server)
         \/ request'[i].status = "cancelled"]_vars
=============================================================================
