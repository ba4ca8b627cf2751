------------------------ MODULE AccessGroupsProofs ------------------------
(***************************************************************************)
(* What AccessGroups promises for any number of users, servers, groups and *)
(* threads.  The types need only that a handler holds values of the types  *)
(* its write asks for.  The properties of a commit are about two worlds,   *)
(* the tables before and after it: they rest on one frame lemma, that a    *)
(* decision about a user on a server depends on the groups through which   *)
(* the user reaches it and on nothing else.                                *)
(***************************************************************************)
EXTENDS AccessGroups, TLAPS

Durations == SUBSET Minutes

Shape(k) == DOMAIN k = DOMAIN Idle

(* What a handler holds when it comes to write.                            *)
Holds(k) ==
  /\ k.on \in BOOLEAN
  /\ k.job = "member" => /\ k.g \in Groups /\ k.u \in Users
                         /\ k.seen \in Row \cup {None} /\ k.new \in Row
  /\ k.job = "remove" => k.g \in Groups /\ k.u \in Users
  /\ k.job \in {"add", "drop"} => k.g \in Groups /\ k.s \in Servers
  /\ k.job = "assign" => k.g \in {0} \cup Groups /\ k.s \in Servers
  /\ k.job = "rules" => k.g \in Groups /\ k.u \in Users \cup {None} /\ k.new \in Rule
  /\ k.job = "override" => k.g \in Groups /\ k.u \in Users /\ k.new \in Rule
  /\ k.job = "template" => k.new \in Entries
  /\ k.job = "copy" => k.g \in Groups /\ k.s \in Groups /\ k.new \in Durations
  /\ k.job = "create" => k.new \in Group
  /\ k.job = "assign users" => k.g \in Groups /\ k.s \in Servers
  /\ k.job = "new profile" => k.s \in Servers /\ k.new \in Durations
  /\ k.job = "update" => /\ k.g \in Groups /\ k.seen \in Group \ {NoGroup}
                         /\ k.new \in Group \ {NoGroup}
  /\ k.job \in {"delete", "disable"} => k.g \in Groups
  /\ k.job = "account" => k.u \in Users /\ k.seen \in Account /\ k.new \in Account
  /\ k.job = "submit" => k.new \in Request
  /\ k.job = "approve" => k.g \in DOMAIN request

Handlers ==
  /\ task = [t \in Threads |-> task[t]]
  /\ \A t \in Threads : Shape(task[t]) /\ Holds(task[t])

IInv == TypeOK /\ Handlers

Budget == [requests : 0..MaxRequests, faults : 0..MaxFaults]
-----------------------------------------------------------------------------
(* The tables.                                                             *)
LEMMA OfWorld ==
  ASSUME NEW w \in World, NEW g \in Groups, NEW u \in Users
  PROVE  /\ w.account[u] \in Account /\ w.group[g] \in Group /\ w.template \in Entries
         /\ w.member[g][u] \in Row \cup {None} /\ w.scope[g] \subseteq Servers
         /\ w.rule[g] \in Rule /\ w.override[g][u] \in Rule
  BY DEF World

LEMMA SetMemberRow ==
  ASSUME NEW w \in World, NEW g \in Groups, NEW u \in Users, NEW x \in Row \cup {None}
  PROVE  LET w2 == [w EXCEPT !.member[g][u] = x] IN
         /\ w2 \in World /\ w2.account = w.account /\ w2.group = w.group /\ w2.scope = w.scope
         /\ w2.template = w.template /\ w2.rule = w.rule /\ w2.override = w.override
         /\ \A h \in Groups, y \in Users :
              w2.member[h][y] = IF h = g /\ y = u THEN x ELSE w.member[h][y]
  BY DEF World

LEMMA SetMembers ==
  ASSUME NEW w \in World, NEW g \in Groups, NEW x \in [Users -> Row \cup {None}]
  PROVE  [w EXCEPT !.member[g] = x] \in World
  BY DEF World

LEMMA SetOverrideRow ==
  ASSUME NEW w \in World, NEW g \in Groups, NEW u \in Users, NEW x \in Rule
  PROVE  LET w2 == [w EXCEPT !.override[g][u] = x] IN
         /\ w2 \in World /\ w2.account = w.account /\ w2.group = w.group /\ w2.scope = w.scope
         /\ w2.template = w.template /\ w2.rule = w.rule /\ w2.member = w.member
         /\ \A h \in Groups, y \in Users :
              w2.override[h][y] = IF h = g /\ y = u THEN x ELSE w.override[h][y]
  BY DEF World

LEMMA SetRule ==
  ASSUME NEW w \in World, NEW g \in Groups, NEW x \in Rule
  PROVE  LET w2 == [w EXCEPT !.rule[g] = x] IN
         /\ w2 \in World /\ w2.account = w.account /\ w2.group = w.group /\ w2.scope = w.scope
         /\ w2.template = w.template /\ w2.member = w.member /\ w2.override = w.override
         /\ \A h \in Groups : w2.rule[h] = IF h = g THEN x ELSE w.rule[h]
  BY DEF World

LEMMA SetScope ==
  ASSUME NEW w \in World, NEW g \in Groups, NEW x \in SUBSET Servers
  PROVE  LET w2 == [w EXCEPT !.scope[g] = x] IN
         /\ w2 \in World /\ w2.account = w.account /\ w2.group = w.group /\ w2.member = w.member
         /\ w2.template = w.template /\ w2.rule = w.rule /\ w2.override = w.override
         /\ \A h \in Groups : w2.scope[h] = IF h = g THEN x ELSE w.scope[h]
  BY DEF World

LEMMA SetGroup ==
  ASSUME NEW w \in World, NEW g \in Groups, NEW x \in Group
  PROVE  LET w2 == [w EXCEPT !.group[g] = x] IN
         /\ w2 \in World /\ w2.account = w.account /\ w2.scope = w.scope /\ w2.member = w.member
         /\ w2.template = w.template /\ w2.rule = w.rule /\ w2.override = w.override
         /\ \A h \in Groups : w2.group[h] = IF h = g THEN x ELSE w.group[h]
  BY DEF World

LEMMA RealGroup ==
  ASSUME NEW x \in Group
  PROVE  /\ x # NoGroup <=> x.status # "none"
         /\ x # NoGroup => x.limit \in Durations /\ x.system \in BOOLEAN /\ x.status \in {"on", "off"}
         /\ \A st \in {"on", "off"} : x # NoGroup => [x EXCEPT !.status = st] \in Group
         /\ \A l \in Durations : x # NoGroup => [x EXCEPT !.limit = l] \in Group
  BY DEF Group, NoGroup, Durations

(* An UPDATE of a row of a type leaves a row of that type.                 *)
LEMMA MergeRows ==
  /\ \A seen, new, now \in Row : Merge(now, seen, new) \in Row
  /\ \A seen, new, now \in Account : Merge(now, seen, new) \in Account
  BY DEF Merge, Row, Account

LEMMA MergeGroups ==
  ASSUME NEW now \in Group \ {NoGroup}, NEW seen \in Group \ {NoGroup}, NEW new \in Group \ {NoGroup}
  PROVE  /\ Merge(now, seen, new) \in Group
         /\ Merge(now, seen, new).status = IF new.status # seen.status THEN new.status ELSE now.status
  BY DEF Merge, Group, Durations
-----------------------------------------------------------------------------
(* The handlers.                                                           *)
LEMMA IdleHolds == Shape(Idle) /\ Holds(Idle) /\ Idle.job = "idle"
  BY DEF Idle, Shape, Holds

LEMMA Spent ==
  ASSUME TypeOK, Spend
  PROVE  budget' \in Budget /\ budget' # budget
  BY AccessGroupsAssumption DEF TypeOK, Spend, Budget

(* At most one handler is replaced, and no request is taken away.          *)
LEMMA HandlersMove ==
  ASSUME IInv, NEW t \in Threads, NEW k, Shape(k), Holds(k),
         task' = [task EXCEPT ![t] = k], DOMAIN request \subseteq DOMAIN request'
  PROVE  Handlers'
  <1>1. task' = [u \in Threads |-> IF u = t THEN k ELSE task[u]]
    BY DEF IInv, Handlers
  <1>2. ASSUME NEW u \in Threads PROVE (Shape(task[u]) /\ Holds(task[u]))'
    <2>1. PICK j : j = task'[u] /\ Shape(j) /\ Holds(j)
      BY <1>1 DEF IInv, Handlers
    <2>2. Holds(j)'
      BY <2>1 DEF Holds
    <2>3. Shape(task[u])'
      BY <2>1 DEF Shape
    <2>4. Holds(task[u])'
      BY <2>1, <2>2, ZenonT(60) DEF Holds
    <2> QED  BY <2>3, <2>4
  <1> QED  BY <1>1, <1>2 DEF Handlers

LEMMA Begun ==
  ASSUME IInv, NEW t \in Threads, NEW k, Shape(k), Holds(k), Start(t, k)
  PROVE  IInv'
  <1>1. budget' \in Budget
    BY Spent DEF IInv, Start
  <1>2. TypeOK'
    BY <1>1 DEF IInv, TypeOK, Start, Budget
  <1>3. Handlers'
    BY HandlersMove DEF Start
  <1> QED  BY <1>2, <1>3 DEF IInv

LEMMA Tables ==
  ASSUME IInv
  PROVE  /\ rbac \in World
         /\ \A g \in Existing(rbac) : g \in Groups /\ rbac.group[g] \in Group \ {NoGroup}
         /\ \A g \in Groups : SeenOn(g) \in BOOLEAN
  <1>1. rbac \in World
    BY DEF IInv, TypeOK
  <1>2. \A g \in Existing(rbac) : g \in Groups /\ rbac.group[g].status # "none"
    BY DEF Existing
  <1>3. \A g \in Existing(rbac) : rbac.group[g] \in Group /\ rbac.group[g] # NoGroup
    BY <1>1, <1>2 DEF World, NoGroup
  <1>4. \A g \in Groups : SeenOn(g) \in BOOLEAN
    BY DEF SeenOn
  <1> QED  BY <1>1, <1>2, <1>3, <1>4

LEMMA StartsKeep ==
  ASSUME IInv, NEW t \in Threads, Starts(t)
  PROVE  IInv'
  <1>0. /\ rbac \in World
        /\ \A g \in Existing(rbac) : g \in Groups /\ rbac.group[g] \in Group \ {NoGroup}
    BY Tables
  <1>1. CASE StartMember(t)
    <2>1. PICK g \in Existing(rbac), a \in Users, u \in Users, new \in Rows, held \in BOOLEAN :
            Start(t, [Idle EXCEPT !.job = "member", !.g = g, !.u = u, !.new = new,
                        !.seen = rbac.member[g][u], !.on = held => SeenOn(g),
                        !.held = Loaded({a, u})])
      BY <1>1, ZenonT(60) DEF StartMember
    <2>2. g \in Groups /\ rbac.member[g][u] \in Row \cup {None} /\ new \in Row
      BY <1>0, OfWorld, PayloadAssumption
    <2>3. (held => SeenOn(g)) \in BOOLEAN
      OBVIOUS
    <2> DEFINE on == held => SeenOn(g)
               k == [Idle EXCEPT !.job = "member", !.g = g, !.u = u, !.new = new,
                       !.seen = rbac.member[g][u], !.on = on, !.held = Loaded({a, u})]
    <2> HIDE DEF on
    <2>4. Shape(k) /\ Holds(k)
      BY <2>2, <2>3 DEF Idle, Shape, Holds, on
    <2> HIDE DEF k
    <2> QED  BY <2>1, <2>4, Begun DEF k, on
  <1>2. CASE StartRemove(t)
    <2>1. PICK g \in Existing(rbac), a \in Users, u \in Users :
            Start(t, [Idle EXCEPT !.job = "remove", !.g = g, !.u = u, !.on = SeenOn(g),
                        !.seen = rbac.member[g][u], !.ids = rbac.scope[g],
                        !.held = Loaded({a, u})])
      BY <1>2 DEF StartRemove
    <2> DEFINE k == [Idle EXCEPT !.job = "remove", !.g = g, !.u = u, !.on = SeenOn(g),
                       !.seen = rbac.member[g][u], !.ids = rbac.scope[g],
                       !.held = Loaded({a, u})]
    <2>2. Shape(k) /\ Holds(k)
      BY <1>0 DEF Idle, Shape, Holds, SeenOn
    <2> HIDE DEF k
    <2> QED  BY <2>1, <2>2, Begun DEF k
  <1>3. CASE StartServers(t)
    <2>1. PICK g \in Existing(rbac), a \in Users, s \in Servers, add \in BOOLEAN :
            Start(t, [Idle EXCEPT !.job = IF add THEN "add" ELSE "drop", !.g = g, !.s = s,
                        !.on = SeenOn(g), !.seen = s \in rbac.scope[g], !.held = Loaded({a})])
      BY <1>3 DEF StartServers
    <2> DEFINE k == [Idle EXCEPT !.job = IF add THEN "add" ELSE "drop", !.g = g, !.s = s,
                       !.on = SeenOn(g), !.seen = s \in rbac.scope[g], !.held = Loaded({a})]
    <2>2. Shape(k) /\ Holds(k)
      BY <1>0 DEF Idle, Shape, Holds, SeenOn
    <2> HIDE DEF k
    <2> QED  BY <2>1, <2>2, Begun DEF k
  <1>4. CASE StartAssign(t)
    <2>1. PICK s \in Servers, gs \in SUBSET Existing(rbac) :
            \E g \in {legacy[s]} \cup Existing(rbac) :
              Start(t, [Idle EXCEPT !.job = "assign", !.s = s, !.ids = gs, !.g = g])
      BY <1>4 DEF StartAssign
    <2>2. PICK g \in {legacy[s]} \cup Existing(rbac) :
            Start(t, [Idle EXCEPT !.job = "assign", !.s = s, !.ids = gs, !.g = g])
      BY <2>1
    <2> DEFINE k == [Idle EXCEPT !.job = "assign", !.s = s, !.ids = gs, !.g = g]
    <2>3. g \in {0} \cup Groups
      BY <1>0 DEF IInv, TypeOK
    <2>4. Shape(k) /\ Holds(k)
      BY <2>3 DEF Idle, Shape, Holds
    <2> HIDE DEF k
    <2> QED  BY <2>2, <2>4, Begun DEF k
  <1>5. CASE StartRules(t)
    <2>1. PICK g \in Existing(rbac), r \in Rules \cup ({rbac.template} \cap Rule), a \in Users,
               u \in Users \cup {None} :
            Start(t, [Idle EXCEPT !.job = "rules", !.g = g, !.u = u, !.new = r,
                        !.held = Loaded({a})])
      BY <1>5 DEF StartRules
    <2> DEFINE k == [Idle EXCEPT !.job = "rules", !.g = g, !.u = u, !.new = r,
                       !.held = Loaded({a})]
    <2>2. r \in Rule
      BY PayloadAssumption
    <2>3. Shape(k) /\ Holds(k)
      BY <1>0, <2>2 DEF Idle, Shape, Holds
    <2> HIDE DEF k
    <2> QED  BY <2>1, <2>3, Begun DEF k
  <1>6. CASE StartOverride(t)
    <2>1. PICK g \in Existing(rbac), a \in Users, u \in Users, r \in Rules :
            Start(t, [Idle EXCEPT !.job = "override", !.g = g, !.u = u, !.new = r,
                        !.held = Loaded({a})])
      BY <1>6 DEF StartOverride
    <2> DEFINE k == [Idle EXCEPT !.job = "override", !.g = g, !.u = u, !.new = r,
                       !.held = Loaded({a})]
    <2>2. Shape(k) /\ Holds(k)
      BY <1>0, PayloadAssumption DEF Idle, Shape, Holds
    <2> HIDE DEF k
    <2> QED  BY <2>1, <2>2, Begun DEF k
  <1>7. CASE StartTemplate(t)
    <2>1. PICK r \in Templates : Start(t, [Idle EXCEPT !.job = "template", !.new = r])
      BY <1>7 DEF StartTemplate
    <2> DEFINE k == [Idle EXCEPT !.job = "template", !.new = r]
    <2>2. Shape(k) /\ Holds(k)
      BY PayloadAssumption DEF Idle, Shape, Holds
    <2> HIDE DEF k
    <2> QED  BY <2>1, <2>2, Begun DEF k
  <1>8. CASE StartCopy(t)
    <2>1. PICK g \in Existing(rbac), h \in Existing(rbac) :
            Start(t, [Idle EXCEPT !.job = "copy", !.g = g, !.s = h,
                        !.seen = rbac.group[g].limit, !.new = rbac.group[h].limit])
      BY <1>8 DEF StartCopy
    <2> DEFINE k == [Idle EXCEPT !.job = "copy", !.g = g, !.s = h,
                       !.seen = rbac.group[g].limit, !.new = rbac.group[h].limit]
    <2>2. rbac.group[h].limit \in Durations
      BY <1>0, RealGroup
    <2>3. Shape(k) /\ Holds(k)
      BY <1>0, <2>2 DEF Idle, Shape, Holds
    <2> HIDE DEF k
    <2> QED  BY <2>1, <2>3, Begun DEF k
  <1>9. GroupPayload \subseteq Group \ {NoGroup}
    <2> SUFFICES ASSUME NEW x \in GroupPayload PROVE x \in Group \ {NoGroup}
      OBVIOUS
    <2>1. x.status # "none"
      BY DEF GroupPayload
    <2>2. x \in [status : {"on", "off"}, limit : Durations, system : BOOLEAN]
      BY AccessGroupsAssumption DEF GroupPayload, Durations
    <2> QED  BY <2>1, <2>2 DEF Group, NoGroup, Durations
  <1>10. CASE StartCreate(t)
    <2>1. PICK new \in GroupPayload : Start(t, [Idle EXCEPT !.job = "create", !.new = new])
      BY <1>10 DEF StartCreate
    <2> DEFINE k == [Idle EXCEPT !.job = "create", !.new = new]
    <2>2. Shape(k) /\ Holds(k)
      BY <1>9 DEF Idle, Shape, Holds
    <2> HIDE DEF k
    <2> QED  BY <2>1, <2>2, Begun DEF k
  <1>11. CASE StartUpdate(t)
    <2>1. PICK g \in Existing(rbac), a \in Users, new \in GroupPayload :
            Start(t, [Idle EXCEPT !.job = "update", !.g = g, !.seen = rbac.group[g],
                        !.new = [new EXCEPT !.system = rbac.group[g].system],
                        !.held = Loaded({a})])
      BY <1>11 DEF StartUpdate
    <2> DEFINE n == [new EXCEPT !.system = rbac.group[g].system]
               k == [Idle EXCEPT !.job = "update", !.g = g, !.seen = rbac.group[g], !.new = n,
                       !.held = Loaded({a})]
    <2>2. rbac.group[g].system \in BOOLEAN
      BY <1>0, RealGroup
    <2>3. n \in Group \ {NoGroup}
      BY <2>2, AccessGroupsAssumption DEF GroupPayload, Group, NoGroup
    <2> HIDE DEF n
    <2>4. Shape(k) /\ Holds(k)
      BY <1>0, <2>3 DEF Idle, Shape, Holds
    <2> HIDE DEF k
    <2> QED  BY <2>1, <2>4, Begun DEF k, n
  <1>12. CASE StartDelete(t)
    <2>1. PICK g \in Existing(rbac), a \in Users :
            Start(t, [Idle EXCEPT !.g = g, !.on = SeenOn(g), !.held = Loaded({a}),
                        !.job = IF Empty(g) /\ ~rbac.group[g].system THEN "delete" ELSE "disable"])
      BY <1>12 DEF StartDelete
    <2> DEFINE job == IF Empty(g) /\ ~rbac.group[g].system THEN "delete" ELSE "disable"
               k == [Idle EXCEPT !.g = g, !.on = SeenOn(g), !.held = Loaded({a}), !.job = job]
    <2>2. job \in {"delete", "disable"} /\ SeenOn(g) \in BOOLEAN
      BY DEF SeenOn
    <2> HIDE DEF job
    <2>3. Shape(k) /\ Holds(k)
      BY <1>0, <2>2 DEF Idle, Shape, Holds
    <2> HIDE DEF k
    <2> QED  BY <2>1, <2>3, Begun DEF k, job
  <1>13. CASE StartAccount(t)
    <2>1. PICK u \in Users, new \in Account :
            Start(t, [Idle EXCEPT !.job = "account", !.u = u, !.seen = rbac.account[u], !.new = new])
      BY <1>13 DEF StartAccount
    <2> DEFINE k == [Idle EXCEPT !.job = "account", !.u = u, !.seen = rbac.account[u], !.new = new]
    <2>2. rbac.account[u] \in Account
      BY <1>0 DEF World
    <2>3. Shape(k) /\ Holds(k)
      BY <2>2 DEF Idle, Shape, Holds
    <2> HIDE DEF k
    <2> QED  BY <2>1, <2>3, Begun DEF k
  <1>14. CASE StartRevokeAll(t)
    <2>1. PICK u \in Users :
            Start(t, [Idle EXCEPT !.job = "revoke", !.u = u,
                        !.ids = {i \in Active : grant[i].user = u}])
      BY <1>14 DEF StartRevokeAll
    <2> DEFINE ids == {i \in Active : grant[i].user = u}
               k == [Idle EXCEPT !.job = "revoke", !.u = u, !.ids = ids]
    <2> HIDE DEF ids
    <2>2. Shape(k) /\ Holds(k)
      BY DEF Idle, Shape, Holds
    <2> HIDE DEF k
    <2> QED  BY <2>1, <2>2, Begun DEF k, ids
  <1>15. CASE StartSubmit(t)
    <2>1. PICK u \in Users, s \in Servers, sudo \in BOOLEAN, m \in Minutes :
            Start(t, [Idle EXCEPT !.job = "submit", !.held = Loaded({u}),
              !.new = [user |-> u, server |-> s, sudo |-> sudo, minutes |-> m, status |-> "pending"]])
      BY <1>15 DEF StartSubmit
    <2> DEFINE x == [user |-> u, server |-> s, sudo |-> sudo, minutes |-> m, status |-> "pending"]
               k == [Idle EXCEPT !.job = "submit", !.held = Loaded({u}), !.new = x]
    <2>2. x \in Request
      BY DEF Request
    <2> HIDE DEF x
    <2>3. Shape(k) /\ Holds(k)
      BY <2>2 DEF Idle, Shape, Holds
    <2> HIDE DEF k
    <2> QED  BY <2>1, <2>3, Begun DEF k, x
  <1>16. CASE StartApprove(t)
    <2>1. PICK i \in DOMAIN request, a \in Users :
            \E gateway \in Transports(rbac, request[i].user, request[i].server) :
              Start(t, [Idle EXCEPT !.job = "approve", !.g = i, !.on = gateway])
      BY <1>16 DEF StartApprove
    <2>2. PICK gateway \in BOOLEAN :
            Start(t, [Idle EXCEPT !.job = "approve", !.g = i, !.on = gateway])
      BY <2>1 DEF Transports
    <2> DEFINE k == [Idle EXCEPT !.job = "approve", !.g = i, !.on = gateway]
    <2>3. Shape(k) /\ Holds(k)
      BY DEF Idle, Shape, Holds
    <2> HIDE DEF k
    <2> QED  BY <2>2, <2>3, Begun DEF k
  <1>17. CASE StartWizard(t)
    <2>1. ASSUME NEW g \in Existing(rbac), NEW s \in Servers, NEW us \in SUBSET Users,
                 Start(t, [Idle EXCEPT !.job = "assign users", !.g = g, !.s = s,
                             !.seen = s \in rbac.scope[g],
                             !.ids = {u \in us : rbac.member[g][u] = None}])
          PROVE  IInv'
      <3> DEFINE ids == {u \in us : rbac.member[g][u] = None}
                 k == [Idle EXCEPT !.job = "assign users", !.g = g, !.s = s,
                         !.seen = s \in rbac.scope[g], !.ids = ids]
      <3> HIDE DEF ids
      <3>1. Shape(k) /\ Holds(k)
        BY <1>0 DEF Idle, Shape, Holds
      <3> HIDE DEF k
      <3> QED  BY <2>1, <3>1, Begun DEF k, ids
    <2>2. ASSUME NEW s \in Servers, NEW us \in SUBSET Users, NEW limit \in Limits \cup {{}},
                 Start(t, [Idle EXCEPT !.job = "new profile", !.s = s, !.ids = us, !.new = limit])
          PROVE  IInv'
      <3> DEFINE k == [Idle EXCEPT !.job = "new profile", !.s = s, !.ids = us, !.new = limit]
      <3>1. limit \in Durations
        BY AccessGroupsAssumption DEF Durations
      <3>2. Shape(k) /\ Holds(k)
        BY <3>1 DEF Idle, Shape, Holds
      <3> HIDE DEF k
      <3> QED  BY <2>2, <3>2, Begun DEF k
    <2> QED  BY <1>17, <2>1, <2>2 DEF StartWizard
  <1> QED  BY <1>1, <1>2, <1>3, <1>4, <1>5, <1>6, <1>7, <1>8, <1>10, <1>11, <1>12, <1>13, <1>14,
              <1>15, <1>16, <1>17 DEF Starts
-----------------------------------------------------------------------------
(* A commit, or a rollback, sets the thread free.                          *)
LEMMA Written ==
  ASSUME IInv, NEW t \in Threads, Finish(t), rbac' \in World,
         legacy' \in [Servers -> {0} \cup Groups], request' \in Seq(Request),
         grant' \in Seq(Grant), DOMAIN request \subseteq DOMAIN request'
  PROVE  IInv'
  <1>1. Handlers'
    BY HandlersMove, IdleHolds DEF Finish
  <1>2. TypeOK'
    BY DEF Finish, IInv, TypeOK
  <1> QED  BY <1>1, <1>2 DEF IInv

LEMMA NothingWritten ==
  ASSUME IInv, NEW t \in Threads, Conflict(t)
  PROVE  IInv'
  BY Written DEF Conflict, IInv, TypeOK

LEMMA Kept ==
  ASSUME IInv, NEW t \in Threads, Finish(t), rbac' \in World, Keep
  PROVE  IInv'
  BY Written DEF Keep, IInv, TypeOK

(* A revocation or a cancellation writes one column of the rows it names.  *)
LEMMA Revoked ==
  ASSUME IInv, NEW ids, Revoke(ids)
  PROVE  /\ grant' \in Seq(Grant) /\ DOMAIN grant' = DOMAIN grant
         /\ \A i \in DOMAIN grant :
              grant'[i].status = IF i \in ids THEN "revoked" ELSE grant[i].status
  <1>1. /\ grant \in Seq(Grant) /\ DOMAIN grant = 1..Len(grant) /\ Len(grant) \in Nat
        /\ \A i \in DOMAIN grant : grant[i] \in Grant
    BY DEF IInv, TypeOK
  <1>2. /\ DOMAIN grant' = DOMAIN grant
        /\ \A i \in DOMAIN grant : /\ grant'[i] \in Grant
                                   /\ grant'[i].status = IF i \in ids THEN "revoked" ELSE grant[i].status
    BY <1>1 DEF Revoke, Grant
  <1>3. grant' = [i \in 1..Len(grant) |-> grant'[i]]
    BY <1>1 DEF Revoke
  <1> QED  BY <1>1, <1>2, <1>3

LEMMA Cancelled ==
  ASSUME IInv, NEW ids, Cancel(ids)
  PROVE  /\ request' \in Seq(Request) /\ DOMAIN request' = DOMAIN request
         /\ \A i \in DOMAIN request :
              request'[i].status = IF i \in ids THEN "cancelled" ELSE request[i].status
  <1>1. /\ request \in Seq(Request) /\ DOMAIN request = 1..Len(request) /\ Len(request) \in Nat
        /\ \A i \in DOMAIN request : request[i] \in Request
    BY DEF IInv, TypeOK
  <1>2. /\ DOMAIN request' = DOMAIN request
        /\ \A i \in DOMAIN request :
             /\ request'[i] \in Request
             /\ request'[i].status = IF i \in ids THEN "cancelled" ELSE request[i].status
    BY <1>1 DEF Cancel, Request
  <1>3. request' = [i \in 1..Len(request) |-> request'[i]]
    BY <1>1 DEF Cancel
  <1> QED  BY <1>1, <1>2, <1>3

LEMMA Appended ==
  ASSUME NEW S, NEW q \in Seq(S), NEW x \in S
  PROVE  Append(q, x) \in Seq(S) /\ DOMAIN q \subseteq DOMAIN Append(q, x)
  OBVIOUS

LEMMA SyncedWrite ==
  ASSUME IInv, NEW t \in Threads, Finish(t), rbac' \in World, UNCHANGED legacy,
         NEW ids, NEW jds, Revoke(ids), Cancel(jds)
  PROVE  IInv'
  BY Written, Revoked, Cancelled DEF IInv, TypeOK

(* The tables after the write of a membership.                             *)
LEMMA RowWritten ==
  ASSUME IInv, NEW t \in Threads, task[t].job = "member",
         (rbac.member[task[t].g][task[t].u] = None) = (task[t].seen = None)
  PROVE  LET k == task[t]
             row == rbac.member[k.g][k.u]
         IN (IF k.seen = None THEN k.new ELSE Merge(row, k.seen, k.new)) \in Row
  <1>1. /\ task[t].g \in Groups /\ task[t].u \in Users /\ task[t].new \in Row
        /\ task[t].seen \in Row \cup {None}
    BY DEF IInv, Handlers, Holds
  <1>2. rbac.member[task[t].g][task[t].u] \in Row \cup {None}
    BY <1>1, OfWorld, Tables
  <1> QED  BY <1>1, <1>2, MergeRows

LEMMA EndsKeep ==
  ASSUME IInv, NEW t \in Threads, Ends(t)
  PROVE  IInv'
  <1> DEFINE k == task[t]
  <1>0. rbac \in World /\ Holds(k)
    BY Tables DEF IInv, Handlers
  <1> HIDE DEF k
  <1>1. CASE SetMember(t)
    <2> DEFINE x == IF k.seen = None THEN k.new ELSE Merge(rbac.member[k.g][k.u], k.seen, k.new)
               w == [rbac EXCEPT !.member[k.g][k.u] = x]
    <2>1. CASE Conflict(t)
      BY <2>1, NothingWritten
    <2>2. ASSUME k.job = "member", (rbac.member[k.g][k.u] = None) = (k.seen = None) PROVE w \in World
      <3>1. x \in Row /\ k.g \in Groups /\ k.u \in Users
        BY <1>0, <2>2, RowWritten DEF Holds, k
      <3> HIDE DEF x
      <3> QED  BY <1>0, <3>1, SetMemberRow
    <2> HIDE DEF w
    <2>3. CASE k.job = "member" /\ ~Conflict(t)
      <3>1. /\ rbac' = w /\ (rbac.member[k.g][k.u] = None) = (k.seen = None)
            /\ \E v, g, servers : Sync(w, v, g, servers)
            /\ Finish(t) /\ UNCHANGED legacy
        BY <1>1, <2>3 DEF SetMember, k, w, x
      <3> QED  BY <3>1, <2>2, <2>3, SyncedWrite DEF Sync
    <2> QED  BY <1>1, <2>1, <2>3 DEF SetMember, k
  <1>2. CASE RemoveMember(t)
    <2>1. CASE Conflict(t)
      BY <2>1, NothingWritten
    <2>2. CASE ~Conflict(t)
      <3> DEFINE off == [rbac EXCEPT !.member[k.g][k.u] = None]
                 w == [off EXCEPT !.override[k.g][k.u] = NoRule]
      <3>1. k.job = "remove" /\ rbac' = w
            /\ (\E ids, jds : Revoke(ids) /\ Cancel(jds)) /\ Finish(t) /\ UNCHANGED legacy
        BY <1>2, <2>2 DEF RemoveMember, k
      <3>2. k.g \in Groups /\ k.u \in Users /\ NoRule \in Rule
        BY <1>0, <3>1 DEF Holds, NoRule, Rule, Entries
      <3>3. off \in World
        BY <1>0, <3>2, SetMemberRow
      <3> HIDE DEF off
      <3>4. w \in World
        BY <3>2, <3>3, SetOverrideRow
      <3> QED  BY <3>1, <3>4, SyncedWrite
    <2> QED  BY <2>1, <2>2
  <1>3. CASE AddServer(t)
    <2>1. CASE Conflict(t)
      BY <2>1, NothingWritten
    <2>2. CASE ~Conflict(t)
      <3> DEFINE x == IF k.seen THEN rbac.scope[k.g] ELSE rbac.scope[k.g] \cup {k.s}
      <3>1. k.job = "add" /\ rbac' = [rbac EXCEPT !.scope[k.g] = x] /\ Keep /\ Finish(t)
        BY <1>3, <2>2 DEF AddServer, k
      <3>2. k.g \in Groups /\ k.s \in Servers
        BY <1>0, <3>1 DEF Holds
      <3>3. x \in SUBSET Servers
        BY <1>0, <3>2 DEF World
      <3> HIDE DEF x
      <3> QED  BY <1>0, <3>1, <3>2, <3>3, SetScope, Kept
    <2> QED  BY <2>1, <2>2
  <1>4. CASE DropServer(t)
    <2> DEFINE x == IF k.seen THEN rbac.scope[k.g] \ {k.s} ELSE rbac.scope[k.g]
    <2>1. /\ k.job = "drop" /\ rbac' = [rbac EXCEPT !.scope[k.g] = x]
          /\ (\E ids, jds : Revoke(ids) /\ Cancel(jds)) /\ Finish(t) /\ UNCHANGED legacy
      BY <1>4 DEF DropServer, Sync, k
    <2>2. k.g \in Groups
      BY <1>0, <2>1 DEF Holds
    <2>3. x \in SUBSET Servers
      BY <1>0, <2>2 DEF World
    <2> HIDE DEF x
    <2> QED  BY <1>0, <2>1, <2>2, <2>3, SetScope, SyncedWrite
  <1>5. CASE AssignGroups(t)
    <2> DEFINE x == [g \in Groups |-> IF g \in k.ids THEN rbac.scope[g] \cup {k.s}
                                      ELSE rbac.scope[g] \ {k.s}]
    <2>1. /\ k.job = "assign" /\ rbac' = [rbac EXCEPT !.scope = x]
          /\ legacy' = [legacy EXCEPT ![k.s] = k.g]
          /\ Finish(t) /\ UNCHANGED <<request, grant>>
      BY <1>5 DEF AssignGroups, k
    <2>2. k.g \in {0} \cup Groups /\ k.s \in Servers
      BY <1>0, <2>1 DEF Holds
    <2>3. x \in [Groups -> SUBSET Servers]
      BY <1>0, <2>2 DEF World
    <2> HIDE DEF x
    <2>4. rbac' \in World
      BY <1>0, <2>1, <2>3 DEF World
    <2> QED  BY <2>1, <2>2, <2>4, Written DEF IInv, TypeOK
  <1>6. CASE SetRules(t)
    <2>1. CASE Conflict(t)
      BY <2>1, NothingWritten
    <2>2. CASE ~Conflict(t)
      <3> DEFINE x == Both(rbac.override[k.g][k.u], k.new)
                 w == IF k.u = None THEN [rbac EXCEPT !.rule[k.g] = k.new]
                      ELSE [rbac EXCEPT !.rule[k.g] = NoRule, !.override[k.g][k.u] = x]
      <3>1. /\ k.job = "rules" /\ rbac' = w /\ (k.u # None => ~NotEntered(k))
            /\ (\E ids, jds : Revoke(ids) /\ Cancel(jds)) /\ Finish(t) /\ UNCHANGED legacy
        BY <1>6, <2>2 DEF SetRules, Sync, k
      <3>2. k.g \in Groups /\ k.u \in Users \cup {None} /\ k.new \in Rule /\ NoRule \in Rule
        BY <1>0, <3>1 DEF Holds, NoRule, Rule, Entries
      <3>3. CASE k.u = None
        BY <1>0, <3>1, <3>2, <3>3, SetRule, SyncedWrite
      <3>4. CASE k.u # None
        <4>1. k.u \in Users /\ rbac.override[k.g][k.u] \in Rule
          BY <1>0, <3>2, <3>4, OfWorld
        <4>2. Codes(rbac.override[k.g][k.u]) \cap Codes(k.new) = {}
          BY <3>1, <3>4 DEF NotEntered
        <4>3. x \in Rule
          BY <3>2, <4>1, <4>2 DEF Both, Codes, Rule, Entries
        <4> HIDE DEF x
        <4> DEFINE ruled == [rbac EXCEPT !.rule[k.g] = NoRule]
        <4>4. ruled \in World
          BY <1>0, <3>2, SetRule
        <4>5. w = [ruled EXCEPT !.override[k.g][k.u] = x]
          BY <3>4
        <4> HIDE DEF ruled, w
        <4> QED  BY <3>1, <3>2, <4>1, <4>3, <4>4, <4>5, SetOverrideRow, SyncedWrite
      <3> QED  BY <3>3, <3>4
    <2> QED  BY <2>1, <2>2
  <1>7. CASE SetOverride(t)
    <2>1. CASE Conflict(t)
      BY <2>1, NothingWritten
    <2>2. CASE ~Conflict(t)
      <3>1. /\ k.job = "override" /\ rbac' = [rbac EXCEPT !.override[k.g][k.u] = k.new]
            /\ (\E ids, jds : Revoke(ids) /\ Cancel(jds)) /\ Finish(t) /\ UNCHANGED legacy
        BY <1>7, <2>2 DEF SetOverride, Sync, k
      <3>2. k.g \in Groups /\ k.u \in Users /\ k.new \in Rule
        BY <1>0, <3>1 DEF Holds
      <3> QED  BY <1>0, <3>1, <3>2, SetOverrideRow, SyncedWrite
    <2> QED  BY <2>1, <2>2
  <1>8. CASE SetTemplate(t)
    <2>1. k.job = "template" /\ rbac' = [rbac EXCEPT !.template = k.new] /\ Keep /\ Finish(t)
      BY <1>8 DEF SetTemplate, k
    <2>2. k.new \in Entries
      BY <1>0, <2>1 DEF Holds
    <2>3. rbac' \in World
      BY <1>0, <2>1, <2>2 DEF World
    <2> QED  BY <2>1, <2>3, Kept
  <1>9. CASE CopySettings(t)
    <2>1. CASE Conflict(t)
      BY <2>1, NothingWritten
    <2>2. CASE ~Conflict(t)
      <3> DEFINE limit == IF k.new # k.seen THEN k.new ELSE rbac.group[k.g].limit
                 x == [rbac.group[k.g] EXCEPT !.limit = limit]
                 ruled == [rbac EXCEPT !.rule[k.g] = rbac.rule[k.s]]
      <3>1. /\ k.job = "copy" /\ rbac' = [ruled EXCEPT !.group[k.g] = x]
            /\ ~(Gone(k.g) /\ k.new # k.seen) /\ Keep /\ Finish(t)
        BY <1>9, <2>2 DEF CopySettings, k
      <3>2. k.g \in Groups /\ k.s \in Groups /\ k.new \in Durations
        BY <1>0, <3>1 DEF Holds
      <3>3. rbac.group[k.g] \in Group /\ rbac.rule[k.s] \in Rule
        BY <1>0, <3>2 DEF World
      <3>4. CASE rbac.group[k.g] = NoGroup
        <4>1. limit = NoGroup.limit
          BY <3>1, <3>4 DEF Gone, NoGroup
        <4>2. x = NoGroup
          BY <3>4, <4>1 DEF NoGroup
        <4> HIDE DEF ruled, x
        <4>3. ruled \in World
          BY <1>0, <3>2, <3>3, SetRule DEF ruled
        <4> QED  BY <3>1, <3>2, <3>3, <4>2, <4>3, <3>4, SetGroup, Kept
      <3>5. CASE rbac.group[k.g] # NoGroup
        <4>1. limit \in Durations
          BY <3>2, <3>3, <3>5, RealGroup
        <4> HIDE DEF limit
        <4>2. x \in Group
          BY <3>3, <3>5, <4>1, RealGroup
        <4> HIDE DEF ruled, x
        <4>3. ruled \in World
          BY <1>0, <3>2, <3>3, SetRule DEF ruled
        <4> QED  BY <3>1, <3>2, <4>2, <4>3, SetGroup, Kept
      <3> QED  BY <3>4, <3>5
    <2> QED  BY <2>1, <2>2
  <1>10. CASE CreateGroup(t)
    <2>1. /\ k.job = "create" /\ NextId(rbac) \in Groups
          /\ rbac' = [rbac EXCEPT !.group[NextId(rbac)] = k.new] /\ Keep /\ Finish(t)
      BY <1>10 DEF CreateGroup, k
    <2>2. k.new \in Group
      BY <1>0, <2>1 DEF Holds
    <2> QED  BY <1>0, <2>1, <2>2, SetGroup, Kept
  <1>11. CASE UpdateGroup(t)
    <2>1. CASE Conflict(t)
      BY <2>1, NothingWritten
    <2>2. CASE ~Conflict(t)
      <3> DEFINE x == Merge(rbac.group[k.g], k.seen, k.new)
      <3>1. /\ k.job = "update" /\ rbac' = [rbac EXCEPT !.group[k.g] = x] /\ ~Gone(k.g)
            /\ (\E ids, jds : Revoke(ids) /\ Cancel(jds)) \/ UNCHANGED <<request, grant>>
            /\ Finish(t) /\ UNCHANGED legacy
        BY <1>11, <2>2 DEF UpdateGroup, Sync, k
      <3>2. /\ k.g \in Groups /\ k.new \in Group \ {NoGroup} /\ k.seen \in Group \ {NoGroup}
        BY <1>0, <3>1 DEF Holds
      <3>3. rbac.group[k.g] \in Group \ {NoGroup}
        BY <1>0, <3>1, <3>2 DEF Gone, World, NoGroup
      <3>4. x \in Group
        BY <3>2, <3>3, MergeGroups
      <3> HIDE DEF x
      <3>5. rbac' \in World
        BY <1>0, <3>1, <3>2, <3>4, SetGroup
      <3>6. CASE \E ids, jds : Revoke(ids) /\ Cancel(jds)
        BY <3>1, <3>5, <3>6, SyncedWrite
      <3>7. CASE UNCHANGED <<request, grant>>
        BY <3>1, <3>5, <3>7, Written DEF IInv, TypeOK
      <3> QED  BY <3>1, <3>6, <3>7
    <2> QED  BY <2>1, <2>2
  <1>12. CASE DisableGroup(t)
    <2>1. CASE Conflict(t)
      BY <2>1, NothingWritten
    <2>2. CASE ~Conflict(t)
      <3> DEFINE status == IF k.on THEN "off" ELSE rbac.group[k.g].status
                 x == [rbac.group[k.g] EXCEPT !.status = status]
      <3>1. /\ k.job = "disable" /\ rbac' = [rbac EXCEPT !.group[k.g] = x] /\ ~(Gone(k.g) /\ k.on)
            /\ (\E ids, jds : Revoke(ids) /\ Cancel(jds)) /\ Finish(t) /\ UNCHANGED legacy
        BY <1>12, <2>2 DEF DisableGroup, Sync, k
      <3>2. k.g \in Groups
        BY <1>0, <3>1 DEF Holds
      <3>3. rbac.group[k.g] \in Group
        BY <1>0, <3>2 DEF World
      <3>4. x \in Group
        <4>1. CASE rbac.group[k.g] = NoGroup
          BY <3>1, <4>1 DEF Gone, NoGroup, Group
        <4>2. CASE rbac.group[k.g] # NoGroup
          BY <3>3, <4>2, RealGroup
        <4> QED  BY <4>1, <4>2
      <3> HIDE DEF x
      <3> QED  BY <1>0, <3>1, <3>2, <3>4, SetGroup, SyncedWrite
    <2> QED  BY <2>1, <2>2
  <1>13. CASE DeleteGroup(t)
    <2> DEFINE none == [u \in Users |-> NoRule]
               gone == [rbac EXCEPT !.group[k.g] = NoGroup]
               ruled == [gone EXCEPT !.rule[k.g] = NoRule]
    <2>1. /\ k.job = "delete" /\ rbac' = [ruled EXCEPT !.override[k.g] = none]
          /\ Keep /\ Finish(t)
      BY <1>13 DEF DeleteGroup, k
    <2>2. k.g \in Groups /\ NoGroup \in Group /\ NoRule \in Rule /\ none \in [Users -> Rule]
      BY <1>0, <2>1 DEF Holds, Group, NoRule, Rule, Entries
    <2> HIDE DEF none
    <2>3. gone \in World
      BY <1>0, <2>2, SetGroup
    <2> HIDE DEF gone
    <2>4. ruled \in World
      BY <2>2, <2>3, SetRule
    <2> HIDE DEF ruled
    <2>5. rbac' \in World
      BY <2>1, <2>2, <2>4 DEF World
    <2> QED  BY <2>1, <2>5, Kept
  <1>14. CASE SetAccount(t)
    <2> DEFINE x == Merge(rbac.account[k.u], k.seen, k.new)
    <2>1. k.job = "account" /\ rbac' = [rbac EXCEPT !.account[k.u] = x] /\ Keep /\ Finish(t)
      BY <1>14 DEF SetAccount, k
    <2>2. k.u \in Users /\ x \in Account
      BY <1>0, <2>1, MergeRows DEF Holds, World
    <2> HIDE DEF x
    <2>3. rbac' \in World
      BY <1>0, <2>1, <2>2 DEF World
    <2> QED  BY <2>1, <2>3, Kept
  <1>15. CASE RevokeAll(t)
    BY <1>0, <1>15, Revoked, Written DEF RevokeAll, IInv, TypeOK
  <1>16. CASE Submit(t)
    <2> DEFINE x == k.new
    <2>1. k.job = "submit"
      BY <1>16 DEF Submit, k
    <2>2. x \in Request /\ [x EXCEPT !.status = "approved"] \in Request
      BY <1>0, <2>1 DEF Holds, Request
    <2>3. \A gateway \in BOOLEAN : GrantFor(x, gateway) \in Grant
      BY <2>2 DEF GrantFor, Grant, Request
    <2> HIDE DEF x
    <2>0. request \in Seq(Request) /\ grant \in Seq(Grant)
      BY DEF IInv, TypeOK
    <2>4. CASE Conflict(t)
      BY <2>4, NothingWritten
    <2>5. CASE request' = Append(request, x) /\ Finish(t) /\ UNCHANGED <<rbac, legacy, grant>>
      <3>1. request' \in Seq(Request) /\ DOMAIN request \subseteq DOMAIN request'
        BY <2>0, <2>2, <2>5, Appended
      <3> QED  BY <1>0, <2>5, <3>1, Written DEF IInv, TypeOK
    <2>6. ASSUME NEW gateway \in BOOLEAN,
                 request' = Append(request, [x EXCEPT !.status = "approved"]),
                 grant' = Append(grant, GrantFor(x, gateway)),
                 Finish(t), UNCHANGED <<rbac, legacy>>
          PROVE  IInv'
      <3>1. request' \in Seq(Request) /\ DOMAIN request \subseteq DOMAIN request'
        BY <2>0, <2>2, <2>6, Appended
      <3>2. grant' \in Seq(Grant)
        BY <2>0, <2>3, <2>6, Appended
      <3> QED  BY <1>0, <2>6, <3>1, <3>2, Written DEF IInv, TypeOK
    <2> QED  BY <1>16, <2>4, <2>5, <2>6 DEF Submit, Transports, k, x
  <1>17. CASE Approve(t)
    <2>1. /\ k.job = "approve" /\ request' = [request EXCEPT ![k.g].status = "approved"]
          /\ grant' = Append(grant, GrantFor(request[k.g], k.on))
          /\ Finish(t) /\ UNCHANGED <<rbac, legacy>>
      BY <1>17 DEF Approve, k
    <2>2. k.g \in DOMAIN request /\ k.on \in BOOLEAN /\ request \in Seq(Request)
      BY <1>0, <2>1 DEF Holds, IInv, TypeOK
    <2>3. request[k.g] \in Request
      BY <2>2
    <2>4. GrantFor(request[k.g], k.on) \in Grant /\ [request[k.g] EXCEPT !.status = "approved"] \in Request
      BY <2>2, <2>3 DEF GrantFor, Grant, Request
    <2>5. request' \in Seq(Request) /\ DOMAIN request' = DOMAIN request
      BY <2>1, <2>2, <2>4
    <2>6. grant' \in Seq(Grant)
      BY <2>1, <2>4 DEF IInv, TypeOK
    <2> QED  BY <1>0, <2>1, <2>5, <2>6, Written DEF IInv, TypeOK
  <1>18. CASE GiveUp(t)
    <2>0. budget \in Budget /\ budget.faults > 0 /\ budget' = [budget EXCEPT !.faults = @ - 1]
      BY <1>18 DEF GiveUp, IInv, TypeOK, Budget
    <2>a. budget.faults - 1 \in 0..MaxFaults
      BY <2>0, AccessGroupsAssumption DEF Budget
    <2>1. budget' \in Budget
      BY <2>0, <2>a DEF Budget
    <2>2. TypeOK'
      BY <1>18, <2>1 DEF GiveUp, IInv, TypeOK, Budget
    <2>3. Handlers'
      BY <1>18, HandlersMove, IdleHolds DEF GiveUp
    <2> QED  BY <2>2, <2>3 DEF IInv
  <1>19. ASSUME NEW g \in Groups, NEW us
         PROVE  Assigned(rbac.member[g], us) \in [Users -> Row \cup {None}]
    <2>1. FirstRow \in Row
      BY DEF FirstRow, Row, RolePermissions
    <2> QED  BY <1>0, <2>1 DEF Assigned, World
  <1>20. CASE AssignUsers(t)
    <2>1. CASE Conflict(t)
      BY <2>1, NothingWritten
    <2>2. CASE ~Conflict(t)
      <3> DEFINE x == IF k.seen THEN rbac.scope[k.g] ELSE rbac.scope[k.g] \cup {k.s}
                 y == Assigned(rbac.member[k.g], k.ids)
                 scoped == [rbac EXCEPT !.scope[k.g] = x]
      <3>1. /\ k.job = "assign users" /\ rbac' = [scoped EXCEPT !.member[k.g] = y]
            /\ Keep /\ Finish(t)
        BY <1>20, <2>2 DEF AssignUsers, k
      <3>2. k.g \in Groups /\ k.s \in Servers
        BY <1>0, <3>1 DEF Holds
      <3>3. x \in SUBSET Servers /\ y \in [Users -> Row \cup {None}]
        BY <1>0, <1>19, <3>2 DEF World
      <3> HIDE DEF x, y
      <3>4. scoped \in World
        BY <1>0, <3>2, <3>3, SetScope
      <3> HIDE DEF scoped
      <3> QED  BY <3>1, <3>2, <3>3, <3>4, SetMembers, Kept
    <2> QED  BY <2>1, <2>2
  <1>21. CASE NewProfile(t)
    <2> DEFINE g == NextId(rbac)
               new == [status |-> "on", limit |-> k.new, system |-> FALSE]
               x == rbac.scope[g] \cup {k.s}
               y == Assigned(rbac.member[g], k.ids)
               added == [rbac EXCEPT !.group[g] = new]
               scoped == [added EXCEPT !.scope[g] = x]
    <2>1. /\ k.job = "new profile" /\ g \in Groups /\ rbac' = [scoped EXCEPT !.member[g] = y]
          /\ Keep /\ Finish(t)
      BY <1>21 DEF NewProfile, k
    <2> HIDE DEF g
    <2>2. new \in Group /\ k.s \in Servers
      BY <1>0, <2>1 DEF Holds, Group, Durations
    <2>3. x \in SUBSET Servers /\ y \in [Users -> Row \cup {None}]
      BY <1>0, <1>19, <2>1, <2>2 DEF World
    <2> HIDE DEF new, x, y
    <2>4. added \in World
      BY <1>0, <2>1, <2>2, SetGroup
    <2> HIDE DEF added
    <2>5. scoped \in World
      BY <2>1, <2>3, <2>4, SetScope
    <2> HIDE DEF scoped
    <2> QED  BY <2>1, <2>3, <2>5, SetMembers, Kept
  <1> QED  BY <1>1, <1>2, <1>3, <1>4, <1>5, <1>6, <1>7, <1>8, <1>9, <1>10, <1>11, <1>12, <1>13,
              <1>14, <1>15, <1>16, <1>17, <1>18, <1>20, <1>21 DEF Ends
-----------------------------------------------------------------------------
LEMMA Ageing ==
  /\ \A row \in Row : Aged(row) \in Row
  /\ \A row \in Row \cup {None} : AgedRow(row) \in Row \cup {None}
  BY DEF Aged, AgedRow, Row

LEMMA TimeKeeps ==
  ASSUME IInv, TimePasses
  PROVE  IInv'
  <1> DEFINE aged == [g \in Groups |-> [u \in Users |-> AgedRow(rbac.member[g][u])]]
  <1>1. rbac' = [rbac EXCEPT !.member = aged] /\ rbac \in World
    BY Tables DEF TimePasses
  <1>2. aged \in [Groups -> [Users -> Row \cup {None}]]
    BY <1>1, Ageing DEF World
  <1> HIDE DEF aged
  <1>3. TypeOK'
    BY <1>1, <1>2 DEF TimePasses, IInv, TypeOK, World
  <1>4. ASSUME NEW t \in Threads PROVE (Shape(task[t]) /\ Holds(task[t]))'
    <2>1. Shape(task[t]) /\ Holds(task[t]) /\ request' = request
      BY DEF TimePasses, IInv, Handlers
    <2>2. CASE task[t].job # "member"
      <3>1. task'[t] = task[t]
        BY <2>2 DEF TimePasses
      <3>2. Shape(task[t])'
        BY <2>1, <3>1 DEF Shape
      <3>3. Holds(task[t])'
        BY <2>1, <3>1, ZenonT(60) DEF Holds
      <3> QED  BY <3>2, <3>3
    <2>3. CASE task[t].job = "member"
      <3> DEFINE j == [task[t] EXCEPT !.seen = AgedRow(task[t].seen), !.new = Aged(task[t].new)]
      <3>1. task'[t] = j
        BY <2>3 DEF TimePasses
      <3>2. /\ Shape(j) /\ j.job = "member" /\ j.on = task[t].on /\ j.g = task[t].g
            /\ j.u = task[t].u /\ j.seen = AgedRow(task[t].seen) /\ j.new = Aged(task[t].new)
        BY <2>1, <2>3 DEF Shape, Idle
      <3> HIDE DEF j
      <3>3. Holds(j)
        BY <2>1, <2>3, <3>2, Ageing DEF Holds
      <3> QED  BY <3>1, <3>2, <3>3, <2>1 DEF Shape, Holds
    <2> QED  BY <2>2, <2>3
  <1>5. task' = [t \in Threads |-> task'[t]]
    BY DEF TimePasses
  <1> QED  BY <1>3, <1>4, <1>5 DEF IInv, Handlers

LEMMA RestartKeeps ==
  ASSUME IInv, Restart
  PROVE  IInv'
  <1> DEFINE scope == [g \in Groups |-> IF g \in Existing(rbac)
                         THEN rbac.scope[g] \cup {s \in Servers : legacy[s] = g} ELSE rbac.scope[g]]
             linked == [rbac EXCEPT !.scope = scope]
             g == NextId(rbac)
             all == [status |-> "on", limit |-> Minutes, system |-> TRUE]
             rows == [u \in Users |-> LegacyRow(u)]
             rule == [allow |-> {"sudo", "gateway"}, deny |-> {}]
             unscoped == /\ \A h \in Groups : ~rbac.group[h].system
                         /\ \A h \in Groups, u \in Users : rbac.member[h][u] = None
  <1>1. rbac \in World /\ Keep /\ task' = [t \in Threads |-> Idle] /\ (unscoped => g \in Groups)
    BY Tables DEF Restart
  <1>2. rbac' = IF ~unscoped THEN linked
                ELSE [linked EXCEPT !.group[g] = all, !.scope[g] = Servers, !.member[g] = rows,
                                    !.rule[g] = rule]
    BY DEF Restart
  <1> HIDE DEF unscoped, g
  <1>3. scope \in [Groups -> SUBSET Servers]
    BY <1>1 DEF World
  <1>4. all \in Group /\ rule \in Rule
    BY AccessGroupsAssumption DEF Group, Rule, Perms, Entries
  <1>5. rows \in [Users -> Row \cup {None}]
    BY DEF LegacyRow, FirstRow, Row, RolePermissions
  <1> HIDE DEF scope, all, rule, rows
  <1>6. linked \in World
    BY <1>1, <1>3 DEF World
  <1> HIDE DEF linked
  <1>7. rbac' \in World
    <2>1. CASE ~unscoped
      BY <2>1, <1>2, <1>6
    <2>2. CASE unscoped
      <3> DEFINE w1 == [linked EXCEPT !.group[g] = all]
                 w2 == [w1 EXCEPT !.scope[g] = Servers]
                 w3 == [w2 EXCEPT !.member[g] = rows]
                 w4 == [w3 EXCEPT !.rule[g] = rule]
      <3>1. rbac' = w4
        BY <1>2, <2>2
      <3>2. g \in Groups
        BY <1>1, <2>2
      <3>3. w1 \in World
        BY <1>4, <1>6, <3>2, SetGroup
      <3> HIDE DEF w1
      <3>4. w2 \in World
        BY <3>2, <3>3, SetScope
      <3> HIDE DEF w2
      <3>5. w3 \in World
        BY <1>5, <3>2, <3>4 DEF World
      <3> HIDE DEF w3
      <3>6. w4 \in World
        BY <1>4, <3>2, <3>5, SetRule
      <3> QED  BY <3>1, <3>6
    <2> QED  BY <2>1, <2>2
  <1>8. budget' \in Budget
    BY Spent DEF Restart, IInv
  <1>9. TypeOK'
    BY <1>1, <1>7, <1>8 DEF IInv, TypeOK, Keep, Budget
  <1>10. Handlers'
    <2>1. task' = [t \in Threads |-> task'[t]] /\ \A t \in Threads : task'[t] = Idle
      BY <1>1
    <2>2. Holds(Idle)'
      BY DEF Holds, Idle
    <2>3. ASSUME NEW t \in Threads PROVE (Shape(task[t]) /\ Holds(task[t]))'
      BY <2>1, <2>2, IdleHolds DEF Holds, Shape
    <2> QED  BY <2>1, <2>3 DEF Handlers
  <1> QED  BY <1>9, <1>10 DEF IInv

LEMMA InitTypes ==
  Init => IInv
  <1> SUFFICES ASSUME Init PROVE IInv
    OBVIOUS
  <1>1. PICK member \in [Groups -> [Users -> {None, FirstRow}]], scope \in [Groups -> SUBSET Servers],
             rule \in [Groups -> {r \in Rules : r.deny = {}}], limit \in [Groups -> Limits],
             admins \in SUBSET Users : Installed(member, scope, rule, limit, admins)
    BY DEF Init
  <1> DEFINE account == [u \in Users |-> [admin |-> u \in admins, active |-> TRUE]]
             group == [g \in Groups |-> IF g <= 2 THEN [status |-> "on", limit |-> limit[g], system |-> FALSE]
                                        ELSE NoGroup]
             override == [g \in Groups |-> [u \in Users |-> NoRule]]
  <1>2. account \in [Users -> Account]
    BY DEF Account
  <1>3. group \in [Groups -> Group]
    <2> SUFFICES ASSUME NEW g \in Groups PROVE group[g] \in Group
      OBVIOUS
    <2>1. limit[g] \in Durations
      BY AccessGroupsAssumption DEF Durations
    <2> QED  BY <2>1 DEF Group, Durations
  <1>4. FirstRow \in Row /\ NoRule \in Rule /\ NoRule \in Entries
    BY DEF FirstRow, Row, RolePermissions, NoRule, Rule, Entries
  <1>5. override \in [Groups -> [Users -> Rule]]
    BY <1>4
  <1>6. /\ member \in [Groups -> [Users -> Row \cup {None}]]
        /\ rule \in [Groups -> Rule]
    BY <1>4, PayloadAssumption
  <1> HIDE DEF account, group, override
  <1>a. rbac = [account |-> account, group |-> group, member |-> member, scope |-> scope,
                template |-> NoRule, rule |-> rule, override |-> override]
    BY <1>1, Zenon DEF Installed, account, group, override
  <1>7. rbac \in World
    BY <1>a, <1>2, <1>3, <1>4, <1>5, <1>6 DEF World
  <1>8. request \in Seq(Request) /\ grant \in Seq(Grant)
    <2>1. /\ grant = << >> \/ \E x \in Grant : grant = <<x>>
          /\ request = << >> \/ \E x \in Request : request = <<x>>
      BY <1>1, Zenon DEF Installed
    <2>2. /\ << >> \in Seq(Grant) /\ \A x \in Grant : <<x>> \in Seq(Grant)
          /\ << >> \in Seq(Request) /\ \A x \in Request : <<x>> \in Seq(Request)
      OBVIOUS
    <2> QED  BY <2>1, <2>2
  <1>9. budget \in Budget
    BY <1>1, AccessGroupsAssumption DEF Installed, Budget
  <1>10. /\ legacy \in [Servers -> {0} \cup Groups]
         /\ task = [t \in Threads |-> Idle]
    BY <1>1 DEF Installed
  <1> QED  BY <1>7, <1>8, <1>9, <1>10, IdleHolds DEF IInv, TypeOK, Handlers, Budget

LEMMA NextKeeps ==
  IInv /\ [Next]_vars => IInv'
  <1> SUFFICES ASSUME IInv, [Next]_vars PROVE IInv'
    OBVIOUS
  <1>1. CASE UNCHANGED vars
    <2>1. TypeOK'
      BY <1>1 DEF vars, IInv, TypeOK
    <2>2. task' = task /\ request' = request
      BY <1>1 DEF vars
    <2>3. Handlers'
      BY <2>2, ZenonT(60) DEF IInv, Handlers, Holds, Shape
    <2> QED  BY <2>1, <2>3 DEF IInv
  <1>2. CASE Next
    BY <1>2, StartsKeep, EndsKeep, TimeKeeps, RestartKeeps DEF Next
  <1> QED  BY <1>1, <1>2

(* Every row has its columns' types whatever the handlers that interleave, *)
(* and no permission is both allowed and denied by the entries of a group  *)
(* or by a user's in it, although a template may do both                   *)
(* (routes/access_groups.py).                                              *)
THEOREM AccessGroupsTypes == Spec => []TypeOK
  <1>1. IInv => TypeOK
    BY DEF IInv
  <1> QED  BY <1>1, InitTypes, NextKeeps, PTL DEF Spec
-----------------------------------------------------------------------------
(* Two worlds that decide alike about a user on a server: they differ only *)
(* in groups through which the user does not reach it, in either.          *)
Agree(w1, w2, u, s, h) ==
  /\ s \in w1.scope[h] <=> s \in w2.scope[h]
  /\ w1.group[h].status = w2.group[h].status
  /\ w1.member[h][u] = w2.member[h][u]
  /\ w1.rule[h] = w2.rule[h] /\ w1.override[h][u] = w2.override[h][u]

Outside(w, u, s, h) == h \notin Through(w, u, s)

Alike(w1, w2, u, s) ==
  /\ w1.account[u] = w2.account[u] /\ w1.template = w2.template
  /\ \A h \in Groups : \/ Outside(w1, u, s, h) /\ Outside(w2, u, s, h)
                       \/ Agree(w1, w2, u, s, h)

LEMMA SameDecision ==
  ASSUME NEW w1, NEW w2, NEW u, NEW s, Alike(w1, w2, u, s)
  PROVE  \A p : HasOn(w1, u, p, s) <=> HasOn(w2, u, p, s)
  <1>1. \A h \in Groups : h \in Through(w1, u, s) <=> h \in Through(w2, u, s)
    BY DEF Alike, Agree, Outside, Through, ActiveIn
  <1>2. Through(w1, u, s) = Through(w2, u, s)
    BY <1>1 DEF Through
  <1>3. \A h \in Through(w1, u, s) : /\ Allows(w1, u, h) = Allows(w2, u, h)
                                     /\ Denies(w1, u, h) = Denies(w2, u, h)
    <2> TAKE h \in Through(w1, u, s)
    <2>1. Agree(w1, w2, u, s, h)
      BY DEF Alike, Outside, Through
    <2>2. Presets(w1, u, h) = Presets(w2, u, h)
      BY <2>1 DEF Alike, Agree, Presets
    <2> QED  BY <2>1, <2>2 DEF Agree, Allows, Denies
  <1> HIDE DEF Alike
  <1>4. w1.account[u] = w2.account[u]
    BY DEF Alike
  <1> QED  BY <1>2, <1>3, <1>4 DEF HasOn, HasVia

LEMMA SameAuthority ==
  ASSUME NEW w1, NEW w2, NEW gr, Alike(w1, w2, gr.user, gr.server)
  PROVE  Authorized(w1, gr) <=> Authorized(w2, gr)
  BY SameDecision DEF Authorized

LEMMA AlikeItself ==
  \A w, u, s : Alike(w, w, u, s)
  BY DEF Alike, Agree

(* What the three properties say of one commit.                            *)
SyncBody(t) ==
  /\ \A i \in Active : Known(t, grant[i].user) /\ Authorized(rbac, grant[i]) =>
       grant'[i].status # "active" \/ Authorized(rbac', grant[i])
  /\ \A i \in Active : Known(t, grant[i].user) =>
       grant'[i].status = "active" \/ ~Authorized(rbac', grant[i])
  /\ \A i \in Pending :
       Known(t, request[i].user) /\ HasOn(rbac, request[i].user, "request", request[i].server) =>
         \/ HasOn(rbac', request[i].user, "request", request[i].server)
         \/ request'[i].status = "cancelled"

RemoveBody(t) ==
  /\ \A i \in Active :
       Known(t, grant[i].user) /\ grant[i].server \in task[t].ids /\ HasOn(rbac, grant[i].user, "connect", grant[i].server)
         => grant'[i].status # "active" \/ HasOn(rbac', grant[i].user, "connect", grant[i].server)
  /\ \A i \in Active : Known(t, grant[i].user) =>
       grant'[i].status = "active" \/ ~Authorized(rbac', grant[i])

LEMMA RowsNamePeople ==
  ASSUME IInv
  PROVE  /\ \A i \in Active : i \in DOMAIN grant /\ grant[i] \in Grant /\ grant[i].status = "active"
                              /\ grant[i].user \in Users /\ grant[i].server \in Servers
         /\ \A i \in Pending : i \in DOMAIN request /\ request[i] \in Request
                              /\ request[i].status = "pending"
                              /\ request[i].user \in Users /\ request[i].server \in Servers
  <1>1. /\ grant \in Seq(Grant) /\ request \in Seq(Request)
        /\ \A i \in Active : i \in DOMAIN grant /\ grant[i].status = "active"
        /\ \A i \in Pending : i \in DOMAIN request /\ request[i].status = "pending"
    BY DEF IInv, TypeOK, Active, Pending
  <1>2. \A i \in DOMAIN grant : grant[i] \in Grant
    BY <1>1
  <1>3. \A i \in DOMAIN request : request[i] \in Request
    BY <1>1
  <1> QED  BY <1>1, <1>2, <1>3 DEF Grant, Request

(* A commit that changes no decision needs to look at no grant.            *)
LEMMA NothingLost ==
  ASSUME IInv, UNCHANGED <<request, grant>>, NEW w, rbac' = w,
         \A u \in Users, s \in Servers : Alike(rbac, w, u, s)
  PROVE  /\ \A i \in Active : Authorized(rbac, grant[i]) =>
              grant'[i].status # "active" \/ Authorized(w, grant[i])
         /\ \A i \in Active : grant'[i].status = "active" \/ ~Authorized(w, grant[i])
         /\ \A i \in Pending : HasOn(rbac, request[i].user, "request", request[i].server) =>
              \/ HasOn(w, request[i].user, "request", request[i].server)
              \/ request'[i].status = "cancelled"
  <1>1. \A i \in Active : Alike(rbac, w, grant[i].user, grant[i].server)
    BY RowsNamePeople
  <1>2. \A i \in Active : Authorized(rbac, grant[i]) <=> Authorized(w, grant[i])
    BY <1>1, SameAuthority
  <1>3. \A i \in Pending : Alike(rbac, w, request[i].user, request[i].server)
    BY RowsNamePeople
  <1>4. \A i \in Pending : HasOn(rbac, request[i].user, "request", request[i].server)
                             <=> HasOn(w, request[i].user, "request", request[i].server)
    BY <1>3, SameDecision
  <1> QED  BY <1>2, <1>4, RowsNamePeople

(* _revoke_lost_server_access, given a view that decides like the tables   *)
(* about a known user, and whoever it does not look at having lost nothing.*)
LEMMA SyncIsSound ==
  ASSUME IInv, NEW t \in Threads, NEW w, rbac' = w, NEW v, NEW g, NEW servers, Sync(w, v, g, servers),
         \A u \in Users, s \in Servers : Known(t, u) => Alike(v, w, u, s),
         \A u \in Users, s \in Servers :
           Alike(rbac, w, u, s) \/ (s \in servers /\ w.member[g][u] # None)
  PROVE  SyncBody(t)
  <1>1. \A i \in Active : grant'[i].status = IF i \in LostGrants(w, v, g, servers)
                                             THEN "revoked" ELSE "active"
    BY Revoked, RowsNamePeople DEF Sync
  <1>2. \A i \in Pending : request'[i].status = IF i \in LostRequests(w, v, g, servers)
                                                THEN "cancelled" ELSE "pending"
    BY Cancelled, RowsNamePeople DEF Sync
  <1>3. ASSUME NEW i \in Active, Known(t, grant[i].user)
        PROVE  /\ Authorized(v, grant[i]) <=> Authorized(w, grant[i])
               /\ Touched(grant[i], w, g, servers)
                  \/ (Authorized(rbac, grant[i]) <=> Authorized(w, grant[i]))
    <2>1. grant[i].user \in Users /\ grant[i].server \in Servers
      BY RowsNamePeople
    <2>2. Alike(v, w, grant[i].user, grant[i].server)
      BY <1>3, <2>1
    <2>3. \/ Alike(rbac, w, grant[i].user, grant[i].server)
          \/ Touched(grant[i], w, g, servers)
      BY <2>1 DEF Touched
    <2> QED  BY <2>2, <2>3, SameAuthority
  <1>4. ASSUME NEW i \in Pending, Known(t, request[i].user)
        PROVE  LET decided(x) == HasOn(x, request[i].user, "request", request[i].server)
               IN /\ decided(v) <=> decided(w)
                  /\ Touched(request[i], w, g, servers) \/ (decided(rbac) <=> decided(w))
    <2>1. request[i].user \in Users /\ request[i].server \in Servers
      BY RowsNamePeople
    <2>2. Alike(v, w, request[i].user, request[i].server)
      BY <1>4, <2>1
    <2>3. \/ Alike(rbac, w, request[i].user, request[i].server)
          \/ Touched(request[i], w, g, servers)
      BY <2>1 DEF Touched
    <2> QED  BY <2>2, <2>3, SameDecision
  <1>5. \A i \in Active : i \in LostGrants(w, v, g, servers) <=>
          Touched(grant[i], w, g, servers) /\ ~Authorized(v, grant[i])
    BY DEF LostGrants
  <1>6. \A i \in Pending : i \in LostRequests(w, v, g, servers) <=>
          /\ Touched(request[i], w, g, servers)
          /\ ~HasOn(v, request[i].user, "request", request[i].server)
    BY DEF LostRequests
  <1>7. \A i \in Active : Known(t, grant[i].user) /\ Authorized(rbac, grant[i]) =>
          grant'[i].status # "active" \/ Authorized(w, grant[i])
    BY <1>1, <1>3, <1>5
  <1>8. \A i \in Active : Known(t, grant[i].user) =>
          grant'[i].status = "active" \/ ~Authorized(w, grant[i])
    BY <1>1, <1>3, <1>5
  <1>9. \A i \in Pending :
          Known(t, request[i].user) /\ HasOn(rbac, request[i].user, "request", request[i].server) =>
            \/ HasOn(w, request[i].user, "request", request[i].server)
            \/ request'[i].status = "cancelled"
    BY <1>2, <1>4, <1>6
  <1> QED  BY <1>7, <1>8, <1>9 DEF SyncBody

(* A view that shows the tables as they are, accounts apart.               *)
Sight(v, w, t) ==
  /\ v.template = w.template /\ v.scope = w.scope /\ v.member = w.member
  /\ v.rule = w.rule /\ v.override = w.override
  /\ \A h \in Groups : v.group[h].status = w.group[h].status
  /\ \A u \in Users : Known(t, u) => v.account[u] = w.account[u]

LEMMA SightAlike ==
  ASSUME NEW v, NEW w, NEW t, Sight(v, w, t)
  PROVE  \A u \in Users : \A s : Known(t, u) => Alike(v, w, u, s)
  BY DEF Sight, Alike, Agree

LEMMA AccountsSeen ==
  ASSUME NEW t \in Threads, NEW w \in World, w.account = rbac.account
  PROVE  /\ Sight(SeenAccounts(w, t), w, t)
         /\ SeenAccounts(w, t).group = w.group
         /\ DOMAIN SeenAccounts(w, t) = DOMAIN w
  <1> DEFINE held == task[t].held
             f == [x \in Users |-> IF x \in DOMAIN held THEN held[x] ELSE w.account[x]]
  <1>1. SeenAccounts(w, t) = [w EXCEPT !.account = f]
    BY DEF SeenAccounts
  <1>2. \A u \in Users : Known(t, u) => f[u] = w.account[u]
    BY DEF Known
  <1> HIDE DEF f
  <1> QED  BY <1>1, <1>2 DEF Sight, World

LEMMA GroupSeen ==
  ASSUME NEW t \in Threads, NEW w \in World, w.account = rbac.account, task[t].g \in Groups,
         task[t].on \/ w.group[task[t].g].status # "on"
  PROVE  /\ Sight(SeenGroup(w, t), w, t)
         /\ DOMAIN SeenGroup(w, t) = DOMAIN w
  <1> DEFINE g == task[t].g
             a == SeenAccounts(w, t)
             st == IF w.group[g].status = "on" /\ ~task[t].on THEN "off" ELSE w.group[g].status
             x == [w.group[g] EXCEPT !.status = st]
             f == [w.group EXCEPT ![g] = x]
  <1>1. Sight(a, w, t) /\ a.group = w.group /\ DOMAIN a = DOMAIN w
    BY AccountsSeen
  <1>2. SeenGroup(w, t) = [a EXCEPT !.group = f]
    BY <1>1 DEF SeenGroup
  <1> HIDE DEF a
  <1>3. x.status = w.group[g].status
    BY DEF World, Group, NoGroup
  <1>4. \A h \in Groups : f[h].status = w.group[h].status
    BY <1>3 DEF World
  <1> HIDE DEF f
  <1>5. {"account", "group", "member", "scope", "rule", "override", "template"} = DOMAIN w
    BY DEF World
  <1> QED  BY <1>1, <1>2, <1>4, <1>5 DEF Sight

LEMMA MemberCommits ==
  ASSUME IInv, NEW t \in Threads, SetMember(t), Fresh(t)
  PROVE  SyncBody(t)
  <1> DEFINE k == task[t]
  <1>0. k.job = "member" /\ rbac \in World /\ Holds(k)
    BY Tables DEF IInv, Handlers, SetMember
  <1>1. CASE Conflict(t)
    BY <1>1, NothingLost, AlikeItself DEF Conflict, SyncBody
  <1>2. CASE ~Conflict(t)
    <2> DEFINE g == k.g
               u == k.u
               x == IF k.seen = None THEN k.new ELSE Merge(rbac.member[g][u], k.seen, k.new)
               w == [rbac EXCEPT !.member[g][u] = x]
               v == SeenRow(w, t)
    <2>1. /\ (rbac.member[g][u] = None) = (k.seen = None) /\ rbac' = w
          /\ Sync(w, v, g, w.scope[g])
      BY <1>2 DEF SetMember
    <2>2. g \in Groups /\ u \in Users /\ k.new \in Row /\ k.seen = rbac.member[g][u]
      BY <1>0 DEF Holds, Fresh
    <2>3. x = k.new
      <3>1. CASE k.seen = None
        BY <3>1
      <3>2. CASE k.seen # None
        <4>1. rbac.member[g][u] \in Row
          BY <1>0, <2>2, <3>2, OfWorld
        <4> HIDE DEF k
        <4> QED  BY <2>2, <3>2, <4>1 DEF Merge, Row
      <3> QED  BY <3>1, <3>2
    <2> HIDE DEF x
    <2>4. /\ w \in World /\ w.account = rbac.account /\ w.group = rbac.group /\ w.scope = rbac.scope
          /\ w.template = rbac.template /\ w.rule = rbac.rule /\ w.override = rbac.override
          /\ \A h \in Groups, y \in Users :
               w.member[h][y] = IF h = g /\ y = u THEN k.new ELSE rbac.member[h][y]
      BY <1>0, <2>2, <2>3, SetMemberRow
    <2> HIDE DEF w
    <2>5. /\ Sight(SeenGroup(w, t), w, t) /\ DOMAIN SeenGroup(w, t) = DOMAIN w
          /\ SeenGroup(w, t).member = w.member
      BY <2>2, <2>4, GroupSeen DEF Fresh, SeenOn, Sight
    <2>6. Sight(v, w, t)
      <3> DEFINE y == [k.new EXCEPT !.on = k.new.on /\ w.member[g][u].on]
                 m == [w.member EXCEPT ![g] = [w.member[g] EXCEPT ![u] = y]]
      <3>1. v = [SeenGroup(w, t) EXCEPT !.member = m]
        BY <2>5 DEF SeenRow
      <3>2. w.member[g][u] = k.new
        BY <2>2, <2>4
      <3>3. y = k.new
        <4> HIDE DEF k
        <4> QED  BY <2>2, <3>2 DEF Row
      <3> HIDE DEF y
      <3>a. w.member \in [Groups -> [Users -> Row \cup {None}]] /\ y = w.member[g][u]
        BY <2>4, <3>2, <3>3 DEF World
      <3>b. [w.member[g] EXCEPT ![u] = y] = w.member[g]
        BY <2>2, <3>a
      <3>4. m = w.member
        BY <2>2, <3>a, <3>b
      <3> HIDE DEF m, v
      <3>5. {"account", "group", "member", "scope", "rule", "override", "template"} = DOMAIN w
        BY <2>4 DEF World
      <3> QED  BY <2>5, <3>1, <3>4, <3>5 DEF Sight
    <2>7. ASSUME NEW y \in Users, NEW s \in Servers
          PROVE  Alike(rbac, w, y, s) \/ (s \in w.scope[g] /\ w.member[g][y] # None)
      <3>1. \A h \in Groups : h # g \/ y # u => Agree(rbac, w, y, s, h)
        BY <2>4 DEF Agree
      <3>2. CASE s \notin w.scope[g]
        <4>1. Outside(rbac, y, s, g) /\ Outside(w, y, s, g)
          BY <2>4, <3>2 DEF Outside, Through
        <4> QED  BY <2>4, <3>1, <4>1 DEF Alike
      <3>3. CASE y # u
        BY <2>4, <3>1, <3>3 DEF Alike
      <3>4. CASE y = u
        BY <2>2, <2>4, <3>2, <3>4, PayloadAssumption DEF Row
      <3> QED  BY <3>3, <3>4
    <2> HIDE DEF v
    <2> QED  BY <2>1, <2>6, <2>7, SightAlike, SyncIsSound
  <1> QED  BY <1>1, <1>2

(* A write to one group that leaves its servers and members alone cannot   *)
(* take anything from someone who is not a member, or on another server.   *)
OnlyGroup(w, g) ==
  /\ w.account = rbac.account /\ w.template = rbac.template
  /\ w.scope = rbac.scope /\ w.member = rbac.member
  /\ \A h \in Groups : h # g => /\ w.group[h] = rbac.group[h] /\ w.rule[h] = rbac.rule[h]
                                /\ w.override[h] = rbac.override[h]

LEMMA OneGroup ==
  ASSUME NEW w, NEW g, OnlyGroup(w, g)
  PROVE  \A u \in Users, s \in Servers :
           Alike(rbac, w, u, s) \/ (s \in w.scope[g] /\ w.member[g][u] # None)
  <1> SUFFICES ASSUME NEW u \in Users, NEW s \in Servers,
                      s \notin w.scope[g] \/ w.member[g][u] = None
               PROVE  Alike(rbac, w, u, s)
    OBVIOUS
  <1>1. Outside(rbac, u, s, g) /\ Outside(w, u, s, g)
    BY DEF OnlyGroup, Outside, Through, ActiveIn
  <1>2. \A h \in Groups : h # g => Agree(rbac, w, u, s, h)
    BY DEF OnlyGroup, Agree
  <1> QED  BY <1>1, <1>2 DEF OnlyGroup, Alike

LEMMA DropCommits ==
  ASSUME IInv, NEW t \in Threads, DropServer(t), Fresh(t)
  PROVE  SyncBody(t)
  <1> DEFINE k == task[t]
             g == k.g
             x == IF k.seen THEN rbac.scope[g] \ {k.s} ELSE rbac.scope[g]
             w == [rbac EXCEPT !.scope[g] = x]
  <1>1. /\ k.job = "drop" /\ rbac' = w /\ Sync(w, SeenGroup(w, t), g, {k.s})
    BY DEF DropServer
  <1>2. rbac \in World /\ g \in Groups
    BY <1>1, Tables DEF IInv, Handlers, Holds
  <1>3. x \in SUBSET Servers /\ \A s : s # k.s => (s \in x <=> s \in rbac.scope[g])
    BY <1>2 DEF World
  <1> HIDE DEF x
  <1>4. /\ w \in World /\ w.account = rbac.account /\ w.group = rbac.group
        /\ w.member = rbac.member /\ w.template = rbac.template /\ w.rule = rbac.rule
        /\ w.override = rbac.override
        /\ \A h \in Groups : w.scope[h] = IF h = g THEN x ELSE rbac.scope[h]
    BY <1>2, <1>3, SetScope
  <1> HIDE DEF w
  <1>5. Sight(SeenGroup(w, t), w, t)
    BY <1>2, <1>4, GroupSeen DEF Fresh, SeenOn
  <1>6. ASSUME NEW u \in Users, NEW s \in Servers
        PROVE  Alike(rbac, w, u, s) \/ (s \in {k.s} /\ w.member[g][u] # None)
    <2>1. CASE s # k.s
      BY <1>3, <1>4, <2>1 DEF Alike, Agree
    <2>2. CASE w.member[g][u] = None
      <3>1. Outside(rbac, u, s, g) /\ Outside(w, u, s, g)
        BY <1>4, <2>2 DEF Outside, Through, ActiveIn
      <3>2. \A h \in Groups : h # g => Agree(rbac, w, u, s, h)
        BY <1>4 DEF Agree
      <3> QED  BY <1>4, <3>1, <3>2 DEF Alike
    <2> QED  BY <2>1, <2>2
  <1> QED  BY <1>1, <1>5, <1>6, SightAlike, SyncIsSound

LEMMA RulesCommit ==
  ASSUME IInv, NEW t \in Threads, SetRules(t)
  PROVE  SyncBody(t)
  <1> DEFINE k == task[t]
             g == k.g
             x == Both(rbac.override[g][k.u], k.new)
             w == IF k.u = None THEN [rbac EXCEPT !.rule[g] = k.new]
                  ELSE [rbac EXCEPT !.rule[g] = NoRule, !.override[g][k.u] = x]
  <1>1. CASE Conflict(t)
    BY <1>1, NothingLost, AlikeItself DEF Conflict, SyncBody
  <1>2. CASE ~Conflict(t)
    <2>1. /\ k.job = "rules" /\ rbac' = w
          /\ Sync(w, SeenAccounts(w, t), g, w.scope[g])
      BY <1>2 DEF SetRules
    <2>2. rbac \in World /\ g \in Groups
      BY <2>1, Tables DEF IInv, Handlers, Holds
    <2>a. w \in World
      BY <1>2, <2>1, EndsKeep DEF Ends, IInv, TypeOK
    <2>3. /\ w.account = rbac.account /\ w.group = rbac.group /\ w.member = rbac.member
          /\ w.template = rbac.template /\ w.scope = rbac.scope
          /\ \A h \in Groups : h # g => w.rule[h] = rbac.rule[h] /\ w.override[h] = rbac.override[h]
      BY <2>2 DEF World
    <2> HIDE DEF w
    <2>4. OnlyGroup(w, g)
      BY <2>3 DEF OnlyGroup
    <2>5. Sight(SeenAccounts(w, t), w, t)
      BY <2>a, <2>3, AccountsSeen
    <2> QED  BY <2>1, <2>4, <2>5, OneGroup, SightAlike, SyncIsSound
  <1> QED  BY <1>1, <1>2

LEMMA OverrideCommits ==
  ASSUME IInv, NEW t \in Threads, SetOverride(t)
  PROVE  SyncBody(t)
  <1> DEFINE k == task[t]
             g == k.g
             w == [rbac EXCEPT !.override[g][k.u] = k.new]
  <1>1. CASE Conflict(t)
    BY <1>1, NothingLost, AlikeItself DEF Conflict, SyncBody
  <1>2. CASE ~Conflict(t)
    <2>1. /\ k.job = "override" /\ rbac' = w
          /\ Sync(w, SeenAccounts(w, t), g, w.scope[g])
      BY <1>2 DEF SetOverride
    <2>a. w \in World
      BY <1>2, <2>1, EndsKeep DEF Ends, IInv, TypeOK
    <2>2. rbac \in World /\ g \in Groups
      BY <2>1, Tables DEF IInv, Handlers, Holds
    <2>3. /\ w.account = rbac.account /\ w.group = rbac.group /\ w.member = rbac.member
          /\ w.template = rbac.template /\ w.scope = rbac.scope /\ w.rule = rbac.rule
          /\ \A h \in Groups : h # g => w.override[h] = rbac.override[h]
      BY <2>2 DEF World
    <2> HIDE DEF w
    <2>4. OnlyGroup(w, g)
      BY <2>3 DEF OnlyGroup
    <2>5. Sight(SeenAccounts(w, t), w, t)
      BY <2>a, <2>3, AccountsSeen
    <2> QED  BY <2>1, <2>4, <2>5, OneGroup, SightAlike, SyncIsSound
  <1> QED  BY <1>1, <1>2

(* Switched off just now, or already: then the status is left as it is.    *)
LEMMA UpdateCommits ==
  ASSUME IInv, NEW t \in Threads, UpdateGroup(t), task[t].new.status = "off"
  PROVE  SyncBody(t)
  <1> DEFINE k == task[t]
             g == k.g
             x == Merge(rbac.group[g], k.seen, k.new)
             w == [rbac EXCEPT !.group[g] = x]
  <1>1. CASE Conflict(t)
    BY <1>1, NothingLost, AlikeItself DEF Conflict, SyncBody
  <1>2. CASE ~Conflict(t)
    <2>1. /\ k.job = "update" /\ ~Gone(g) /\ rbac' = w
          /\ IF k.seen.status = "on" THEN Sync(w, SeenAccounts(w, t), g, w.scope[g])
             ELSE UNCHANGED <<request, grant>>
      BY <1>2 DEF UpdateGroup
    <2>a. w \in World
      BY <1>2, <2>1, EndsKeep DEF Ends, IInv, TypeOK
    <2>2. /\ rbac \in World /\ g \in Groups
          /\ k.seen \in Group \ {NoGroup} /\ k.new \in Group \ {NoGroup}
      BY <2>1, Tables DEF IInv, Handlers, Holds
    <2>3. rbac.group[g] \in Group \ {NoGroup}
      BY <2>1, <2>2 DEF Gone, World, NoGroup
    <2>4. x \in Group /\ (k.seen.status # "on" => x.status = rbac.group[g].status)
      <3>1. k.seen.status \in {"on", "off"}
        BY <2>2, RealGroup
      <3> QED  BY <2>2, <2>3, <3>1, MergeGroups
    <2> HIDE DEF x
    <2>5. /\ w.account = rbac.account /\ w.member = rbac.member /\ w.template = rbac.template
          /\ w.scope = rbac.scope /\ w.rule = rbac.rule /\ w.override = rbac.override
          /\ \A h \in Groups : w.group[h] = IF h = g THEN x ELSE rbac.group[h]
      <3> HIDE DEF k, g
      <3>1. /\ w.account = rbac.account /\ w.member = rbac.member /\ w.template = rbac.template
            /\ w.scope = rbac.scope /\ w.rule = rbac.rule /\ w.override = rbac.override
            /\ w.group = [rbac.group EXCEPT ![g] = x] /\ rbac.group \in [Groups -> Group]
        BY <2>2 DEF World
      <3> HIDE DEF w
      <3> QED  BY <2>2, <3>1
    <2> HIDE DEF w
    <2>6. CASE k.seen.status = "on"
      <3>1. OnlyGroup(w, g)
        BY <2>5 DEF OnlyGroup
      <3>2. Sight(SeenAccounts(w, t), w, t)
        BY <2>a, <2>5, AccountsSeen
      <3> QED  BY <2>1, <2>6, <3>1, <3>2, OneGroup, SightAlike, SyncIsSound
    <2>7. CASE k.seen.status # "on"
      <3>1. ASSUME NEW u \in Users, NEW s \in Servers PROVE Alike(rbac, w, u, s)
        BY <2>4, <2>5, <2>7 DEF Alike, Agree
      <3> QED  BY <2>1, <2>7, <3>1, NothingLost DEF SyncBody
    <2> QED  BY <2>6, <2>7
  <1> QED  BY <1>1, <1>2

LEMMA DisableCommits ==
  ASSUME IInv, NEW t \in Threads, DisableGroup(t), Fresh(t)
  PROVE  SyncBody(t)
  <1> DEFINE k == task[t]
             g == k.g
             status == IF k.on THEN "off" ELSE rbac.group[g].status
             w == [rbac EXCEPT !.group[g].status = status]
             v == [SeenAccounts(w, t) EXCEPT !.group[g].status = "off"]
  <1>1. CASE Conflict(t)
    BY <1>1, NothingLost, AlikeItself DEF Conflict, SyncBody
  <1>2. CASE ~Conflict(t)
    <2>1. k.job = "disable" /\ rbac' = w /\ Sync(w, v, g, w.scope[g])
      BY <1>2 DEF DisableGroup
    <2>2. rbac \in World /\ g \in Groups
      BY <2>1, Tables DEF IInv, Handlers, Holds
    <2>a. w \in World
      BY <1>2, <2>1, EndsKeep DEF Ends, IInv, TypeOK
    <2>3. status # "on"
      BY DEF Fresh, SeenOn
    <2> HIDE DEF status
    <2>4. /\ w.account = rbac.account /\ w.member = rbac.member /\ w.template = rbac.template
          /\ w.scope = rbac.scope /\ w.rule = rbac.rule /\ w.override = rbac.override
          /\ \A h \in Groups : h # g => w.group[h] = rbac.group[h]
          /\ w.group[g].status # "on"
      BY <2>2, <2>3 DEF World, Group, NoGroup
    <2> HIDE DEF w
    <2>5. /\ v.member = w.member /\ v.template = w.template
          /\ v.scope = w.scope /\ v.rule = w.rule /\ v.override = w.override
          /\ \A h \in Groups : h # g => v.group[h] = w.group[h]
          /\ v.group[g].status # "on"
          /\ \A u \in Users : Known(t, u) => v.account[u] = w.account[u]
      <3> DEFINE a == SeenAccounts(w, t)
                 x == [w.group[g] EXCEPT !.status = "off"]
                 f == [w.group EXCEPT ![g] = x]
      <3>1. Sight(a, w, t) /\ a.group = w.group /\ DOMAIN a = DOMAIN w
        BY <2>a, <2>4, AccountsSeen
      <3>2. v = [a EXCEPT !.group = f]
        BY <3>1
      <3> HIDE DEF a
      <3>3. x.status = "off"
        BY <2>2, <2>a DEF World, Group, NoGroup
      <3>4. f[g] = x /\ \A h \in Groups : h # g => f[h] = w.group[h]
        BY <2>2, <2>a DEF World
      <3> HIDE DEF f, x
      <3>5. {"account", "group", "member", "scope", "rule", "override", "template"} = DOMAIN w
        BY <2>a DEF World
      <3> HIDE DEF v
      <3> QED  BY <3>1, <3>2, <3>3, <3>4, <3>5 DEF Sight
    <2> HIDE DEF v
    <2>6. ASSUME NEW u \in Users, NEW s \in Servers, Known(t, u) PROVE Alike(v, w, u, s)
      <3>1. Outside(v, u, s, g) /\ Outside(w, u, s, g)
        BY <2>4, <2>5 DEF Outside, Through, ActiveIn
      <3> QED  BY <2>5, <2>6, <3>1 DEF Alike, Agree
    <2>7. OnlyGroup(w, g)
      BY <2>4 DEF OnlyGroup
    <2> QED  BY <2>1, <2>6, <2>7, OneGroup, SyncIsSound
  <1> QED  BY <1>1, <1>2

LEMMA RemoveCommits ==
  ASSUME IInv, NEW t \in Threads, RemoveMember(t), Fresh(t)
  PROVE  RemoveBody(t)
  <1> DEFINE k == task[t]
             g == k.g
             off == [rbac EXCEPT !.member[g][k.u] = None]
             w == [off EXCEPT !.override[g][k.u] = NoRule]
             lost == {s \in k.ids : ~HasOn(SeenGroup(off, t), k.u, "connect", s)}
             ids == {i \in Active : grant[i].user = k.u /\ grant[i].server \in lost}
  <1>1. CASE Conflict(t)
    <2>1. rbac' = rbac /\ grant' = grant
      BY <1>1 DEF Conflict
    <2> QED  BY <2>1, RowsNamePeople DEF RemoveBody
  <1>2. CASE ~Conflict(t)
    <2>1. k.job = "remove" /\ rbac' = w /\ Revoke(ids)
      BY <1>2 DEF RemoveMember
    <2>2. rbac \in World /\ g \in Groups /\ k.u \in Users /\ NoRule \in Rule
      BY <2>1, Tables DEF IInv, Handlers, Holds, NoRule, Rule, Entries
    <2>0. None \in Row \cup {None}
      OBVIOUS
    <2> HIDE DEF k, g
    <2>3. /\ off \in World /\ off.account = rbac.account /\ off.group = rbac.group
          /\ off.scope = rbac.scope /\ off.template = rbac.template /\ off.rule = rbac.rule
          /\ off.override = rbac.override
          /\ \A h \in Groups, y \in Users :
               off.member[h][y] = IF h = g /\ y = k.u THEN None ELSE rbac.member[h][y]
      BY <2>0, <2>2, SetMemberRow
    <2> HIDE DEF off
    <2>4. /\ w.account = off.account /\ w.group = off.group /\ w.scope = off.scope
          /\ w.template = off.template /\ w.rule = off.rule /\ w.member = off.member
          /\ \A h \in Groups, y \in Users :
               w.override[h][y] = IF h = g /\ y = k.u THEN NoRule ELSE off.override[h][y]
      BY <2>2, <2>3 DEF World
    <2> HIDE DEF w
    <2>5. Sight(SeenGroup(off, t), off, t)
      BY <2>2, <2>3, GroupSeen DEF Fresh, SeenOn, k, g
    <2>a. Known(t, k.u) =>
            \A s : HasOn(SeenGroup(off, t), k.u, "connect", s) <=> HasOn(off, k.u, "connect", s)
      BY <2>2, <2>5, SightAlike, SameDecision
    <2>6. ASSUME NEW s PROVE Alike(off, w, k.u, s)
      <3>1. Outside(off, k.u, s, g) /\ Outside(w, k.u, s, g)
        BY <2>2, <2>3, <2>4 DEF Outside, Through, ActiveIn
      <3>2. \A h \in Groups : h # g => Agree(off, w, k.u, s, h)
        BY <2>2, <2>4 DEF Agree
      <3> QED  BY <2>4, <3>1, <3>2 DEF Alike
    <2>7. ASSUME NEW y \in Users, y # k.u, NEW s PROVE Alike(rbac, w, y, s)
      BY <2>3, <2>4, <2>7 DEF Alike, Agree
    <2> DEFINE connects(x, i) == HasOn(x, grant[i].user, "connect", grant[i].server)
    <2>8. ASSUME NEW i \in Active
          PROVE  /\ grant[i].user # k.u => (connects(rbac, i) <=> connects(w, i))
                 /\ grant[i].user = k.u => (connects(off, i) <=> connects(w, i))
      <3>1. CASE grant[i].user # k.u
        BY <2>7, <3>1, RowsNamePeople, SameDecision
      <3>2. CASE grant[i].user = k.u
        BY <2>6, <3>2, SameDecision
      <3> QED  BY <3>1, <3>2
    <2>9. \A i \in Active : Known(t, k.u) /\ grant[i].user = k.u /\ grant[i].server \in k.ids =>
            (i \in ids <=> ~connects(off, i))
      BY <2>a DEF k
    <2>10. \A i \in Active :
             /\ grant'[i].status = IF i \in ids THEN "revoked" ELSE "active"
             /\ i \in ids => grant[i].user = k.u /\ grant[i].server \in k.ids
      BY <2>1, Revoked, RowsNamePeople
    <2>11. \A i \in Active : ~connects(w, i) => ~Authorized(w, grant[i])
      BY DEF Authorized
    <2> HIDE DEF ids, lost, connects
    <2>12. \A i \in Active :
             Known(t, grant[i].user) /\ grant[i].server \in k.ids /\ connects(rbac, i) =>
               grant'[i].status # "active" \/ connects(w, i)
      BY <2>8, <2>9, <2>10
    <2>13. \A i \in Active : Known(t, grant[i].user) =>
             grant'[i].status = "active" \/ ~Authorized(w, grant[i])
      BY <2>8, <2>9, <2>10, <2>11
    <2> QED  BY <2>1, <2>12, <2>13 DEF RemoveBody, connects, k
  <1> QED  BY <1>1, <1>2
-----------------------------------------------------------------------------
(* Which step a commit is.                                                 *)
LEMMA StartsSpend ==
  ASSUME NEW t \in Threads, Starts(t)
  PROVE  Spend
  <1>1. StartMember(t) => Spend
    BY DEF StartMember, Start
  <1>2. StartRemove(t) => Spend
    BY DEF StartRemove, Start
  <1>3. StartServers(t) => Spend
    BY DEF StartServers, Start
  <1>4. StartAssign(t) => Spend
    BY DEF StartAssign, Start
  <1>5. StartRules(t) => Spend
    BY DEF StartRules, Start
  <1>6. StartOverride(t) => Spend
    BY DEF StartOverride, Start
  <1>7. StartTemplate(t) => Spend
    BY DEF StartTemplate, Start
  <1>8. StartCopy(t) => Spend
    BY DEF StartCopy, Start
  <1>9. StartCreate(t) => Spend
    BY DEF StartCreate, Start
  <1>10. StartUpdate(t) => Spend
    BY DEF StartUpdate, Start
  <1>11. StartDelete(t) => Spend
    BY DEF StartDelete, Start
  <1>12. StartAccount(t) => Spend
    BY DEF StartAccount, Start
  <1>13. StartRevokeAll(t) => Spend
    BY DEF StartRevokeAll, Start
  <1>14. StartSubmit(t) => Spend
    BY DEF StartSubmit, Start
  <1>15. StartApprove(t) => Spend
    BY DEF StartApprove, Start
  <1>16. StartWizard(t) => Spend
    BY DEF StartWizard, Start
  <1> QED  BY <1>1, <1>2, <1>3, <1>4, <1>5, <1>6, <1>7, <1>8, <1>9, <1>10, <1>11, <1>12, <1>13, <1>14,
              <1>15, <1>16 DEF Starts

Frees(t, job) == task[t].job = job /\ task' = [task EXCEPT ![t] = Idle]

LEMMA EndsFree ==
  ASSUME NEW t \in Threads
  PROVE  /\ SetMember(t) => Frees(t, "member")
         /\ RemoveMember(t) => Frees(t, "remove")
         /\ AddServer(t) => Frees(t, "add")
         /\ DropServer(t) => Frees(t, "drop")
         /\ AssignGroups(t) => Frees(t, "assign")
         /\ SetRules(t) => Frees(t, "rules")
         /\ SetOverride(t) => Frees(t, "override")
         /\ SetTemplate(t) => Frees(t, "template")
         /\ CopySettings(t) => Frees(t, "copy")
         /\ CreateGroup(t) => Frees(t, "create")
         /\ UpdateGroup(t) => Frees(t, "update")
         /\ DisableGroup(t) => Frees(t, "disable")
         /\ DeleteGroup(t) => Frees(t, "delete")
         /\ SetAccount(t) => Frees(t, "account")
         /\ RevokeAll(t) => Frees(t, "revoke")
         /\ Submit(t) => Frees(t, "submit")
         /\ Approve(t) => Frees(t, "approve")
         /\ AssignUsers(t) => Frees(t, "assign users")
         /\ NewProfile(t) => Frees(t, "new profile")
  <1>1. SetMember(t) => Frees(t, "member")
    BY DEF SetMember, Frees, Finish, Conflict
  <1>2. RemoveMember(t) => Frees(t, "remove")
    BY DEF RemoveMember, Frees, Finish, Conflict
  <1>3. AddServer(t) => Frees(t, "add")
    BY DEF AddServer, Frees, Finish, Conflict
  <1>4. DropServer(t) => Frees(t, "drop")
    BY DEF DropServer, Frees, Finish, Conflict
  <1>5. AssignGroups(t) => Frees(t, "assign")
    BY DEF AssignGroups, Frees, Finish, Conflict
  <1>6. SetRules(t) => Frees(t, "rules")
    BY DEF SetRules, Frees, Finish, Conflict
  <1>7. SetOverride(t) => Frees(t, "override")
    BY DEF SetOverride, Frees, Finish, Conflict
  <1>8. SetTemplate(t) => Frees(t, "template")
    BY DEF SetTemplate, Frees, Finish, Conflict
  <1>9. CopySettings(t) => Frees(t, "copy")
    BY DEF CopySettings, Frees, Finish, Conflict
  <1>10. CreateGroup(t) => Frees(t, "create")
    BY DEF CreateGroup, Frees, Finish, Conflict
  <1>11. UpdateGroup(t) => Frees(t, "update")
    BY DEF UpdateGroup, Frees, Finish, Conflict
  <1>12. DisableGroup(t) => Frees(t, "disable")
    BY DEF DisableGroup, Frees, Finish, Conflict
  <1>13. DeleteGroup(t) => Frees(t, "delete")
    BY DEF DeleteGroup, Frees, Finish, Conflict
  <1>14. SetAccount(t) => Frees(t, "account")
    BY DEF SetAccount, Frees, Finish, Conflict
  <1>15. RevokeAll(t) => Frees(t, "revoke")
    BY DEF RevokeAll, Frees, Finish, Conflict
  <1>16. Submit(t) => Frees(t, "submit")
    BY DEF Submit, Frees, Finish, Conflict
  <1>17. Approve(t) => Frees(t, "approve")
    BY DEF Approve, Frees, Finish, Conflict
  <1>18. AssignUsers(t) => Frees(t, "assign users")
    BY DEF AssignUsers, Frees, Finish, Conflict
  <1>19. NewProfile(t) => Frees(t, "new profile")
    BY DEF NewProfile, Frees, Finish, Conflict
  <1> QED  BY <1>1, <1>2, <1>3, <1>4, <1>5, <1>6, <1>7, <1>8, <1>9, <1>10, <1>11, <1>12, <1>13, <1>14,
              <1>15, <1>16, <1>17, <1>18, <1>19

(* Only the handler that writes sets its thread free and spends nothing:   *)
(* starts of handlers and of the API and rollbacks spend a budget.         *)
LEMMA WhoCommits ==
  ASSUME IInv, [Next]_vars, NEW t \in Threads, NEW jobs, "idle" \notin jobs, Commits(t, jobs)
  PROVE  Ends(t) /\ ~GiveUp(t) /\ task[t].job \in jobs
  <1>1. task[t].job \in jobs /\ task'[t] = Idle /\ budget' = budget
    BY DEF Commits
  <1>2. task[t] # Idle
    BY <1>1, IdleHolds
  <1>3. ~UNCHANGED vars
    BY <1>1, <1>2 DEF vars
  <1>4. ASSUME NEW x \in Threads PROVE ~Starts(x)
    BY <1>1, StartsSpend, Spent DEF IInv
  <1>5. ~Restart
    BY <1>1, Spent DEF IInv, Restart
  <1>6. ~TimePasses
    <2> SUFFICES ASSUME TimePasses PROVE FALSE
      OBVIOUS
    <2>1. task'[t] = IF task[t].job = "member"
                     THEN [task[t] EXCEPT !.seen = AgedRow(@), !.new = Aged(@)] ELSE task[t]
      BY DEF TimePasses
    <2>2. task[t].job = "member"
      BY <1>1, <1>2, <2>1
    <2>3. task'[t].job = "member"
      <3> DEFINE j == task[t]
      <3>1. Shape(j) /\ j.job = "member"
        BY <2>2 DEF IInv, Handlers
      <3> HIDE DEF j
      <3>2. [j EXCEPT !.seen = AgedRow(@), !.new = Aged(@)].job = "member"
        BY <3>1 DEF Shape, Idle
      <3> QED  BY <2>1, <2>2, <3>2 DEF j
    <2> QED  BY <1>1, <2>3, IdleHolds
  <1>7. ASSUME NEW x \in Threads PROVE ~GiveUp(x)
    <2> SUFFICES ASSUME GiveUp(x) PROVE FALSE
      OBVIOUS
    <2>1. budget.faults \in Nat /\ budget'.faults = budget.faults - 1
      BY AccessGroupsAssumption DEF GiveUp, IInv, TypeOK
    <2> QED  BY <1>1, <2>1
  <1>8. PICK x \in Threads : Ends(x)
    BY <1>3, <1>4, <1>5, <1>6 DEF Next
  <1>9. \E job : Frees(x, job)
    BY <1>7, <1>8, EndsFree DEF Ends
  <1>10. x = t
    BY <1>1, <1>2, <1>9 DEF Frees, IInv, Handlers
  <1> QED  BY <1>1, <1>7, <1>8, <1>10

LEMMA SyncedCommits ==
  ASSUME IInv, [Next]_vars, NEW t \in Threads, Synced(t)
  PROVE  SyncBody(t)
  <1>1. CASE Commits(t, {"member", "drop", "rules", "override", "disable"})
    <2>1. /\ Ends(t) /\ ~GiveUp(t)
          /\ task[t].job \in {"member", "drop", "rules", "override", "disable"}
      BY <1>1, WhoCommits
    <2>2. SetMember(t) \/ DropServer(t) \/ SetRules(t) \/ SetOverride(t) \/ DisableGroup(t)
      BY <2>1, EndsFree DEF Ends, Frees
    <2> QED  BY <2>2, MemberCommits, DropCommits, RulesCommit, OverrideCommits, DisableCommits DEF Synced
  <1>2. CASE Commits(t, {"update"}) /\ task[t].new.status = "off"
    <2>1. Ends(t) /\ ~GiveUp(t) /\ task[t].job \in {"update"}
      BY <1>2, WhoCommits
    <2>2. UpdateGroup(t)
      BY <2>1, EndsFree DEF Ends, Frees
    <2> QED  BY <1>2, <2>2, UpdateCommits
  <1> QED  BY <1>1, <1>2 DEF Synced

LEMMA RemovalCommits ==
  ASSUME IInv, [Next]_vars, NEW t \in Threads, Commits(t, {"remove"}), Fresh(t)
  PROVE  RemoveBody(t)
  <1>1. Ends(t) /\ ~GiveUp(t) /\ task[t].job \in {"remove"}
    BY WhoCommits
  <1>2. RemoveMember(t)
    BY <1>1, EndsFree DEF Ends, Frees
  <1> QED  BY <1>2, RemoveCommits
-----------------------------------------------------------------------------
(* When a change of a membership, a group's rules or a user's overrides    *)
(* commits, or one that takes a server out of a group or switches a group  *)
(* off, no grant stays active whose user it took a permission from, unless *)
(* the user's account changed since the handler loaded it (rbac.py's       *)
(* decisions, _revoke_lost_server_access and its callers).                 *)
THEOREM LossesAreRevoked == Spec => LossIsRevoked
  <1> DEFINE Body == \A t \in Threads : \A i \in Active :
               \/ grant'[i].status # "active" \/ ~Known(t, grant[i].user)
               \/ /\ Synced(t) /\ Authorized(rbac, grant[i]) => Authorized(rbac', grant[i])
                  /\ Commits(t, {"remove"}) /\ Fresh(t) /\ grant[i].server \in task[t].ids
                       /\ HasOn(rbac, grant[i].user, "connect", grant[i].server)
                       => HasOn(rbac', grant[i].user, "connect", grant[i].server)
  <1>1. IInv /\ [Next]_vars => Body
    <2> SUFFICES ASSUME IInv, [Next]_vars, NEW t \in Threads, NEW i \in Active,
                        grant'[i].status = "active", Known(t, grant[i].user)
                 PROVE  /\ Synced(t) /\ Authorized(rbac, grant[i]) => Authorized(rbac', grant[i])
                        /\ Commits(t, {"remove"}) /\ Fresh(t) /\ grant[i].server \in task[t].ids
                             /\ HasOn(rbac, grant[i].user, "connect", grant[i].server)
                             => HasOn(rbac', grant[i].user, "connect", grant[i].server)
      OBVIOUS
    <2>1. Synced(t) /\ Authorized(rbac, grant[i]) => Authorized(rbac', grant[i])
      BY SyncedCommits DEF SyncBody
    <2>2. Commits(t, {"remove"}) /\ Fresh(t) /\ grant[i].server \in task[t].ids
            /\ HasOn(rbac, grant[i].user, "connect", grant[i].server)
            => HasOn(rbac', grant[i].user, "connect", grant[i].server)
      BY RemovalCommits DEF RemoveBody
    <2> QED  BY <2>1, <2>2
  <1>2. IInv /\ [Next]_vars => [Body]_vars
    BY <1>1
  <1> QED  BY <1>2, InitTypes, NextKeeps, PTL DEF Spec, LossIsRevoked

(* Such a commit revokes no grant that another group still covers, of a    *)
(* user whose account is as the handler loaded it.                         *)
THEOREM OnlyLossesAreRevoked == Spec => RevokedWasLost
  <1> DEFINE Body == \A t \in Threads : \A i \in Active :
               (Synced(t) \/ (Commits(t, {"remove"}) /\ Fresh(t))) /\ Known(t, grant[i].user) =>
                 grant'[i].status = "active" \/ ~Authorized(rbac', grant[i])
  <1>1. IInv /\ [Next]_vars => Body
    BY SyncedCommits, RemovalCommits DEF SyncBody, RemoveBody
  <1>2. IInv /\ [Next]_vars => [Body]_vars
    BY <1>1
  <1> QED  BY <1>2, InitTypes, NextKeeps, PTL DEF Spec, RevokedWasLost

(* And it leaves no request pending whose user it took the right to ask    *)
(* from, with the same exception.                                          *)
THEOREM LostRequestsAreCancelled == Spec => CancelledWithScope
  <1> DEFINE Body == \A t \in Threads : \A i \in Pending :
               Synced(t) /\ Known(t, request[i].user)
                 /\ HasOn(rbac, request[i].user, "request", request[i].server) =>
                   \/ HasOn(rbac', request[i].user, "request", request[i].server)
                   \/ request'[i].status = "cancelled"
  <1>1. IInv /\ [Next]_vars => Body
    BY SyncedCommits DEF SyncBody
  <1>2. IInv /\ [Next]_vars => [Body]_vars
    BY <1>1
  <1> QED  BY <1>2, InitTypes, NextKeeps, PTL DEF Spec, CancelledWithScope
=============================================================================
