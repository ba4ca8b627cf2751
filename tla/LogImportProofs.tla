-------------------------- MODULE LogImportProofs --------------------------
(***************************************************************************)
(* What LogImport promises for any number of grants, shells, handlers,     *)
(* lines and faults.  An import writes offsets, rows and commands that it  *)
(* worked out from files fetched and tables read earlier, while others     *)
(* commit; an import that finds a critical command starts another one of   *)
(* the same grant inside itself.  The strengthening says what a handler in *)
(* progress still knows: whatever the offsets it will write pass over is   *)
(* in the tables it sees, or among the entries it has left.                *)
(* A second strengthening, Closing, follows the rows of the sessions.      *)
(***************************************************************************)
EXTENDS LogImport, FiniteSetTheorems, WellFoundedInduction, TLAPS

Budget == [requests : Nat, faults : Nat]

Run == [job : {"idle", "import", "revoke", "tick", "expire"},
        pc : {"idle", "next", "commands", "sessions", "offsets", "insert", "look",
              "write", "finish", "remove"},
        grant : Grants \cup {None}, queue : SUBSET Grants,
        close : BOOLEAN, outer : Seq(SUBSET (Paths \X Nat)), live : BOOLEAN,
        got : [Paths -> File], todo : SUBSET (Paths \X Nat),
        mark : [Paths -> Offset], stale : SUBSET Paths,
        found : Rows \cup {0}, adopt : Shells \cup {None}, reach : Nat]

Away(t) == t.pc \in {"idle", "next"}

(* The files: of what was typed some may be cut off, never what is not yet *)
(* written, and a shell reports its start before it reports a command.     *)
Files ==
  /\ \A a \in Accounts, p \in Paths : log[a][p].cut <= Len(log[a][p].line)
  /\ \A a \in Accounts : Len(log[a]["commands"].line) <= MaxLines
  /\ \A a \in Accounts : \A n \in 1..Len(log[a]["commands"].line) :
       log[a]["commands"].line[n].kind \notin Events

(* A fetched file is the file as it was.                                   *)
Older(f, e) ==
  f.cut <= Len(f.line) /\ f.cut <= e.cut /\ Len(f.line) <= Len(e.line)

(* Entries are lines that exist.                                           *)
Written(S, f) == \A e \in S : e[2] \in 1..Len(f[e[1]].line)

(* A handler, against the files l.                                         *)
Handler(t, l) ==
  /\ Away(t) => t.outer = << >>
  /\ t.pc \notin {"look", "write"} => t.todo = {}
  /\ t.pc = "write" => t.todo # {}
  /\ t.pc \notin {"look", "write", "finish"} => t.stale = {} /\ t.adopt = None
  /\ t.pc \notin {"sessions", "offsets", "insert"} => t.got = Idle.got
  /\ t.pc # "write" => t.found = 0
  /\ "commands" \in t.stale => t.mark["commands"].end = t.reach
  /\ ~Away(t) =>
       /\ t.grant \in Grants
       /\ \A p \in Paths : Older(t.got[p], l[Account[t.grant]][p])
       /\ Written(t.todo, l[Account[t.grant]])
       /\ \A i \in DOMAIN t.outer : Written(t.outer[i], l[Account[t.grant]])

(* Entries a handler has left, those of interrupted imports among them.    *)
Pending(t, p, n) ==
  <<p, n>> \in t.todo \/ \E i \in DOMAIN t.outer : <<p, n>> \in t.outer[i]

(* What it fetched, which the offset it will write passes over, and the    *)
(* row it found, in the tables d it sees.                                  *)
Marks(t, d) ==
  t.pc \in {"look", "write", "finish", "remove"} =>
    \A n \in 1..t.reach :
      Imported(d, t.grant, n) \/ Pending(t, "commands", n)

Finds(t, d) == t.found # 0 => d.row[t.found].grant = t.grant

(* Tables d became e: no command and no owner of a row was lost.           *)
Kept(d, e) ==
  /\ d.cmds \subseteq e.cmds
  /\ \A r \in Rows : d.row[r].grant # None => e.row[r].grant = d.row[r].grant

Held(g, p, n) ==
  \E w \in Threads : lock = w /\ task[w].grant = g /\ Pending(task[w], p, n)

CutIsImported ==
  \A g \in Grants \ gapped :
    \A n \in 1..log[Account[g]]["commands"].cut : Imported(base, g, n)

PassedIsImported ==
  \A g \in Grants \ gapped :
    \A n \in 1..db.offset[g]["commands"].end :
      Imported(db, g, n) \/ Held(g, "commands", n)

IInv ==
  /\ TypeOK /\ Files
  /\ \A w \in Threads :
       /\ Handler(task[w], log) /\ Finds(task[w], View(w))
       /\ task[w].grant \notin gapped => Marks(task[w], View(w))
       /\ task[w].pc = "remove" => lock = w
  /\ Kept(base, db)
  /\ CutIsImported /\ PassedIsImported /\ NothingSkipped
-----------------------------------------------------------------------------
(* A set of numbers has a least one.                                       *)
LEMMA Least ==
  ASSUME NEW S \in SUBSET Nat, S # {}
  PROVE  \E n \in S : \A m \in S : n <= m
  <1> DEFINE R == OpToRel(<, Nat)
  <1>1. IsWellFoundedOn(R, Nat)
    BY NatLessThanWellFounded
  <1>2. \A x, y \in Nat : <<x, y>> \in R <=> x < y
    BY DEF OpToRel
  <1> HIDE DEF R
  <1>3. PICK n \in S : \A m \in S : ~(<<m, n>> \in R)
    BY <1>1, WFMin, Zenon
  <1>4. \A m \in S : ~(m < n)
    BY <1>2, <1>3, Zenon
  <1>5. \A m \in S : m \in Nat /\ n \in Nat
    OBVIOUS
  <1> QED  BY <1>4, <1>5

LEMMA RowNumbers == Rows \in SUBSET Nat /\ 0 \notin Rows
  BY LogAssumption DEF Rows

LEMMA Runs ==
  ASSUME TypeOK
  PROVE  /\ task \in [Threads -> Run] /\ budget \in Budget
         /\ \A w \in Threads : task[w] \in Run /\ View(w) \in Tables
  BY DEF TypeOK, Run, Budget, View

LEMMA Spent ==
  ASSUME NEW b \in Budget
  PROVE  /\ b.requests > 0 => [b EXCEPT !.requests = @ - 1] \in Budget
         /\ b.faults > 0 => [b EXCEPT !.faults = @ - 1] \in Budget
  <1>1. b.requests \in Nat /\ b.faults \in Nat
    BY DEF Budget
  <1>2. \A n \in Nat : n > 0 => n - 1 \in Nat
    OBVIOUS
  <1>3. \A n \in Nat : [b EXCEPT !.requests = n] \in Budget /\ [b EXCEPT !.faults = n] \in Budget
    BY DEF Budget
  <1> QED  BY <1>1, <1>2, <1>3, Zenon

(* The first row of a grant, and the first free row.                       *)
LEMMA FirstRowIs ==
  ASSUME NEW d, NEW g
  PROVE  /\ FirstRow(d, g) \in Rows \cup {0}
         /\ FirstRow(d, g) = 0 => \A r \in Rows : d.row[r].grant # g
         /\ FirstRow(d, g) # 0 =>
              /\ d.row[FirstRow(d, g)].grant = g
              /\ \A r \in Rows : d.row[r].grant = g => FirstRow(d, g) <= r
  <1> DEFINE mine == {r \in Rows : d.row[r].grant = g}
  <1>1. mine \in SUBSET Nat /\ mine \subseteq Rows /\ 0 \notin mine
    BY RowNumbers, Zenon
  <1>2. CASE mine = {}
    BY <1>2 DEF FirstRow
  <1>3. CASE mine # {}
    <2>1. \E r \in mine : \A q \in mine : r <= q
      <3> HIDE DEF mine
      <3> QED  BY <1>1, <1>3, Least
    <2>2. /\ FirstRow(d, g) \in mine
          /\ \A q \in mine : FirstRow(d, g) <= q
      BY <1>3, <2>1 DEF FirstRow
    <2> QED  BY <1>1, <2>2
  <1> QED  BY <1>2, <1>3

LEMMA NewRowIs ==
  ASSUME NEW d, HasRoom(d)
  PROVE  /\ NewRow(d) \in Rows /\ d.row[NewRow(d)] = FreeRow
         /\ \A q \in 1..(NewRow(d) - 1) : d.row[q] # FreeRow
  <1> DEFINE free == {r \in Rows : d.row[r] = FreeRow}
  <1>1. free \in SUBSET Nat /\ free # {}
    BY RowNumbers, Zenon DEF HasRoom
  <1>2. PICK r \in free : \A q \in free : r <= q
    <2> HIDE DEF free
    <2> QED  BY <1>1, Least
  <1>3. \A q \in 1..(r - 1) : q \in Rows /\ ~(r <= q)
    BY LogAssumption, <1>2 DEF Rows
  <1>4. \A q \in 1..(r - 1) : d.row[q] # FreeRow
    BY <1>2, <1>3
  <1> QED  BY <1>2, <1>4 DEF NewRow

(* The next entry is one of those left, the first line of its file.        *)
LEMMA EntryIs ==
  ASSUME IInv, NEW w \in Threads, ~Away(task[w]), task[w].todo # {}
  PROVE  /\ Entry(w).path \in Paths /\ Entry(w).num \in Nat
         /\ <<Entry(w).path, Entry(w).num>> \in task[w].todo
         /\ Entry(w).path = "commands" => \A e \in task[w].todo : e[1] = "commands"
         /\ \A e \in task[w].todo : e[1] = Entry(w).path => Entry(w).num <= e[2]
         /\ Entry(w).num \in 1..Len(log[Account[task[w].grant]][Entry(w).path].line)
         /\ Entry(w).line = log[Account[task[w].grant]][Entry(w).path].line[Entry(w).num]
         /\ Entry(w).line \in Line
  <1> DEFINE todo == task[w].todo
             p == IF \E e \in todo : e[1] = "sessions" THEN "sessions" ELSE "commands"
             nums == {e[2] : e \in {e \in todo : e[1] = p}}
  <1>1. /\ todo \in SUBSET (Paths \X Nat) /\ todo # {}
        /\ task[w].grant \in Grants /\ log \in [Accounts -> [Paths -> File]]
        /\ Written(todo, log[Account[task[w].grant]])
    BY Runs DEF IInv, Handler, Run, TypeOK
  <1> HIDE DEF todo
  <1>2. p \in Paths /\ \E e \in todo : e[1] = p
    BY <1>1 DEF Paths
  <1>3. p = "commands" => \A e \in todo : e[1] = "commands"
    BY <1>1 DEF Paths
  <1> HIDE DEF p
  <1>4. nums \in SUBSET Nat /\ nums # {}
    BY <1>1, <1>2
  <1>5. PICK n \in nums : \A m \in nums : n <= m
    <2> HIDE DEF nums
    <2> QED  BY <1>4, Least
  <1>6. \E m \in nums : \A e \in todo : e[1] = p => m <= e[2]
    BY <1>5
  <1> DEFINE k == CHOOSE m \in nums : \A e \in todo : e[1] = p => m <= e[2]
  <1>7. k \in nums /\ \A e \in todo : e[1] = p => k <= e[2]
    BY <1>6
  <1>8. Entry(w) = [path |-> p, num |-> k, line |-> log[Account[task[w].grant]][p].line[k]]
    BY DEF Entry, todo, p, nums
  <1> HIDE DEF k
  <1>9. <<p, k>> \in todo /\ k \in Nat
    BY <1>1, <1>7
  <1>10. k \in 1..Len(log[Account[task[w].grant]][p].line)
    <2>1. <<p, k>>[1] = p /\ <<p, k>>[2] = k
      OBVIOUS
    <2> QED  BY <1>1, <1>9, <2>1 DEF Written
  <1>11. log[Account[task[w].grant]][p].line[k] \in Line
    <2>1. log[Account[task[w].grant]][p] \in File
      BY <1>1, <1>2, LogAssumption
    <2> QED  BY <1>10, <2>1 DEF File
  <1> QED  BY <1>2, <1>3, <1>7, <1>8, <1>9, <1>10, <1>11 DEF todo

LEMMA MatchingIs ==
  ASSUME NEW w, NEW s, NEW r \in Matching(w, s)
  PROVE  /\ r \in Rows \cup {0}
         /\ r # 0 => /\ View(w).row[r].grant = task[w].grant
                     /\ Marker(w, r) = s
                        \/ (r = FirstRow(View(w), task[w].grant) /\ Marker(w, r) = None)
         /\ r = 0 => /\ \A q \in Rows : View(w).row[q].grant = task[w].grant => Marker(w, q) # s
                     /\ FirstRow(View(w), task[w].grant) # 0 =>
                          Marker(w, FirstRow(View(w), task[w].grant)) # None
  <1> DEFINE d == View(w)
             g == task[w].grant
             marked == {q \in Rows : d.row[q].grant = g /\ Marker(w, q) = s}
             first == FirstRow(d, g)
  <1>1. /\ first \in Rows \cup {0} /\ 0 \notin Rows
        /\ first # 0 => d.row[first].grant = g
    BY FirstRowIs, RowNumbers
  <1>2. CASE marked # {}
    <2>1. r \in marked
      BY <1>2 DEF Matching
    <2> QED  BY <1>1, <2>1
  <1>3. CASE marked = {}
    <2>1. r \in IF first # 0 /\ Marker(w, first) = None THEN {first} ELSE {0}
      BY <1>3 DEF Matching
    <2>2. \A q \in Rows : d.row[q].grant = g => Marker(w, q) # s
      BY <1>3
    <2> HIDE DEF first, marked, d, g
    <2>3. CASE first # 0 /\ Marker(w, first) = None
      BY <1>1, <2>1, <2>3 DEF first, d, g
    <2>4. CASE ~(first # 0 /\ Marker(w, first) = None)
      BY <2>1, <2>2, <2>4 DEF first, d, g
    <2> QED  BY <2>3, <2>4
  <1> QED  BY <1>2, <1>3

(* What a flush changes: offsets of the grant, the marker of its first row.*)
LEMMA FlushedIs ==
  ASSUME TypeOK, NEW w \in Threads, task[w].grant \in Grants
  PROVE  LET d == View(w)
             e == Flushed(w)
             t == task[w]
         IN /\ e \in Tables
            /\ e.known = d.known /\ e.cmds = d.cmds /\ e.status = d.status
            /\ \A g \in Grants : g # t.grant => e.offset[g] = d.offset[g]
            /\ \A p \in Paths : e.offset[t.grant][p] =
                 IF p \in t.stale THEN t.mark[p] ELSE d.offset[t.grant][p]
            /\ \A r \in Rows :
                 /\ e.row[r].grant = d.row[r].grant /\ e.row[r].status = d.row[r].status
                 /\ e.row[r].shell = IF t.adopt # None /\ r = FirstRow(d, t.grant)
                                     THEN t.adopt ELSE d.row[r].shell
  <1> DEFINE d == View(w)
             t == task[w]
             o == [p \in Paths |-> IF p \in t.stale THEN t.mark[p] ELSE d.offset[t.grant][p]]
             m == [d EXCEPT !.offset = [d.offset EXCEPT ![t.grant] = o]]
             f == FirstRow(d, t.grant)
             x == [d.row EXCEPT ![f] = [d.row[f] EXCEPT !.shell = t.adopt]]
  <1>1. d \in Tables /\ t \in Run /\ f \in Rows \cup {0} /\ 0 \notin Rows
    BY Runs, FirstRowIs, RowNumbers
  <1> HIDE DEF d, f
  <1>2. o \in [Paths -> Offset]
    BY <1>1 DEF Tables, Run
  <1>3. /\ m \in Tables /\ m.known = d.known /\ m.cmds = d.cmds /\ m.status = d.status
        /\ m.row = d.row /\ m.offset = [d.offset EXCEPT ![t.grant] = o]
    <2> HIDE DEF o, t
    <2> QED  BY <1>1, <1>2 DEF Tables, t
  <1>4. \A g \in Grants : m.offset[g] = IF g = t.grant THEN o ELSE d.offset[g]
    <2> HIDE DEF o, m, t
    <2> QED  BY <1>1, <1>3 DEF Tables, t
  <1>5. \A p \in Paths : o[p] = IF p \in t.stale THEN t.mark[p] ELSE d.offset[t.grant][p]
    OBVIOUS
  <1>6. Flushed(w) = IF t.adopt = None THEN m ELSE [m EXCEPT !.row = x]
    BY DEF Flushed, d, f
  <1> HIDE DEF o, m
  <1>7. CASE t.adopt = None
    <2>1. Flushed(w) = m
      BY <1>6, <1>7
    <2> HIDE DEF x
    <2> QED  BY <1>3, <1>4, <1>5, <1>7, <2>1, Zenon DEF d
  <1>8. CASE t.adopt # None
    <2>1. t.adopt \in Shells
      BY <1>1, <1>8 DEF Run
    <2> HIDE DEF t
    <2> DEFINE y == [d.row[f] EXCEPT !.shell = t.adopt]
    <2>a. d.row \in [Rows -> Row]
      BY <1>1 DEF Tables
    <2>b. f \in Rows => y \in Row
      BY <2>a, <2>1 DEF Row
    <2>c. x = [d.row EXCEPT ![f] = y]
      OBVIOUS
    <2>2. /\ x \in [Rows -> Row]
          /\ \A r \in Rows : x[r] = IF r = f THEN [d.row[f] EXCEPT !.shell = t.adopt] ELSE d.row[r]
      <3>1. \A r \in Rows : r = f => y \in Row
        BY <2>b
      <3> HIDE DEF y, x
      <3>2. x \in [Rows -> Row] /\ \A r \in Rows : x[r] = IF r = f THEN y ELSE d.row[r]
        BY <2>a, <2>c, <3>1, Zenon
      <3> QED  BY <3>2 DEF y
    <2>3. \A r \in Rows : /\ x[r].grant = d.row[r].grant /\ x[r].status = d.row[r].status
                          /\ x[r].shell = IF r = f THEN t.adopt ELSE d.row[r].shell
      BY <1>1, <2>1, <2>2 DEF Tables, Row
    <2> HIDE DEF x
    <2>4. /\ Flushed(w) \in Tables /\ Flushed(w).row = x /\ Flushed(w).offset = m.offset
          /\ Flushed(w).known = m.known /\ Flushed(w).cmds = m.cmds /\ Flushed(w).status = m.status
      BY <1>3, <1>6, <1>8, <2>2 DEF Tables
    <2> QED  BY <1>3, <1>4, <1>5, <1>8, <2>3, <2>4 DEF d, t, f
  <1> QED  BY <1>7, <1>8
-----------------------------------------------------------------------------
LEMMA KeptImported ==
  ASSUME NEW d, NEW e, Kept(d, e), NEW g \in Grants, NEW n, Imported(d, g, n)
  PROVE  Imported(e, g, n)
  BY LogAssumption, Zenon DEF Kept, Imported

LEMMA KeptMarks ==
  ASSUME NEW d, NEW e, Kept(d, e), NEW t, t.grant \in Grants, Marks(t, d)
  PROVE  Marks(t, e)
  BY KeptImported DEF Marks

LEMMA KeptFinds ==
  ASSUME NEW d, NEW e, Kept(d, e), NEW t \in Run, t.grant \in Grants, Finds(t, d)
  PROVE  Finds(t, e)
  <1>1. t.found \in Rows \cup {0} /\ t.grant # None
    BY LogAssumption DEF Run
  <1> QED  BY <1>1 DEF Kept, Finds

LEMMA KeptItself == \A d : Kept(d, d)
  BY DEF Kept

LEMMA Parts ==
  ASSUME IInv, NEW w \in Threads
  PROVE  /\ TypeOK /\ Files /\ Kept(base, db) /\ CutIsImported /\ PassedIsImported /\ NothingSkipped
         /\ Handler(task[w], log) /\ Finds(task[w], View(w))
         /\ task[w].grant \notin gapped => Marks(task[w], View(w))
         /\ task[w].pc = "remove" => lock = w
         /\ task[w] \in Run /\ View(w) \in Tables /\ None \notin Threads
         /\ Kept(base, View(w))
  BY Runs, LogAssumption, KeptItself DEF IInv, Threads, View

LEMMA AwayIsQuiet ==
  ASSUME NEW t, NEW l, Handler(t, l), Away(t)
  PROVE  /\ \A d : Marks(t, d) /\ Finds(t, d)
         /\ \A p, n : ~Pending(t, p, n)
  BY DEF Handler, Away, Marks, Finds, Pending

LEMMA IdleIsHandler ==
  /\ Idle \in Run
  /\ \A l : Handler(Idle, l)
  /\ \A d : Marks(Idle, d) /\ Finds(Idle, d)
  /\ \A p, n : ~Pending(Idle, p, n)
  BY DEF Idle, Run, Handler, Away, Marks, Finds, Pending, EmptyFile, NoOffset, File, Offset, Paths, Line

(* A step of one handler leaves what the others know, if it writes only    *)
(* under the lock and loses nothing that was committed.                    *)
LEMMA OthersKeep ==
  ASSUME IInv, NEW w \in Threads, NEW v \in Threads, v # w,
         task'[v] = task[v], log' = log, gapped \subseteq gapped',
         Kept(base, base'), lock' \in {lock, w, None},
         lock \notin {None, w} => lock' = lock /\ db' = db
  PROVE  /\ Handler(task[v], log)' /\ Finds(task[v], View(v))'
         /\ task'[v].grant \notin gapped' => Marks(task[v], View(v))'
         /\ task'[v].pc = "remove" => lock' = v
  <1>1. Kept(View(v), View(v)')
    <2>1. CASE lock = v
      <3>1. View(v) = db /\ View(v)' = db
        BY <2>1, Parts DEF View
      <3> QED  BY <3>1, KeptItself
    <2>2. CASE lock # v
      <3>1. View(v) = base /\ View(v)' = base'
        BY <2>2, Parts DEF View
      <3> QED  BY <3>1
    <2> QED  BY <2>1, <2>2
  <1>2. CASE Away(task[v])
    BY <1>2, Parts, AwayIsQuiet DEF Away
  <1>3. CASE ~Away(task[v])
    <2>1. task[v].grant \in Grants /\ task[v] \in Run
      BY <1>3, Parts DEF Handler
    <2>2. Finds(task[v], View(v)') /\ (task[v].grant \notin gapped => Marks(task[v], View(v)'))
      BY <1>1, <2>1, Parts, KeptFinds, KeptMarks
    <2>3. task[v].pc = "remove" => lock' = v
      BY Parts
    <2> QED  BY <2>2, <2>3, Parts
  <1> QED  BY <1>2, <1>3

LEMMA StepKeeps ==
  ASSUME IInv, NEW w \in Threads, NEW k \in Run,
         task' = [task EXCEPT ![w] = k], log' = log, shell' = shell,
         keyed' \subseteq Grants, gapped \subseteq gapped', gapped' \subseteq Grants, budget' \in Budget,
         db' \in Tables, base' = base, lock' \in {lock, w, None}, lock' = None => db' = base,
         lock \notin {None, w} => lock' = lock /\ db' = db,
         Kept(base, db'), Handler(k, log), k.pc = "remove" => lock' = w,
         NEW d, d = IF lock' = w THEN db' ELSE base,
         Finds(k, d), k.grant \notin gapped' => Marks(k, d),
         lock \in {None, w} =>
           \A g \in Grants \ gapped' : \A n \in 1..db'.offset[g]["commands"].end :
             Imported(db', g, n) \/ (lock' = w /\ k.grant = g /\ Pending(k, "commands", n))
  PROVE  IInv'
  <1>1. /\ task' \in [Threads -> Run] /\ task'[w] = k
        /\ \A v \in Threads : v # w => task'[v] = task[v]
    BY Parts, Runs
  <1>2. TypeOK'
    BY <1>1, Parts DEF TypeOK, Run, Budget
  <1>3. View(w)' = d
    BY DEF View
  <1>4. \A v \in Threads :
          /\ Handler(task[v], log)' /\ Finds(task[v], View(v))'
          /\ task'[v].grant \notin gapped' => Marks(task[v], View(v))'
          /\ task'[v].pc = "remove" => lock' = v
    <2> SUFFICES ASSUME NEW v \in Threads
        PROVE /\ Handler(task[v], log)' /\ Finds(task[v], View(v))'
              /\ task'[v].grant \notin gapped' => Marks(task[v], View(v))'
              /\ task'[v].pc = "remove" => lock' = v
      OBVIOUS
    <2>1. CASE v = w
      BY <1>1, <1>3, <2>1
    <2>2. CASE v # w
      BY <1>1, <2>2, OthersKeep, KeptItself
    <2> QED  BY <2>1, <2>2
  <1>5. (Files /\ CutIsImported /\ NothingSkipped)'
    BY Parts DEF Files, CutIsImported, NothingSkipped
  <1>6. PassedIsImported'
    <2> SUFFICES ASSUME NEW g \in Grants \ gapped', NEW n \in 1..db'.offset[g]["commands"].end
                 PROVE  Imported(db', g, n) \/ Held(g, "commands", n)'
      BY DEF PassedIsImported
    <2>1. CASE lock \in {None, w}
      BY <1>1, <2>1 DEF Held
    <2>2. CASE lock \notin {None, w}
      <3>1. Imported(db, g, n) \/ Held(g, "commands", n)
        BY <2>2, Parts DEF PassedIsImported
      <3>2. ASSUME NEW v \in Threads, lock = v, task[v].grant = g, Pending(task[v], "commands", n)
            PROVE  lock' = v /\ task'[v].grant = g /\ Pending(task'[v], "commands", n)
        BY <1>1, <2>2, <3>2
      <3> QED  BY <2>2, <3>1, <3>2 DEF Held
    <2> QED  BY <2>1, <2>2
  <1> QED  BY <1>2, <1>4, <1>5, <1>6, Parts DEF IInv

(* A step that reads, whatever it works out.                               *)
LEMMA ReadKeeps ==
  ASSUME IInv, NEW w \in Threads, NEW k \in Run,
         task' = [task EXCEPT ![w] = k], UNCHANGED <<host, db, base, lock>>,
         gapped \subseteq gapped', gapped' \subseteq Grants, budget' \in Budget,
         Handler(k, log), k.pc = "remove" => lock = w,
         Finds(k, View(w)), k.grant \notin gapped' => Marks(k, View(w)),
         \A n \in Nat : Pending(task[w], "commands", n) =>
           /\ k.grant = task[w].grant
           /\ Pending(k, "commands", n) \/ Imported(View(w), task[w].grant, n)
  PROVE  IInv'
  <1> DEFINE d == IF lock' = w THEN db' ELSE base
  <1>1. d = View(w) /\ db = db' /\ lock' = lock /\ base' = base /\ log' = log /\ shell' = shell /\ keyed' = keyed
    BY DEF View, host
  <1>2. TypeOK /\ keyed' \subseteq Grants /\ db' \in Tables /\ (lock = None => db = base) /\ Kept(base, db')
    BY <1>1, Parts DEF TypeOK
  <1>3. ASSUME lock \in {None, w}, NEW g \in Grants \ gapped', NEW n \in 1..db'.offset[g]["commands"].end
        PROVE  Imported(db', g, n) \/ (lock' = w /\ k.grant = g /\ Pending(k, "commands", n))
    <2>1. n \in Nat
      OBVIOUS
    <2>2. Imported(db, g, n) \/ Held(g, "commands", n)
      BY <1>1, <1>3, Parts DEF PassedIsImported
    <2>3. CASE Held(g, "commands", n)
      <3>1. lock = w /\ task[w].grant = g /\ Pending(task[w], "commands", n)
        BY <1>3, <2>3, Parts DEF Held
      <3> QED  BY <1>1, <2>1, <3>1 DEF View
    <2> QED  BY <1>1, <2>2, <2>3
  <1> HIDE DEF d
  <1> QED  BY <1>1, <1>2, <1>3, StepKeeps, Zenon DEF d

(* A handler that fails leaves what is committed.                          *)
LEMMA AbortIsSafe ==
  ASSUME IInv, NEW w \in Threads, Abort(w), log' = log, shell' = shell, base' = base, gapped' = gapped,
         keyed' \subseteq Grants, budget' \in Budget
  PROVE  IInv'
  <1> DEFINE d == IF lock' = w THEN db' ELSE base
  <1>1. task' = [task EXCEPT ![w] = Idle]
    BY DEF Abort, Goto
  <1>2. TypeOK /\ Kept(base, db)
    BY Parts
  <1>3. /\ db' \in Tables /\ (lock' = None => db' = base) /\ Kept(base, db') /\ lock' \in {lock, None}
        /\ (lock \notin {None, w} => lock' = lock /\ db' = db) /\ gapped' \subseteq Grants
        /\ (lock \in {None, w} => db' = base)
    BY <1>2, KeptItself, Parts DEF Abort, TypeOK
  <1>4. ASSUME lock \in {None, w}, NEW g \in Grants \ gapped', NEW n \in 1..db'.offset[g]["commands"].end
        PROVE  Imported(db', g, n)
    BY <1>3, <1>4, Parts DEF NothingSkipped
  <1>5. Idle.pc # "remove"
    BY DEF Idle
  <1> QED  BY <1>1, <1>3, <1>4, <1>5, IdleIsHandler, StepKeeps, Zenon
-----------------------------------------------------------------------------
(* The steps that only read.                                               *)
Queued(j, q) == [Idle EXCEPT !.job = j, !.pc = "next", !.queue = q]

LEMMA QueuedIs ==
  ASSUME NEW j \in {"tick", "expire"}, NEW q \in SUBSET Grants, NEW k, k = Queued(j, q)
  PROVE  /\ k \in Run /\ k.pc = "next" /\ k.pc # "remove" /\ \A l : Handler(k, l)
         /\ \A d : Marks(k, d) /\ Finds(k, d)
  <1>1. Idle \in Run /\ k = [Idle EXCEPT !.job = j, !.pc = "next", !.queue = q]
    BY IdleIsHandler DEF Queued
  <1>2. /\ Idle.outer = << >> /\ Idle.todo = {} /\ Idle.stale = {} /\ Idle.adopt = None
        /\ Idle.found = 0
    BY DEF Idle
  <1>3. k \in Run
    <2>1. PICK y : y = [Idle EXCEPT !.job = j, !.pc = "next"]
      OBVIOUS
    <2>2. y \in Run
      BY <1>1, <2>1 DEF Run
    <2>3. k = [y EXCEPT !.queue = q]
      BY <1>1, <2>1
    <2> QED  BY <2>2, <2>3 DEF Run
  <1>4. /\ k.pc = "next" /\ k.outer = Idle.outer /\ k.todo = Idle.todo /\ k.stale = Idle.stale
        /\ k.adopt = Idle.adopt /\ k.found = Idle.found /\ k.got = Idle.got
    BY <1>1 DEF Run
  <1> QED  BY <1>2, <1>3, <1>4 DEF Handler, Away, Marks, Finds

LEMMA BeginIs ==
  ASSUME IInv, NEW t \in Run, Handler(t, log), Away(t), NEW g \in Grants,
         NEW close \in BOOLEAN, NEW live \in BOOLEAN, NEW k, k = Begin(t, g, close, live)
  PROVE  /\ k \in Run /\ Handler(k, log) /\ k.pc = "commands" /\ k.outer = << >> /\ k.todo = {}
         /\ k.grant = g /\ k.got = Idle.got /\ k.adopt = None /\ k.stale = {} /\ k.mark = t.mark
         /\ \A d : Marks(k, d) /\ Finds(k, d)
  <1>1. << >> \in Seq(SUBSET (Paths \X Nat)) /\ {} \in SUBSET (Paths \X Nat)
    OBVIOUS
  <1>a. PICK y : y = [t EXCEPT !.pc = "commands", !.grant = g, !.close = close]
    OBVIOUS
  <1>b. y \in Run
    BY <1>a DEF Run
  <1>c. k = [y EXCEPT !.live = live, !.outer = << >>, !.todo = {}]
    BY <1>a DEF Begin
  <1>2. k \in Run
    BY <1>1, <1>b, <1>c, ZenonT(60) DEF Run
  <1>3. /\ k.pc = "commands" /\ k.grant = g /\ k.outer = << >> /\ k.todo = {}
        /\ k.got = t.got /\ k.stale = t.stale /\ k.adopt = t.adopt /\ k.found = t.found
        /\ k.mark = t.mark
    BY DEF Begin, Run
  <1>4. t.got = Idle.got /\ t.stale = {} /\ t.adopt = None /\ t.found = 0
    BY DEF Handler, Away
  <1>5. \A p \in Paths : Older(Idle.got[p], log[Account[g]][p])
    <2> SUFFICES ASSUME NEW p \in Paths PROVE Older(Idle.got[p], log[Account[g]][p])
      OBVIOUS
    <2>1. log[Account[g]][p] \in File
      BY Parts, LogAssumption DEF IInv, TypeOK
    <2>2. Idle.got[p] = EmptyFile
      BY DEF Idle
    <2> QED  BY <2>1, <2>2 DEF Older, EmptyFile, File
  <1>6. Handler(k, log)
    BY <1>3, <1>4, <1>5 DEF Handler, Away, Written
  <1> QED  BY <1>2, <1>3, <1>4, <1>6 DEF Marks, Finds

LEMMA StartKeeps ==
  ASSUME IInv, NEW w \in Threads, NEW g \in Grants, StartImport(w, g) \/ StartRevoke(w, g)
  PROVE  IInv'
  <1>1. PICK j \in {"import", "revoke"}, close \in BOOLEAN, live \in BOOLEAN :
          /\ task[w] = Idle /\ budget.requests > 0
          /\ task' = [task EXCEPT ![w] = Begin([Idle EXCEPT !.job = j], g, close, live)]
          /\ budget' = [budget EXCEPT !.requests = @ - 1]
          /\ UNCHANGED <<host, db, base, lock, gapped>>
    BY Zenon DEF StartImport, StartRevoke, Goto
  <1> DEFINE t == [Idle EXCEPT !.job = j]
             k == Begin(t, g, close, live)
  <1>2. t \in Run /\ Handler(t, log) /\ Away(t)
    BY IdleIsHandler, ZenonT(60) DEF Idle, Run, Handler, Away
  <1> HIDE DEF t
  <1>3. k \in Run /\ Handler(k, log) /\ k.pc = "commands" /\ \A d : Marks(k, d) /\ Finds(k, d)
    BY <1>2, BeginIs
  <1> HIDE DEF k
  <1>4. budget' \in Budget /\ gapped' = gapped /\ gapped' \subseteq Grants
    BY <1>1, Runs, Spent, Parts DEF TypeOK
  <1>5. \A n : ~Pending(task[w], "commands", n)
    BY <1>1, IdleIsHandler
  <1>6. task' = [task EXCEPT ![w] = k] /\ UNCHANGED <<host, db, base, lock>>
    BY <1>1 DEF k, t
  <1> QED  BY <1>3, <1>4, <1>5, <1>6, ReadKeeps, Zenon

LEMMA StartTickKeeps ==
  ASSUME IInv, StartTick
  PROVE  IInv'
  <1> DEFINE active == {g \in Grants : base.status[g] = "active"}
             k == Queued("tick", active)
  <1>1. k \in Run /\ Handler(k, log) /\ k.pc # "remove" /\ \A d : Marks(k, d) /\ Finds(k, d)
    <2>1. active \in SUBSET Grants
      OBVIOUS
    <2> HIDE DEF active
    <2> QED  BY <2>1, QueuedIs
  <1> HIDE DEF k
  <1>2. Scheduler \in Threads /\ task[Scheduler] = Idle /\ task' = [task EXCEPT ![Scheduler] = k]
        /\ UNCHANGED <<host, db, base, lock, gapped, budget>>
    BY DEF StartTick, Goto, Threads, k, Queued
  <1>3. budget' \in Budget /\ gapped' \subseteq Grants /\ gapped \subseteq gapped'
    BY <1>2, Runs, Parts DEF TypeOK
  <1>4. \A n : ~Pending(task[Scheduler], "commands", n)
    BY <1>2, IdleIsHandler
  <1> QED  BY <1>1, <1>2, <1>3, <1>4, ReadKeeps, Zenon

LEMMA NextGrantKeeps ==
  ASSUME IInv, NEW w \in Threads, NextGrant(w)
  PROVE  IInv'
  <1>1. PICK g \in task[w].queue :
          /\ task[w].pc = "next"
          /\ task' = [task EXCEPT ![w] = Begin([task[w] EXCEPT !.queue = @ \ {g}], g,
                                                task[w].job = "expire", TRUE)]
          /\ UNCHANGED <<host, db, base, lock, gapped, budget>>
    BY Zenon DEF NextGrant, Goto
  <1> DEFINE t == [task[w] EXCEPT !.queue = @ \ {g}]
  <1>2. task[w] \in Run /\ Handler(task[w], log) /\ Away(task[w]) /\ g \in Grants
    BY <1>1, Parts DEF Run, Away
  <1>3. t \in Run /\ Handler(t, log) /\ Away(t)
    <2>1. t \in Run
      BY <1>2 DEF Run
    <2>2. t.pc = "next" /\ t.outer = task[w].outer /\ t.todo = task[w].todo /\ t.got = task[w].got
          /\ t.stale = task[w].stale /\ t.adopt = task[w].adopt /\ t.found = task[w].found
      BY <1>1, <1>2 DEF Run
    <2> QED  BY <1>1, <1>2, <2>1, <2>2 DEF Handler, Away
  <1> HIDE DEF t
  <1>4. PICK close \in BOOLEAN, live \in BOOLEAN : close = (task[w].job = "expire") /\ live = TRUE
    BY Zenon
  <1> DEFINE k == Begin(t, g, close, live)
  <1>5. k \in Run /\ Handler(k, log) /\ k.pc = "commands" /\ \A d : Marks(k, d) /\ Finds(k, d)
    BY <1>2, <1>3, BeginIs
  <1>6. task' = [task EXCEPT ![w] = k]
    BY <1>1, <1>4 DEF t
  <1> HIDE DEF k
  <1>7. budget' \in Budget /\ gapped' \subseteq Grants /\ gapped' = gapped
    BY <1>1, Runs, Parts DEF TypeOK
  <1>8. \A n : ~Pending(task[w], "commands", n)
    BY <1>2, AwayIsQuiet
  <1> QED  BY <1>1, <1>5, <1>6, <1>7, <1>8, ReadKeeps, Zenon

LEMMA FetchKeeps ==
  ASSUME IInv, NEW w \in Threads, FetchCommands(w) \/ FetchSessions(w)
  PROVE  IInv'
  <1> DEFINE t == task[w]
  <1>1. PICK p \in Paths, next \in {"sessions", "offsets"} :
          /\ t.pc = p
          /\ task' = [task EXCEPT ![w] = [t EXCEPT !.pc = next, !.got[p] = log[Account[t.grant]][p]]]
          /\ UNCHANGED <<host, db, base, lock, gapped, budget>>
    BY DEF FetchCommands, FetchSessions, Fetch, Goto, Paths
  <1> DEFINE f == log[Account[t.grant]][p]
             k == [t EXCEPT !.pc = next, !.got = [t.got EXCEPT ![p] = f]]
  <1>2. t \in Run /\ Handler(t, log) /\ ~Away(t) /\ t.grant \in Grants
    BY <1>1, Parts DEF Handler, Away, Paths
  <1>3. f \in File /\ Older(f, f)
    <2>1. Account[t.grant] \in Accounts
      BY <1>2, LogAssumption
    <2>2. f \in File
      BY <2>1, Parts DEF TypeOK
    <2> QED  BY <2>1, <2>2, Parts DEF Files, Older, File
  <1>4. task' = [task EXCEPT ![w] = k]
    BY <1>1
  <1> HIDE DEF f
  <1>5. k \in Run /\ k.pc = next /\ k.got = [t.got EXCEPT ![p] = f] /\ t.got \in [Paths -> File]
        /\ k.outer = t.outer /\ k.todo = t.todo /\ k.stale = t.stale /\ k.adopt = t.adopt
        /\ k.found = t.found /\ k.grant = t.grant
    BY <1>2, <1>3 DEF Run
  <1> HIDE DEF k
  <1>6. t.todo = {} /\ t.stale = {} /\ t.adopt = None /\ t.found = 0
    BY <1>1, <1>2, Zenon DEF Handler, Paths
  <1>7. Handler(k, log)
    <2>1. \A q \in Paths : Older(k.got[q], log[Account[t.grant]][q])
      BY <1>2, <1>3, <1>5, Zenon DEF Handler, f
    <2> QED  BY <1>2, <1>5, <1>6, <2>1 DEF Handler, Away, Written
  <1>8. budget' \in Budget /\ gapped' \subseteq Grants /\ gapped' = gapped /\ k.pc # "remove"
    BY <1>1, <1>5, Runs, Parts DEF TypeOK
  <1>9. \A d : Marks(k, d) /\ Finds(k, d)
    BY <1>5, <1>6 DEF Marks, Finds
  <1>10. \A n : Pending(t, "commands", n) => Pending(k, "commands", n)
    BY <1>5 DEF Pending
  <1> QED  BY <1>1, <1>4, <1>5, <1>7, <1>8, <1>9, <1>10, ReadKeeps, Zenon

LEMMA FreshIs ==
  ASSUME NEW f \in File, NEW o \in Offset, NEW n
  PROVE  n \in Fresh(f, o) <=>
           /\ n \in Nat /\ n > f.cut /\ n <= Len(f.line)
           /\ o.len > Len(f.line) - f.cut \/ n > f.cut + o.len
  <1>1. f.cut \in Nat /\ Len(f.line) \in Nat /\ o.len \in Nat
    BY DEF File, Offset
  <1>2. CASE o.len > Length(f)
    <2>1. Fresh(f, o) = (f.cut + 0 + 1)..Len(f.line)
      BY <1>2 DEF Fresh
    <2> QED  BY <1>1, <1>2, <2>1 DEF Length
  <1>3. CASE ~(o.len > Length(f))
    <2>1. Fresh(f, o) = (f.cut + o.len + 1)..Len(f.line)
      BY <1>3 DEF Fresh
    <2> QED  BY <1>1, <1>3, <2>1 DEF Length
  <1> QED  BY <1>2, <1>3

(* What _new_content makes of fetched files and stored offsets.            *)
LEMMA ReadIs ==
  ASSUME IInv, NEW w \in Threads, task[w].pc \in {"offsets", "insert"},
         NEW off \in [Paths -> Offset], NEW k, k = Read(task[w], off)
  PROVE  LET t == task[w] IN
         /\ k \in Run /\ Handler(k, log) /\ k.pc = "look" /\ k.grant = t.grant /\ k.grant \in Grants
         /\ k.outer = t.outer /\ k.found = 0 /\ k.adopt = None
         /\ k.reach = Len(t.got["commands"].line)
         /\ \A p \in Paths : /\ k.mark[p].end = Len(t.got[p].line)
                             /\ k.mark[p].len = Len(t.got[p].line) - t.got[p].cut
                             /\ p \in k.stale <=> off[p].len # k.mark[p].len
         /\ \A p \in Paths, n \in Nat : <<p, n>> \in k.todo <=> n \in Fresh(t.got[p], off[p])
  <1> DEFINE t == task[w]
             todo == UNION {{p} \X Fresh(t.got[p], off[p]) : p \in Paths}
             mark == [p \in Paths |-> [len |-> Length(t.got[p]), end |-> Len(t.got[p].line)]]
             stale == {p \in Paths : off[p].len # Length(t.got[p])}
             reach == Len(t.got["commands"].line)
  <1>1. /\ t \in Run /\ Handler(t, log) /\ ~Away(t) /\ t.grant \in Grants /\ t.todo = {}
        /\ t.found = 0 /\ t.adopt = None /\ t.got \in [Paths -> File]
        /\ \A p \in Paths : Older(t.got[p], log[Account[t.grant]][p])
        /\ \A i \in DOMAIN t.outer : Written(t.outer[i], log[Account[t.grant]])
    BY Parts DEF Handler, Away, Run
  <1>2. k = [t EXCEPT !.pc = "look", !.got = Idle.got, !.reach = reach, !.todo = todo,
                          !.mark = mark, !.stale = stale]
    BY DEF Read
  <1> HIDE DEF t
  <1>3. \A p \in Paths : Length(t.got[p]) \in Nat /\ Len(t.got[p].line) \in Nat
                         /\ Length(t.got[p]) = Len(t.got[p].line) - t.got[p].cut
    BY <1>1 DEF File, Older, Length
  <1>4. mark \in [Paths -> Offset]
    BY <1>3 DEF Offset
  <1>5. \A p \in Paths : \A n \in Fresh(t.got[p], off[p]) :
          n \in 1..Len(log[Account[t.grant]][p].line) /\ n \in Nat
    <2> SUFFICES ASSUME NEW p \in Paths, NEW n \in Fresh(t.got[p], off[p])
                 PROVE  n \in 1..Len(log[Account[t.grant]][p].line) /\ n \in Nat
      OBVIOUS
    <2>1. log[Account[t.grant]][p] \in File
      BY <1>1, Parts, LogAssumption DEF TypeOK
    <2>2. off[p].len \in Nat /\ t.got[p].cut \in Nat
      BY <1>1 DEF Offset, File
    <2>3. Len(log[Account[t.grant]][p].line) \in Nat
          /\ Len(t.got[p].line) <= Len(log[Account[t.grant]][p].line)
      BY <1>1, <2>1 DEF File, Older
    <2>4. n \in Nat /\ n > t.got[p].cut /\ n <= Len(t.got[p].line)
      BY <1>1, FreshIs
    <2> QED  BY <2>2, <2>3, <2>4, Z3
  <1>6. \A p \in Paths : \A n : <<p, n>> \in todo <=> n \in Fresh(t.got[p], off[p])
    OBVIOUS
  <1>7. \A e \in todo : \E p \in Paths : \E n \in Fresh(t.got[p], off[p]) : e = <<p, n>>
    OBVIOUS
  <1> HIDE DEF todo
  <1>8. todo \in SUBSET (Paths \X Nat)
    BY <1>5, <1>7
  <1>9. Written(todo, log[Account[t.grant]])
    <2> SUFFICES ASSUME NEW e \in todo PROVE e[2] \in 1..Len(log[Account[t.grant]][e[1]].line)
      BY DEF Written
    <2>1. PICK p \in Paths, n \in Nat : n \in Fresh(t.got[p], off[p]) /\ e = <<p, n>>
      BY <1>5, <1>7
    <2>2. e[1] = p /\ e[2] = n
      BY <2>1
    <2> QED  BY <1>5, <2>1, <2>2
  <1>10. Idle.got \in [Paths -> File] /\ stale \in SUBSET Paths
    BY IdleIsHandler DEF Run
  <1>11. \A p \in Paths : /\ mark[p].end = Len(t.got[p].line)
                          /\ mark[p].len = Len(t.got[p].line) - t.got[p].cut
                          /\ p \in stale <=> off[p].len # mark[p].len
    BY <1>3
  <1>a. "commands" \in Paths
    BY DEF Paths
  <1>b. reach \in Nat /\ mark["commands"].end = reach
    BY <1>3, <1>a
  <1> HIDE DEF mark, stale, reach
  <1>12. /\ k \in Run /\ k.pc = "look" /\ k.grant = t.grant /\ k.outer = t.outer /\ k.found = t.found
         /\ k.adopt = t.adopt /\ k.got = Idle.got /\ k.todo = todo /\ k.mark = mark /\ k.stale = stale
         /\ k.reach = reach
    <2>0. PICK z \in Run : z = [t EXCEPT !.reach = reach]
      BY <1>1, <1>b DEF Run
    <2>1. PICK y : y = [z EXCEPT !.pc = "look", !.got = Idle.got, !.todo = todo]
      OBVIOUS
    <2>2. y \in Run
      BY <1>8, <1>10, <2>1, Zenon DEF Run
    <2>3. k = [y EXCEPT !.mark = mark, !.stale = stale]
      BY <1>2, <2>0, <2>1
    <2>4. k \in Run
      BY <1>4, <1>10, <2>2, <2>3, ZenonT(60) DEF Run
    <2> QED  BY <1>1, <1>2, <2>4 DEF Run
  <1>13. \A p \in Paths : Older(Idle.got[p], log[Account[t.grant]][p])
    <2> SUFFICES ASSUME NEW p \in Paths PROVE Older(Idle.got[p], log[Account[t.grant]][p])
      OBVIOUS
    <2>1. log[Account[t.grant]][p] \in File
      BY <1>1, Parts, LogAssumption DEF TypeOK
    <2>2. Idle.got[p] = EmptyFile
      BY DEF Idle
    <2> QED  BY <2>1, <2>2 DEF Older, EmptyFile, File
  <1>14. Handler(k, log)
    BY <1>1, <1>9, <1>b, <1>12, <1>13 DEF Handler, Away
  <1> QED  BY <1>1, <1>6, <1>11, <1>12, <1>14 DEF t, reach

(* What the new offset passes over was read before, cut off, or is to do.  *)
LEMMA ReadMarks ==
  ASSUME IInv, NEW w \in Threads, task[w].pc \in {"offsets", "insert"},
         NEW off \in [Paths -> Offset], NEW k, k = Read(task[w], off),
         task[w].grant \notin gapped,
         off["commands"].len = 0 \/ ~Missed(task[w].got["commands"], off["commands"]),
         \A n \in 1..off["commands"].end :
           Imported(View(w), task[w].grant, n) \/ Pending(task[w], "commands", n)
  PROVE  Marks(k, View(w))
  <1> DEFINE t == task[w]
             f == t.got["commands"]
             o == off["commands"]
  <1>0. "commands" \in Paths
    BY DEF Paths
  <1>1. /\ t \in Run /\ t.grant \in Grants /\ t.todo = {} /\ f \in File /\ o \in Offset
        /\ Older(f, log[Account[t.grant]]["commands"])
    BY <1>0, Parts DEF Handler, Away, Run
  <1>2. /\ k.grant = t.grant /\ k.outer = t.outer /\ k.reach = Len(f.line)
        /\ \A n \in Nat : <<"commands", n>> \in k.todo <=> n \in Fresh(f, o)
    BY <1>0, ReadIs
  <1>3. log[Account[t.grant]]["commands"] \in File
    BY <1>0, <1>1, Parts, LogAssumption DEF TypeOK
  <1>4. ASSUME NEW n \in 1..log[Account[t.grant]]["commands"].cut
        PROVE  Imported(View(w), t.grant, n)
    BY <1>1, Parts, KeptImported DEF CutIsImported
  <1>5. ASSUME NEW n \in 1..o.end
        PROVE  Imported(View(w), t.grant, n) \/ Pending(k, "commands", n)
    BY <1>1, <1>2 DEF Pending
  <1> HIDE DEF f, o, t
  <1>6. ASSUME NEW n \in 1..Len(f.line)
        PROVE  Imported(View(w), t.grant, n) \/ Pending(k, "commands", n)
    <2>1. f.cut \in Nat /\ Len(f.line) \in Nat /\ f.cut <= log[Account[t.grant]]["commands"].cut
          /\ log[Account[t.grant]]["commands"].cut \in Nat /\ o.len \in Nat /\ o.end \in Nat /\ n \in Nat
      BY <1>1, <1>3 DEF File, Offset, Older
    <2>2. CASE n <= f.cut
      BY <1>4, <2>1, <2>2
    <2>3. CASE o.len <= Len(f.line) - f.cut /\ n <= f.cut + o.len
      <3>1. o.len = 0 \/ f.cut + o.len = o.end
        BY <2>3 DEF Missed, Length, f, o, t
      <3>2. o.len = 0 => n \in 1..log[Account[t.grant]]["commands"].cut
        BY <2>1, <2>3
      <3>3. f.cut + o.len = o.end => n \in 1..o.end
        BY <2>1, <2>3
      <3> QED  BY <1>4, <1>5, <3>1, <3>2, <3>3
    <2>4. CASE n > f.cut /\ ~(o.len <= Len(f.line) - f.cut /\ n <= f.cut + o.len)
      <3>1. n \in Fresh(f, o)
        BY <2>1, <2>4 DEF Fresh, Length
      <3> QED  BY <1>2, <2>1, <3>1 DEF Pending
    <2> QED  BY <2>1, <2>2, <2>3, <2>4
  <1> QED  BY <1>2, <1>6 DEF Marks

LEMMA ReadOffsetsKeeps ==
  ASSUME IInv, NEW w \in Threads, ReadOffsets(w)
  PROVE  IInv'
  <1> DEFINE t == task[w]
             d == View(w)
             off == d.offset[t.grant]
             k == Read(t, off)
  <1>1. t.pc = "offsets" /\ t \in Run /\ Handler(t, log) /\ ~Away(t) /\ t.grant \in Grants /\ d \in Tables
    BY Parts DEF ReadOffsets, Handler, Away
  <1>2. UNCHANGED <<host, db, base, lock, budget>> /\ budget' \in Budget
    BY Runs, Parts DEF ReadOffsets
  <1>3. CASE t.grant \in d.known
    <2>1. /\ task' = [task EXCEPT ![w] = k]
          /\ gapped' = IF \E p \in Paths : Missed(t.got[p], off[p]) THEN gapped \cup {t.grant} ELSE gapped
      BY <1>3 DEF ReadOffsets, Goto
    <2>2. off \in [Paths -> Offset] /\ "commands" \in Paths
      BY <1>1 DEF Tables, Paths
    <2> HIDE DEF off, d
    <2>3. /\ k \in Run /\ Handler(k, log) /\ k.pc = "look" /\ k.grant = t.grant
          /\ k.outer = t.outer /\ k.found = 0
      BY <1>1, <2>2, ReadIs
    <2>4. gapped \subseteq gapped' /\ gapped' \subseteq Grants
      BY <1>1, <2>1, Parts DEF TypeOK
    <2>5. t.grant \notin gapped' => Marks(k, d)
      <3> SUFFICES ASSUME t.grant \notin gapped' PROVE Marks(k, d)
        OBVIOUS
      <3>1. t.grant \notin gapped /\ ~Missed(t.got["commands"], off["commands"])
        BY <2>1, <2>2
      <3>2. ASSUME NEW n \in 1..off["commands"].end
            PROVE  Imported(d, t.grant, n) \/ Pending(t, "commands", n)
        <4>1. CASE lock = w
          BY <1>1, <3>1, <4>1, Parts DEF PassedIsImported, Held, View, d, off
        <4>2. CASE lock # w
          BY <1>1, <3>1, <4>2, Parts DEF NothingSkipped, View, d, off
        <4> QED  BY <4>1, <4>2
      <3> QED  BY <1>1, <2>2, <3>1, <3>2, ReadMarks DEF d
    <2>6. \A n : Pending(t, "commands", n) => Pending(k, "commands", n)
      BY <1>1, <2>3, Zenon DEF Pending, Handler
    <2>7. Finds(k, View(w)) /\ k.pc # "remove"
      BY <2>3 DEF Finds
    <2> HIDE DEF k
    <2> QED  BY <1>2, <2>1, <2>3, <2>4, <2>5, <2>6, <2>7, ReadKeeps, Zenon DEF d
  <1>4. CASE t.grant \notin d.known
    <2> DEFINE x == [t EXCEPT !.pc = "insert"]
    <2>1. task' = [task EXCEPT ![w] = x] /\ gapped' = gapped
      BY <1>4 DEF ReadOffsets, Goto
    <2>2. /\ x \in Run /\ x.pc = "insert" /\ x.grant = t.grant /\ x.outer = t.outer /\ x.todo = t.todo
          /\ x.got = t.got /\ x.stale = t.stale /\ x.adopt = t.adopt /\ x.found = t.found
      BY <1>1, Zenon DEF Run
    <2> HIDE DEF x
    <2>3. Handler(x, log)
      BY <1>1, <2>2 DEF Handler, Away
    <2>4. gapped' \subseteq Grants /\ gapped \subseteq gapped' /\ Marks(x, View(w)) /\ Finds(x, View(w))
      BY <1>1, <2>1, <2>2, Parts, Zenon DEF TypeOK, Marks, Finds, Handler
    <2>5. \A n : Pending(t, "commands", n) => Pending(x, "commands", n)
      BY <2>2 DEF Pending
    <2> QED  BY <1>2, <2>1, <2>2, <2>3, <2>4, <2>5, ReadKeeps, Zenon
  <1> QED  BY <1>3, <1>4

LEMMA LookKeeps ==
  ASSUME IInv, NEW w \in Threads, Look(w)
  PROVE  IInv'
  <1> DEFINE t == task[w]
             d == View(w)
  <1>1. t.pc = "look" /\ t \in Run /\ Handler(t, log) /\ ~Away(t) /\ t.grant \in Grants /\ d \in Tables
    BY Parts DEF Look, Handler, Away
  <1>2. /\ UNCHANGED <<host, db, base, lock>> /\ budget' \in Budget
        /\ gapped' = gapped /\ gapped' \subseteq Grants
    BY Runs, Parts DEF Look, TypeOK
  <1>3. t.found = 0 /\ t.got = Idle.got
    BY <1>1 DEF Handler
  <1>4. CASE t.todo = {}
    <2> DEFINE k == [t EXCEPT !.pc = "finish"]
    <2>1. task' = [task EXCEPT ![w] = k]
      BY <1>4 DEF Look, Goto
    <2>2. /\ k \in Run /\ k.pc = "finish" /\ k.grant = t.grant /\ k.outer = t.outer /\ k.todo = t.todo
          /\ k.got = t.got /\ k.stale = t.stale /\ k.adopt = t.adopt /\ k.found = t.found
          /\ k.mark = t.mark /\ k.reach = t.reach
      BY <1>1, Z3 DEF Run
    <2> HIDE DEF k
    <2>3. Handler(k, log)
      BY <1>1, <1>3, <1>4, <2>2 DEF Handler, Away
    <2>4. t.grant \notin gapped' => Marks(k, d)
      BY <1>1, <1>2, <2>2, Parts DEF Marks, Pending
    <2>5. \A n : Pending(t, "commands", n) => Pending(k, "commands", n)
      BY <2>2 DEF Pending
    <2> QED  BY <1>2, <1>3, <2>1, <2>2, <2>3, <2>4, <2>5, ReadKeeps, Zenon DEF Finds
  <1>5. CASE t.todo # {}
    <2>0. PICK r : r \in SessionsOf(w, Entry(w)) /\ LookAt(w, r)
      BY <1>5 DEF Look
    <2> DEFINE e == Entry(w)
               done == \/ e.line.kind = "started" /\ r # 0
                       \/ e.path = "commands" /\ <<r, e.num>> \in d.cmds
               adopt == IF r # 0 /\ Marker(w, r) = None THEN e.line.shell ELSE t.adopt
    <2>1. /\ e.path \in Paths /\ e.num \in Nat /\ <<e.path, e.num>> \in t.todo
          /\ e.line \in Line
      BY <1>1, <1>5, EntryIs, Zenon
    <2>a. r \in Matching(w, e.line.shell)
      BY <2>0 DEF SessionsOf
    <2> HIDE DEF e
    <2>2. r \in Rows \cup {0} /\ 0 \notin Rows /\ (r # 0 => d.row[r].grant = t.grant)
      BY <2>a, MatchingIs, RowNumbers
    <2>3. adopt \in Shells \cup {None}
      BY <1>1, <2>1 DEF Line, Run
    <2> HIDE DEF adopt
    <2>4. CASE done
      <3> DEFINE k == [t EXCEPT !.adopt = adopt, !.todo = Rest(w)]
      <3>1. task' = [task EXCEPT ![w] = k]
        BY <2>0, <2>4 DEF LookAt, Goto, e, adopt
      <3>2. Rest(w) = t.todo \ {<<e.path, e.num>>}
        BY DEF Rest, e
      <3>3. /\ k \in Run /\ k.pc = "look" /\ k.grant = t.grant /\ k.outer = t.outer /\ k.todo = Rest(w)
            /\ k.got = t.got /\ k.stale = t.stale /\ k.found = t.found /\ k.mark = t.mark
            /\ k.reach = t.reach
        BY <1>1, <2>3, <3>2 DEF Run
      <3> HIDE DEF k
      <3>4. Handler(k, log)
        BY <1>1, <1>3, <3>2, <3>3 DEF Handler, Away, Written
      <3>5. ASSUME NEW n \in Nat, Pending(t, "commands", n)
            PROVE  Pending(k, "commands", n) \/ Imported(d, t.grant, n)
        <4>1. CASE Pending(k, "commands", n)
          BY <4>1
        <4>2. CASE ~Pending(k, "commands", n)
          <5>1. <<"commands", n>> \in t.todo /\ <<"commands", n>> \notin Rest(w)
            BY <3>3, <3>5, <4>2 DEF Pending
          <5>2. e.path = "commands" /\ e.num = n
            BY <3>2, <5>1
          <5>3. CASE e.line.kind = "started" /\ r # 0
            <6>1. e.line.kind \notin Events
              <7>1. /\ e.num \in 1..Len(log[Account[t.grant]]["commands"].line)
                    /\ e.line = log[Account[t.grant]]["commands"].line[e.num]
                BY <1>1, <1>5, <5>2, EntryIs, Zenon DEF e
              <7>2. Account[t.grant] \in Accounts /\ Files
                BY <1>1, Parts, LogAssumption
              <7> QED  BY <7>1, <7>2, Zenon DEF Files
            <6> QED  BY <5>3, <6>1 DEF Events
          <5>4. CASE <<r, e.num>> \in d.cmds
            <6>1. r \in Rows
              BY <1>1, <2>2, <5>4 DEF Tables
            <6> QED  BY <2>2, <5>2, <5>4, <6>1 DEF Imported
          <5> QED  BY <2>4, <5>3, <5>4
        <4> QED  BY <4>1, <4>2
      <3>6. t.grant \notin gapped' => Marks(k, d)
        <4> SUFFICES ASSUME t.grant \notin gapped', NEW n \in 1..k.reach
                     PROVE  Imported(d, k.grant, n) \/ Pending(k, "commands", n)
          BY <3>3 DEF Marks
        <4>1. Imported(d, t.grant, n) \/ Pending(t, "commands", n)
          BY <1>1, <1>2, <3>3, Parts DEF Marks
        <4> QED  BY <3>3, <3>5, <4>1
      <3> QED  BY <1>2, <1>3, <3>1, <3>3, <3>4, <3>5, <3>6, ReadKeeps, Zenon DEF Finds
    <2>5. CASE ~done
      <3> DEFINE k == [t EXCEPT !.adopt = adopt, !.pc = "write", !.found = r]
      <3>1. task' = [task EXCEPT ![w] = k]
        BY <2>0, <2>5 DEF LookAt, Goto, e, adopt
      <3>2. /\ k \in Run /\ k.pc = "write" /\ k.grant = t.grant /\ k.outer = t.outer /\ k.todo = t.todo
            /\ k.got = t.got /\ k.stale = t.stale /\ k.found = r /\ k.mark = t.mark
            /\ k.reach = t.reach
        BY <1>1, <2>2, <2>3 DEF Run
      <3> HIDE DEF k
      <3>3. Handler(k, log)
        BY <1>1, <1>3, <1>5, <3>2 DEF Handler, Away
      <3>4. t.grant \notin gapped' => Marks(k, d)
        BY <1>1, <1>2, <3>2, Parts DEF Marks, Pending
      <3>5. \A n : Pending(t, "commands", n) => Pending(k, "commands", n)
        BY <3>2 DEF Pending
      <3> QED  BY <1>2, <2>2, <3>1, <3>2, <3>3, <3>4, <3>5, ReadKeeps DEF Finds
    <2> QED  BY <2>4, <2>5
  <1> QED  BY <1>4, <1>5
-----------------------------------------------------------------------------
(* The steps that write, under the lock.                                   *)
LEMMA FreeView ==
  ASSUME IInv, NEW w \in Threads, Free(w)
  PROVE  View(w) = db /\ lock \in {None, w}
  BY Parts DEF Free, View, TypeOK

LEMMA Passed ==
  ASSUME IInv, NEW w \in Threads, lock \in {None, w}, NEW g \in Grants, g \notin gapped,
         NEW n \in 1..db.offset[g]["commands"].end
  PROVE  Imported(db, g, n) \/ (lock = w /\ task[w].grant = g /\ Pending(task[w], "commands", n))
  BY Parts DEF PassedIsImported, Held

LEMMA WriteKeeps ==
  ASSUME IInv, NEW w \in Threads, lock \in {None, w}, lock' = w,
         NEW k \in Run, task' = [task EXCEPT ![w] = k], Handler(k, log),
         log' = log, shell' = shell, base' = base, gapped' = gapped,
         keyed' \subseteq Grants, budget' \in Budget,
         NEW e \in Tables, db' = e, Kept(base, e),
         Finds(k, e), k.grant \notin gapped' => Marks(k, e),
         \A g \in Grants \ gapped' : \A n \in 1..db'.offset[g]["commands"].end :
           Imported(db', g, n) \/ (lock' = w /\ k.grant = g /\ Pending(k, "commands", n))
  PROVE  IInv'
  <1>1. None # w /\ gapped' \subseteq Grants
    BY Parts DEF TypeOK
  <1> QED  BY <1>1, StepKeeps, Zenon

LEMMA FailureKeeps ==
  ASSUME IInv, NEW w \in Threads, Fault(w) \/ RemoveFails(w)
  PROVE  IInv'
  <1>1. budget.faults > 0 /\ budget' = [budget EXCEPT !.faults = @ - 1]
    BY DEF Fault, RemoveFails
  <1>2. budget' \in Budget
    BY <1>1, Parts, Runs, Spent, Zenon
  <1>3. keyed \subseteq Grants
    BY Parts DEF TypeOK
  <1> QED  BY <1>2, <1>3, AbortIsSafe DEF Fault, RemoveFails, host

LEMMA InsertOffsetsKeeps ==
  ASSUME IInv, NEW w \in Threads, InsertOffsets(w)
  PROVE  IInv'
  <1> DEFINE t == task[w]
             off == [p \in Paths |-> NoOffset]
             k == Read(t, off)
             e == [db EXCEPT !.known = @ \cup {t.grant}]
  <1>1. t.pc = "insert" /\ t \in Run /\ Handler(t, log) /\ ~Away(t) /\ t.grant \in Grants /\ db \in Tables
    BY Parts DEF InsertOffsets, Handler, Away, TypeOK
  <1>2. UNCHANGED <<host, base, gapped, budget>> /\ budget' \in Budget /\ gapped \subseteq Grants
        /\ keyed \subseteq Grants
    BY Runs, Parts DEF InsertOffsets, TypeOK
  <1>3. View(w) = db /\ lock \in {None, w}
    BY FreeView DEF InsertOffsets
  <1>4. CASE t.grant \in db.known
    BY <1>2, <1>4, AbortIsSafe DEF InsertOffsets, host
  <1>5. CASE t.grant \notin db.known
    <2>1. db' = e /\ lock' = w /\ task' = [task EXCEPT ![w] = k]
      BY <1>5 DEF InsertOffsets, Goto
    <2>2. /\ e \in Tables /\ e.offset = db.offset /\ e.row = db.row /\ e.cmds = db.cmds
      BY <1>1 DEF Tables
    <2>3. off \in [Paths -> Offset] /\ "commands" \in Paths /\ off["commands"].len = 0
          /\ off["commands"].end = 0
      BY DEF Paths, NoOffset, Offset
    <2> HIDE DEF e, off
    <2>4. /\ k \in Run /\ Handler(k, log) /\ k.pc = "look" /\ k.grant = t.grant
          /\ k.outer = t.outer /\ k.found = 0
      BY <1>1, <2>3, ReadIs
    <2>5. k.grant \notin gapped' => Marks(k, e)
      <3>1. t.grant \notin gapped => Marks(k, db)
        BY <1>1, <1>3, <2>3, ReadMarks
      <3>2. Kept(db, e)
        BY <2>2 DEF Kept
      <3> QED  BY <1>1, <1>2, <2>4, <3>1, <3>2, KeptMarks
    <2>6. \A n : Pending(t, "commands", n) => Pending(k, "commands", n)
      BY <1>1, <2>4, Zenon DEF Pending, Handler
    <2>7. Finds(k, e) /\ k.pc # "remove" /\ Kept(base, e)
      BY <2>2, <2>4, Parts DEF Finds, Kept
    <2> HIDE DEF k
    <2>8. ASSUME NEW g \in Grants \ gapped', NEW n \in 1..db'.offset[g]["commands"].end
          PROVE  Imported(db', g, n) \/ (lock' = w /\ k.grant = g /\ Pending(k, "commands", n))
      <3>1. Imported(db, g, n) => Imported(e, g, n)
        BY <2>2 DEF Imported
      <3> QED  BY <1>2, <1>3, <2>1, <2>2, <2>4, <2>6, <3>1, Passed
    <2>9. /\ log' = log /\ shell' = shell /\ keyed' \subseteq Grants
          /\ base' = base /\ gapped' = gapped
      BY <1>2 DEF host
    <2> HIDE DEF t
    <2> QED  BY <1>2, <1>3, <2>1, <2>2, <2>4, <2>5, <2>7, <2>8, <2>9, WriteKeeps, Zenon
  <1> QED  BY <1>4, <1>5

(* A flush that writes rows and commands, and drops no entry unimported.   *)
LEMMA FlushKeeps ==
  ASSUME IInv, NEW w \in Threads, Free(w), task[w].pc \in {"write", "finish"},
         UNCHANGED <<host, base, gapped, budget>>, lock' = w,
         NEW k \in Run, task' = [task EXCEPT ![w] = k],
         Handler(k, log), k.stale = {}, k.found = 0, k.grant = task[w].grant,
         k.reach = task[w].reach,
         NEW e \in Tables, db' = e, e.offset = Flushed(w).offset, Kept(Flushed(w), e),
         \A n \in Nat : Pending(task[w], "commands", n) =>
           Pending(k, "commands", n) \/ Imported(e, task[w].grant, n)
  PROVE  IInv'
  <1> DEFINE t == task[w]
  <1>1. t.grant \in Grants /\ "commands" \in Paths /\ db \in Tables /\ None # w /\ t \in Run
    BY Parts DEF Handler, Away, Paths, TypeOK
  <1>2. View(w) = db /\ lock \in {None, w}
    BY FreeView
  <1>3. Kept(db, e)
    <2>1. Kept(db, Flushed(w))
      BY <1>1, <1>2, Parts, FlushedIs DEF Kept
    <2> QED  BY <2>1, Parts DEF Kept
  <1>4. Kept(base, e)
    BY <1>3, Parts DEF Kept
  <1>5. \A g \in Grants : e.offset[g]["commands"] =
          IF g = t.grant /\ "commands" \in t.stale THEN t.mark["commands"]
          ELSE db.offset[g]["commands"]
    BY <1>1, <1>2, Parts, FlushedIs
  <1>6. ASSUME NEW g \in Grants \ gapped', NEW n \in 1..db'.offset[g]["commands"].end
        PROVE  Imported(db', g, n) \/ (lock' = w /\ k.grant = g /\ Pending(k, "commands", n))
    <2>0. n \in Nat /\ gapped' = gapped
      OBVIOUS
    <2>1. CASE g = t.grant /\ "commands" \in t.stale
      <3>1. Imported(db, g, n) \/ Pending(t, "commands", n)
        BY <1>2, <1>5, <2>0, <2>1, Parts DEF Marks, Handler
      <3> QED  BY <1>3, <2>0, <2>1, <3>1, KeptImported
    <2>2. CASE ~(g = t.grant /\ "commands" \in t.stale)
      <3>1. Imported(db, g, n) \/ (t.grant = g /\ Pending(t, "commands", n))
        BY <1>2, <1>5, <2>0, <2>2, Passed
      <3> QED  BY <1>3, <2>0, <3>1, KeptImported
    <2> QED  BY <2>1, <2>2
  <1>7. /\ log' = log /\ shell' = shell /\ keyed' \subseteq Grants /\ gapped' = gapped
        /\ gapped' \subseteq Grants /\ budget' \in Budget /\ base' = base
    BY Parts, Runs DEF host, TypeOK
  <1>8. Finds(k, e) /\ (k.grant \notin gapped' => Marks(k, e))
    <2>1. ASSUME k.grant \notin gapped', NEW n \in 1..k.reach
          PROVE  Imported(e, k.grant, n) \/ Pending(k, "commands", n)
      <3>1. Imported(db, t.grant, n) \/ Pending(t, "commands", n)
        BY <1>2, <1>7, <2>1, Parts DEF Marks
      <3>2. n \in Nat
        OBVIOUS
      <3> QED  BY <1>1, <1>3, <3>1, <3>2, KeptImported
    <2> QED  BY <2>1 DEF Finds, Marks
  <1> QED  BY <1>2, <1>4, <1>6, <1>7, <1>8, WriteKeeps, Zenon

(* A row and commands are put into tables that were flushed.               *)
Put(d, r, x, c) == [d EXCEPT !.cmds = c, !.row[r] = x]

LEMMA PutRow ==
  ASSUME NEW d \in Tables, NEW r \in Rows, NEW x \in Row, NEW c \in SUBSET (Rows \X Numbers),
         NEW e, e = Put(d, r, x, c)
  PROVE  /\ e \in Tables /\ e.cmds = c /\ e.offset = d.offset /\ e.known = d.known
         /\ e.status = d.status
         /\ \A q \in Rows : e.row[q] = IF q = r THEN x ELSE d.row[q]
  <1> DEFINE f == [d.row EXCEPT ![r] = x]
  <1>1. e = [d EXCEPT !.cmds = c, !.row = f]
    BY DEF Put
  <1>2. f \in [Rows -> Row] /\ \A q \in Rows : f[q] = IF q = r THEN x ELSE d.row[q]
    BY DEF Tables
  <1> HIDE DEF f
  <1> QED  BY <1>1, <1>2, Zenon DEF Tables

(* The row a handler writes: the one it found, or a free one.              *)
LEMMA Target ==
  ASSUME IInv, NEW w \in Threads, Free(w), task[w].pc = "write",
         task[w].found = 0 => HasRoom(Flushed(w)),
         NEW r, r = IF task[w].found # 0 THEN task[w].found ELSE NewRow(Flushed(w))
  PROVE  /\ r \in Rows
         /\ Flushed(w).row[r].grant \in {None, task[w].grant}
         /\ task[w].found # 0 => Flushed(w).row[r].grant = task[w].grant
         /\ task[w].found = 0 => /\ Flushed(w).row[r] = FreeRow
                                 /\ \A q \in 1..(r - 1) : Flushed(w).row[q] # FreeRow
  <1>1. task[w] \in Run /\ task[w].grant \in Grants /\ Finds(task[w], View(w)) /\ TypeOK
    BY Parts DEF Handler, Away
  <1>2. CASE task[w].found # 0
    <2>1. r = task[w].found /\ r \in Rows
      BY <1>1, <1>2 DEF Run
    <2> QED  BY <1>1, <1>2, <2>1, FlushedIs DEF Finds
  <1>3. CASE task[w].found = 0
    BY <1>3, NewRowIs DEF FreeRow
  <1> QED  BY <1>2, <1>3

(* Where a handler goes on after a flush.                                  *)
Entries == SUBSET (Paths \X Nat)
Stacks == Seq(SUBSET (Paths \X Nat))

Places == {"look", "commands", "remove", "next"}

Turn(t, next, todo, outer) ==
  [t EXCEPT !.pc = next, !.found = 0, !.todo = todo, !.outer = outer]
GoOn(t, next, todo, outer) == Turn(Clean(t), next, todo, outer)

LEMMA Moved ==
  ASSUME NEW t \in Run, NEW next \in {"look", "commands", "remove", "next"}
  PROVE  [t EXCEPT !.pc = next, !.found = 0] \in Run
  BY DEF Run

LEMMA Loaded ==
  ASSUME NEW t \in Run, NEW todo \in Entries, NEW outer \in Stacks
  PROVE  [t EXCEPT !.todo = todo, !.outer = outer] \in Run
  BY DEF Run, Entries, Stacks

LEMMA Turned ==
  ASSUME NEW t \in Run, NEW next \in Places,
         NEW todo \in Entries, NEW outer \in Stacks,
         NEW k, k = Turn(t, next, todo, outer)
  PROVE  /\ k \in Run /\ k.pc = next /\ k.found = 0 /\ k.todo = todo /\ k.outer = outer
         /\ k.stale = t.stale /\ k.adopt = t.adopt /\ k.mark = t.mark
         /\ k.grant = t.grant /\ k.got = t.got /\ k.reach = t.reach
  <1>1. PICK x \in Run : x = [t EXCEPT !.pc = next, !.found = 0]
    BY Moved, Zenon DEF Places
  <1>2. k = [x EXCEPT !.todo = todo, !.outer = outer]
    BY <1>1 DEF Turn
  <1>3. k \in Run
    <2>1. [x EXCEPT !.todo = todo, !.outer = outer] \in Run
      BY Loaded
    <2> QED  BY <1>2, <2>1
  <1>4. /\ k.pc = next /\ k.found = 0 /\ k.todo = todo /\ k.outer = outer
        /\ k.stale = t.stale /\ k.adopt = t.adopt /\ k.mark = t.mark
        /\ k.grant = t.grant /\ k.got = t.got /\ k.reach = t.reach
    BY DEF Turn, Run
  <1> QED  BY <1>3, <1>4

LEMMA Cleaned ==
  ASSUME NEW t \in Run
  PROVE  /\ Clean(t) \in Run /\ Clean(t).stale = {} /\ Clean(t).adopt = None
         /\ Clean(t).mark = Idle.mark /\ Clean(t).grant = t.grant /\ Clean(t).got = t.got
         /\ Clean(t).reach = t.reach
  <1>1. Idle.mark \in [Paths -> Offset] /\ {} \in SUBSET Paths /\ None \in Shells \cup {None}
    BY IdleIsHandler DEF Run
  <1>2. Clean(t) \in Run
    BY <1>1 DEF Clean, Run
  <1> QED  BY <1>2 DEF Clean, Run

LEMMA CleanIs ==
  ASSUME NEW t \in Run, NEW next \in {"look", "commands", "remove", "next"},
         NEW todo \in Entries, NEW outer \in Stacks,
         NEW k, k = GoOn(t, next, todo, outer)
  PROVE  /\ k \in Run /\ k.pc = next /\ k.found = 0 /\ k.todo = todo /\ k.outer = outer
         /\ k.stale = {} /\ k.adopt = None /\ k.mark = Idle.mark
         /\ k.grant = t.grant /\ k.got = t.got /\ k.reach = t.reach
  <1>1. PICK y \in Run : /\ y = Clean(t)
                         /\ y.stale = {} /\ y.adopt = None /\ y.mark = Idle.mark
                         /\ y.grant = t.grant /\ y.got = t.got /\ y.reach = t.reach
    BY Cleaned
  <1>2. k = Turn(y, next, todo, outer)
    BY <1>1 DEF GoOn
  <1>3. /\ k \in Run /\ k.pc = next /\ k.found = 0 /\ k.todo = todo /\ k.outer = outer
        /\ k.stale = y.stale /\ k.adopt = y.adopt /\ k.mark = y.mark
        /\ k.grant = y.grant /\ k.got = y.got /\ k.reach = y.reach
    <2>1. /\ y \in Run /\ todo \in Entries /\ outer \in Stacks
          /\ next \in Places
      BY DEF Places
    <2> QED  BY <1>2, <2>1, Turned
  <1> QED  BY <1>1, <1>3

(* The entry it has just dealt with is one of those left, and no more.     *)
LEMMA RestIs ==
  ASSUME IInv, NEW w \in Threads, ~Away(task[w]), task[w].todo # {}
  PROVE  /\ Rest(w) \in SUBSET (Paths \X Nat)
         /\ Rest(w) \subseteq task[w].todo
         /\ Written(Rest(w), log[Account[task[w].grant]])
         /\ \A p \in Paths, n \in Nat : <<p, n>> \in task[w].todo =>
              <<p, n>> \in Rest(w) \/ (p = Entry(w).path /\ n = Entry(w).num)
  <1>1. /\ task[w] \in Run /\ Written(task[w].todo, log[Account[task[w].grant]])
        /\ Rest(w) = task[w].todo \ {<<Entry(w).path, Entry(w).num>>}
    BY Parts DEF Handler, Rest
  <1>2. Rest(w) \subseteq task[w].todo /\ task[w].todo \in SUBSET (Paths \X Nat)
    BY <1>1 DEF Run
  <1>3. Written(Rest(w), log[Account[task[w].grant]])
    BY <1>1, <1>2 DEF Written
  <1> QED  BY <1>1, <1>2, <1>3

LEMMA WriteEventKeeps ==
  ASSUME IInv, NEW w \in Threads, WriteEvent(w)
  PROVE  IInv'
  <1> DEFINE t == task[w]
             d == Flushed(w)
             r == IF t.found # 0 THEN t.found ELSE NewRow(d)
             x == [grant |-> t.grant,
                   shell |-> IF t.found # 0 THEN d.row[r].shell ELSE Entry(w).line.shell,
                   status |-> IF Entry(w).line.kind = "finished" THEN "closed" ELSE "active"]
             e == Put(d, r, x, d.cmds)
             k == GoOn(t, "look", Rest(w), t.outer)
  <1>1. /\ t \in Run /\ Handler(t, log) /\ ~Away(t) /\ t.grant \in Grants /\ t.todo # {}
        /\ t.pc = "write" /\ Free(w) /\ Entry(w).path = "sessions" /\ TypeOK
    BY Parts, Zenon DEF WriteEvent, Handler, Away
  <1>2. UNCHANGED <<host, base, gapped, budget>> /\ lock' = w
    BY DEF WriteEvent
  <1>3. /\ Entry(w).line \in Line /\ Rest(w) \in SUBSET (Paths \X Nat)
        /\ Written(Rest(w), log[Account[t.grant]])
        /\ \A n \in Nat : <<"commands", n>> \in t.todo => <<"commands", n>> \in Rest(w)
    <2>1. "commands" \in Paths
      BY DEF Paths
    <2> QED  BY <1>1, <2>1, EntryIs, RestIs, Zenon
  <1>4. d \in Tables /\ d.offset = Flushed(w).offset
    BY <1>1, FlushedIs
  <1>5. r \in Rows /\ d.row[r].grant \in {None, t.grant}
    BY <1>1, Target DEF WriteEvent
  <1>6. x \in Row
    BY <1>1, <1>3, <1>4, <1>5 DEF Row, Line, Tables
  <1>7. task' = [task EXCEPT ![w] = k]
    BY <1>1 DEF WriteEvent, Goto, GoOn, Turn, Clean, Run
  <1>8. db' = e
    BY <1>4, Zenon DEF WriteEvent, Put, Tables
  <1>9. x.grant = t.grant
    OBVIOUS
  <1> HIDE DEF d, r, x
  <1>10. /\ e \in Tables /\ e.cmds = d.cmds /\ e.offset = d.offset
         /\ \A q \in Rows : e.row[q] = IF q = r THEN x ELSE d.row[q]
    <2>1. d.cmds \in SUBSET (Rows \X Numbers)
      BY <1>4 DEF Tables
    <2> QED  BY <1>4, <1>5, <1>6, <2>1, PutRow
  <1> HIDE DEF e
  <1>11. Kept(d, e)
    BY <1>5, <1>9, <1>10 DEF Kept
  <1>12. /\ k \in Run /\ k.pc = "look" /\ k.found = 0 /\ k.todo = Rest(w) /\ k.outer = t.outer
         /\ k.stale = {} /\ k.adopt = None /\ k.grant = t.grant /\ k.got = t.got /\ k.reach = t.reach
    <2>1. t.outer \in Stacks /\ Rest(w) \in Entries
      BY <1>1, <1>3 DEF Run, Entries, Stacks
    <2> QED  BY <1>1, <2>1, CleanIs, Z3
  <1> HIDE DEF k
  <1>13. Handler(k, log)
    BY <1>1, <1>3, <1>12 DEF Handler, Away
  <1>14. \A n \in Nat : Pending(t, "commands", n) => Pending(k, "commands", n)
    BY <1>3, <1>12 DEF Pending
  <1> QED  BY <1>1, <1>2, <1>4, <1>7, <1>8, <1>10, <1>11, <1>12, <1>13, <1>14, FlushKeeps, Zenon DEF d

LEMMA NumbersIs == \A n \in 1..MaxLines : n \in Numbers
  <1>1. Cardinality(Shells) \in Nat
    BY LogAssumption, FS_CardinalityType
  <1>2. MaxLines \in Nat
    BY LogAssumption
  <1> DEFINE c == Cardinality(Shells)
  <1>3. Numbers = 1..(MaxLines + 2 * c)
    BY DEF Numbers
  <1> HIDE DEF c
  <1>4. c \in Nat
    BY <1>1 DEF c
  <1> QED  BY <1>2, <1>3, <1>4

(* The entries of an interrupted import are put before those of the outer. *)
Push(x, s) == <<x>> \o s

LEMMA Pushed ==
  ASSUME NEW x \in Entries, NEW s \in Stacks, NEW z, z = Push(x, s)
  PROVE  /\ z \in Stacks /\ z # << >> /\ x = Head(z) /\ s = Tail(z)
         /\ \A i \in DOMAIN z : z[i] = x \/ \E j \in DOMAIN s : z[i] = s[j]
         /\ \E i \in DOMAIN z : z[i] = x
         /\ \A j \in DOMAIN s : \E i \in DOMAIN z : z[i] = s[j]
  <1>1. x \in SUBSET (Paths \X Nat) /\ s \in Seq(SUBSET (Paths \X Nat))
    BY DEF Entries, Stacks
  <1>2. <<x>> \in Seq(SUBSET (Paths \X Nat))
    BY <1>1
  <1>3. z \in Stacks
    BY <1>1, <1>2 DEF Stacks, Push
  <1>4. Len(z) = Len(s) + 1 /\ Len(s) \in Nat /\ DOMAIN z = 1..Len(z) /\ DOMAIN s = 1..Len(s)
    BY <1>1, <1>2 DEF Push
  <1>5. z[1] = x /\ \A j \in 1..Len(s) : z[j + 1] = s[j]
    BY <1>1, <1>2 DEF Push
  <1>6. ASSUME NEW i \in 1..Len(z), i # 1 PROVE z[i] = s[i - 1] /\ i - 1 \in 1..Len(s)
    <2>1. i - 1 \in 1..Len(s) /\ (i - 1) + 1 = i
      BY <1>4, <1>6
    <2> QED  BY <1>5, <2>1
  <1>7. ASSUME NEW j \in 1..Len(s) PROVE j + 1 \in 1..Len(z)
    BY <1>4
  <1>8. 1 \in 1..Len(z)
    BY <1>4
  <1>9. z # << >> /\ x = Head(z)
    BY <1>4, <1>5
  <1>10. s = Tail(z)
    BY <1>1, <1>2 DEF Push
  <1>11. \A i \in DOMAIN z : z[i] = x \/ \E j \in DOMAIN s : z[i] = s[j]
    BY <1>4, <1>5, <1>6
  <1>12. \E i \in DOMAIN z : z[i] = x
    BY <1>4, <1>5, <1>8
  <1>13. \A j \in DOMAIN s : \E i \in DOMAIN z : z[i] = s[j]
    BY <1>4, <1>5, <1>7
  <1> QED  BY <1>3, <1>9, <1>10, <1>11, <1>12, <1>13

LEMMA AfterCommandIs ==
  ASSUME NEW w, task[w] \in Run
  PROVE  \/ Clean(AfterCommand(w)) = GoOn(task[w], "look", Rest(w), task[w].outer)
         \/ Clean(AfterCommand(w)) = GoOn(task[w], "commands", {}, Push(Rest(w), task[w].outer))
  <1> DEFINE t == task[w]
             y == [t EXCEPT !.found = 0, !.pc = "look", !.todo = Rest(w)]
             o == <<Rest(w)>> \o t.outer
  <1>1. Clean(y) = GoOn(t, "look", Rest(w), t.outer)
    BY Zenon DEF Clean, GoOn, Turn, Run
  <1>2. Clean([y EXCEPT !.pc = "commands", !.outer = o, !.todo = {}]) = GoOn(t, "commands", {}, o)
    BY DEF Clean, GoOn, Turn, Run
  <1>3. y.todo = Rest(w) /\ y.outer = t.outer
    BY DEF Run
  <1>4. [y EXCEPT !.pc = "commands", !.outer = <<y.todo>> \o @, !.todo = {}]
          = [y EXCEPT !.pc = "commands", !.outer = o, !.todo = {}]
    BY <1>3
  <1>5. AfterCommand(w) \in {y, [y EXCEPT !.pc = "commands", !.outer = <<y.todo>> \o @, !.todo = {}]}
    BY DEF AfterCommand
  <1> QED  BY <1>1, <1>2, <1>4, <1>5 DEF Push

LEMMA WriteCommandKeeps ==
  ASSUME IInv, NEW w \in Threads, WriteCommand(w)
  PROVE  IInv'
  <1> DEFINE t == task[w]
             d == Flushed(w)
             r == IF t.found # 0 THEN t.found ELSE NewRow(d)
             x == IF t.found # 0 THEN d.row[r]
                  ELSE [grant |-> t.grant, shell |-> Entry(w).line.shell, status |-> "active"]
             c == d.cmds \cup {<<r, Entry(w).num>>}
             e == Put(d, r, x, c)
             outer == Push(Rest(w), t.outer)
             k1 == GoOn(t, "look", Rest(w), t.outer)
             k2 == GoOn(t, "commands", {}, outer)
  <1>1. /\ t \in Run /\ Handler(t, log) /\ ~Away(t) /\ t.grant \in Grants /\ t.todo # {}
        /\ t.pc = "write" /\ Free(w) /\ Entry(w).path = "commands" /\ TypeOK
    BY Parts DEF WriteCommand, Handler, Away
  <1>2. UNCHANGED <<host, base, gapped, budget>> /\ budget' \in Budget /\ keyed \subseteq Grants
    BY Runs, Parts DEF WriteCommand, TypeOK
  <1>3. CASE Raises(Entry(w).line.kind)
    BY <1>2, <1>3, AbortIsSafe DEF WriteCommand, host
  <1>4. CASE ~Raises(Entry(w).line.kind)
    <2>1. /\ Entry(w).line \in Line /\ Rest(w) \in Entries /\ t.outer \in Stacks /\ {} \in Entries
          /\ Written(Rest(w), log[Account[t.grant]])
          /\ \A n \in Nat : <<"commands", n>> \in t.todo =>
               <<"commands", n>> \in Rest(w) \/ n = Entry(w).num
      <3>1. "commands" \in Paths
        BY DEF Paths
      <3> QED  BY <1>1, <3>1, EntryIs, RestIs, Zenon DEF Entries, Stacks, Run
    <2>a. t.outer \in Stacks /\ Rest(w) \in Entries
      BY <2>1
    <2>b. {} \in Entries
      BY <2>1
    <2>2. Entry(w).num \in Numbers
      <3>1. Entry(w).num \in 1..Len(log[Account[t.grant]]["commands"].line)
        BY <1>1, EntryIs, Zenon
      <3>2. Account[t.grant] \in Accounts /\ "commands" \in Paths
        BY <1>1, LogAssumption DEF Paths
      <3>3. log[Account[t.grant]]["commands"] \in File
            /\ Len(log[Account[t.grant]]["commands"].line) <= MaxLines
        BY <1>1, <3>2, Parts DEF TypeOK, Files
      <3>4. Len(log[Account[t.grant]]["commands"].line) \in Nat /\ MaxLines \in Nat
        BY <3>3, LogAssumption, Z3 DEF File
      <3>5. Entry(w).num \in 1..MaxLines
        BY <3>1, <3>3, <3>4
      <3> QED  BY <3>5, NumbersIs
    <2>3. d \in Tables
      BY <1>1, FlushedIs
    <2>4. r \in Rows /\ d.row[r].grant \in {None, t.grant}
          /\ (t.found # 0 => d.row[r].grant = t.grant)
      BY <1>1, Target DEF WriteCommand
    <2>5. x \in Row /\ c \in SUBSET (Rows \X Numbers)
      BY <1>1, <2>1, <2>2, <2>3, <2>4 DEF Row, Line, Tables
    <2>6. task' = [task EXCEPT ![w] = k1] \/ task' = [task EXCEPT ![w] = k2]
      BY <1>1, <1>4, AfterCommandIs DEF WriteCommand, Goto
    <2>7. db' = e /\ lock' = w
      BY <1>4, <2>3 DEF WriteCommand, Put, Tables
    <2>8. x.grant = t.grant
      BY <2>4
    <2>9. <<r, Entry(w).num>> \in c /\ d.cmds \subseteq c
      OBVIOUS
    <2> HIDE DEF d, r, x, c, outer
    <2>10. /\ e \in Tables /\ e.cmds = c /\ e.offset = d.offset
           /\ \A q \in Rows : e.row[q] = IF q = r THEN x ELSE d.row[q]
      BY <2>3, <2>4, <2>5, PutRow
    <2> HIDE DEF e
    <2>11. Kept(d, e) /\ Imported(e, t.grant, Entry(w).num)
      BY <2>4, <2>8, <2>9, <2>10 DEF Kept, Imported
    <2>12. ASSUME NEW n \in Nat, Pending(t, "commands", n)
           PROVE  \/ <<"commands", n>> \in Rest(w) \/ Imported(e, t.grant, n)
                  \/ \E i \in DOMAIN t.outer : <<"commands", n>> \in t.outer[i]
      BY <2>1, <2>11, <2>12 DEF Pending
    <2>13. CASE task' = [task EXCEPT ![w] = k1]
      <3>1. /\ k1 \in Run /\ k1.pc = "look" /\ k1.found = 0 /\ k1.todo = Rest(w) /\ k1.outer = t.outer
            /\ k1.stale = {} /\ k1.adopt = None /\ k1.grant = t.grant /\ k1.got = t.got /\ k1.reach = t.reach
        BY <1>1, <2>a, CleanIs, Z3
      <3> HIDE DEF k1
      <3>2. Handler(k1, log)
        BY <1>1, <2>1, <3>1, Zenon DEF Handler, Away
      <3>3. \A n \in Nat : Pending(t, "commands", n) =>
              Pending(k1, "commands", n) \/ Imported(e, t.grant, n)
        BY <2>12, <3>1 DEF Pending
      <3> QED  BY <1>1, <1>2, <2>7, <2>10, <2>11, <2>13, <3>1, <3>2, <3>3, FlushKeeps DEF d
    <2>14. CASE task' = [task EXCEPT ![w] = k2]
      <3>1. /\ outer \in Stacks
            /\ \A i \in DOMAIN outer : outer[i] = Rest(w) \/ \E j \in DOMAIN t.outer : outer[i] = t.outer[j]
            /\ \E i \in DOMAIN outer : outer[i] = Rest(w)
            /\ \A j \in DOMAIN t.outer : \E i \in DOMAIN outer : outer[i] = t.outer[j]
        <4>1. outer = Push(Rest(w), t.outer)
          BY DEF outer
        <4> HIDE DEF t
        <4> QED  BY <2>a, <4>1, Pushed
      <3>2. /\ k2 \in Run /\ k2.pc = "commands" /\ k2.found = 0 /\ k2.todo = {} /\ k2.outer = outer
            /\ k2.stale = {} /\ k2.adopt = None /\ k2.grant = t.grant /\ k2.got = t.got /\ k2.reach = t.reach
        <4>1. outer \in Stacks
          BY <3>1
        <4> QED  BY <1>1, <2>b, <4>1, CleanIs, Z3
      <3> HIDE DEF k2
      <3>3. \A i \in DOMAIN outer : Written(outer[i], log[Account[t.grant]])
        BY <1>1, <2>1, <3>1 DEF Handler
      <3>4. Handler(k2, log)
        BY <1>1, <2>1, <3>2, <3>3, Zenon DEF Handler, Away, Written
      <3>5. \A n \in Nat : Pending(t, "commands", n) =>
              Pending(k2, "commands", n) \/ Imported(e, t.grant, n)
        BY <2>12, <3>1, <3>2 DEF Pending
      <3> QED  BY <1>1, <1>2, <2>7, <2>10, <2>11, <2>14, <3>2, <3>4, <3>5, FlushKeeps DEF d
    <2> QED  BY <2>6, <2>13, <2>14
  <1> QED  BY <1>3, <1>4

(* The handler that holds the lock finds no command taken: the rollback    *)
(* undoes nothing that was flushed.                                        *)
LEMMA CommandTakenKeeps ==
  ASSUME IInv, NEW w \in Threads, CommandTaken(w),
         lock = w => <<task[w].found, Entry(w).num>> \notin db.cmds
  PROVE  IInv'
  <1> DEFINE t == task[w]
  <1>1. PICK live \in BOOLEAN : live = (base.status[t.grant] = "active")
    BY Zenon
  <1> DEFINE y == GoOn(t, "look", Rest(w), t.outer)
             k == [y EXCEPT !.live = live]
  <1>2. /\ t \in Run /\ Handler(t, log) /\ ~Away(t) /\ t.grant \in Grants /\ t.todo # {}
        /\ t.pc = "write" /\ Free(w) /\ TypeOK
    BY Parts, Zenon DEF CommandTaken, Handler, Away
  <1>3. UNCHANGED <<host, base, gapped, budget>> /\ db' = base /\ lock' = None
    BY DEF CommandTaken
  <1>4. Rest(w) \in Entries /\ t.outer \in Stacks /\ Written(Rest(w), log[Account[t.grant]])
    BY <1>2, RestIs DEF Entries, Stacks, Run
  <1>5. task' = [task EXCEPT ![w] = k]
    BY <1>1, <1>2 DEF CommandTaken, Goto, GoOn, Turn, Clean, Run
  <1>6. /\ y \in Run /\ y.pc = "look" /\ y.found = 0 /\ y.todo = Rest(w) /\ y.outer = t.outer
        /\ y.stale = {} /\ y.adopt = None /\ y.grant = t.grant /\ y.got = t.got /\ y.reach = t.reach
    BY <1>2, <1>4, CleanIs
  <1> HIDE DEF y
  <1>7. /\ k \in Run /\ k.pc = "look" /\ k.found = 0 /\ k.todo = Rest(w) /\ k.outer = t.outer
        /\ k.stale = {} /\ k.adopt = None /\ k.grant = t.grant /\ k.got = t.got /\ k.reach = t.reach
    <2>1. k \in Run
      BY <1>6, ZenonT(60) DEF Run
    <2> QED  BY <1>6, <2>1 DEF Run
  <1> HIDE DEF k
  <1>8. Handler(k, log)
    BY <1>2, <1>4, <1>7, Zenon DEF Handler, Away
  <1>9. lock = None /\ db = base /\ View(w) = base /\ Finds(k, base)
    BY <1>2, <1>7, FreeView, Parts DEF CommandTaken, Finds, TypeOK, View
  <1>a. t.grant \notin gapped => Marks(k, base)
    <2> SUFFICES ASSUME t.grant \notin gapped, NEW n \in 1..t.reach
                 PROVE  Imported(base, t.grant, n) \/ Pending(k, "commands", n)
      BY <1>7 DEF Marks
    <2>1. Imported(base, t.grant, n) \/ Pending(t, "commands", n)
      BY <1>2, <1>9, Parts DEF Marks
    <2>2. /\ n \in Nat /\ "commands" \in Paths
          /\ <<"commands", n>> \in t.todo => <<"commands", n>> \in Rest(w) \/ n = Entry(w).num
      <3>1. n \in Nat /\ "commands" \in Paths
        BY DEF Paths
      <3> QED  BY <1>2, <3>1, RestIs
    <2>3. Imported(base, t.grant, Entry(w).num)
      <3>1. t.found \in Rows /\ <<t.found, Entry(w).num>> \in base.cmds
        BY <1>2, <1>9 DEF CommandTaken, Run
      <3>2. base.row[t.found].grant = t.grant
        BY <1>9, <3>1, Parts, RowNumbers DEF Finds
      <3> QED  BY <3>1, <3>2 DEF Imported
    <2> QED  BY <1>7, <2>1, <2>2, <2>3 DEF Pending
  <1>10. ASSUME NEW g \in Grants \ gapped', NEW n \in 1..db'.offset[g]["commands"].end
         PROVE  Imported(db', g, n)
    BY <1>3, Parts DEF NothingSkipped
  <1>11. /\ log' = log /\ shell' = shell /\ keyed' \subseteq Grants /\ gapped' = gapped
         /\ gapped' \subseteq Grants /\ budget' \in Budget /\ base' = base /\ db' \in Tables
         /\ Kept(base, db') /\ lock' # w
    BY <1>3, Parts, Runs, KeptItself DEF host, TypeOK
  <1> QED  BY <1>3, <1>5, <1>7, <1>8, <1>9, <1>a, <1>10, <1>11, StepKeeps

LEMMA FinishImportKeeps ==
  ASSUME IInv, NEW w \in Threads, FinishImport(w)
  PROVE  IInv'
  <1> DEFINE t == task[w]
  <1>1. PICK next \in {"remove", "next"} :
          next = IF t.close \/ t.outer # << >> THEN "remove" ELSE "next"
    OBVIOUS
  <1> DEFINE k == GoOn(t, next, {}, t.outer)
             e == Flushed(w)
  <1>2. /\ t \in Run /\ Handler(t, log) /\ ~Away(t) /\ t.grant \in Grants /\ t.todo = {} /\ t.found = 0
        /\ t.pc = "finish" /\ Free(w) /\ TypeOK
    BY Parts DEF FinishImport, Handler, Away
  <1>3. UNCHANGED <<host, base, gapped, budget>> /\ db' = e /\ lock' = w
    BY DEF FinishImport
  <1>4. {} \in Entries /\ t.outer \in Stacks
    BY <1>2 DEF Entries, Stacks, Run
  <1>5. task' = [task EXCEPT ![w] = k]
    <2>1. [Clean(t) EXCEPT !.pc = next] = k
      BY <1>2 DEF GoOn, Turn, Clean, Run
    <2> QED  BY <1>1, <2>1, Zenon DEF FinishImport, Goto
  <1>6. /\ k \in Run /\ k.pc = next /\ k.found = 0 /\ k.todo = {} /\ k.outer = t.outer
        /\ k.stale = {} /\ k.adopt = None /\ k.grant = t.grant /\ k.got = t.got /\ k.reach = t.reach
    <2>1. next \in {"look", "commands", "remove", "next"}
      OBVIOUS
    <2> QED  BY <1>2, <1>4, <2>1, CleanIs, SMTT(40)
  <1>7. next = "next" => t.outer = << >>
    BY <1>1
  <1> HIDE DEF k, e
  <1>8. Handler(k, log)
    BY <1>2, <1>6, <1>7 DEF Handler, Away, Written
  <1>9. e \in Tables /\ e = Flushed(w) /\ Kept(e, e)
    BY <1>2, FlushedIs, KeptItself DEF e
  <1>10. \A n \in Nat : Pending(t, "commands", n) => Pending(k, "commands", n)
    BY <1>2, <1>6 DEF Pending
  <1> QED  BY <1>2, <1>3, <1>5, <1>6, <1>8, <1>9, <1>10, FlushKeeps, Zenon

(* The interrupted import goes on with what it had left.                   *)
Resume(t) ==
  [t EXCEPT !.pc = "look", !.todo = Head(t.outer), !.outer = Tail(t.outer), !.live = FALSE]

LEMMA ResumeIs ==
  ASSUME NEW t \in Run, t.outer # << >>, NEW k, k = Resume(t)
  PROVE  /\ k \in Run /\ k.pc = "look" /\ k.todo \in Entries /\ k.outer \in Stacks
         /\ k.found = t.found /\ k.grant = t.grant /\ k.got = t.got /\ k.reach = t.reach
         /\ k.stale = t.stale /\ k.adopt = t.adopt /\ k.reach = t.reach
         /\ \E i \in DOMAIN t.outer : t.outer[i] = k.todo
         /\ \A i \in DOMAIN t.outer : t.outer[i] = k.todo \/ \E j \in DOMAIN k.outer : t.outer[i] = k.outer[j]
         /\ \A j \in DOMAIN k.outer : \E i \in DOMAIN t.outer : k.outer[j] = t.outer[i]
  <1>1. PICK s, x, z : s = t.outer /\ x = Head(s) /\ z = Tail(s)
    BY Zenon
  <1>2. s \in Stacks /\ s # << >>
    BY <1>1 DEF Run, Stacks
  <1>3. x = Head(s) /\ z = Tail(s)
    BY <1>1
  <1>4. /\ x \in Entries /\ z \in Stacks
        /\ \E i \in DOMAIN s : s[i] = x
        /\ \A i \in DOMAIN s : s[i] = x \/ \E j \in DOMAIN z : s[i] = z[j]
        /\ \A j \in DOMAIN z : \E i \in DOMAIN s : z[j] = s[i]
    <2>1. s \in Seq(SUBSET (Paths \X Nat))
      BY <1>2 DEF Stacks
    <2>2. Len(s) \in Nat /\ Len(s) # 0 /\ DOMAIN s = 1..Len(s)
      BY <1>2, <2>1
    <2>3. x = s[1] /\ 1 \in 1..Len(s)
      BY <1>3, <2>1, <2>2
    <2>4. z \in Seq(SUBSET (Paths \X Nat)) /\ Len(z) = Len(s) - 1 /\ DOMAIN z = 1..Len(z)
          /\ \A j \in 1..Len(z) : z[j] = s[j + 1]
      BY <1>3, <2>1, <2>2
    <2>5. ASSUME NEW i \in 1..Len(s), i # 1 PROVE i - 1 \in 1..Len(z) /\ s[i] = z[i - 1]
      <3>1. i - 1 \in 1..Len(z) /\ (i - 1) + 1 = i
        BY <2>2, <2>4, <2>5
      <3> QED  BY <2>4, <3>1
    <2>6. ASSUME NEW j \in 1..Len(z) PROVE j + 1 \in 1..Len(s)
      BY <2>2, <2>4
    <2>7. x \in Entries /\ z \in Stacks
      BY <2>1, <2>3, <2>4 DEF Entries, Stacks
    <2>8. \A i \in DOMAIN s : s[i] = x \/ \E j \in DOMAIN z : s[i] = z[j]
      BY <2>2, <2>3, <2>4, <2>5, Zenon
    <2>9. \A j \in DOMAIN z : \E i \in DOMAIN s : z[j] = s[i]
      BY <2>2, <2>4, <2>6, Zenon
    <2>10. \E i \in DOMAIN s : s[i] = x
      BY <2>2, <2>3
    <2> QED  BY <2>7, <2>8, <2>9, <2>10
  <1>5. k = [t EXCEPT !.pc = "look", !.todo = x, !.outer = z, !.live = FALSE]
    BY <1>1 DEF Resume
  <1>6. /\ k \in Run /\ k.pc = "look" /\ k.todo = x /\ k.outer = z
        /\ k.found = t.found /\ k.grant = t.grant /\ k.got = t.got /\ k.reach = t.reach
        /\ k.stale = t.stale /\ k.adopt = t.adopt /\ k.reach = t.reach
    <2>1. x \in SUBSET (Paths \X Nat) /\ z \in Seq(SUBSET (Paths \X Nat))
      BY <1>4 DEF Entries, Stacks
    <2>2. PICK y \in Run : y = [t EXCEPT !.todo = x, !.outer = z]
      BY <1>4, Loaded
    <2>3. k = [y EXCEPT !.pc = "look", !.live = FALSE]
      BY <1>5, <2>2, Zenon
    <2>4. k \in Run
      BY <2>3 DEF Run
    <2> QED  BY <1>5, <2>4 DEF Run
  <1> QED  BY <1>1, <1>4, <1>6

LEMMA RemoveKeeps ==
  ASSUME IInv, NEW w \in Threads, Remove(w)
  PROVE  IInv'
  <1> DEFINE t == task[w]
             e == [db EXCEPT !.status[t.grant] = "closed"]
             stop == [t EXCEPT !.pc = "next"]
  <1>1. PICK k : k = IF t.outer # << >> THEN Resume(t) ELSE stop
    BY Zenon
  <1>2. /\ t \in Run /\ Handler(t, log) /\ ~Away(t) /\ t.grant \in Grants /\ t.todo = {}
        /\ t.found = 0 /\ t.stale = {} /\ t.adopt = None
        /\ t.pc = "remove" /\ lock = w /\ db \in Tables /\ keyed \subseteq Grants
    BY Parts, Zenon DEF Remove, Handler, Away, TypeOK
  <1>3. UNCHANGED <<log, shell, base, lock, gapped, budget>> /\ db' = e /\ keyed' = keyed \ {t.grant}
    BY DEF Remove
  <1>4. task' = [task EXCEPT ![w] = k]
    BY <1>1, <1>2 DEF Remove, Goto, Resume, Run
  <1>5. e \in Tables /\ e.row = db.row /\ e.cmds = db.cmds /\ e.offset = db.offset
    BY <1>2, Zenon DEF Tables
  <1> HIDE DEF e
  <1>8. /\ k \in Run /\ Handler(k, log) /\ k.grant = t.grant /\ k.found = 0 /\ k.stale = {}
        /\ k.pc # "remove" /\ k.reach = t.reach
        /\ \A n \in Nat : Pending(t, "commands", n) => Pending(k, "commands", n)
    <2>1. CASE t.outer # << >>
      <3>1. k = Resume(t)
        BY <1>1, <2>1
      <3>2. /\ k \in Run /\ k.pc = "look" /\ k.found = t.found /\ k.grant = t.grant /\ k.got = t.got /\ k.reach = t.reach
            /\ k.stale = t.stale /\ k.adopt = t.adopt /\ k.reach = t.reach
            /\ \E i \in DOMAIN t.outer : t.outer[i] = k.todo
            /\ \A i \in DOMAIN t.outer : t.outer[i] = k.todo \/ \E j \in DOMAIN k.outer : t.outer[i] = k.outer[j]
            /\ \A j \in DOMAIN k.outer : \E i \in DOMAIN t.outer : k.outer[j] = t.outer[i]
        BY <1>2, <2>1, <3>1, ResumeIs
      <3>3. Handler(k, log)
        BY <1>2, <3>2 DEF Handler, Away
      <3>4. \A n \in Nat : Pending(t, "commands", n) => Pending(k, "commands", n)
        BY <1>2, <3>2 DEF Pending
      <3>5. k.found = 0 /\ k.stale = {} /\ k.pc # "remove" /\ k.grant = t.grant /\ k \in Run /\ k.reach = t.reach
        BY <1>2, <3>2
      <3> QED  BY <3>3, <3>4, <3>5
    <2>2. CASE t.outer = << >>
      <3>1. k = stop
        BY <1>1, <2>2
      <3>2. /\ k \in Run /\ k.pc = "next" /\ k.found = t.found /\ k.grant = t.grant /\ k.got = t.got /\ k.reach = t.reach
            /\ k.stale = t.stale /\ k.adopt = t.adopt /\ k.todo = t.todo /\ k.outer = t.outer
            /\ k.reach = t.reach
        BY <1>2, <3>1 DEF Run
      <3> QED  BY <1>2, <2>2, <3>2 DEF Handler, Away, Pending
    <2> QED  BY <2>1, <2>2
  <1>10. Kept(base, e) /\ \A g, n : Imported(db, g, n) => Imported(e, g, n)
    BY <1>5, Parts DEF Kept, Imported
  <1>9. Finds(k, e) /\ (k.grant \notin gapped' => Marks(k, e))
    <2>1. ASSUME t.grant \notin gapped, NEW n \in 1..t.reach
          PROVE  Imported(e, t.grant, n) \/ Pending(k, "commands", n)
      <3>1. Imported(db, t.grant, n) \/ Pending(t, "commands", n)
        BY <1>2, <2>1, Parts DEF Marks, View
      <3>2. n \in Nat
        OBVIOUS
      <3> QED  BY <1>8, <1>10, <3>1, <3>2
    <2> QED  BY <1>3, <1>8, <2>1 DEF Finds, Marks
  <1>11. ASSUME NEW g \in Grants \ gapped', NEW n \in 1..db'.offset[g]["commands"].end
         PROVE  Imported(db', g, n) \/ (lock' = w /\ k.grant = g /\ Pending(k, "commands", n))
    <2>1. n \in Nat
      OBVIOUS
    <2>2. Imported(db, g, n) \/ (t.grant = g /\ Pending(t, "commands", n))
      BY <1>2, <1>3, <1>5, Passed
    <2> QED  BY <1>2, <1>3, <1>8, <1>10, <2>1, <2>2
  <1>12. lock' = w /\ keyed' \subseteq Grants /\ budget' \in Budget
    BY <1>2, <1>3, Parts, Runs
  <1> QED  BY <1>2, <1>3, <1>4, <1>5, <1>8, <1>9, <1>10, <1>11, <1>12, WriteKeeps, Zenon

(* A handler commits: the tables it saw are those everybody sees.          *)
LEMMA CommitKeeps ==
  ASSUME IInv, NEW w \in Threads, Commit(w)
  PROVE  IInv'
  <1>1. PICK due \in SUBSET {g \in Grants : View(w).status[g] = "active"} :
          IF task[w].job = "tick" /\ due # {}
          THEN Goto(w, [Idle EXCEPT !.job = "expire", !.pc = "next", !.queue = due])
          ELSE Goto(w, Idle)
    BY DEF Commit
  <1> DEFINE x == Queued("expire", due)
  <1>2. PICK k : /\ k \in {x, Idle} /\ task' = [task EXCEPT ![w] = k]
    BY <1>1 DEF Goto, Queued
  <1>3. /\ k \in Run /\ Handler(k, log) /\ k.pc # "remove" /\ \A d : Marks(k, d) /\ Finds(k, d)
    <2>1. due \in SUBSET Grants
      OBVIOUS
    <2>2. /\ x \in Run /\ Handler(x, log) /\ x.pc # "remove" /\ \A d : Marks(x, d) /\ Finds(x, d)
      BY <2>1, QueuedIs
    <2>3. Idle.pc # "remove"
      BY DEF Idle
    <2> HIDE DEF x
    <2> QED  BY <1>2, <2>2, <2>3, IdleIsHandler
  <1> HIDE DEF x
  <1>4. /\ UNCHANGED <<host, db, gapped, budget>> /\ base' = View(w) /\ task[w].pc = "next"
        /\ lock' = IF lock = w THEN None ELSE lock
    BY DEF Commit
  <1>5. /\ log' = log /\ shell' = shell /\ keyed' = keyed /\ db' = db /\ gapped' = gapped /\ budget' = budget
    BY <1>4 DEF host
  <1>6. /\ TypeOK /\ task' \in [Threads -> Run] /\ task'[w] = k
        /\ \A v \in Threads : v # w => task'[v] = task[v]
    BY <1>2, <1>3, Parts, Runs
  <1>7. base' \in Tables /\ Kept(base, base') /\ (lock' = None => db' = base') /\ lock' \in {lock, None}
    BY <1>4, <1>5, Parts DEF TypeOK, View
  <1>8. TypeOK'
    BY <1>5, <1>6, <1>7 DEF TypeOK, Run
  <1>9. \A v \in Threads :
          /\ Handler(task[v], log)' /\ Finds(task[v], View(v))'
          /\ task'[v].grant \notin gapped' => Marks(task[v], View(v))'
          /\ task'[v].pc = "remove" => lock' = v
    <2> SUFFICES ASSUME NEW v \in Threads
        PROVE /\ Handler(task[v], log)' /\ Finds(task[v], View(v))'
              /\ task'[v].grant \notin gapped' => Marks(task[v], View(v))'
              /\ task'[v].pc = "remove" => lock' = v
      OBVIOUS
    <2>1. CASE v = w
      BY <1>3, <1>5, <1>6, <2>1
    <2>2. CASE v # w
      <3>1. lock \notin {None, w} => lock' = lock /\ db' = db
        BY <1>4, <1>5
      <3> QED  BY <1>5, <1>6, <1>7, <2>2, <3>1, OthersKeep
    <2> QED  BY <2>1, <2>2
  <1>10. /\ Handler(task[w], log) /\ Away(task[w])
    BY <1>4, Parts DEF Away
  <1>11. ASSUME NEW g \in Grants \ gapped, NEW n \in 1..base'.offset[g]["commands"].end
         PROVE  Imported(base', g, n)
    <2>1. CASE lock = w
      <3>1. base' = db
        BY <1>4, <2>1 DEF View
      <3>2. Imported(db, g, n) \/ Pending(task[w], "commands", n)
        BY <2>1, <3>1, Passed
      <3> QED  BY <1>10, <3>1, <3>2, AwayIsQuiet
    <2>2. CASE lock # w
      <3>1. base' = base
        BY <1>4, <2>2 DEF View
      <3> QED  BY <3>1, Parts DEF NothingSkipped
    <2> QED  BY <2>1, <2>2
  <1>12. NothingSkipped'
    BY <1>5, <1>11 DEF NothingSkipped
  <1>13. Files' /\ CutIsImported'
    BY <1>5, <1>7, Parts, KeptImported DEF Files, CutIsImported
  <1>14. Kept(base, db)'
    BY <1>4, <1>5, Parts, KeptItself DEF View
  <1>15. PassedIsImported'
    <2> SUFFICES ASSUME NEW g \in Grants \ gapped, NEW n \in 1..db.offset[g]["commands"].end
                 PROVE  Imported(db, g, n) \/ Held(g, "commands", n)'
      BY <1>5 DEF PassedIsImported
    <2>1. Imported(db, g, n) \/ Held(g, "commands", n)
      BY Parts DEF PassedIsImported
    <2>2. CASE Held(g, "commands", n)
      <3>1. PICK v \in Threads : lock = v /\ task[v].grant = g /\ Pending(task[v], "commands", n)
        BY <2>2 DEF Held
      <3>2. v # w
        BY <1>10, <3>1, AwayIsQuiet
      <3>3. lock' = v /\ task'[v].grant = g /\ Pending(task'[v], "commands", n)
        BY <1>4, <1>6, <3>1, <3>2
      <3> QED  BY <3>3 DEF Held
    <2> QED  BY <2>1, <2>2
  <1> QED  BY <1>8, <1>9, <1>12, <1>13, <1>14, <1>15 DEF IInv

LEMMA CrashKeeps ==
  ASSUME IInv, Crash
  PROVE  IInv'
  <1>1. /\ UNCHANGED <<host, base, gapped>> /\ db' = base /\ lock' = None
        /\ task' = [t \in Threads |-> Idle]
        /\ budget.faults > 0 /\ budget' = [budget EXCEPT !.faults = @ - 1]
    BY DEF Crash
  <1>2. TypeOK /\ Files /\ CutIsImported /\ NothingSkipped
    BY DEF IInv
  <1>3. budget' \in Budget
    BY <1>1, <1>2, Runs, Spent, Zenon
  <1>4. task' \in [Threads -> Run]
    BY <1>1, IdleIsHandler
  <1>5. TypeOK'
    BY <1>1, <1>2, <1>3, <1>4, Zenon DEF TypeOK, Run, Budget, host
  <1>6. \A v \in Threads : task'[v] = Idle
    BY <1>1
  <1>7. Idle.pc # "remove"
    BY DEF Idle
  <1>8. (Files /\ CutIsImported /\ NothingSkipped)'
    BY <1>1, <1>2 DEF Files, CutIsImported, NothingSkipped, host
  <1>9. Kept(base, db)'
    BY <1>1, KeptItself
  <1>10. PassedIsImported'
    BY <1>1, <1>2 DEF PassedIsImported, NothingSkipped
  <1> QED  BY <1>5, <1>6, <1>7, <1>8, <1>9, <1>10, IdleIsHandler DEF IInv
-----------------------------------------------------------------------------
(* The host: files only grow, or are cut further.                          *)
LEMMA OlderIsOrder ==
  ASSUME NEW f \in File, NEW e \in File, NEW h \in File, Older(f, e), Older(e, h)
  PROVE  Older(f, h)
  <1>1. f.cut \in Nat /\ e.cut \in Nat /\ h.cut \in Nat
        /\ Len(f.line) \in Nat /\ Len(e.line) \in Nat /\ Len(h.line) \in Nat
    BY DEF File
  <1> QED  BY <1>1 DEF Older

LEMMA OlderIsWritten ==
  ASSUME NEW f \in [Paths -> File], NEW h \in [Paths -> File], \A p \in Paths : Older(f[p], h[p]),
         NEW S \in SUBSET (Paths \X Nat), Written(S, f)
  PROVE  Written(S, h)
  <1> SUFFICES ASSUME NEW x \in S PROVE x[2] \in 1..Len(h[x[1]].line)
    BY DEF Written
  <1>1. x[1] \in Paths /\ x[2] \in Nat /\ x[2] \in 1..Len(f[x[1]].line)
    BY DEF Written
  <1>2. f[x[1]] \in File /\ h[x[1]] \in File /\ Older(f[x[1]], h[x[1]])
    BY <1>1
  <1>3. Len(f[x[1]].line) \in Nat /\ Len(h[x[1]].line) \in Nat /\ Len(f[x[1]].line) <= Len(h[x[1]].line)
    BY <1>2 DEF File, Older
  <1> QED  BY <1>1, <1>3

LEMMA HostKeeps ==
  ASSUME IInv, UNCHANGED <<db, base, lock, task>>,
         \A a \in Accounts, p \in Paths : Older(log[a][p], log'[a][p]),
         log' \in [Accounts -> [Paths -> File]], shell' \in [Shells -> {"idle", "open", "ended"}],
         keyed' = keyed, gapped \subseteq gapped', gapped' \subseteq Grants, budget' \in Budget,
         Files', CutIsImported'
  PROVE  IInv'
  <1>1. TypeOK
    BY DEF IInv
  <1>2. TypeOK'
    BY <1>1 DEF TypeOK, Budget
  <1>3. ASSUME NEW v \in Threads
        PROVE  /\ Handler(task[v], log)' /\ Finds(task[v], View(v))'
               /\ task'[v].grant \notin gapped' => Marks(task[v], View(v))'
               /\ task'[v].pc = "remove" => lock' = v
    <2>1. Handler(task[v], log) /\ task[v] \in Run
      BY Parts
    <2>2. View(v)' = View(v) /\ task'[v] = task[v]
      BY DEF View
    <2>3. Handler(task[v], log')
      <3>1. CASE Away(task[v])
        BY <2>1, <3>1 DEF Handler
      <3>2. CASE ~Away(task[v])
        <4>1. Account[task[v].grant] \in Accounts
          BY <2>1, <3>2, LogAssumption DEF Handler
        <4> DEFINE f == log[Account[task[v].grant]]
                   h == log'[Account[task[v].grant]]
        <4>2. f \in [Paths -> File] /\ h \in [Paths -> File] /\ \A p \in Paths : Older(f[p], h[p])
          BY <1>1, <4>1 DEF TypeOK
        <4>3. /\ \A p \in Paths : Older(task[v].got[p], f[p])
              /\ Written(task[v].todo, f)
              /\ \A i \in DOMAIN task[v].outer : Written(task[v].outer[i], f)
          BY <2>1, <3>2 DEF Handler
        <4>4. /\ task[v].got \in [Paths -> File] /\ task[v].todo \in SUBSET (Paths \X Nat)
              /\ \A i \in DOMAIN task[v].outer : task[v].outer[i] \in SUBSET (Paths \X Nat)
          BY <2>1 DEF Run
        <4> HIDE DEF f, h
        <4>5. \A p \in Paths : Older(task[v].got[p], h[p])
          BY <4>2, <4>3, <4>4, OlderIsOrder
        <4>6. Written(task[v].todo, h)
          BY <4>2, <4>3, <4>4, OlderIsWritten
        <4>7. \A i \in DOMAIN task[v].outer : Written(task[v].outer[i], h)
          BY <4>2, <4>3, <4>4, OlderIsWritten
        <4> QED  BY <2>1, <4>5, <4>6, <4>7, Zenon DEF Handler, h
      <3> QED  BY <3>1, <3>2
    <2>4. /\ Finds(task[v], View(v)) /\ (task[v].grant \notin gapped => Marks(task[v], View(v)))
          /\ (task[v].pc = "remove" => lock = v)
      BY Parts
    <2> QED  BY <2>2, <2>3, <2>4
  <1>4. (Kept(base, db) /\ PassedIsImported /\ NothingSkipped)'
    BY DEF IInv, Kept, PassedIsImported, NothingSkipped, Held
  <1> QED  BY <1>2, <1>3, <1>4 DEF IInv

LEMMA LogIs ==
  ASSUME IInv, NEW s \in Shells, NEW p \in Paths,
         NEW k \in {"plain", "risky", "critical"} \cup Events, Log(s, p, k)
  PROVE  LET a == Home[s]
             old == log[a][p]
         IN /\ log' \in [Accounts -> [Paths -> File]] /\ a \in Accounts
            /\ \A b \in Accounts, q \in Paths :
                 log'[b][q] = IF b = a /\ q = p
                              THEN [line |-> Append(old.line, [shell |-> s, kind |-> k]), cut |-> old.cut]
                              ELSE log[b][q]
            /\ \A b \in Accounts, q \in Paths : Older(log[b][q], log'[b][q])
            /\ \A b \in Accounts, q \in Paths : log'[b][q].cut = log[b][q].cut
                                                /\ log'[b][q].cut <= Len(log'[b][q].line)
  <1> DEFINE a == Home[s]
             old == log[a][p]
             x == [shell |-> s, kind |-> k]
             new == [line |-> Append(old.line, x), cut |-> old.cut]
             f == [log[a] EXCEPT ![p] = new]
  <1>1. a \in Accounts /\ log \in [Accounts -> [Paths -> File]] /\ x \in Line
    BY Parts, LogAssumption DEF IInv, TypeOK, Line
  <1>2. old \in File
    BY <1>1
  <1>3. new \in File
    BY <1>1, <1>2 DEF File
  <1>4. log' = [log EXCEPT ![a] = f]
    <2>1. [old EXCEPT !.line = Append(old.line, x)] = new
      <3>1. \A o \in File : \A y : [o EXCEPT !.line = y] = [line |-> y, cut |-> o.cut]
        BY DEF File
      <3> QED  BY <1>2, <3>1, Zenon
    <2> QED  BY <2>1, Zenon DEF Log
  <1>5. Len(new.line) = Len(old.line) + 1 /\ Len(old.line) \in Nat /\ old.cut \in Nat /\ new.cut = old.cut
    BY <1>1, <1>2 DEF File
  <1> HIDE DEF new, x
  <1>6. f \in [Paths -> File] /\ \A q \in Paths : f[q] = IF q = p THEN new ELSE log[a][q]
    BY <1>1, <1>3
  <1> HIDE DEF f
  <1>7. /\ log' \in [Accounts -> [Paths -> File]]
        /\ \A b \in Accounts, q \in Paths : log'[b][q] = IF b = a /\ q = p THEN new ELSE log[b][q]
    BY <1>1, <1>4, <1>6
  <1>8. \A b \in Accounts, q \in Paths : log[b][q] \in File /\ log[b][q].cut <= Len(log[b][q].line)
    BY <1>1 DEF IInv, Files
  <1>9. \A b \in Accounts, q \in Paths :
          /\ Older(log[b][q], log'[b][q])
          /\ log'[b][q].cut = log[b][q].cut /\ log'[b][q].cut <= Len(log'[b][q].line)
    <2> SUFFICES ASSUME NEW b \in Accounts, NEW q \in Paths
                 PROVE  /\ Older(log[b][q], log'[b][q])
                        /\ log'[b][q].cut = log[b][q].cut /\ log'[b][q].cut <= Len(log'[b][q].line)
      OBVIOUS
    <2>1. log[b][q].cut \in Nat /\ Len(log[b][q].line) \in Nat /\ log[b][q].cut <= Len(log[b][q].line)
      BY <1>8 DEF File
    <2>2. CASE b = a /\ q = p
      <3>1. log'[b][q] = new /\ log[b][q] = old
        BY <1>7, <2>2
      <3> HIDE DEF old
      <3> QED  BY <1>5, <2>1, <3>1 DEF Older
    <2>3. CASE ~(b = a /\ q = p)
      BY <1>7, <2>1, <2>3 DEF Older
    <2> QED  BY <2>2, <2>3
  <1> QED  BY <1>1, <1>7, <1>9, Zenon DEF new, x

LEMMA Appended ==
  ASSUME NEW s \in Seq(Line), NEW x \in Line
  PROVE  /\ Len(Append(s, x)) = Len(s) + 1 /\ Len(s) \in Nat
         /\ \A n \in 1..Len(Append(s, x)) : Append(s, x)[n] = IF n = Len(s) + 1 THEN x ELSE s[n]
         /\ \A n \in 1..Len(Append(s, x)) : n = Len(s) + 1 \/ n \in 1..Len(s)
  <1>1. Len(Append(s, x)) = Len(s) + 1 /\ Len(s) \in Nat
    OBVIOUS
  <1>2. \A n \in 1..(Len(s) + 1) : n = Len(s) + 1 \/ n \in 1..Len(s)
    BY <1>1
  <1>3. \A n \in 1..Len(s) : Append(s, x)[n] = s[n]
    OBVIOUS
  <1>4. Append(s, x)[Len(s) + 1] = x
    OBVIOUS
  <1> QED  BY <1>1, <1>2, <1>3, <1>4

LEMMA ShellKeeps ==
  ASSUME IInv, NEW s \in Shells,
         ShellStart(s) \/ ShellExit(s) \/ \E k \in {"plain", "risky", "critical"} : ShellCommand(s, k)
  PROVE  IInv'
  <1>1. PICK p \in Paths, k \in {"plain", "risky", "critical"} \cup Events :
          /\ Log(s, p, k)
          /\ UNCHANGED <<keyed, db, base, lock, task, gapped, budget>>
          /\ shell' \in {shell, [shell EXCEPT ![s] = "open"], [shell EXCEPT ![s] = "ended"]}
          /\ p = "commands" => /\ Len(log[Home[s]]["commands"].line) < MaxLines
                               /\ k \notin Events
    BY DEF ShellStart, ShellExit, ShellCommand, Paths, Events
  <1>2. TypeOK /\ Files /\ CutIsImported
    BY DEF IInv
  <1> DEFINE a == Home[s]
             old == log[a][p]
             x == [shell |-> s, kind |-> k]
             new == [line |-> Append(old.line, x), cut |-> old.cut]
  <1>3. /\ log' \in [Accounts -> [Paths -> File]] /\ a \in Accounts
        /\ \A b \in Accounts, q \in Paths : log'[b][q] = IF b = a /\ q = p THEN new ELSE log[b][q]
        /\ \A b \in Accounts, q \in Paths : Older(log[b][q], log'[b][q])
        /\ \A b \in Accounts, q \in Paths : log'[b][q].cut = log[b][q].cut
                                            /\ log'[b][q].cut <= Len(log'[b][q].line)
    BY <1>1, LogIs, Zenon
  <1>4. shell' \in [Shells -> {"idle", "open", "ended"}]
    BY <1>1, <1>2, Zenon DEF TypeOK
  <1>5. "commands" \in Paths
    BY DEF Paths
  <1>6. old \in File /\ x \in Line
    BY <1>2, <1>3 DEF TypeOK, Line
  <1>7. /\ Len(new.line) = Len(old.line) + 1 /\ Len(old.line) \in Nat /\ MaxLines \in Nat
        /\ \A n \in 1..Len(new.line) : new.line[n] = IF n = Len(old.line) + 1 THEN x ELSE old.line[n]
        /\ \A n \in 1..Len(new.line) : n = Len(old.line) + 1 \/ n \in 1..Len(old.line)
    <2>1. old.line \in Seq(Line)
      BY <1>6 DEF File
    <2>2. new.line = Append(old.line, x)
      OBVIOUS
    <2>3. MaxLines \in Nat
      BY LogAssumption
    <2> QED  BY <1>6, <2>1, <2>2, <2>3, Appended, SMTT(40)
  <1>8. x.kind = k
    OBVIOUS
  <1> HIDE DEF new, x, old
  <1>9. Files'
    <2> SUFFICES ASSUME NEW b \in Accounts
                 PROVE  /\ Len(log'[b]["commands"].line) <= MaxLines
                        /\ \A n \in 1..Len(log'[b]["commands"].line) :
                             log'[b]["commands"].line[n].kind \notin Events
      BY <1>3 DEF Files
    <2>1. CASE b = a /\ p = "commands"
      <3>1. log'[b]["commands"] = new /\ old = log[b]["commands"]
        BY <1>3, <1>5, <2>1 DEF old
      <3>2. Len(new.line) <= MaxLines
        BY <1>1, <1>7, <2>1, <3>1
      <3>3. \A n \in 1..Len(new.line) : new.line[n].kind \notin Events
        BY <1>1, <1>2, <1>7, <1>8, <2>1, <3>1 DEF Files
      <3> QED  BY <3>1, <3>2, <3>3
    <2>2. CASE ~(b = a /\ p = "commands")
      <3>1. log'[b]["commands"] = log[b]["commands"]
        BY <1>3, <1>5, <2>2
      <3> QED  BY <1>2, <3>1 DEF Files
    <2> QED  BY <2>1, <2>2
  <1>10. CutIsImported'
    <2>1. \A g \in Grants : log'[Account[g]]["commands"].cut = log[Account[g]]["commands"].cut
      BY <1>3, <1>5, LogAssumption
    <2> QED  BY <1>1, <1>2, <2>1 DEF CutIsImported
  <1>11. budget' \in Budget /\ gapped' \subseteq Grants /\ gapped \subseteq gapped'
    BY <1>1, <1>2, Runs DEF TypeOK
  <1> QED  BY <1>1, <1>3, <1>4, <1>9, <1>10, <1>11, HostKeeps

LEMMA RotateKeeps ==
  ASSUME IInv, NEW a \in Accounts, Rotate(a)
  PROVE  IInv'
  <1> DEFINE old == log[a]["commands"]
             end == Len(old.line)
             new == [old EXCEPT !.cut = end]
             f == [log[a] EXCEPT !["commands"] = new]
  <1>1. /\ TypeOK /\ Files /\ CutIsImported /\ NothingSkipped /\ "commands" \in Paths
        /\ log \in [Accounts -> [Paths -> File]]
    BY DEF IInv, Paths, TypeOK
  <1>2. /\ UNCHANGED <<shell, keyed, db, base, lock, task>>
        /\ log' = [log EXCEPT ![a] = f]
        /\ gapped' = gapped \cup {g \in Grants : Account[g] = a /\ base.offset[g]["commands"].end < end}
        /\ budget.faults > 0 /\ budget' = [budget EXCEPT !.faults = @ - 1]
    BY DEF Rotate
  <1>3. old \in File /\ old.cut \in Nat /\ end \in Nat /\ old.cut <= end
    BY <1>1 DEF File, Files
  <1>4. new \in File /\ new.cut = end /\ new.line = old.line
    BY <1>3 DEF File
  <1> HIDE DEF new
  <1>5. f \in [Paths -> File] /\ \A q \in Paths : f[q] = IF q = "commands" THEN new ELSE log[a][q]
    BY <1>1, <1>4
  <1> HIDE DEF f
  <1>6. /\ log' \in [Accounts -> [Paths -> File]]
        /\ \A b \in Accounts, q \in Paths :
             log'[b][q] = IF b = a /\ q = "commands" THEN new ELSE log[b][q]
    BY <1>1, <1>2, <1>5
  <1>7. \A b \in Accounts, q \in Paths :
          /\ Older(log[b][q], log'[b][q])
          /\ log'[b][q].line = log[b][q].line /\ log'[b][q].cut <= Len(log'[b][q].line)
    <2> SUFFICES ASSUME NEW b \in Accounts, NEW q \in Paths
                 PROVE  /\ Older(log[b][q], log'[b][q])
                        /\ log'[b][q].line = log[b][q].line /\ log'[b][q].cut <= Len(log'[b][q].line)
      OBVIOUS
    <2>1. log[b][q].cut \in Nat /\ Len(log[b][q].line) \in Nat /\ log[b][q].cut <= Len(log[b][q].line)
      BY <1>1 DEF File, Files
    <2>2. CASE b = a /\ q = "commands"
      BY <1>3, <1>4, <1>6, <2>1, <2>2 DEF Older
    <2>3. CASE ~(b = a /\ q = "commands")
      BY <1>6, <2>1, <2>3 DEF Older
    <2> QED  BY <2>2, <2>3
  <1>8. Files'
    BY <1>1, <1>7 DEF Files
  <1>9. budget' \in Budget /\ gapped' \subseteq Grants /\ gapped \subseteq gapped' /\ shell' = shell
    BY <1>1, <1>2, Runs, Spent, Zenon DEF TypeOK
  <1>10. CutIsImported'
    <2> SUFFICES ASSUME NEW g \in Grants \ gapped', NEW n \in 1..log'[Account[g]]["commands"].cut
                 PROVE  Imported(base, g, n)
      BY <1>2 DEF CutIsImported
    <2>1. g \in Grants \ gapped /\ Account[g] \in Accounts
      BY <1>2, LogAssumption
    <2>2. CASE Account[g] = a
      <3>1. ~(base.offset[g]["commands"].end < end) /\ base.offset[g]["commands"].end \in Nat
        BY <1>1, <1>2, <2>1, <2>2 DEF TypeOK, Tables, Offset
      <3>2. n \in 1..end
        BY <1>1, <1>4, <1>6, <2>1, <2>2
      <3>3. n \in 1..base.offset[g]["commands"].end
        BY <1>3, <3>1, <3>2
      <3> QED  BY <1>1, <2>1, <3>3 DEF NothingSkipped
    <2>3. CASE Account[g] # a
      BY <1>1, <1>6, <2>1, <2>3 DEF CutIsImported
    <2> QED  BY <2>2, <2>3
  <1> QED  BY <1>1, <1>2, <1>6, <1>7, <1>8, <1>9, <1>10, HostKeeps DEF TypeOK

(* Nobody holds the lock, and tables that kept everything are committed.   *)
LEMMA OthersSee ==
  ASSUME IInv, NEW v \in Threads, lock = None, NEW e, e = base', Kept(base, e),
         UNCHANGED <<log, lock, task, gapped>>
  PROVE  /\ Handler(task[v], log)' /\ Finds(task[v], View(v))'
         /\ task'[v].grant \notin gapped' => Marks(task[v], View(v))'
         /\ task'[v].pc = "remove" => lock' = v
  <1>1. View(v) = base /\ View(v)' = e /\ task'[v] = task[v] /\ lock' = lock /\ gapped' = gapped
    BY Parts DEF View
  <1>2. /\ Handler(task[v], log) /\ Finds(task[v], base) /\ task[v] \in Run
        /\ (task[v].grant \notin gapped => Marks(task[v], base))
        /\ task[v].pc = "remove" => lock = v
    BY <1>1, Parts
  <1>3. /\ Finds(task[v], e) /\ (task[v].grant \notin gapped => Marks(task[v], e))
    <2>1. CASE Away(task[v])
      BY <1>2, <2>1, AwayIsQuiet
    <2>2. CASE ~Away(task[v])
      <3>1. task[v].grant \in Grants
        BY <1>2, <2>2 DEF Handler
      <3> QED  BY <1>2, <3>1, KeptFinds, KeptMarks
    <2> QED  BY <2>1, <2>2
  <1> QED  BY <1>1, <1>2, <1>3

(* The row that a web session of the grant ends.                           *)
LEMMA EndedRow ==
  ASSUME TypeOK, NEW g \in Grants, LaunchEnds(g), NEW e, e = base'
  PROVE  LET web == FirstRow(base, g) IN
         /\ e \in Tables /\ e.cmds = base.cmds /\ e.offset = base.offset
         /\ e.status = base.status /\ e.known = base.known
         /\ \A r \in Rows :
              /\ e.row[r].grant = base.row[r].grant /\ e.row[r].shell = base.row[r].shell
              /\ r # web => e.row[r] = base.row[r]
              /\ base.row[r].status = "closed" => e.row[r] = base.row[r]
         /\ web \in Rows /\ base.row[web].grant = g
  <1> DEFINE web == FirstRow(base, g)
             x == [base.row[web] EXCEPT !.status = "closed"]
  <1>1. /\ web \in Rows /\ base.row[web].grant = g /\ base \in Tables
        /\ base.row[web].status = "active"
    BY FirstRowIs DEF LaunchEnds, TypeOK
  <1>2. e = [base EXCEPT !.row[web] = x]
    BY DEF LaunchEnds
  <1> HIDE DEF web
  <1>3. base.row[web] \in Row
    BY <1>1 DEF Tables
  <1>4. x \in Row /\ x.grant = base.row[web].grant /\ x.shell = base.row[web].shell
    BY <1>3 DEF Row
  <1> HIDE DEF x
  <1>5. /\ e \in Tables /\ e.cmds = base.cmds /\ e.offset = base.offset
        /\ e.status = base.status /\ e.known = base.known
        /\ \A r \in Rows : e.row[r] = IF r = web THEN x ELSE base.row[r]
    <2>1. PICK y : y = [base.row EXCEPT ![web] = x]
      OBVIOUS
    <2>2. y \in [Rows -> Row] /\ \A r \in Rows : y[r] = IF r = web THEN x ELSE base.row[r]
      BY <1>1, <1>4, <2>1 DEF Tables
    <2>3. e = [base EXCEPT !.row = y]
      BY <1>2, <2>1
    <2>4. e \in Tables /\ e.row = y /\ e.cmds = base.cmds /\ e.offset = base.offset
          /\ e.status = base.status /\ e.known = base.known
      BY <1>1, <2>2, <2>3 DEF Tables
    <2> QED  BY <2>2, <2>4
  <1>6. "active" # "closed"
    OBVIOUS
  <1> QED  BY <1>1, <1>4, <1>5, <1>6 DEF web

LEMMA OpenKeeps ==
  ASSUME IInv, NEW g \in Grants, Open(g)
  PROVE  IInv'
  <1> DEFINE d == [base EXCEPT !.status[g] = "active"]
             x == [grant |-> g, shell |-> None, status |-> "active"]
  <1>1. /\ TypeOK /\ base \in Tables /\ lock = None /\ db = base /\ None \notin Threads
    BY LogAssumption DEF IInv, TypeOK, Open, Threads
  <1>2. /\ UNCHANGED <<log, shell, lock, task, gapped, budget>>
        /\ keyed' = keyed \cup {g} /\ db' = base'
    BY DEF Open
  <1>3. d \in Tables /\ d.row = base.row /\ d.cmds = base.cmds /\ d.offset = base.offset
    BY <1>1, Zenon DEF Tables
  <1>4. \/ base' = d
        \/ HasRoom(base) /\ base' = [d EXCEPT !.row[NewRow(base)] = x]
    BY DEF Open
  <1> HIDE DEF d
  <1>5. /\ base' \in Tables /\ base'.cmds = base.cmds /\ base'.offset = base.offset
        /\ \A r \in Rows : base.row[r].grant # None => base'.row[r] = base.row[r]
    <2>1. CASE base' = d
      BY <1>3, <2>1
    <2>2. CASE HasRoom(base) /\ base' = [d EXCEPT !.row[NewRow(base)] = x]
      <3>1. NewRow(base) \in Rows /\ base.row[NewRow(base)].grant = None
        BY <2>2, NewRowIs DEF FreeRow
      <3>2. x \in Row
        BY DEF Row
      <3>3. base' = Put(d, NewRow(base), x, d.cmds)
        BY <1>3, <2>2, Zenon DEF Put, Tables
      <3>4. d.cmds \in SUBSET (Rows \X Numbers)
        BY <1>3 DEF Tables
      <3>5. base' \in Tables /\ base'.cmds = d.cmds /\ base'.offset = d.offset
            /\ \A q \in Rows : base'.row[q] = IF q = NewRow(base) THEN x ELSE d.row[q]
        <4> HIDE DEF x
        <4>1. PICK e : e = base'
          OBVIOUS
        <4>2. e = Put(d, NewRow(base), x, d.cmds)
          BY <3>3, <4>1
        <4> QED  BY <1>3, <3>1, <3>2, <3>4, <4>1, <4>2, PutRow
      <3> QED  BY <1>3, <3>1, <3>5
    <2> QED  BY <1>4, <2>1, <2>2
  <1>6. Kept(base, base')
    BY <1>5 DEF Kept
  <1>7. TypeOK'
    <2>1. keyed' \subseteq Grants
      BY <1>1, <1>2 DEF TypeOK
    <2> QED  BY <1>1, <1>2, <1>5, <2>1 DEF TypeOK
  <1>8. ASSUME NEW v \in Threads
        PROVE  /\ Handler(task[v], log)' /\ Finds(task[v], View(v))'
               /\ task'[v].grant \notin gapped' => Marks(task[v], View(v))'
               /\ task'[v].pc = "remove" => lock' = v
    <2>1. PICK e : e = base'
      OBVIOUS
    <2> QED  BY <1>1, <1>2, <1>6, <2>1, OthersSee
  <1>9. ASSUME NEW h \in Grants, NEW n, Imported(base, h, n)
        PROVE  Imported(base', h, n)
    <2>1. PICK e : e = base'
      OBVIOUS
    <2> QED  BY <1>6, <1>9, <2>1, KeptImported
  <1>10. Files' /\ CutIsImported' /\ NothingSkipped'
    BY <1>2, <1>5, <1>9 DEF IInv, Files, CutIsImported, NothingSkipped
  <1>11. PassedIsImported'
    BY <1>2, <1>5, <1>9, <1>10 DEF PassedIsImported, NothingSkipped
  <1>12. Kept(base, db)'
    BY <1>2, KeptItself
  <1> QED  BY <1>7, <1>8, <1>10, <1>11, <1>12 DEF IInv

LEMMA LaunchEndsKeeps ==
  ASSUME IInv, NEW g \in Grants, LaunchEnds(g)
  PROVE  IInv'
  <1>1. PICK e : e = base'
    OBVIOUS
  <1>2. /\ TypeOK /\ lock = None /\ db = base /\ None \notin Threads
        /\ UNCHANGED <<log, shell, keyed, lock, task, gapped, budget>> /\ db' = base'
    BY LogAssumption DEF IInv, TypeOK, LaunchEnds, Threads, host
  <1>3. /\ e \in Tables /\ e.cmds = base.cmds /\ e.offset = base.offset
        /\ \A r \in Rows : e.row[r].grant = base.row[r].grant
    BY <1>1, <1>2, EndedRow
  <1>4. Kept(base, e)
    BY <1>3 DEF Kept
  <1>5. TypeOK'
    BY <1>1, <1>2, <1>3 DEF TypeOK
  <1>6. ASSUME NEW v \in Threads
        PROVE  /\ Handler(task[v], log)' /\ Finds(task[v], View(v))'
               /\ task'[v].grant \notin gapped' => Marks(task[v], View(v))'
               /\ task'[v].pc = "remove" => lock' = v
    BY <1>1, <1>2, <1>4, OthersSee
  <1>7. ASSUME NEW h \in Grants, NEW n, Imported(base, h, n)
        PROVE  Imported(e, h, n)
    BY <1>4, <1>7, KeptImported
  <1>8. Files' /\ CutIsImported' /\ NothingSkipped'
    BY <1>1, <1>2, <1>3, <1>7 DEF IInv, Files, CutIsImported, NothingSkipped
  <1>9. PassedIsImported'
    BY <1>2, <1>8 DEF PassedIsImported, NothingSkipped
  <1>10. Kept(base, db)'
    BY <1>2, KeptItself
  <1> QED  BY <1>5, <1>6, <1>8, <1>9, <1>10 DEF IInv
-----------------------------------------------------------------------------
LEMMA InitHolds ==
  ASSUME Init
  PROVE  IInv
  <1>1. << >> \in Seq(Line) /\ EmptyFile \in File /\ NoOffset \in Offset /\ FreeRow \in Row
    BY DEF EmptyFile, File, NoOffset, Offset, FreeRow, Row
  <1>2. /\ db \in Tables /\ db.row = [r \in Rows |-> FreeRow] /\ db.cmds = {}
        /\ \A g \in Grants : db.offset[g]["commands"] = NoOffset
    BY <1>1 DEF Init, Tables, Paths
  <1>3. log \in [Accounts -> [Paths -> File]] /\ \A a \in Accounts, p \in Paths : log[a][p] = EmptyFile
    BY <1>1 DEF Init
  <1>4. task \in [Threads -> Run] /\ \A w \in Threads : task[w] = Idle
    BY IdleIsHandler DEF Init
  <1>5. budget \in Budget
    BY LogAssumption DEF Init, Budget
  <1>6. TypeOK
    BY <1>2, <1>3, <1>4, <1>5 DEF Init, TypeOK, Run, Budget
  <1>7. Len(EmptyFile.line) = 0 /\ EmptyFile.cut = 0 /\ NoOffset.end = 0
    BY DEF EmptyFile, NoOffset
  <1>8. "commands" \in Paths /\ MaxLines \in Nat /\ \A g \in Grants : Account[g] \in Accounts
    BY LogAssumption DEF Paths
  <1>9. Files
    BY <1>3, <1>7, <1>8 DEF Files
  <1>10. CutIsImported
    BY <1>3, <1>7, <1>8 DEF CutIsImported
  <1>11. NothingSkipped /\ PassedIsImported
    <2>1. base = db
      BY DEF Init
    <2> QED  BY <1>2, <1>7, <2>1 DEF NothingSkipped, PassedIsImported
  <1>12. Kept(base, db) /\ Idle.pc # "remove"
    BY KeptItself DEF Init, Idle
  <1> QED  BY <1>4, <1>6, <1>9, <1>10, <1>11, <1>12, IdleIsHandler DEF IInv

LEMMA StutterKeeps ==
  ASSUME IInv, UNCHANGED vars
  PROVE  IInv'
  <1>1. Files' /\ CutIsImported'
    BY DEF IInv, Files, CutIsImported, vars
  <1>2. TypeOK /\ budget \in Budget
    BY Runs DEF IInv
  <1>3. \A a \in Accounts, p \in Paths : Older(log[a][p], log'[a][p])
    <2> SUFFICES ASSUME NEW a \in Accounts, NEW p \in Paths PROVE Older(log[a][p], log[a][p])
      BY DEF vars
    <2>1. log[a][p] \in File /\ log[a][p].cut <= Len(log[a][p].line)
      BY <1>2 DEF IInv, Files, TypeOK
    <2> QED  BY <2>1 DEF Older, File
  <1> QED  BY <1>1, <1>2, <1>3, HostKeeps DEF TypeOK, vars

-----------------------------------------------------------------------------
(* Closed sessions.  An import that passes the end of a shell must know    *)
(* the row that shell's start made, although other imports make rows too,  *)
(* and the row of a web session gets its marker from whichever import      *)
(* comes first.  So the rows of a grant are followed as well: they fill up *)
(* in order, and at most one, the first, has no marker yet.                *)
Marked(d, g) == \A r \in Rows : d.row[r].grant = g => d.row[r].shell # None
Begun(l, g) == Len(l[Account[g]]["sessions"].line) > 0
First(l, g) == l[Account[g]]["sessions"].line[1].shell

(* The files of an account: the hook reports shells, and does so first.    *)
Reports(f) ==
  /\ f["sessions"].cut = 0
  /\ \A n \in 1..Len(f["sessions"].line) : f["sessions"].line[n].kind \in Events
  /\ Len(f["commands"].line) > 0 => Len(f["sessions"].line) > 0

InOrder(d) ==
  \A r \in Rows :
    /\ d.row[r].grant = None => d.row[r] = FreeRow /\ \A n \in Numbers : <<r, n>> \notin d.cmds
    /\ d.row[r].grant # None => \A q \in Rows : q < r => d.row[q].grant # None

(* The rows, commands and offset of a grant.                               *)
Tidy(d, l, g) ==
  /\ \A r \in Rows : d.row[r].grant = g =>
       /\ d.status[g] # "waiting"
       /\ d.row[r].shell = None =>
            g \in Launched /\ \A q \in Rows : d.row[q].grant = g => q = r
       /\ d.row[r].shell # None /\ r = FirstRow(d, g) /\ g \in Launched =>
            Begun(l, g) /\ d.row[r].shell = First(l, g)
       /\ \A n \in Numbers : <<r, n>> \in d.cmds => Marked(d, g)
  /\ g \in Launched /\ d.status[g] # "waiting" => \E r \in Rows : d.row[r].grant = g
  /\ d.offset[g]["sessions"].len = d.offset[g]["sessions"].end
  /\ d.offset[g]["sessions"].end > 0 => Marked(d, g) /\ d.status[g] # "waiting"

(* Tables d became e: rows of the grant keep marker and end, new ones come *)
(* after them and have a marker.                                           *)
Grown(d, e, g) ==
  /\ d.status[g] # "waiting" => e.status[g] # "waiting"
  /\ \A r \in Rows : d.row[r].grant = g =>
       /\ e.row[r].grant = g
       /\ d.row[r].shell # None => e.row[r].shell = d.row[r].shell
       /\ d.row[r].status = "closed" => e.row[r].status = "closed"
  /\ \A r \in Rows : e.row[r].grant = g =>
       /\ e.row[r].shell = None => d.row[r].grant = g /\ d.row[r].shell = None
       /\ d.row[r].grant = g \/ \A q \in Rows : d.row[q].grant = g => q < r

(* Line n of the events was passed rightly: if a shell ended, so did its   *)
(* row.                                                                    *)
Ended(d, l, g, n) ==
  LET f == l[Account[g]]["sessions"] IN
  /\ n <= Len(f.line)
  /\ f.line[n].kind = "finished" =>
       \E r \in Rows : d.row[r] = [grant |-> g, shell |-> f.line[n].shell, status |-> "closed"]

(* No row is without a marker, or the import is about to give it one.      *)
Ready(t, d) ==
  t.pc \in {"look", "write", "finish"} =>
    \/ Marked(d, t.grant) \/ t.adopt # None
    \/ t.pc = "look" /\ <<"sessions", 1>> \in t.todo
    \/ t.pc # "write" /\ t.todo = {} /\ t.mark["sessions"].end = 0

(* A handler, against the tables d it sees and the files l.                *)
Knows(t, d, l) ==
  /\ \A g \in t.queue : d.status[g] # "waiting"
  /\ t.adopt # None => /\ t.grant \in Launched /\ Begun(l, t.grant)
                       /\ t.adopt = First(l, t.grant)
  /\ t.mark["sessions"].len = t.mark["sessions"].end
  /\ ~Away(t) =>
       /\ d.status[t.grant] # "waiting"
       /\ t.outer # << >> => Marked(d, t.grant)
       /\ t.got["sessions"].cut = 0
       /\ t.pc \in {"offsets", "insert"} /\ Len(t.got["commands"].line) > 0 =>
            Len(t.got["sessions"].line) > 0
       /\ Ready(t, d)
       /\ t.pc \in {"look", "write", "finish"} /\ "sessions" \in t.stale =>
            \A n \in 1..t.mark["sessions"].end :
              Ended(d, l, t.grant, n) \/ Pending(t, "sessions", n)

(* The row that a handler found for the entry it is about to write.        *)
MarkerOf(t, d, r) ==
  IF t.adopt # None /\ r = FirstRow(d, t.grant) THEN t.adopt ELSE d.row[r].shell

Chosen(w) ==
  LET t == task[w]
      x == Entry(w)
  IN t.pc = "write" =>
       /\ t.found # 0 => MarkerOf(t, View(w), t.found) = x.line.shell
       /\ x.line.kind = "started" => t.found = 0
       /\ x.path = "commands" /\ lock = w => <<t.found, x.num>> \notin db.cmds

EndsPassed ==
  \A g \in Grants :
    /\ \A n \in 1..base.offset[g]["sessions"].end : Ended(base, log, g, n)
    /\ \A n \in 1..db.offset[g]["sessions"].end :
         Ended(db, log, g, n) \/ Held(g, "sessions", n)

Closing ==
  /\ \A a \in Accounts : Reports(log[a])
  /\ \A s \in Shells : shell[s] # "idle" => Len(log[Home[s]]["sessions"].line) > 0
  /\ InOrder(base) /\ InOrder(db)
  /\ \A g \in Grants : Tidy(base, log, g) /\ Tidy(db, log, g) /\ Grown(base, db, g)
  /\ EndsPassed
  /\ \A w \in Threads : Knows(task[w], View(w), log) /\ Chosen(w)
-----------------------------------------------------------------------------
LEMMA GrownItself == \A d, g : Grown(d, d, g)
  BY DEF Grown

LEMMA GrownOn ==
  ASSUME NEW d, NEW e, NEW f, NEW g, Grown(d, e, g), Grown(e, f, g)
  PROVE  Grown(d, f, g)
  BY DEF Grown

LEMMA GrownMarked ==
  ASSUME NEW d, NEW e, NEW g, Grown(d, e, g), Marked(d, g)
  PROVE  Marked(e, g)
  BY DEF Grown, Marked

LEMMA GrownFirst ==
  ASSUME NEW d, NEW e, NEW g, Grown(d, e, g), FirstRow(d, g) # 0
  PROVE  FirstRow(e, g) = FirstRow(d, g)
  <1> DEFINE f == FirstRow(d, g)
             h == FirstRow(e, g)
  <1>1. f \in Rows /\ d.row[f].grant = g /\ \A r \in Rows : d.row[r].grant = g => f <= r
    BY FirstRowIs
  <1>2. e.row[f].grant = g
    BY <1>1 DEF Grown
  <1>3. h \in Rows /\ e.row[h].grant = g /\ h <= f
    BY <1>1, <1>2, FirstRowIs
  <1> HIDE DEF f, h
  <1>4. d.row[h].grant = g \/ f < h
    BY <1>1, <1>3 DEF Grown
  <1>5. f <= h \/ f < h
    BY <1>1, <1>3, <1>4
  <1>6. f \in Nat /\ h \in Nat
    BY <1>1, <1>3, RowNumbers
  <1>7. f = h
    BY <1>3, <1>5, <1>6
  <1> QED  BY <1>7 DEF f, h

(* Lines of a file have a shell.                                           *)
LEMMA LineIs ==
  ASSUME NEW l \in [Accounts -> [Paths -> File]], NEW g \in Grants, NEW p \in Paths,
         NEW n \in Nat \ {0}, n <= Len(l[Account[g]][p].line)
  PROVE  l[Account[g]][p].line[n] \in Line /\ l[Account[g]][p].line[n].shell \in Shells
  <1>1. l[Account[g]][p] \in File
    BY LogAssumption
  <1>2. l[Account[g]][p].line[n] \in Line
    BY <1>1 DEF File
  <1> QED  BY <1>2 DEF Line

LEMMA SessionsIsPath == "sessions" \in Paths /\ "commands" \in Paths
  BY DEF Paths

LEMMA GrownEnded ==
  ASSUME NEW d, NEW e \in Tables, NEW g \in Grants, Grown(d, e, g),
         NEW l \in [Accounts -> [Paths -> File]], NEW n \in Nat \ {0}, Ended(d, l, g, n)
  PROVE  Ended(e, l, g, n)
  <1> DEFINE x == l[Account[g]]["sessions"].line[n]
  <1>1. n <= Len(l[Account[g]]["sessions"].line)
    BY DEF Ended
  <1>2. x.shell \in Shells
    BY <1>1, LineIs, SessionsIsPath
  <1>3. ASSUME x.kind = "finished"
        PROVE  \E r \in Rows : e.row[r] = [grant |-> g, shell |-> x.shell, status |-> "closed"]
    <2>1. PICK r \in Rows : d.row[r] = [grant |-> g, shell |-> x.shell, status |-> "closed"]
      BY <1>3 DEF Ended
    <2> HIDE DEF x
    <2>2. d.row[r].grant = g /\ d.row[r].shell # None /\ d.row[r].shell = x.shell /\ d.row[r].status = "closed"
      BY <1>2, <2>1, LogAssumption
    <2>3. e.row[r].grant = g /\ e.row[r].shell = x.shell /\ e.row[r].status = "closed" /\ e.row[r] \in Row
      BY <2>2 DEF Grown, Tables
    <2> QED  BY <2>3 DEF Row
  <1> HIDE DEF x
  <1> QED  BY <1>1, <1>3 DEF Ended, x

LEMMA GrownKnows ==
  ASSUME NEW d, NEW e \in Tables, \A g \in Grants : d.status[g] # "waiting" => Grown(d, e, g),
         NEW l \in [Accounts -> [Paths -> File]], NEW t \in Run,
         ~Away(t) => t.grant \in Grants, Knows(t, d, l)
  PROVE  Knows(t, e, l)
  <1>1. \A g \in t.queue : e.status[g] # "waiting"
    <2>1. t.queue \subseteq Grants
      BY DEF Run
    <2> QED  BY <2>1 DEF Knows, Grown
  <1>2. CASE Away(t)
    BY <1>1, <1>2 DEF Knows
  <1>3. CASE ~Away(t)
    <2>1. t.grant \in Grants /\ Grown(d, e, t.grant)
      BY <1>3 DEF Knows
    <2>2. e.status[t.grant] # "waiting"
      BY <1>3, <2>1 DEF Knows, Grown
    <2>3. Marked(d, t.grant) => Marked(e, t.grant)
      BY <2>1, GrownMarked
    <2>4. Ready(t, e)
      BY <1>3, <2>3 DEF Knows, Ready
    <2>5. ASSUME t.pc \in {"look", "write", "finish"}, "sessions" \in t.stale,
                 NEW n \in 1..t.mark["sessions"].end
          PROVE  Ended(e, l, t.grant, n) \/ Pending(t, "sessions", n)
      <3>1. Ended(d, l, t.grant, n) \/ Pending(t, "sessions", n)
        BY <1>3, <2>5 DEF Knows
      <3>2. n \in Nat \ {0}
        <4>1. t.mark["sessions"].end \in Nat
          BY SessionsIsPath DEF Run, Offset
        <4> QED  BY <4>1
      <3> QED  BY <2>1, <3>1, <3>2, GrownEnded
    <2> QED  BY <1>1, <1>3, <2>2, <2>3, <2>4, <2>5 DEF Knows
  <1> QED  BY <1>2, <1>3

LEMMA GrownMarker ==
  ASSUME NEW d, NEW e, NEW t, Grown(d, e, t.grant), NEW r \in Rows, d.row[r].grant = t.grant,
         MarkerOf(t, d, r) # None
  PROVE  MarkerOf(t, e, r) = MarkerOf(t, d, r)
  <1>1. FirstRow(d, t.grant) # 0
    BY FirstRowIs
  <1>2. FirstRow(e, t.grant) = FirstRow(d, t.grant)
    BY <1>1, GrownFirst
  <1>3. d.row[r].shell # None => e.row[r].shell = d.row[r].shell
    BY DEF Grown
  <1> QED  BY <1>2, <1>3 DEF MarkerOf

LEMMA ClosingParts ==
  ASSUME IInv, Closing, NEW w \in Threads
  PROVE  /\ Knows(task[w], View(w), log) /\ Chosen(w)
         /\ InOrder(base) /\ InOrder(db) /\ InOrder(View(w))
         /\ \A g \in Grants : Tidy(base, log, g) /\ Tidy(db, log, g) /\ Tidy(View(w), log, g)
         /\ \A g \in Grants : Grown(base, db, g) /\ Grown(base, View(w), g)
         /\ \A a \in Accounts : Reports(log[a])
         /\ EndsPassed
         /\ log \in [Accounts -> [Paths -> File]] /\ db \in Tables /\ base \in Tables
  BY GrownItself DEF Closing, View, IInv, TypeOK

(* The next entry of a handler is found from its own state and the file.   *)
EntryAt(t, f) ==
  LET p == IF \E e \in t.todo : e[1] = "sessions" THEN "sessions" ELSE "commands"
      n == CHOOSE n \in {e[2] : e \in {e \in t.todo : e[1] = p}} :
             \A e \in t.todo : e[1] = p => n <= e[2]
  IN [path |-> p, num |-> n, line |-> f[p].line[n]]

LEMMA EntryAtIs ==
  ASSUME NEW w
  PROVE  /\ Entry(w) = EntryAt(task[w], log[Account[task[w].grant]])
         /\ Entry(w)' = EntryAt(task'[w], log'[Account[task'[w].grant]])
  <1>1. Entry(w) = EntryAt(task[w], log[Account[task[w].grant]])
    BY Zenon DEF Entry, EntryAt
  <1>2. Entry(w)' = EntryAt(task'[w], log'[Account[task'[w].grant]])
    BY Zenon DEF Entry, EntryAt
  <1> QED  BY <1>1, <1>2

(* y is the entry x, with its line as the files h have it.                 *)
Reread(x, y, h) == y.path = x.path /\ y.num = x.num /\ y.line = h[x.path].line[x.num]

LEMMA EntryLine ==
  ASSUME NEW t, NEW f, NEW h
  PROVE  Reread(EntryAt(t, f), EntryAt(t, h), h)
  <1>1. PICK x, y : x = EntryAt(t, f) /\ y = EntryAt(t, h)
    BY Zenon
  <1>2. PICK p, n : /\ x = [path |-> p, num |-> n, line |-> f[p].line[n]]
                    /\ y = [path |-> p, num |-> n, line |-> h[p].line[n]]
    BY <1>1, Zenon DEF EntryAt
  <1>3. Reread(x, y, h)
    BY <1>2 DEF Reread
  <1> QED  BY <1>1, <1>3, Zenon

(* When only the files change, so does only the line of the next entry.    *)
LEMMA EntryStays ==
  ASSUME NEW w, NEW t, NEW f, NEW h, task[w] = t, task'[w] = t,
         f = log[Account[t.grant]], h = log'[Account[t.grant]]
  PROVE  Reread(Entry(w), Entry(w)', h)
  <1>1. Entry(w) = EntryAt(t, f) /\ Entry(w)' = EntryAt(t, h)
    BY EntryAtIs, Zenon
  <1> QED  BY <1>1, EntryLine, Zenon

(* Another handler, when one of them has taken a step.                     *)
LEMMA OthersKnow ==
  ASSUME IInv, IInv', Closing, NEW v \in Threads, task'[v] = task[v], log' = log,
         \A g \in Grants : base.status[g] # "waiting" => Grown(base, base', g),
         lock = v <=> lock' = v, lock = v => db' = db
  PROVE  Knows(task[v], View(v), log)' /\ Chosen(v)'
  <1> DEFINE t == task[v]
             d == View(v)
  <1>0. PICK e : e = View(v)'
    OBVIOUS
  <1>1. /\ t \in Run /\ (~Away(t) => t.grant \in Grants) /\ Knows(t, d, log) /\ Chosen(v)
        /\ log \in [Accounts -> [Paths -> File]] /\ Finds(t, d)
    BY Parts, ClosingParts DEF Handler
  <1>2. e \in Tables /\ \A g \in Grants : d.status[g] # "waiting" => Grown(d, e, g)
    <2>1. CASE lock = v
      BY <1>0, <2>1, GrownItself, Parts DEF View, IInv, TypeOK
    <2>2. CASE lock # v
      BY <1>0, <2>2 DEF View, IInv, TypeOK
    <2> QED  BY <2>1, <2>2
  <1>3. Knows(t, e, log)
    BY <1>1, <1>2, GrownKnows, Zenon
  <1>4. Chosen(v)'
    <2> SUFFICES ASSUME t.pc = "write"
                 PROVE  Chosen(v)'
      BY DEF Chosen
    <2>1. Entry(v)' = Entry(v)
      BY DEF Entry
    <2>2. t.todo # {} /\ ~Away(t) /\ t.grant \in Grants /\ Grown(d, e, t.grant)
      BY <1>1, <1>2, Parts DEF Handler, Away, Knows
    <2>3. Entry(v).line \in Line
      BY <2>2, EntryIs, Zenon
    <2>4. ASSUME t.found # 0
          PROVE  MarkerOf(t, e, t.found) = Entry(v).line.shell
      <3>1. t.found \in Rows /\ d.row[t.found].grant = t.grant
        BY <1>1, <2>4 DEF Run, Finds
      <3>2. MarkerOf(t, d, t.found) = Entry(v).line.shell
        BY <1>1, <2>4 DEF Chosen
      <3>3. MarkerOf(t, d, t.found) # None
        BY <2>3, <3>2, LogAssumption DEF Line
      <3> QED  BY <2>2, <3>1, <3>2, <3>3, GrownMarker
    <2>5. Chosen(v)
      BY <1>1
    <2> QED  BY <1>0, <2>1, <2>4, <2>5 DEF Chosen
  <1> QED  BY <1>0, <1>3, <1>4

LEMMA StepCloses ==
  ASSUME IInv, IInv', Closing, NEW w \in Threads, NEW k \in Run,
         task' = [task EXCEPT ![w] = k], log' = log, shell' = shell,
         base' = base, lock' \in {lock, w, None},
         lock \notin {None, w} => lock' = lock /\ db' = db,
         InOrder(db'), \A g \in Grants : Tidy(db', log, g) /\ Grown(base, db', g),
         NEW d, d = IF lock' = w THEN db' ELSE base,
         Knows(k, d, log), Chosen(w)',
         lock \in {None, w} =>
           \A g \in Grants : \A n \in 1..db'.offset[g]["sessions"].end :
             Ended(db', log, g, n) \/ (lock' = w /\ k.grant = g /\ Pending(k, "sessions", n))
  PROVE  Closing'
  <1>1. /\ task'[w] = k /\ None \notin Threads
        /\ \A v \in Threads : v # w => task'[v] = task[v]
    BY Parts, Runs
  <1>2. View(w)' = d
    BY DEF View
  <1>3. \A v \in Threads : Knows(task[v], View(v), log)' /\ Chosen(v)'
    <2> SUFFICES ASSUME NEW v \in Threads PROVE Knows(task[v], View(v), log)' /\ Chosen(v)'
      OBVIOUS
    <2>1. CASE v = w
      BY <1>1, <1>2, <2>1
    <2>2. CASE v # w
      <3>1. (lock = v <=> lock' = v) /\ (lock = v => db' = db) /\ task'[v] = task[v]
        BY <1>1, <2>2
      <3> QED  BY <3>1, GrownItself, OthersKnow
    <2> QED  BY <2>1, <2>2
  <1>4. EndsPassed'
    <2> SUFFICES ASSUME NEW g \in Grants, NEW n \in 1..db'.offset[g]["sessions"].end
                 PROVE  Ended(db', log, g, n) \/ Held(g, "sessions", n)'
      BY ClosingParts DEF EndsPassed
    <2>1. CASE lock \in {None, w}
      BY <1>1, <2>1 DEF Held
    <2>2. CASE lock \notin {None, w}
      <3>1. Ended(db, log, g, n) \/ Held(g, "sessions", n)
        BY <2>2, ClosingParts DEF EndsPassed
      <3>2. ASSUME NEW v \in Threads, lock = v, task[v].grant = g, Pending(task[v], "sessions", n)
            PROVE  lock' = v /\ task'[v].grant = g /\ Pending(task'[v], "sessions", n)
        BY <1>1, <2>2, <3>2
      <3> QED  BY <2>2, <3>1, <3>2 DEF Held
    <2> QED  BY <2>1, <2>2
  <1>5. /\ \A a \in Accounts : Reports(log[a])
        /\ \A s \in Shells : shell[s] # "idle" => Len(log[Home[s]]["sessions"].line) > 0
        /\ InOrder(base) /\ \A g \in Grants : Tidy(base, log, g)
    BY DEF Closing
  <1> QED  BY <1>3, <1>4, <1>5 DEF Closing

(* What a handler that may write sees passed.                              *)
LEMMA EndedOrHeld ==
  ASSUME IInv, Closing, NEW w \in Threads, NEW g \in Grants,
         NEW n \in 1..View(w).offset[g]["sessions"].end
  PROVE  Ended(View(w), log, g, n)
         \/ (lock = w /\ task[w].grant = g /\ Pending(task[w], "sessions", n))
  BY Parts, ClosingParts DEF EndsPassed, Held, View

(* A step that reads.                                                      *)
LEMMA ReadCloses ==
  ASSUME IInv, IInv', Closing, NEW w \in Threads, NEW k \in Run,
         task' = [task EXCEPT ![w] = k], UNCHANGED <<log, shell, db, base, lock>>,
         Knows(k, View(w), log), Chosen(w)',
         \A n \in Nat \ {0} : Pending(task[w], "sessions", n) =>
           (k.grant = task[w].grant /\ Pending(k, "sessions", n))
             \/ Ended(View(w), log, task[w].grant, n)
  PROVE  Closing'
  <1> DEFINE d == IF lock' = w THEN db' ELSE base
  <1>1. d = View(w) /\ db = db' /\ lock' = lock /\ base' = base /\ log' = log /\ shell' = shell
    BY DEF View
  <1>2. /\ InOrder(db) /\ \A g \in Grants : Tidy(db, log, g) /\ Grown(base, db, g)
    BY ClosingParts
  <1>3. ASSUME lock \in {None, w}, NEW g \in Grants, NEW n \in 1..db'.offset[g]["sessions"].end
        PROVE  Ended(db', log, g, n) \/ (lock' = w /\ k.grant = g /\ Pending(k, "sessions", n))
    <2>1. View(w) = db
      BY <1>3, FreeView DEF Free
    <2>2. n \in Nat \ {0}
      <3>1. db.offset[g]["sessions"].end \in Nat
        BY ClosingParts, SessionsIsPath DEF Tables, Offset
      <3> QED  BY <1>1, <3>1
    <2>3. Ended(db, log, g, n) \/ (lock = w /\ task[w].grant = g /\ Pending(task[w], "sessions", n))
      BY <1>1, <2>1, EndedOrHeld
    <2> QED  BY <1>1, <2>1, <2>2, <2>3
  <1> HIDE DEF d
  <1> QED  BY <1>1, <1>2, <1>3, StepCloses, Zenon DEF d

LEMMA IdleKnows ==
  /\ \A d, l : Knows(Idle, d, l)
  /\ Idle.pc = "idle"
  BY DEF Idle, Knows, Away, NoOffset, Paths

LEMMA AbortCloses ==
  ASSUME IInv, IInv', Closing, NEW w \in Threads, Abort(w), log' = log, shell' = shell, base' = base
  PROVE  Closing'
  <1> DEFINE d == IF lock' = w THEN db' ELSE base
  <1>1. task' = [task EXCEPT ![w] = Idle] /\ Idle \in Run /\ task'[w] = Idle
    BY IdleIsHandler, Parts, Runs DEF Abort, Goto
  <1>2. /\ lock' \in {lock, None} /\ (lock \notin {None, w} => lock' = lock /\ db' = db)
        /\ db' \in {base, db} /\ (lock \in {None, w} => db' = base)
    BY Parts DEF Abort, TypeOK
  <1>3. /\ InOrder(db') /\ \A g \in Grants : Tidy(db', log, g) /\ Grown(base, db', g)
    BY <1>2, ClosingParts, GrownItself
  <1>4. Chosen(w)' /\ Knows(Idle, d, log)
    BY <1>1, IdleKnows DEF Chosen
  <1>5. ASSUME lock \in {None, w}, NEW g \in Grants, NEW n \in 1..db'.offset[g]["sessions"].end
        PROVE  Ended(db', log, g, n)
    BY <1>2, <1>5, ClosingParts DEF EndsPassed
  <1> HIDE DEF d
  <1> QED  BY <1>1, <1>2, <1>3, <1>4, <1>5, StepCloses, Zenon DEF d

(* A step that writes under the lock.                                      *)
LEMMA WriteCloses ==
  ASSUME IInv, IInv', Closing, NEW w \in Threads, lock \in {None, w}, lock' = w,
         NEW k \in Run, task' = [task EXCEPT ![w] = k], k.pc # "write",
         log' = log, shell' = shell, base' = base,
         NEW e \in Tables, db' = e, InOrder(e),
         \A g \in Grants : Tidy(e, log, g) /\ Grown(db, e, g),
         Knows(k, e, log),
         \A g \in Grants : \A n \in 1..e.offset[g]["sessions"].end :
           Ended(e, log, g, n) \/ (k.grant = g /\ Pending(k, "sessions", n))
  PROVE  Closing'
  <1>1. None # w /\ task'[w] = k
    BY Parts, Runs
  <1>2. Chosen(w)'
    BY <1>1 DEF Chosen
  <1>3. \A g \in Grants : Grown(base, e, g)
    BY ClosingParts, GrownOn
  <1> QED  BY <1>1, <1>2, <1>3, StepCloses, Zenon
-----------------------------------------------------------------------------
LEMMA SameFirst ==
  ASSUME NEW d, NEW e, NEW g, \A r \in Rows : d.row[r].grant = g <=> e.row[r].grant = g
  PROVE  FirstRow(e, g) = FirstRow(d, g)
  <1> DEFINE mine(y) == {r \in Rows : y.row[r].grant = g}
  <1>1. \A y : FirstRow(y, g) = IF mine(y) = {} THEN 0
                               ELSE CHOOSE r \in mine(y) : \A q \in mine(y) : r <= q
    BY DEF FirstRow
  <1>2. mine(e) = mine(d)
    OBVIOUS
  <1> HIDE DEF mine
  <1>3. FirstRow(e, g) = IF mine(e) = {} THEN 0
                         ELSE CHOOSE r \in mine(e) : \A q \in mine(e) : r <= q
    BY <1>1
  <1>4. FirstRow(d, g) = IF mine(d) = {} THEN 0
                         ELSE CHOOSE r \in mine(d) : \A q \in mine(d) : r <= q
    BY <1>1
  <1> QED  BY <1>2, <1>3, <1>4

(* What a flush leaves: the first row of the grant has its marker.         *)
LEMMA FlushedRows ==
  ASSUME IInv, Closing, NEW w \in Threads, Free(w), task[w].pc \in {"write", "finish"}
  PROVE  LET e == Flushed(w)
             t == task[w]
         IN /\ \A r \in Rows :
                 /\ e.row[r].grant = db.row[r].grant /\ e.row[r].status = db.row[r].status
                 /\ e.row[r].shell = IF t.adopt # None /\ r = FirstRow(db, t.grant)
                                     THEN t.adopt ELSE db.row[r].shell
                 /\ e.row[r] \in Row /\ db.row[r] \in Row
            /\ \A g : FirstRow(e, g) = FirstRow(db, g)
            /\ t.adopt # None => /\ t.adopt = First(log, t.grant) /\ t.grant \in Launched
                                 /\ Begun(log, t.grant) /\ t.adopt \in Shells
            /\ t.adopt # None \/ Marked(db, t.grant) => Marked(e, t.grant)
            /\ t.grant \in Grants /\ e \in Tables /\ View(w) = db /\ t \in Run
            /\ e.cmds = db.cmds /\ e.status = db.status
  <1> DEFINE e == Flushed(w)
             t == task[w]
  <1>1. t.grant \in Grants /\ t \in Run /\ db \in Tables /\ View(w) = db /\ TypeOK
    BY Parts, FreeView DEF Handler, Away, TypeOK
  <1>2. /\ e \in Tables /\ e.cmds = db.cmds /\ e.status = db.status
        /\ \A r \in Rows :
             /\ e.row[r].grant = db.row[r].grant /\ e.row[r].status = db.row[r].status
             /\ e.row[r].shell = IF t.adopt # None /\ r = FirstRow(db, t.grant)
                                 THEN t.adopt ELSE db.row[r].shell
    BY <1>1, FlushedIs
  <1>3. \A r \in Rows : e.row[r] \in Row /\ db.row[r] \in Row
    BY <1>1, <1>2 DEF Tables
  <1> HIDE DEF e
  <1>4. \A g : FirstRow(e, g) = FirstRow(db, g)
    BY <1>2, SameFirst
  <1>5. t.adopt # None => /\ t.adopt = First(log, t.grant) /\ t.grant \in Launched
                          /\ Begun(log, t.grant) /\ t.adopt \in Shells
    BY <1>1, ClosingParts DEF Knows, Run
  <1>6. ASSUME t.adopt # None \/ Marked(db, t.grant), NEW r \in Rows, e.row[r].grant = t.grant
        PROVE  e.row[r].shell # None
    <2>1. db.row[r].grant = t.grant /\ Tidy(db, log, t.grant)
      BY <1>1, <1>2, <1>6, ClosingParts
    <2>2. CASE t.adopt = None
      BY <1>2, <1>6, <2>1, <2>2 DEF Marked
    <2>3. CASE t.adopt # None /\ r = FirstRow(db, t.grant)
      BY <1>2, <2>3
    <2>4. CASE t.adopt # None /\ r # FirstRow(db, t.grant)
      <3>1. FirstRow(db, t.grant) \in Rows /\ db.row[FirstRow(db, t.grant)].grant = t.grant
        BY <2>1, FirstRowIs
      <3>2. db.row[r].shell # None
        BY <2>1, <2>4, <3>1, Zenon DEF Tidy
      <3> QED  BY <1>2, <2>4, <3>2
    <2> QED  BY <2>2, <2>3, <2>4
  <1> QED  BY <1>1, <1>2, <1>3, <1>4, <1>5, <1>6 DEF Marked, e

LEMMA FlushedTidy ==
  ASSUME IInv, Closing, NEW w \in Threads, Free(w), task[w].pc \in {"write", "finish"}
  PROVE  LET e == Flushed(w) IN
         /\ InOrder(e) /\ \A g \in Grants : Tidy(e, log, g) /\ Grown(db, e, g)
         /\ task[w].pc = "write" => Marked(e, task[w].grant)
  <1> DEFINE t == task[w]
  <1>0. PICK e : e = Flushed(w)
    OBVIOUS
  <1>1. /\ \A r \in Rows :
             /\ e.row[r].grant = db.row[r].grant /\ e.row[r].status = db.row[r].status
             /\ e.row[r].shell = IF t.adopt # None /\ r = FirstRow(db, t.grant)
                                 THEN t.adopt ELSE db.row[r].shell
             /\ e.row[r] \in Row /\ db.row[r] \in Row
        /\ \A g : FirstRow(e, g) = FirstRow(db, g)
        /\ t.adopt # None => /\ t.adopt = First(log, t.grant) /\ t.grant \in Launched
                             /\ Begun(log, t.grant) /\ t.adopt \in Shells
        /\ t.adopt # None \/ Marked(db, t.grant) => Marked(e, t.grant)
        /\ t.grant \in Grants /\ e \in Tables /\ View(w) = db /\ t \in Run
        /\ e.cmds = db.cmds /\ e.status = db.status
    BY <1>0, FlushedRows
  <1>2. /\ InOrder(db) /\ \A g \in Grants : Tidy(db, log, g)
        /\ Knows(t, db, log) /\ ~Away(t) /\ None \notin Grants /\ None \notin Shells
        /\ t.mark["sessions"] \in Offset /\ db \in Tables
    BY <1>1, ClosingParts, LogAssumption, SessionsIsPath DEF Away, Run
  <1>3. InOrder(e)
    <2> SUFFICES ASSUME NEW r \in Rows
                 PROVE  /\ e.row[r].grant = None =>
                             e.row[r] = FreeRow /\ \A n \in Numbers : <<r, n>> \notin e.cmds
                        /\ e.row[r].grant # None => \A q \in Rows : q < r => e.row[q].grant # None
      BY DEF InOrder
    <2>1. ASSUME e.row[r].grant = None PROVE e.row[r] = FreeRow
      <3>1. db.row[r] = FreeRow /\ db.row[r].grant # t.grant /\ db.row[r].grant = None
        BY <1>1, <1>2, <2>1 DEF InOrder
      <3>2. r # FirstRow(db, t.grant)
        BY <3>1, FirstRowIs, RowNumbers
      <3>3. /\ e.row[r].grant = FreeRow.grant /\ e.row[r].shell = FreeRow.shell
            /\ e.row[r].status = FreeRow.status
        BY <1>1, <3>1, <3>2
      <3> QED  BY <1>1, <3>3 DEF Row, FreeRow
    <2> QED  BY <1>1, <1>2, <2>1 DEF InOrder
  <1>4. ASSUME NEW g \in Grants PROVE Grown(db, e, g)
    <2>1. ASSUME NEW r \in Rows, db.row[r].grant = g, db.row[r].shell # None
          PROVE  e.row[r].shell = db.row[r].shell
      <3>1. CASE t.adopt # None /\ r = FirstRow(db, t.grant)
        <4>1. g = t.grant
          BY <1>1, <2>1, <3>1, FirstRowIs, RowNumbers
        <4> QED  BY <1>1, <1>2, <2>1, <3>1, <4>1 DEF Tidy
      <3>2. CASE ~(t.adopt # None /\ r = FirstRow(db, t.grant))
        BY <1>1, <3>2
      <3> QED  BY <3>1, <3>2
    <2>2. ASSUME NEW r \in Rows, e.row[r].shell = None PROVE db.row[r].shell = None
      BY <1>1, <1>2, <2>2
    <2> QED  BY <1>1, <2>1, <2>2 DEF Grown
  <1>5. task[w].pc = "write" => Marked(e, t.grant)
    BY <1>1, <1>2 DEF Knows, Ready
  <1>6. \A g \in Grants : e.offset[g]["sessions"] =
          IF g = t.grant /\ "sessions" \in t.stale THEN t.mark["sessions"] ELSE db.offset[g]["sessions"]
    BY <1>0, <1>1, SessionsIsPath, Parts, FlushedIs
  <1>7. ASSUME NEW g \in Grants PROVE Tidy(e, log, g)
    <2>1. Grown(db, e, g) /\ Tidy(db, log, g)
      BY <1>2, <1>4
    <2>2. Marked(db, g) => Marked(e, g)
      BY <2>1, GrownMarked
    <2>3. /\ e.offset[g]["sessions"].len = e.offset[g]["sessions"].end
          /\ e.offset[g]["sessions"].end > 0 => Marked(e, g) /\ e.status[g] # "waiting"
      <3>1. CASE g = t.grant /\ "sessions" \in t.stale
        <4>1. t.mark["sessions"].len = t.mark["sessions"].end
          BY <1>2 DEF Knows
        <4>2. Marked(db, g) \/ t.adopt # None \/ t.mark["sessions"].end = 0
          BY <1>2, <3>1 DEF Knows, Ready
        <4>3. ~(0 > 0)
          OBVIOUS
        <4>4. e.status[g] # "waiting"
          BY <1>1, <1>2, <3>1 DEF Knows
        <4> QED  BY <1>1, <1>6, <3>1, <4>1, <4>2, <4>3, <4>4
      <3>2. CASE ~(g = t.grant /\ "sessions" \in t.stale)
        BY <1>1, <1>6, <2>1, <2>2, <3>2 DEF Tidy
      <3> QED  BY <3>1, <3>2
    <2>4. ASSUME NEW r \in Rows, e.row[r].grant = g
          PROVE  /\ e.status[g] # "waiting"
                 /\ e.row[r].shell = None =>
                      g \in Launched /\ \A q \in Rows : e.row[q].grant = g => q = r
                 /\ e.row[r].shell # None /\ r = FirstRow(e, g) /\ g \in Launched =>
                      Begun(log, g) /\ e.row[r].shell = First(log, g)
                 /\ \A n \in Numbers : <<r, n>> \in e.cmds => Marked(e, g)
      <3>1. db.row[r].grant = g
        BY <1>1, <2>4
      <3>2. e.status[g] # "waiting" /\ \A n \in Numbers : <<r, n>> \in e.cmds => Marked(e, g)
        BY <1>1, <2>1, <2>2, <3>1 DEF Tidy
      <3>3. ASSUME e.row[r].shell = None
            PROVE  g \in Launched /\ \A q \in Rows : e.row[q].grant = g => q = r
        <4>1. db.row[r].shell = None
          BY <1>1, <1>2, <3>3
        <4> QED  BY <1>1, <2>1, <3>1, <4>1 DEF Tidy
      <3>4. ASSUME e.row[r].shell # None, r = FirstRow(e, g), g \in Launched
            PROVE  Begun(log, g) /\ e.row[r].shell = First(log, g)
        <4>1. r = FirstRow(db, g)
          BY <1>1, <3>4
        <4>2. CASE t.adopt # None /\ g = t.grant
          BY <1>1, <4>1, <4>2
        <4>3. CASE ~(t.adopt # None /\ g = t.grant)
          <5>1. e.row[r].shell = db.row[r].shell
            <6>1. ~(t.adopt # None /\ r = FirstRow(db, t.grant))
              BY <3>1, <4>3, FirstRowIs, RowNumbers
            <6> QED  BY <1>1, <6>1
          <5> QED  BY <2>1, <3>1, <3>4, <4>1, <5>1 DEF Tidy
        <4> QED  BY <4>2, <4>3
      <3> QED  BY <3>2, <3>3, <3>4
    <2>5. g \in Launched /\ e.status[g] # "waiting" => \E r \in Rows : e.row[r].grant = g
      BY <1>1, <2>1 DEF Tidy
    <2> QED  BY <2>3, <2>4, <2>5 DEF Tidy
  <1> QED  BY <1>0, <1>3, <1>4, <1>5, <1>7

(* A row that has its marker is written, or a new one with its marker.     *)
LEMMA PutTidy ==
  ASSUME NEW d \in Tables, InOrder(d), NEW l, \A h \in Grants : Tidy(d, l, h),
         NEW g \in Grants, d.status[g] # "waiting", Marked(d, g),
         NEW r \in Rows, NEW x \in Row, x.grant = g, x.shell # None,
         \/ /\ d.row[r].grant = g /\ x.shell = d.row[r].shell
            /\ d.row[r].status = "closed" => x.status = "closed"
         \/ d.row[r] = FreeRow /\ \A q \in 1..(r - 1) : d.row[q] # FreeRow,
         NEW c \in SUBSET (Rows \X Numbers),
         \A q \in Rows : \A n \in Numbers : <<q, n>> \in c => <<q, n>> \in d.cmds \/ q = r,
         NEW e, e = Put(d, r, x, c)
  PROVE  /\ InOrder(e) /\ Marked(e, g)
         /\ \A h \in Grants : Tidy(e, l, h) /\ Grown(d, e, h)
  <1>1. /\ e.cmds = c /\ e.offset = d.offset /\ e.status = d.status
        /\ \A q \in Rows : e.row[q] = IF q = r THEN x ELSE d.row[q]
    BY PutRow
  <1>2. None \notin Grants /\ d.row[r].grant \in {g, None}
    BY LogAssumption DEF FreeRow
  <1>3. \A q \in Rows : q \in Nat /\ (q < r => q \in 1..(r - 1))
    BY LogAssumption DEF Rows
  <1>4. \A q \in Rows : q < r => d.row[q].grant # None
    BY <1>2, <1>3 DEF InOrder
  <1>5. InOrder(e)
    BY <1>1, <1>2, <1>4 DEF InOrder
  <1>6. Marked(e, g)
    BY <1>1 DEF Marked
  <1>7. ASSUME d.row[r].grant = None, NEW q \in Rows, d.row[q].grant = g
        PROVE  q < r
    <2>1. q # r /\ ~(r < q)
      BY <1>2, <1>7 DEF InOrder
    <2> QED  BY <1>3, <2>1
  <1>8. Grown(d, e, g)
    <2>1. ASSUME NEW q \in Rows, d.row[q].grant = g
          PROVE  /\ e.row[q].grant = g
                 /\ d.row[q].shell # None => e.row[q].shell = d.row[q].shell
                 /\ d.row[q].status = "closed" => e.row[q].status = "closed"
      BY <1>1, <1>2, <2>1 DEF FreeRow
    <2>2. ASSUME NEW q \in Rows, e.row[q].grant = g
          PROVE  /\ e.row[q].shell # None
                 /\ d.row[q].grant = g \/ \A z \in Rows : d.row[z].grant = g => z < q
      BY <1>1, <1>2, <1>6, <1>7, <2>2 DEF Marked
    <2> QED  BY <1>1, <2>1, <2>2 DEF Grown
  <1>9. ASSUME NEW h \in Grants, h # g
        PROVE  \A q \in Rows : /\ d.row[q].grant = h <=> e.row[q].grant = h
                               /\ e.row[q].grant = h => q # r /\ e.row[q] = d.row[q]
    BY <1>1, <1>2, <1>9
  <1>10. ASSUME NEW h \in Grants PROVE Grown(d, e, h)
    <2>1. CASE h = g
      BY <1>8, <2>1
    <2>2. CASE h # g
      BY <1>1, <1>9, <2>2 DEF Grown
    <2> QED  BY <2>1, <2>2
  <1>11. Tidy(e, l, g)
    <2>1. Tidy(d, l, g)
      OBVIOUS
    <2>2. ASSUME NEW q \in Rows, q = FirstRow(e, g), g \in Launched
          PROVE  Begun(l, g) /\ e.row[q].shell = First(l, g)
      <3>1. PICK z \in Rows : d.row[z].grant = g
        BY <2>1, <2>2 DEF Tidy
      <3>2. FirstRow(d, g) # 0
        BY <3>1, FirstRowIs
      <3>3. q = FirstRow(d, g) /\ d.row[q].grant = g
        BY <1>8, <2>2, <3>2, GrownFirst, FirstRowIs
      <3>4. d.row[q].shell # None
        BY <3>3 DEF Marked
      <3> QED  BY <1>8, <2>1, <2>2, <3>3, <3>4 DEF Tidy, Grown
    <2>3. ASSUME g \in Launched PROVE \E q \in Rows : e.row[q].grant = g
      BY <1>1
    <2> QED  BY <1>1, <1>6, <2>1, <2>2, <2>3, Zenon DEF Tidy, Marked
  <1>12. ASSUME NEW h \in Grants, h # g PROVE Tidy(e, l, h)
    <2>1. Tidy(d, l, h)
      OBVIOUS
    <2>2. FirstRow(e, h) = FirstRow(d, h)
      BY <1>9, <1>12, SameFirst
    <2>3. Marked(d, h) <=> Marked(e, h)
      BY <1>9, <1>12 DEF Marked
    <2>4. ASSUME NEW q \in Rows, e.row[q].grant = h
          PROVE  /\ e.status[h] # "waiting"
                 /\ e.row[q].shell = None =>
                      h \in Launched /\ \A z \in Rows : e.row[z].grant = h => z = q
                 /\ e.row[q].shell # None /\ q = FirstRow(e, h) /\ h \in Launched =>
                      Begun(l, h) /\ e.row[q].shell = First(l, h)
                 /\ \A n \in Numbers : <<q, n>> \in e.cmds => Marked(e, h)
      <3>1. d.row[q].grant = h /\ q # r /\ e.row[q] = d.row[q]
        BY <1>9, <1>12, <2>4
      <3>2. \A n \in Numbers : <<q, n>> \in e.cmds => <<q, n>> \in d.cmds
        BY <1>1, <3>1
      <3> QED  BY <1>1, <1>9, <1>12, <2>1, <2>2, <2>3, <3>1, <3>2 DEF Tidy
    <2>5. h \in Launched /\ e.status[h] # "waiting" => \E q \in Rows : e.row[q].grant = h
      BY <1>1, <1>9, <1>12, <2>1 DEF Tidy
    <2> QED  BY <1>1, <2>1, <2>3, <2>4, <2>5, Zenon DEF Tidy
  <1> QED  BY <1>5, <1>6, <1>10, <1>11, <1>12

LEMMA CleanMark == Idle.mark["sessions"].len = 0 /\ Idle.mark["sessions"].end = 0
                   /\ Idle.got["sessions"].cut = 0
  BY DEF Idle, NoOffset, EmptyFile, Paths

(* A flush that drops no event whose shell is not dealt with.              *)
LEMMA FlushCloses ==
  ASSUME IInv, IInv', Closing, NEW w \in Threads, Free(w), task[w].pc \in {"write", "finish"},
         UNCHANGED <<log, shell, base>>, lock' = w,
         NEW k \in Run, task' = [task EXCEPT ![w] = k], k.pc \in Places,
         k.mark = Idle.mark, k.stale = {}, k.adopt = None, k.grant = task[w].grant,
         k.got = task[w].got, k.queue = task[w].queue,
         NEW e \in Tables, db' = e, e.offset = Flushed(w).offset, InOrder(e),
         \A g \in Grants : Tidy(e, log, g) /\ Grown(Flushed(w), e, g),
         k.pc = "look" \/ k.outer # << >> => Marked(e, task[w].grant),
         \A n \in Nat \ {0} : Pending(task[w], "sessions", n) =>
           Pending(k, "sessions", n) \/ Ended(e, log, task[w].grant, n)
  PROVE  Closing'
  <1> DEFINE t == task[w]
  <1>1. /\ lock \in {None, w} /\ View(w) = db /\ t \in Run /\ t.grant \in Grants /\ db \in Tables
        /\ Knows(t, db, log) /\ ~Away(t) /\ t.got = Idle.got
        /\ log \in [Accounts -> [Paths -> File]]
    BY Parts, FreeView, ClosingParts DEF Handler, Away
  <1>2. \A g \in Grants : Grown(db, e, g)
    BY FlushedTidy, GrownOn
  <1>3. Knows(k, e, log)
    <2>1. \A g \in k.queue : e.status[g] # "waiting"
      <3>1. t.queue \subseteq Grants
        BY <1>1 DEF Run
      <3> QED  BY <1>1, <1>2, <3>1 DEF Knows, Grown
    <2>2. e.status[k.grant] # "waiting"
      BY <1>1, <1>2 DEF Knows, Grown
    <2>3. Ready(k, e)
      BY DEF Ready, Places
    <2> QED  BY <1>1, <2>1, <2>2, <2>3, CleanMark DEF Knows, Places
  <1>4. ASSUME NEW g \in Grants, NEW n \in 1..e.offset[g]["sessions"].end
        PROVE  Ended(e, log, g, n) \/ (k.grant = g /\ Pending(k, "sessions", n))
    <2>1. e.offset[g]["sessions"] =
            IF g = t.grant /\ "sessions" \in t.stale THEN t.mark["sessions"] ELSE db.offset[g]["sessions"]
      BY <1>1, SessionsIsPath, Parts, FlushedIs
    <2>2. n \in Nat \ {0}
      <3>1. e.offset[g]["sessions"].end \in Nat
        BY SessionsIsPath DEF Tables, Offset
      <3> QED  BY <3>1
    <2>3. Ended(db, log, g, n) \/ (t.grant = g /\ Pending(t, "sessions", n))
      <3>1. CASE g = t.grant /\ "sessions" \in t.stale
        BY <1>1, <2>1, <3>1 DEF Knows
      <3>2. CASE ~(g = t.grant /\ "sessions" \in t.stale)
        BY <1>1, <2>1, <3>2, EndedOrHeld
      <3> QED  BY <3>1, <3>2
    <2>4. Ended(db, log, g, n) => Ended(e, log, g, n)
      BY <1>1, <1>2, <2>2, GrownEnded
    <2> QED  BY <2>2, <2>3, <2>4
  <1> QED  BY <1>1, <1>2, <1>3, <1>4, WriteCloses, Zenon DEF Places

LEMMA FinishImportCloses ==
  ASSUME IInv, IInv', Closing, NEW w \in Threads, FinishImport(w)
  PROVE  Closing'
  <1> DEFINE t == task[w]
             e == Flushed(w)
  <1>1. PICK next \in {"remove", "next"} :
          task' = [task EXCEPT ![w] = [Clean(t) EXCEPT !.pc = next]]
    BY Zenon DEF FinishImport, Goto
  <1> DEFINE k == [Clean(t) EXCEPT !.pc = next]
  <1>2. /\ UNCHANGED <<log, shell, base>> /\ lock' = w /\ db' = e /\ Free(w) /\ t.pc = "finish"
    BY DEF FinishImport, host
  <1>3. t \in Run /\ t.todo = {} /\ ~Away(t)
    BY <1>2, Parts DEF Handler, Away
  <1>4. /\ k.pc = next /\ k.mark = Idle.mark /\ k.stale = {} /\ k.adopt = None /\ k.grant = t.grant
        /\ k.got = t.got /\ k.queue = t.queue /\ k.outer = t.outer /\ k.todo = t.todo /\ k \in Run
    <2>1. k \in Run
      <3>1. PICK y \in Run : y = Clean(t)
        BY <1>3, Cleaned
      <3>2. [y EXCEPT !.pc = next] \in Run
        BY DEF Run
      <3> QED  BY <3>1, <3>2
    <2>2. /\ k.mark = Clean(t).mark /\ k.stale = Clean(t).stale /\ k.adopt = Clean(t).adopt
          /\ k.grant = Clean(t).grant /\ k.got = Clean(t).got /\ k.queue = Clean(t).queue
          /\ k.outer = Clean(t).outer /\ k.todo = Clean(t).todo /\ k.pc = next
      BY <2>1, Cleaned, <1>3, ZenonT(60) DEF Run
    <2>3. Clean(t).queue = t.queue /\ Clean(t).outer = t.outer /\ Clean(t).todo = t.todo
      BY <1>3, Zenon DEF Clean, Run
    <2> QED  BY <1>3, <2>1, <2>2, <2>3, Cleaned
  <1> HIDE DEF k, e
  <1>5. /\ e \in Tables /\ InOrder(e) /\ \A g \in Grants : Tidy(e, log, g) /\ Grown(Flushed(w), e, g)
        /\ Marked(db, t.grant) => Marked(e, t.grant)
    BY <1>2, FlushedTidy, FlushedRows, GrownItself DEF e
  <1>6. t.outer # << >> => Marked(e, t.grant)
    BY <1>2, <1>3, <1>5, ClosingParts, FreeView DEF Knows
  <1>7. \A n : Pending(t, "sessions", n) => Pending(k, "sessions", n)
    BY <1>4 DEF Pending
  <1>8. task' = [task EXCEPT ![w] = k] /\ e.offset = Flushed(w).offset
    BY <1>1 DEF k, e
  <1> QED  BY <1>2, <1>4, <1>5, <1>6, <1>7, <1>8, FlushCloses, Zenon DEF Places

(* The row that is written has the marker of the entry's shell.            *)
LEMMA TargetMarker ==
  ASSUME IInv, Closing, NEW w \in Threads, Free(w), task[w].pc = "write",
         task[w].found = 0 => HasRoom(Flushed(w)),
         NEW r, r = IF task[w].found # 0 THEN task[w].found ELSE NewRow(Flushed(w))
  PROVE  LET d == Flushed(w)
             t == task[w]
             s == Entry(w).line.shell
         IN /\ r \in Rows /\ t.grant \in Grants /\ ~Away(t) /\ t.todo # {} /\ t \in Run
            /\ s \in Shells /\ s # None /\ Entry(w).line \in Line
            /\ t.found # 0 => d.row[r].grant = t.grant /\ d.row[r].shell = s
            /\ t.found = 0 => d.row[r] = FreeRow /\ \A q \in 1..(r - 1) : d.row[q] # FreeRow
            /\ d \in Tables /\ InOrder(d) /\ \A g \in Grants : Tidy(d, log, g)
            /\ d.status[t.grant] # "waiting" /\ Marked(d, t.grant)
  <1> DEFINE t == task[w]
  <1>0. PICK d : d = Flushed(w)
    OBVIOUS
  <1>1. t.grant \in Grants /\ ~Away(t) /\ t.todo # {} /\ t \in Run
    BY Parts DEF Handler, Away
  <1>2. Entry(w).line \in Line /\ Entry(w).line.shell \in Shells /\ Entry(w).line.shell # None
    <2>1. Entry(w).line \in Line
      BY <1>1, EntryIs, Zenon
    <2> QED  BY <2>1, LogAssumption DEF Line
  <1>3. /\ r \in Rows
        /\ t.found = 0 => d.row[r] = FreeRow /\ \A q \in 1..(r - 1) : d.row[q] # FreeRow
        /\ t.found # 0 => d.row[r].grant = t.grant
    BY <1>0, Target
  <1>4. /\ InOrder(d) /\ \A g \in Grants : Tidy(d, log, g)
        /\ Marked(d, t.grant)
    BY <1>0, FlushedTidy
  <1>5. /\ d \in Tables /\ d.status = db.status /\ View(w) = db
        /\ \A q \in Rows : d.row[q].shell = IF t.adopt # None /\ q = FirstRow(db, t.grant)
                                            THEN t.adopt ELSE db.row[q].shell
    BY <1>0, FlushedRows
  <1>6. d.status[t.grant] # "waiting" /\ Chosen(w)
    BY <1>1, <1>5, ClosingParts DEF Knows
  <1>7. ASSUME t.found # 0 PROVE d.row[r].shell = Entry(w).line.shell
    <2>1. MarkerOf(t, db, r) = Entry(w).line.shell
      BY <1>5, <1>6, <1>7 DEF Chosen
    <2> QED  BY <1>3, <1>5, <2>1 DEF MarkerOf
  <1> QED  BY <1>0, <1>1, <1>2, <1>3, <1>4, <1>5, <1>6, <1>7

LEMMA GoOnQueue ==
  ASSUME NEW t \in Run, NEW next, NEW todo, NEW outer
  PROVE  GoOn(t, next, todo, outer).queue = t.queue
  BY DEF GoOn, Turn, Clean, Run

LEMMA WriteEventCloses ==
  ASSUME IInv, IInv', Closing, NEW w \in Threads, WriteEvent(w)
  PROVE  Closing'
  <1> DEFINE t == task[w]
             d == Flushed(w)
             s == Entry(w).line.shell
             kind == Entry(w).line.kind
             r == IF t.found # 0 THEN t.found ELSE NewRow(d)
             x == [grant |-> t.grant, shell |-> IF t.found # 0 THEN d.row[r].shell ELSE s,
                   status |-> IF kind = "finished" THEN "closed" ELSE "active"]
             e == Put(d, r, x, d.cmds)
             k == GoOn(t, "look", Rest(w), t.outer)
  <1>1. /\ UNCHANGED <<log, shell, base>> /\ lock' = w /\ Free(w) /\ t.pc = "write"
        /\ Entry(w).path = "sessions" /\ (t.found = 0 => HasRoom(d))
    BY DEF WriteEvent, host
  <1>2. /\ r \in Rows /\ t.grant \in Grants /\ ~Away(t) /\ t.todo # {} /\ t \in Run
        /\ s \in Shells /\ s # None /\ Entry(w).line \in Line
        /\ t.found # 0 => d.row[r].grant = t.grant /\ d.row[r].shell = s
        /\ t.found = 0 => d.row[r] = FreeRow /\ \A q \in 1..(r - 1) : d.row[q] # FreeRow
        /\ d \in Tables /\ InOrder(d) /\ \A g \in Grants : Tidy(d, log, g)
        /\ d.status[t.grant] # "waiting" /\ Marked(d, t.grant)
    BY <1>1, TargetMarker
  <1>3. task' = [task EXCEPT ![w] = k]
    BY <1>2, Zenon DEF WriteEvent, Goto, GoOn, Turn, Clean, Run
  <1>4. db' = e
    BY <1>2, Zenon DEF WriteEvent, Put, Tables
  <1>5. t.found # 0 => kind = "finished"
    <2>1. kind \in Events
      <3>1. /\ Entry(w).num \in 1..Len(log[Account[t.grant]]["sessions"].line)
            /\ Entry(w).line = log[Account[t.grant]]["sessions"].line[Entry(w).num]
        BY <1>1, <1>2, EntryIs, Zenon
      <3>2. Reports(log[Account[t.grant]])
        BY <1>2, ClosingParts, LogAssumption
      <3> QED  BY <3>1, <3>2, Zenon DEF Reports
    <2>2. kind = "started" => t.found = 0
      BY <1>1, ClosingParts, Zenon DEF Chosen
    <2> QED  BY <2>1, <2>2 DEF Events
  <1>6. /\ x.grant = t.grant /\ x.shell = s /\ (kind = "finished" => x.status = "closed")
        /\ x \in Row /\ (t.found # 0 => x.status = "closed")
    BY <1>2, <1>5 DEF Row
  <1> HIDE DEF d, r, x, kind, s
  <1>7. /\ e \in Tables /\ e.offset = d.offset /\ \A q \in Rows : e.row[q] = IF q = r THEN x ELSE d.row[q]
        /\ d.cmds \in SUBSET (Rows \X Numbers)
    <2>1. d.cmds \in SUBSET (Rows \X Numbers)
      BY <1>2 DEF Tables
    <2> QED  BY <1>2, <1>6, <2>1, PutRow
  <1>8. /\ InOrder(e) /\ Marked(e, t.grant)
        /\ \A g \in Grants : Tidy(e, log, g) /\ Grown(d, e, g)
    <2>1. \/ d.row[r].grant = t.grant /\ x.shell = d.row[r].shell
             /\ (d.row[r].status = "closed" => x.status = "closed")
          \/ d.row[r] = FreeRow /\ \A q \in 1..(r - 1) : d.row[q] # FreeRow
      BY <1>2, <1>6
    <2>2. x.shell # None
      BY <1>2, <1>6
    <2> HIDE DEF t
    <2> QED  BY <1>2, <1>6, <1>7, <2>1, <2>2, PutTidy, Zenon
  <1> HIDE DEF e
  <1>9. /\ k \in Run /\ k.pc = "look" /\ k.todo = Rest(w) /\ k.outer = t.outer /\ k.mark = Idle.mark
        /\ k.stale = {} /\ k.adopt = None /\ k.grant = t.grant /\ k.got = t.got /\ k.queue = t.queue
    <2>1. t.outer \in Stacks /\ Rest(w) \in Entries
      BY <1>2, RestIs DEF Run, Entries, Stacks
    <2> QED  BY <1>2, <2>1, CleanIs, GoOnQueue, Z3
  <1> HIDE DEF k
  <1>10. ASSUME NEW n \in Nat \ {0}, Pending(t, "sessions", n)
         PROVE  Pending(k, "sessions", n) \/ Ended(e, log, t.grant, n)
    <2>1. CASE n = Entry(w).num
      <3>1. /\ n <= Len(log[Account[t.grant]]["sessions"].line)
            /\ Entry(w).line = log[Account[t.grant]]["sessions"].line[n]
        <4>1. log[Account[t.grant]]["sessions"] \in File
          BY <1>2, LogAssumption, SessionsIsPath, ClosingParts
        <4>2. Len(log[Account[t.grant]]["sessions"].line) \in Nat
          BY <4>1 DEF File
        <4>3. /\ n \in 1..Len(log[Account[t.grant]]["sessions"].line)
              /\ Entry(w).line = log[Account[t.grant]]["sessions"].line[n]
          BY <1>1, <1>2, <2>1, EntryIs, Zenon
        <4> QED  BY <4>2, <4>3
      <3>2. kind = "finished" => e.row[r] = [grant |-> t.grant, shell |-> s, status |-> "closed"]
        BY <1>2, <1>6, <1>7 DEF Row
      <3> QED  BY <1>2, <3>1, <3>2, Zenon DEF Ended, kind, s
    <2>2. CASE n # Entry(w).num
      <3>1. <<"sessions", n>> \in t.todo => <<"sessions", n>> \in Rest(w)
        BY <1>2, <2>2, RestIs, SessionsIsPath
      <3> QED  BY <1>9, <1>10, <3>1 DEF Pending
    <2> QED  BY <2>1, <2>2
  <1> QED  BY <1>1, <1>2, <1>3, <1>4, <1>7, <1>8, <1>9, <1>10, FlushCloses, Zenon DEF Places, d

LEMMA WriteCommandCloses ==
  ASSUME IInv, IInv', Closing, NEW w \in Threads, WriteCommand(w)
  PROVE  Closing'
  <1> DEFINE t == task[w]
             d == Flushed(w)
             s == Entry(w).line.shell
             r == IF t.found # 0 THEN t.found ELSE NewRow(d)
             x == IF t.found # 0 THEN d.row[r]
                  ELSE [grant |-> t.grant, shell |-> s, status |-> "active"]
             c == d.cmds \cup {<<r, Entry(w).num>>}
             e == Put(d, r, x, c)
             outer == Push(Rest(w), t.outer)
  <1>1. /\ UNCHANGED <<log, shell, base>> /\ Free(w) /\ t.pc = "write"
        /\ Entry(w).path = "commands" /\ (t.found = 0 => HasRoom(d))
    BY DEF WriteCommand, host
  <1>2. /\ r \in Rows /\ t.grant \in Grants /\ ~Away(t) /\ t.todo # {} /\ t \in Run
        /\ s \in Shells /\ s # None /\ Entry(w).line \in Line
        /\ t.found # 0 => d.row[r].grant = t.grant /\ d.row[r].shell = s
        /\ t.found = 0 => d.row[r] = FreeRow /\ \A q \in 1..(r - 1) : d.row[q] # FreeRow
        /\ d \in Tables /\ InOrder(d) /\ \A g \in Grants : Tidy(d, log, g)
        /\ d.status[t.grant] # "waiting" /\ Marked(d, t.grant)
    BY <1>1, TargetMarker
  <1>3. CASE Raises(Entry(w).line.kind)
    BY <1>1, <1>3, AbortCloses DEF WriteCommand
  <1>4. CASE ~Raises(Entry(w).line.kind)
    <2>1. /\ db' = e /\ lock' = w
          /\ task' = [task EXCEPT ![w] = Clean(AfterCommand(w))]
      BY <1>2, <1>4 DEF WriteCommand, Goto, Put, Tables
    <2>2. PICK next \in {"look", "commands"}, todo \in {Rest(w), {}}, out \in {t.outer, outer} :
            /\ task' = [task EXCEPT ![w] = GoOn(t, next, todo, out)]
            /\ \/ next = "look" /\ todo = Rest(w) /\ out = t.outer
               \/ next = "commands" /\ todo = {} /\ out = outer
      BY <1>2, <2>1, AfterCommandIs, Zenon
    <2> DEFINE k == GoOn(t, next, todo, out)
    <2>3. /\ Rest(w) \in Entries /\ t.outer \in Stacks /\ {} \in Entries
      BY <1>2, RestIs DEF Run, Entries, Stacks
    <2>4. /\ outer \in Stacks
          /\ \E i \in DOMAIN outer : outer[i] = Rest(w)
          /\ \A j \in DOMAIN t.outer : \E i \in DOMAIN outer : outer[i] = t.outer[j]
      <3>1. outer = Push(Rest(w), t.outer)
        OBVIOUS
      <3> HIDE DEF t, outer
      <3> QED  BY <2>3, <3>1, Pushed
    <2>5. Entry(w).num \in Numbers
      <3>1. Entry(w).num \in 1..Len(log[Account[t.grant]]["commands"].line)
        BY <1>1, <1>2, EntryIs, Zenon
      <3>2. Account[t.grant] \in Accounts
        BY <1>2, LogAssumption
      <3>3. log[Account[t.grant]]["commands"] \in File
            /\ Len(log[Account[t.grant]]["commands"].line) <= MaxLines
        BY <3>2, SessionsIsPath, Parts DEF TypeOK, Files
      <3>4. Len(log[Account[t.grant]]["commands"].line) \in Nat /\ MaxLines \in Nat
        BY <3>3, LogAssumption DEF File
      <3>5. Entry(w).num \in 1..MaxLines
        BY <3>1, <3>3, <3>4
      <3> QED  BY <3>5, NumbersIs
    <2>6. /\ x.grant = t.grant /\ x.shell = s /\ x \in Row
          /\ t.found # 0 => x = d.row[r]
      BY <1>2 DEF Row, Tables
    <2>7. /\ c \in SUBSET (Rows \X Numbers)
          /\ \A q \in Rows : \A n \in Numbers : <<q, n>> \in c => <<q, n>> \in d.cmds \/ q = r
      BY <1>2, <2>5 DEF Tables
    <2> HIDE DEF d, r, x, s, c, outer
    <2>8. e \in Tables /\ e.offset = d.offset
      BY <1>2, <2>6, <2>7, PutRow
    <2>9. /\ InOrder(e) /\ Marked(e, t.grant)
          /\ \A g \in Grants : Tidy(e, log, g) /\ Grown(d, e, g)
      <3>1. \/ d.row[r].grant = t.grant /\ x.shell = d.row[r].shell
               /\ (d.row[r].status = "closed" => x.status = "closed")
            \/ d.row[r] = FreeRow /\ \A q \in 1..(r - 1) : d.row[q] # FreeRow
        BY <1>2, <2>6
      <3>2. x.shell # None
        BY <1>2, <2>6
      <3> HIDE DEF t
      <3> QED  BY <1>2, <2>6, <2>7, <3>1, <3>2, PutTidy, Zenon
    <2> HIDE DEF e
    <2>10. /\ k \in Run /\ k.pc = next /\ k.todo = todo /\ k.outer = out /\ k.mark = Idle.mark
           /\ k.stale = {} /\ k.adopt = None /\ k.grant = t.grant /\ k.got = t.got /\ k.queue = t.queue
      <3>1. todo \in Entries /\ out \in Stacks /\ next \in {"look", "commands", "remove", "next"}
        BY <2>3, <2>4
      <3> HIDE DEF t
      <3> QED  BY <1>2, <3>1, CleanIs, GoOnQueue
    <2> HIDE DEF k
    <2>11. ASSUME NEW n \in Nat \ {0}, Pending(t, "sessions", n)
           PROVE  Pending(k, "sessions", n)
      <3>1. <<"sessions", n>> \in t.todo => <<"sessions", n>> \in Rest(w)
        BY <1>1, <1>2, RestIs, SessionsIsPath
      <3>2. CASE out = t.outer /\ todo = Rest(w)
        BY <2>10, <2>11, <3>1, <3>2 DEF Pending
      <3>3. CASE out = outer
        BY <2>4, <2>10, <2>11, <3>1, <3>3 DEF Pending
      <3> QED  BY <2>2, <3>2, <3>3
    <2>12. task' = [task EXCEPT ![w] = k] /\ k.pc \in Places
      BY <2>2, <2>10 DEF k, Places
    <2> QED  BY <1>1, <2>1, <2>8, <2>9, <2>10, <2>11, <2>12, FlushCloses, Zenon DEF d
  <1> QED  BY <1>3, <1>4

(* Another import inserted the command: the row it is under has a marker.  *)
LEMMA CommandTakenCloses ==
  ASSUME IInv, IInv', Closing, NEW w \in Threads, CommandTaken(w)
  PROVE  Closing'
  <1> DEFINE t == task[w]
             y == GoOn(t, "look", Rest(w), t.outer)
  <1>1. PICK live \in BOOLEAN : live = (base.status[t.grant] = "active")
    OBVIOUS
  <1> DEFINE k == [y EXCEPT !.live = live]
  <1>2. /\ UNCHANGED <<log, shell, base>> /\ db' = base /\ lock' = None /\ t.pc = "write" /\ Free(w)
        /\ Entry(w).path = "commands" /\ t.found # 0 /\ <<t.found, Entry(w).num>> \in db.cmds
    BY DEF CommandTaken, host
  <1>3. /\ t \in Run /\ t.grant \in Grants /\ ~Away(t) /\ t.todo # {} /\ View(w) = db
        /\ Knows(t, db, log) /\ Chosen(w) /\ Finds(t, db) /\ t.got = Idle.got
        /\ None \notin Threads /\ lock \in {None, w} /\ (lock = None => db = base)
        /\ db \in Tables
    BY <1>2, Parts, FreeView, ClosingParts DEF Handler, Away, TypeOK
  <1>4. lock = None /\ db = base
    BY <1>2, <1>3 DEF Chosen
  <1>5. Marked(base, t.grant)
    <2>1. t.found \in Rows /\ base.row[t.found].grant = t.grant /\ Entry(w).num \in Numbers
      BY <1>2, <1>3, <1>4 DEF Run, Finds, Tables
    <2>2. Tidy(base, log, t.grant)
      BY <1>3, ClosingParts
    <2> QED  BY <1>2, <1>4, <2>1, <2>2, Zenon DEF Tidy
  <1>6. task' = [task EXCEPT ![w] = k]
    BY <1>1, <1>3 DEF CommandTaken, Goto, GoOn, Turn, Clean, Run
  <1>7. /\ y \in Run /\ y.pc = "look" /\ y.todo = Rest(w) /\ y.outer = t.outer /\ y.mark = Idle.mark
        /\ y.stale = {} /\ y.adopt = None /\ y.grant = t.grant /\ y.got = t.got /\ y.queue = t.queue
    <2>1. t.outer \in Stacks /\ Rest(w) \in Entries
      BY <1>3, RestIs DEF Run, Entries, Stacks
    <2> QED  BY <1>3, <2>1, CleanIs, GoOnQueue, Z3
  <1> HIDE DEF y
  <1>8. /\ k \in Run /\ k.pc = "look" /\ k.todo = Rest(w) /\ k.outer = t.outer /\ k.mark = Idle.mark
        /\ k.stale = {} /\ k.adopt = None /\ k.grant = t.grant /\ k.got = t.got /\ k.queue = t.queue
    <2>1. k \in Run
      BY <1>7 DEF Run
    <2> QED  BY <1>7, <2>1, Zenon DEF Run
  <1> HIDE DEF k
  <1>9. Knows(k, base, log)
    <2>1. Ready(k, base)
      BY <1>5, <1>8 DEF Ready
    <2> QED  BY <1>3, <1>4, <1>5, <1>8, <2>1, CleanMark DEF Knows, Away
  <1>10. Chosen(w)'
    <2>1. task'[w] = k
      BY <1>3, <1>6, Parts, Runs
    <2> QED  BY <1>8, <2>1 DEF Chosen
  <1>11. /\ InOrder(base) /\ \A g \in Grants : Tidy(base, log, g) /\ Grown(base, base, g)
         /\ \A g \in Grants : \A n \in 1..base.offset[g]["sessions"].end : Ended(base, log, g, n)
    BY ClosingParts, GrownItself DEF EndsPassed
  <1> QED  BY <1>2, <1>3, <1>4, <1>6, <1>8, <1>9, <1>10, <1>11, StepCloses, Zenon
-----------------------------------------------------------------------------
(* The steps that read.                                                    *)
LEMMA BeginKnows ==
  ASSUME IInv, NEW t \in Run, Handler(t, log), Away(t), NEW g \in Grants, NEW d, d.status[g] # "waiting",
         Knows(t, d, log),
         NEW close \in BOOLEAN, NEW live \in BOOLEAN, NEW k, k = Begin(t, g, close, live)
  PROVE  Knows(k, d, log) /\ k.pc = "commands" /\ k \in Run
  <1>1. /\ k.pc = "commands" /\ k.grant = g /\ k.adopt = None /\ k.stale = {} /\ k.mark = t.mark
        /\ k.got = Idle.got /\ k.outer = << >> /\ k \in Run
    BY BeginIs
  <1>2. k.queue = t.queue
    BY DEF Begin, Run
  <1> QED  BY <1>1, <1>2, CleanMark DEF Knows, Ready

LEMMA StartCloses ==
  ASSUME IInv, IInv', Closing, NEW w \in Threads, NEW g \in Grants,
         StartImport(w, g) \/ StartRevoke(w, g)
  PROVE  Closing'
  <1>1. PICK j \in {"import", "revoke"}, close \in BOOLEAN, live \in BOOLEAN :
          /\ task[w] = Idle /\ base.status[g] # "waiting"
          /\ task' = [task EXCEPT ![w] = Begin([Idle EXCEPT !.job = j], g, close, live)]
          /\ UNCHANGED <<log, shell, db, base, lock>>
    BY Zenon DEF StartImport, StartRevoke, Goto, host
  <1> DEFINE t == [Idle EXCEPT !.job = j]
             k == Begin(t, g, close, live)
  <1>2. t \in Run /\ Handler(t, log) /\ Away(t) /\ Knows(t, View(w), log)
    <2>1. /\ t.pc = "idle" /\ t.queue = {} /\ t.adopt = None /\ t.got = Idle.got /\ t.todo = {}
          /\ t.mark = Idle.mark /\ t.found = 0 /\ t.outer = << >> /\ t.stale = {} /\ t.grant = None
      BY Zenon DEF Idle
    <2>2. t \in Run
      BY IdleIsHandler, Zenon DEF Run
    <2> HIDE DEF t
    <2>3. Idle.mark["sessions"].len = Idle.mark["sessions"].end
      BY DEF Idle, NoOffset, Paths
    <2>4. Knows(t, View(w), log) /\ Away(t)
      BY <2>1, <2>3 DEF Knows, Away
    <2> QED  BY <2>1, <2>2, <2>4 DEF Handler, Away
  <1> HIDE DEF t
  <1>3. View(w).status[g] # "waiting"
    BY <1>1, ClosingParts DEF Grown
  <1>4. k \in Run /\ Knows(k, View(w), log) /\ k.pc = "commands"
    BY <1>2, <1>3, BeginKnows
  <1> HIDE DEF k
  <1>5. task' = [task EXCEPT ![w] = k] /\ task'[w] = k
    BY <1>1, Parts, Runs DEF k, t
  <1>6. Chosen(w)'
    BY <1>4, <1>5 DEF Chosen
  <1>7. \A n : ~Pending(task[w], "sessions", n)
    BY <1>1, IdleIsHandler
  <1> QED  BY <1>1, <1>4, <1>5, <1>6, <1>7, ReadCloses, Zenon

LEMMA QueuedKnows ==
  ASSUME NEW d, NEW l, NEW j, NEW q, \A g \in q : d.status[g] # "waiting"
  PROVE  Knows(Queued(j, q), d, l)
  BY DEF Queued, Idle, Knows, Away, NoOffset, Paths

LEMMA StartTickCloses ==
  ASSUME IInv, IInv', Closing, StartTick
  PROVE  Closing'
  <1> DEFINE w == Scheduler
             active == {g \in Grants : base.status[g] = "active"}
             k == Queued("tick", active)
  <1>1. w \in Threads /\ task[w] = Idle /\ task' = [task EXCEPT ![w] = k]
        /\ UNCHANGED <<log, shell, db, base, lock>>
    BY DEF StartTick, Goto, Threads, Queued, host
  <1>2. \A g \in active : View(w).status[g] # "waiting"
    <2> SUFFICES ASSUME NEW g \in Grants, base.status[g] = "active" PROVE View(w).status[g] # "waiting"
      OBVIOUS
    <2> QED  BY <1>1, ClosingParts DEF Grown
  <1>3. k \in Run /\ k.pc = "next" /\ Knows(k, View(w), log)
    <2>1. active \in SUBSET Grants
      OBVIOUS
    <2> HIDE DEF active
    <2> QED  BY <1>2, <2>1, QueuedIs, QueuedKnows
  <1> HIDE DEF k
  <1>4. Chosen(w)'
    <2>1. task'[w] = k
      BY <1>1, Parts, Runs
    <2> QED  BY <1>3, <2>1 DEF Chosen
  <1>5. \A n : ~Pending(task[w], "sessions", n)
    BY <1>1, IdleIsHandler
  <1> QED  BY <1>1, <1>3, <1>4, <1>5, ReadCloses, Zenon

LEMMA NextGrantCloses ==
  ASSUME IInv, IInv', Closing, NEW w \in Threads, NextGrant(w)
  PROVE  Closing'
  <1>1. PICK g \in task[w].queue :
          /\ task[w].pc = "next"
          /\ task' = [task EXCEPT ![w] = Begin([task[w] EXCEPT !.queue = @ \ {g}], g,
                                                task[w].job = "expire", TRUE)]
          /\ UNCHANGED <<log, shell, db, base, lock>>
    BY Zenon DEF NextGrant, Goto, host
  <1> DEFINE t == [task[w] EXCEPT !.queue = @ \ {g}]
  <1>2. /\ task[w] \in Run /\ Handler(task[w], log) /\ Away(task[w]) /\ g \in Grants
        /\ Knows(task[w], View(w), log) /\ View(w).status[g] # "waiting"
    BY <1>1, Parts, ClosingParts DEF Run, Away, Knows
  <1>3. t \in Run /\ Handler(t, log) /\ Away(t) /\ Knows(t, View(w), log)
    <2>1. t \in Run
      BY <1>2 DEF Run
    <2>2. /\ t.pc = "next" /\ t.outer = task[w].outer /\ t.todo = task[w].todo /\ t.got = task[w].got
          /\ t.stale = task[w].stale /\ t.adopt = task[w].adopt /\ t.found = task[w].found
          /\ t.queue \subseteq task[w].queue /\ t.mark = task[w].mark /\ t.grant = task[w].grant
      BY <1>1, <1>2 DEF Run
    <2> QED  BY <1>1, <1>2, <2>1, <2>2 DEF Handler, Away, Knows
  <1> HIDE DEF t
  <1>4. PICK close \in BOOLEAN, live \in BOOLEAN : close = (task[w].job = "expire") /\ live = TRUE
    BY Zenon
  <1> DEFINE k == Begin(t, g, close, live)
  <1>5. k \in Run /\ Knows(k, View(w), log) /\ k.pc = "commands"
    BY <1>2, <1>3, BeginKnows
  <1> HIDE DEF k
  <1>6. task' = [task EXCEPT ![w] = k] /\ task'[w] = k
    BY <1>1, <1>4, Parts, Runs, Zenon DEF t, k
  <1>7. Chosen(w)'
    BY <1>5, <1>6 DEF Chosen
  <1>8. \A n : ~Pending(task[w], "sessions", n)
    BY <1>2, AwayIsQuiet
  <1> QED  BY <1>1, <1>5, <1>6, <1>7, <1>8, ReadCloses, Zenon

(* The commands are fetched first: if there are any, so are events.        *)
LEMMA FetchCloses ==
  ASSUME IInv, IInv', Closing, NEW w \in Threads, FetchCommands(w) \/ FetchSessions(w)
  PROVE  Closing'
  <1> DEFINE t == task[w]
             d == View(w)
             a == Account[t.grant]
  <1>1. PICK p \in Paths, next \in {"sessions", "offsets"} :
          /\ t.pc = p /\ (next = "offsets" <=> p = "sessions")
          /\ task' = [task EXCEPT ![w] = [t EXCEPT !.pc = next, !.got[p] = log[a][p]]]
          /\ UNCHANGED <<log, shell, db, base, lock>>
    BY DEF FetchCommands, FetchSessions, Fetch, Goto, Paths, host
  <1> DEFINE f == log[a][p]
             k == [t EXCEPT !.pc = next, !.got = [t.got EXCEPT ![p] = f]]
  <1>2. /\ t \in Run /\ Handler(t, log) /\ ~Away(t) /\ t.grant \in Grants /\ Knows(t, d, log)
        /\ a \in Accounts /\ Reports(log[a]) /\ log \in [Accounts -> [Paths -> File]]
    <2>1. t \in Run /\ Handler(t, log) /\ ~Away(t) /\ t.grant \in Grants
      BY <1>1, Parts, Zenon DEF Handler, Away, Paths
    <2> QED  BY <2>1, ClosingParts, LogAssumption
  <1>3. task' = [task EXCEPT ![w] = k] /\ f \in File
    BY <1>1, <1>2
  <1> HIDE DEF f, a
  <1>4. /\ k \in Run /\ k.pc = next /\ k.outer = t.outer /\ k.todo = t.todo /\ k.queue = t.queue
        /\ k.stale = t.stale /\ k.adopt = t.adopt /\ k.grant = t.grant /\ k.mark = t.mark
        /\ \A q \in Paths : k.got[q] = IF q = p THEN f ELSE t.got[q]
    BY <1>2, <1>3, Zenon DEF Run
  <1> HIDE DEF k
  <1>5. t.stale = {} /\ t.adopt = None
    BY <1>1, <1>2, Zenon DEF Handler, Paths
  <1>6. k.got["sessions"].cut = 0
    BY <1>2, <1>4, SessionsIsPath DEF Knows, Reports, f
  <1>7. ASSUME next = "offsets", Len(k.got["commands"].line) > 0
        PROVE  Len(k.got["sessions"].line) > 0
    <2>1. k.got["sessions"] = log[a]["sessions"] /\ k.got["commands"] = t.got["commands"]
      BY <1>1, <1>4, <1>7, SessionsIsPath DEF f
    <2>2. Len(t.got["commands"].line) <= Len(log[a]["commands"].line)
      BY <1>2, SessionsIsPath, Zenon DEF Handler, Older, a
    <2>3. Len(t.got["commands"].line) \in Nat /\ Len(log[a]["commands"].line) \in Nat
      <3>1. t.got["commands"] \in File /\ log[a]["commands"] \in File
        BY <1>2, SessionsIsPath DEF Run
      <3> QED  BY <3>1 DEF File
    <2>4. Len(log[a]["commands"].line) > 0
      BY <1>7, <2>1, <2>2, <2>3
    <2> QED  BY <1>2, <2>1, <2>4 DEF Reports
  <1>8. Knows(k, d, log) /\ Chosen(w)'
    <2>1. task'[w] = k
      BY <1>3, Parts, Runs
    <2>2. Chosen(w)'
      BY <1>4, <2>1 DEF Chosen
    <2> QED  BY <1>2, <1>4, <1>5, <1>6, <1>7, <2>2 DEF Knows, Ready
  <1>9. \A n : Pending(t, "sessions", n) => Pending(k, "sessions", n)
    BY <1>4 DEF Pending
  <1> QED  BY <1>1, <1>3, <1>4, <1>8, <1>9, ReadCloses, Zenon

(* What the new offset passes over was passed before, or is to do.         *)
LEMMA ReadKnows ==
  ASSUME IInv, Closing, NEW w \in Threads, task[w].pc \in {"offsets", "insert"},
         NEW off \in [Paths -> Offset], NEW k, k = Read(task[w], off),
         off["sessions"].len = off["sessions"].end,
         off["sessions"].end > 0 => Marked(View(w), task[w].grant),
         \A n \in 1..off["sessions"].end :
           Ended(View(w), log, task[w].grant, n) \/ Pending(task[w], "sessions", n)
  PROVE  Knows(k, View(w), log)
  <1> DEFINE t == task[w]
             d == View(w)
             f == t.got["sessions"]
             o == off["sessions"]
  <1>1. /\ t \in Run /\ t.grant \in Grants /\ t.todo = {} /\ ~Away(t) /\ Knows(t, d, log)
    BY Parts, ClosingParts DEF Handler, Away
  <1>2. /\ k \in Run /\ k.pc = "look" /\ k.grant = t.grant /\ k.adopt = None /\ k.outer = t.outer
        /\ Handler(k, log)
        /\ \A p \in Paths : /\ k.mark[p].end = Len(t.got[p].line)
                            /\ k.mark[p].len = Len(t.got[p].line) - t.got[p].cut
        /\ \A p \in Paths, n \in Nat : <<p, n>> \in k.todo <=> n \in Fresh(t.got[p], off[p])
    BY ReadIs
  <1>3. k.queue = t.queue
    BY <1>1 DEF Read, Run
  <1>4. /\ f \in File /\ t.got["commands"] \in File /\ f.cut = 0 /\ Len(f.line) \in Nat
        /\ o.len \in Nat /\ o.end = o.len /\ off["commands"] \in Offset /\ o \in Offset
        /\ t.got["commands"].cut \in Nat /\ Len(t.got["commands"].line) \in Nat
    <2>1. f \in File /\ t.got["commands"] \in File /\ off["commands"] \in Offset /\ o \in Offset
      BY <1>1, SessionsIsPath DEF Run
    <2>2. f.cut = 0
      BY <1>1 DEF Knows
    <2>3. /\ Len(f.line) \in Nat /\ t.got["commands"].cut \in Nat
          /\ Len(t.got["commands"].line) \in Nat
      BY <2>1 DEF File
    <2> HIDE DEF f
    <2> QED  BY <2>1, <2>2, <2>3 DEF Offset
  <1>5. \A n \in Nat : <<"sessions", n>> \in k.todo <=>
          n > 0 /\ n <= Len(f.line) /\ (o.len > Len(f.line) \/ n > o.len)
    <2>1. \A n \in Nat : <<"sessions", n>> \in k.todo <=> n \in Fresh(f, o)
      BY <1>2, SessionsIsPath
    <2> HIDE DEF f, o
    <2>2. \A n \in Nat : n \in Fresh(f, o) <=>
            n > 0 /\ n <= Len(f.line) /\ (o.len > Len(f.line) - 0 \/ n > 0 + o.len)
      BY <1>4, FreshIs
    <2>3. Len(f.line) - 0 = Len(f.line) /\ 0 + o.len = o.len
      BY <1>4
    <2> QED  BY <2>1, <2>2, <2>3
  <1>6. \A n \in Nat : <<"commands", n>> \in k.todo => n > 0 /\ n <= Len(t.got["commands"].line)
    <2>1. \A n \in Nat : <<"commands", n>> \in k.todo <=> n \in Fresh(t.got["commands"], off["commands"])
      BY <1>2, SessionsIsPath
    <2>2. \A n \in Nat : n \in Fresh(t.got["commands"], off["commands"]) =>
            n > t.got["commands"].cut /\ n <= Len(t.got["commands"].line)
      BY <1>4, FreshIs
    <2> QED  BY <1>4, <2>1, <2>2
  <1>7. /\ k.mark["sessions"].end = Len(f.line)
        /\ k.mark["sessions"].len = k.mark["sessions"].end
    BY <1>2, <1>4, SessionsIsPath
  <1>8. k.got = Idle.got
    BY <1>2 DEF Handler
  <1>9. Ready(k, d)
    <2>1. CASE o.end > 0
      BY <1>2, <2>1 DEF Ready
    <2>2. CASE ~(o.end > 0) /\ Len(f.line) > 0
      <3>1. <<"sessions", 1>> \in k.todo
        <4>1. o.len = 0
          BY <1>4, <2>2
        <4> HIDE DEF f, o
        <4> QED  BY <1>4, <1>5, <2>2, <4>1
      <3> QED  BY <1>2, <3>1 DEF Ready
    <2>3. CASE ~(Len(f.line) > 0)
      <3>1. Len(f.line) = 0 /\ Len(t.got["commands"].line) = 0
        <4>1. ~(Len(t.got["commands"].line) > 0)
          BY <1>1, <2>3 DEF Knows
        <4> QED  BY <1>4, <2>3, <4>1
      <3>2. ASSUME NEW y \in k.todo PROVE FALSE
        <4>1. PICK p \in Paths, n \in Nat : y = <<p, n>>
          BY <1>2, <3>2 DEF Run
        <4>2. n > 0 /\ n <= 0
          <5>1. CASE p = "sessions"
            BY <1>5, <3>1, <4>1, <5>1
          <5>2. CASE p = "commands"
            BY <1>6, <3>1, <4>1, <5>2
          <5> QED  BY <5>1, <5>2 DEF Paths
        <4> QED  BY <4>2
      <3> QED  BY <1>2, <1>7, <3>1, <3>2 DEF Ready
    <2> QED  BY <2>1, <2>2, <2>3
  <1>10. ASSUME NEW n \in 1..k.mark["sessions"].end
         PROVE  Ended(d, log, t.grant, n) \/ Pending(k, "sessions", n)
    <2>0. n \in Nat /\ n > 0 /\ n <= Len(f.line)
      BY <1>4, <1>7
    <2>1. CASE o.len > Len(f.line) \/ n > o.len
      BY <1>5, <2>0, <2>1 DEF Pending
    <2>2. CASE ~(o.len > Len(f.line) \/ n > o.len)
      <3>1. n \in 1..o.end
        <4> HIDE DEF f, o
        <4> QED  BY <1>4, <2>0, <2>2
      <3>2. Ended(d, log, t.grant, n) \/ Pending(t, "sessions", n)
        BY <3>1
      <3> QED  BY <1>1, <1>2, <3>2 DEF Pending
    <2> QED  BY <2>1, <2>2
  <1> QED  BY <1>1, <1>2, <1>3, <1>7, <1>8, <1>9, <1>10, CleanMark, Zenon DEF Knows

LEMMA ReadOffsetsCloses ==
  ASSUME IInv, IInv', Closing, NEW w \in Threads, ReadOffsets(w)
  PROVE  Closing'
  <1> DEFINE t == task[w]
             d == View(w)
             off == d.offset[t.grant]
             x == [t EXCEPT !.pc = "insert"]
  <1>1. /\ t.pc = "offsets" /\ t \in Run /\ t.todo = {} /\ ~Away(t) /\ t.grant \in Grants
        /\ d \in Tables /\ Knows(t, d, log) /\ Tidy(d, log, t.grant) /\ t.stale = {} /\ t.adopt = None
    <2>1. t.pc = "offsets" /\ t \in Run /\ t.todo = {} /\ ~Away(t) /\ t.grant \in Grants
          /\ d \in Tables /\ t.stale = {} /\ t.adopt = None
      BY Parts DEF ReadOffsets, Handler, Away
    <2> QED  BY <2>1, ClosingParts
  <1>2. UNCHANGED <<log, shell, db, base, lock>>
    BY DEF ReadOffsets, host
  <1>3. PICK k \in {Read(t, off), x} : task' = [task EXCEPT ![w] = k]
    BY DEF ReadOffsets, Goto
  <1>4. off \in [Paths -> Offset]
    BY <1>1 DEF Tables
  <1>5. CASE k = Read(t, off)
    <2>1. /\ off["sessions"].len = off["sessions"].end
          /\ off["sessions"].end > 0 => Marked(d, t.grant)
      BY <1>1, Zenon DEF Tidy
    <2>2. \A n \in 1..off["sessions"].end : Ended(d, log, t.grant, n) \/ Pending(t, "sessions", n)
      BY <1>1, EndedOrHeld
    <2> HIDE DEF off, d, x
    <2>3. /\ k \in Run /\ k.pc = "look" /\ k.grant = t.grant /\ k.outer = t.outer
      BY <1>1, <1>4, <1>5, ReadIs
    <2>4. Knows(k, d, log)
      BY <1>1, <1>4, <1>5, <2>1, <2>2, ReadKnows DEF d
    <2>5. \A n : Pending(t, "sessions", n) => Pending(k, "sessions", n)
      BY <1>1, <2>3 DEF Pending
    <2>6. Chosen(w)'
      <3>1. task'[w] = k
        BY <1>3, Parts, Runs
      <3> QED  BY <2>3, <3>1 DEF Chosen
    <2> QED  BY <1>2, <1>3, <2>3, <2>4, <2>5, <2>6, ReadCloses, Zenon DEF d
  <1>6. CASE k = x
    <2>1. /\ x \in Run /\ x.pc = "insert" /\ x.grant = t.grant /\ x.outer = t.outer /\ x.todo = t.todo
          /\ x.got = t.got /\ x.stale = t.stale /\ x.adopt = t.adopt /\ x.mark = t.mark
          /\ x.queue = t.queue
      BY <1>1, Z3 DEF Run
    <2> HIDE DEF x, off
    <2>2. Knows(x, d, log)
      BY <1>1, <2>1 DEF Knows, Ready, Away
    <2>3. Chosen(w)'
      <3>1. task'[w] = x
        BY <1>3, <1>6, Parts, Runs
      <3> QED  BY <2>1, <3>1 DEF Chosen
    <2>4. \A n : Pending(t, "sessions", n) => Pending(x, "sessions", n)
      BY <2>1 DEF Pending
    <2> QED  BY <1>2, <1>3, <1>6, <2>1, <2>2, <2>3, <2>4, ReadCloses, Zenon
  <1> QED  BY <1>3, <1>5, <1>6

LEMMA SameTidy ==
  ASSUME NEW d, NEW e, e.row = d.row, e.cmds = d.cmds, e.offset = d.offset,
         \A g \in Grants : d.status[g] = "waiting" <=> e.status[g] = "waiting",
         InOrder(d), NEW l, \A g \in Grants : Tidy(d, l, g)
  PROVE  InOrder(e) /\ \A g \in Grants : Tidy(e, l, g) /\ Grown(d, e, g)
  <1>1. InOrder(e)
    BY DEF InOrder
  <1>2. ASSUME NEW g \in Grants PROVE Tidy(e, l, g) /\ Grown(d, e, g)
    <2>1. FirstRow(e, g) = FirstRow(d, g) /\ (Marked(d, g) <=> Marked(e, g))
      BY SameFirst DEF Marked
    <2>2. Tidy(e, l, g)
      BY <2>1 DEF Tidy
    <2>3. Grown(d, e, g)
      BY DEF Grown
    <2> QED  BY <2>2, <2>3
  <1> QED  BY <1>1, <1>2

LEMMA InsertOffsetsCloses ==
  ASSUME IInv, IInv', Closing, NEW w \in Threads, InsertOffsets(w)
  PROVE  Closing'
  <1> DEFINE t == task[w]
             off == [p \in Paths |-> NoOffset]
             k == Read(t, off)
  <1>1. /\ t.pc = "insert" /\ t \in Run /\ t.todo = {} /\ ~Away(t) /\ t.grant \in Grants
        /\ View(w) = db /\ lock \in {None, w} /\ db \in Tables
        /\ InOrder(db) /\ \A g \in Grants : Tidy(db, log, g)
        /\ log \in [Accounts -> [Paths -> File]]
    BY Parts, FreeView, ClosingParts DEF InsertOffsets, Handler, Away
  <1>2. UNCHANGED <<log, shell, base>>
    BY DEF InsertOffsets, host
  <1>3. CASE t.grant \in db.known
    BY <1>2, <1>3, AbortCloses DEF InsertOffsets
  <1>4. CASE t.grant \notin db.known
    <2>0. PICK e : e = [db EXCEPT !.known = @ \cup {t.grant}]
      BY Zenon
    <2>1. db' = e /\ lock' = w /\ task' = [task EXCEPT ![w] = k]
      BY <1>4, <2>0 DEF InsertOffsets, Goto
    <2>2. /\ e \in Tables /\ e.offset = db.offset /\ e.row = db.row /\ e.cmds = db.cmds
          /\ e.status = db.status
      BY <1>1, <2>0, Zenon DEF Tables
    <2>3. InOrder(e) /\ \A g \in Grants : Tidy(e, log, g) /\ Grown(db, e, g)
      BY <1>1, <2>2, SameTidy
    <2>4. /\ off \in [Paths -> Offset] /\ off["sessions"].len = 0 /\ off["sessions"].end = 0
      BY DEF NoOffset, Offset, Paths
    <2> HIDE DEF off
    <2>5. k \in Run /\ k.pc = "look" /\ k.grant = t.grant /\ k.outer = t.outer /\ Handler(k, log)
      BY <1>1, <2>4, ReadIs
    <2>6. Knows(k, db, log)
      BY <1>1, <2>4, ReadKnows
    <2> HIDE DEF k
    <2>7. Knows(k, e, log)
      BY <1>1, <2>2, <2>3, <2>5, <2>6, GrownKnows, Zenon
    <2>8. ASSUME NEW g \in Grants, NEW n \in 1..e.offset[g]["sessions"].end
          PROVE  Ended(e, log, g, n) \/ (k.grant = g /\ Pending(k, "sessions", n))
      <3>1. Ended(db, log, g, n) \/ (t.grant = g /\ Pending(t, "sessions", n))
        BY <1>1, <2>2, EndedOrHeld
      <3>2. n \in Nat \ {0}
        <4>1. e.offset[g]["sessions"].end \in Nat
          BY <2>2, SessionsIsPath DEF Tables, Offset
        <4> QED  BY <4>1
      <3>3. Ended(db, log, g, n) => Ended(e, log, g, n)
        BY <1>1, <2>2, <2>3, <3>2, GrownEnded
      <3>4. Pending(t, "sessions", n) => Pending(k, "sessions", n)
        BY <1>1, <2>5 DEF Pending
      <3> QED  BY <2>5, <3>1, <3>3, <3>4
    <2> QED  BY <1>1, <1>2, <2>1, <2>2, <2>3, <2>5, <2>7, <2>8, WriteCloses, Zenon
  <1> QED  BY <1>3, <1>4

(* A handler goes on: the row without a marker gets one.                   *)
LEMMA LookCloses ==
  ASSUME IInv, IInv', Closing, NEW w \in Threads, Look(w)
  PROVE  Closing'
  <1> DEFINE t == task[w]
             d == View(w)
             g == t.grant
  <1>1. /\ t.pc = "look" /\ t \in Run /\ Handler(t, log) /\ ~Away(t) /\ g \in Grants /\ d \in Tables
        /\ t.found = 0 /\ t.got = Idle.got
    BY Parts, Zenon DEF Look, Handler, Away
  <1>2. /\ Knows(t, d, log) /\ Ready(t, d) /\ Tidy(d, log, g) /\ UNCHANGED <<log, shell, db, base, lock>>
    BY <1>1, ClosingParts, Zenon DEF Knows, Look, host
  <1>3. ASSUME NEW k \in Run, task' = [task EXCEPT ![w] = k], Knows(k, d, log), Chosen(w)',
               k.grant = g,
               \A n \in Nat \ {0} : Pending(t, "sessions", n) =>
                 Pending(k, "sessions", n) \/ Ended(d, log, g, n)
        PROVE  Closing'
    BY <1>2, <1>3, ReadCloses, Zenon
  <1>4. CASE t.todo = {}
    <2> DEFINE k == [t EXCEPT !.pc = "finish"]
    <2>1. task' = [task EXCEPT ![w] = k]
      BY <1>4 DEF Look, Goto
    <2>2. /\ k \in Run /\ k.pc = "finish" /\ k.grant = g /\ k.outer = t.outer /\ k.todo = t.todo
          /\ k.got = t.got /\ k.stale = t.stale /\ k.adopt = t.adopt /\ k.queue = t.queue
          /\ k.mark = t.mark
      BY <1>1 DEF Run
    <2> HIDE DEF k
    <2>3. Ready(k, d)
      BY <1>1, <1>2, <1>4, <2>2 DEF Ready
    <2>4. \A n : Pending(t, "sessions", n) => Pending(k, "sessions", n)
      BY <2>2 DEF Pending
    <2>5. Knows(k, d, log)
      BY <1>1, <1>2, <2>2, <2>3, <2>4 DEF Knows, Away
    <2>6. Chosen(w)'
      <3>1. task'[w] = k
        BY <2>1, Parts, Runs
      <3> QED  BY <2>2, <3>1 DEF Chosen
    <2> QED  BY <1>3, <2>1, <2>2, <2>4, <2>5, <2>6, Zenon
  <1>5. CASE t.todo # {}
    <2>0. PICK r : r \in SessionsOf(w, Entry(w)) /\ LookAt(w, r)
      BY <1>5 DEF Look
    <2> DEFINE e == Entry(w)
               s == e.line.shell
               done == \/ e.line.kind = "started" /\ r # 0
                       \/ e.path = "commands" /\ <<r, e.num>> \in d.cmds
               adopt == IF r # 0 /\ Marker(w, r) = None THEN s ELSE t.adopt
    <2>1. /\ e.path \in Paths /\ e.num \in Nat /\ <<e.path, e.num>> \in t.todo
          /\ e.line \in Line /\ s \in Shells /\ s # None
          /\ e.num \in 1..Len(log[Account[g]][e.path].line)
          /\ e.line = log[Account[g]][e.path].line[e.num]
          /\ e.path = "commands" => \A y \in t.todo : y[1] = "commands"
          /\ \A y \in t.todo : y[1] = e.path => e.num <= y[2]
      <3>1. e.line \in Line
        BY <1>1, <1>5, EntryIs, Zenon
      <3>2. s \in Shells /\ s # None
        BY <3>1, LogAssumption DEF Line
      <3> QED  BY <1>1, <1>5, <3>1, <3>2, EntryIs, Zenon
    <2>2. Rest(w) = t.todo \ {<<e.path, e.num>>}
      BY DEF Rest
    <2>3. /\ task' \in {[task EXCEPT ![w] = [t EXCEPT !.adopt = adopt, !.todo = Rest(w)]],
                        [task EXCEPT ![w] = [t EXCEPT !.adopt = adopt, !.pc = "write", !.found = r]]}
          /\ done => task' = [task EXCEPT ![w] = [t EXCEPT !.adopt = adopt, !.todo = Rest(w)]]
          /\ ~done => task' = [task EXCEPT ![w] = [t EXCEPT !.adopt = adopt, !.pc = "write", !.found = r]]
      BY <2>0 DEF LookAt, Goto
    <2>4. /\ r \in Rows \cup {0} /\ 0 \notin Rows
          /\ r # 0 => /\ d.row[r].grant = g
                      /\ Marker(w, r) = s \/ (r = FirstRow(d, g) /\ Marker(w, r) = None)
          /\ r = 0 => /\ \A q \in Rows : d.row[q].grant = g => Marker(w, q) # s
                      /\ FirstRow(d, g) # 0 => Marker(w, FirstRow(d, g)) # None
      <3>1. r \in Matching(w, s)
        BY <2>0 DEF SessionsOf
      <3> HIDE DEF s
      <3> QED  BY <3>1, MatchingIs, RowNumbers
    <2>5. \A q : Marker(w, q) = MarkerOf(t, d, q)
      BY DEF Marker, MarkerOf
    <2> HIDE DEF e, s
    <2>6. (e.path = "sessions" /\ e.num = 1) \/ Marked(d, g) \/ t.adopt # None
      <3>1. CASE <<"sessions", 1>> \in t.todo
        <4>1. e.path = "sessions"
          BY <2>1, <3>1, Zenon DEF Paths
        <4>2. e.num <= 1 /\ e.num > 0
          <5>1. log[Account[g]][e.path] \in File
            <6>1. Account[g] \in Accounts
              BY <1>1, LogAssumption, Zenon
            <6>2. log \in [Accounts -> [Paths -> File]]
              BY Zenon DEF IInv, TypeOK
            <6> QED  BY <2>1, <6>1, <6>2, Zenon
          <5>2. Len(log[Account[g]][e.path].line) \in Nat
            BY <5>1 DEF File
          <5>3. e.num <= 1
            BY <2>1, <3>1, <4>1, Zenon
          <5> QED  BY <2>1, <5>2, <5>3
        <4> QED  BY <2>1, <4>1, <4>2
      <3> QED  BY <1>1, <1>2, <1>5, <3>1 DEF Ready
    <2>a. /\ r # 0 /\ Marker(w, r) = None => adopt = s
          /\ ~(r # 0 /\ Marker(w, r) = None) => adopt = t.adopt
      OBVIOUS
    <2>b. t.adopt # None => adopt # None
      BY <2>1, <2>a, Zenon
    <2> HIDE DEF adopt
    <2>7. Marked(d, g) \/ adopt # None
      <3> SUFFICES ASSUME ~Marked(d, g), t.adopt = None PROVE adopt # None
        BY <2>b
      <3>1. PICK q \in Rows : d.row[q].grant = g /\ d.row[q].shell = None
        BY DEF Marked
      <3>2. \A z \in Rows : d.row[z].grant = g => z = q
        BY <1>2, <3>1, Zenon DEF Tidy
      <3>3. FirstRow(d, g) = q /\ q # 0
        BY <2>4, <3>1, <3>2, FirstRowIs
      <3>4. MarkerOf(t, d, q) = None
        BY <3>1 DEF MarkerOf
      <3>5. r # 0 /\ r = q
        BY <2>4, <2>5, <3>2, <3>3, <3>4
      <3> QED  BY <2>1, <2>5, <2>a, <3>4, <3>5, Zenon
    <2>8. adopt # None => g \in Launched /\ Begun(log, g) /\ adopt = First(log, g)
      <3>1. CASE r # 0 /\ Marker(w, r) = None
        <4>1. r \in Rows /\ d.row[r].grant = g /\ r = FirstRow(d, g)
          BY <2>1, <2>4, <3>1, Zenon
        <4>2. t.adopt = None /\ d.row[r].shell = None
          BY <2>5, <3>1, <4>1 DEF MarkerOf
        <4>3. e.path = "sessions" /\ e.num = 1
          BY <2>6, <4>1, <4>2 DEF Marked
        <4>4. Begun(log, g)
          <5>1. log[Account[g]]["sessions"] \in File
            BY <1>1, LogAssumption, SessionsIsPath, ClosingParts
          <5>2. Len(log[Account[g]]["sessions"].line) \in Nat
            BY <5>1, Z3 DEF File
          <5>3. 1 \in 1..Len(log[Account[g]]["sessions"].line)
            BY <2>1, <4>3, Zenon
          <5> QED  BY <5>2, <5>3 DEF Begun
        <4>5. g \in Launched
          BY <1>2, <4>1, <4>2, Zenon DEF Tidy
        <4>6. adopt = s
          BY <2>a, <3>1
        <4>7. s = First(log, g)
          BY <2>1, <4>3, Zenon DEF First, s
        <4> QED  BY <4>4, <4>5, <4>6, <4>7
      <3>2. CASE ~(r # 0 /\ Marker(w, r) = None)
        BY <1>1, <1>2, <2>a, <3>2 DEF Knows
      <3> QED  BY <3>1, <3>2
    <2>10. adopt \in Shells \cup {None}
      BY <1>1, <2>1, <2>a, Zenon DEF Run
    <2>11. CASE done
      <3> DEFINE k == [t EXCEPT !.adopt = adopt, !.todo = Rest(w)]
      <3>1. task' = [task EXCEPT ![w] = k]
        BY <2>3, <2>11
      <3>2. /\ k \in Run /\ k.pc = "look" /\ k.grant = g /\ k.outer = t.outer /\ k.todo = Rest(w)
            /\ k.got = t.got /\ k.stale = t.stale /\ k.adopt = adopt /\ k.mark = t.mark /\ k.queue = t.queue
        BY <1>1, <2>2, <2>10 DEF Run
      <3> HIDE DEF k
      <3>3. ASSUME NEW n \in Nat \ {0}, Pending(t, "sessions", n)
            PROVE  Pending(k, "sessions", n) \/ Ended(d, log, g, n)
        <4>1. CASE e.path = "sessions" /\ e.num = n
          <5>1. e.line.kind = "started"
            BY <2>11, <4>1
          <5>2. log[Account[g]]["sessions"] \in File
            BY <1>1, LogAssumption, SessionsIsPath, ClosingParts
          <5>3. Len(log[Account[g]]["sessions"].line) \in Nat
            BY <5>2 DEF File
          <5>4. n <= Len(log[Account[g]]["sessions"].line)
            BY <2>1, <4>1, <5>3
          <5>5. log[Account[g]]["sessions"].line[n].kind # "finished"
            BY <2>1, <4>1, <5>1, Zenon
          <5> QED  BY <5>4, <5>5, Zenon DEF Ended
        <4>2. CASE ~(e.path = "sessions" /\ e.num = n)
          BY <2>2, <3>2, <3>3, <4>2 DEF Pending
        <4> QED  BY <4>1, <4>2
      <3>4. Ready(k, d)
        BY <2>7, <3>2 DEF Ready
      <3>5. ASSUME "sessions" \in k.stale, NEW n \in 1..k.mark["sessions"].end
            PROVE  Ended(d, log, g, n) \/ Pending(k, "sessions", n)
        <4>1. n \in Nat \ {0}
          <5>1. k.mark["sessions"].end \in Nat
            BY <3>2, SessionsIsPath DEF Run, Offset
          <5> QED  BY <5>1
        <4>2. Ended(d, log, g, n) \/ Pending(t, "sessions", n)
          BY <1>1, <1>2, <3>2, <3>5 DEF Knows
        <4> QED  BY <3>3, <4>1, <4>2
      <3>6. Knows(k, d, log)
        BY <1>1, <1>2, <2>8, <3>2, <3>4, <3>5 DEF Knows, Away
      <3>7. Chosen(w)'
        <4>1. task'[w] = k
          BY <3>1, Parts, Runs
        <4> QED  BY <3>2, <4>1 DEF Chosen
      <3> QED  BY <1>3, <3>1, <3>2, <3>3, <3>6, <3>7, Zenon
    <2>12. CASE ~done
      <3> DEFINE k == [t EXCEPT !.adopt = adopt, !.pc = "write", !.found = r]
      <3>1. task' = [task EXCEPT ![w] = k]
        BY <2>3, <2>12
      <3>2. /\ k \in Run /\ k.pc = "write" /\ k.grant = g /\ k.outer = t.outer /\ k.todo = t.todo
            /\ k.got = t.got /\ k.stale = t.stale /\ k.adopt = adopt /\ k.mark = t.mark
            /\ k.queue = t.queue /\ k.found = r
        BY <1>1, <2>4, <2>10 DEF Run
      <3> HIDE DEF k
      <3>3. \A n : Pending(t, "sessions", n) <=> Pending(k, "sessions", n)
        BY <3>2 DEF Pending
      <3>4. Ready(k, d)
        BY <2>7, <3>2 DEF Ready
      <3>5. Knows(k, d, log)
        BY <1>1, <1>2, <2>8, <3>2, <3>3, <3>4 DEF Knows, Away
      <3>6. r # 0 => MarkerOf(k, d, r) = s
        <4> SUFFICES ASSUME r # 0 PROVE MarkerOf(k, d, r) = s
          OBVIOUS
        <4>1. CASE Marker(w, r) = None
          <5>1. adopt = s /\ r = FirstRow(d, g)
            BY <2>1, <2>4, <2>a, <4>1, Zenon
          <5> QED  BY <2>1, <3>2, <5>1, Zenon DEF MarkerOf
        <4>2. CASE Marker(w, r) # None
          <5>1. adopt = t.adopt /\ MarkerOf(t, d, r) = s
            BY <2>4, <2>5, <2>a, <4>2
          <5> QED  BY <3>2, <5>1 DEF MarkerOf
        <4> QED  BY <4>1, <4>2
      <3>7. Chosen(w)'
        <4>1. task'[w] = k
          BY <3>1, Parts, Runs
        <4>2. Entry(w)' = e
          BY <1>2, <3>2, <4>1, Zenon DEF Entry, e
        <4>3. View(w)' = d /\ db' = db /\ lock' = lock
          BY <1>2 DEF View
        <4>4. e.path = "commands" /\ lock = w => <<r, e.num>> \notin db.cmds
          BY <2>12 DEF View
        <4>5. e.line.kind = "started" => r = 0
          BY <2>12
        <4> HIDE DEF done, d, t
        <4> QED  BY <3>2, <3>6, <4>1, <4>2, <4>3, <4>4, <4>5 DEF Chosen, s
      <3> QED  BY <1>3, <3>1, <3>2, <3>3, <3>5, <3>7, Zenon
    <2> QED  BY <2>11, <2>12
  <1> QED  BY <1>4, <1>5

(* The grant is closed; an interrupted import goes on.                     *)
LEMMA RemoveCloses ==
  ASSUME IInv, IInv', Closing, NEW w \in Threads, Remove(w)
  PROVE  Closing'
  <1> DEFINE t == task[w]
             stop == [t EXCEPT !.pc = "next"]
  <1>0. PICK e : e = [db EXCEPT !.status[t.grant] = "closed"]
    BY Zenon
  <1>1. PICK k : k = IF t.outer # << >> THEN Resume(t) ELSE stop
    BY Zenon
  <1>2. /\ t \in Run /\ ~Away(t) /\ t.grant \in Grants /\ t.todo = {} /\ t.stale = {} /\ t.adopt = None
        /\ t.pc = "remove" /\ lock = w /\ db \in Tables /\ View(w) = db /\ t.got = Idle.got
    BY Parts, Zenon DEF Remove, Handler, Away, TypeOK, View
  <1>3. UNCHANGED <<log, shell, base, lock>> /\ db' = e /\ task' = [task EXCEPT ![w] = k]
    BY <1>0, <1>1, <1>2 DEF Remove, Goto, Resume, Run
  <1>4. /\ Knows(t, db, log) /\ InOrder(db) /\ \A g \in Grants : Tidy(db, log, g)
    BY <1>2, ClosingParts
  <1>5. /\ e \in Tables /\ e.row = db.row /\ e.cmds = db.cmds /\ e.offset = db.offset
        /\ \A g \in Grants : e.status[g] = IF g = t.grant THEN "closed" ELSE db.status[g]
    BY <1>0, <1>2, Zenon DEF Tables
  <1>6. \A g \in Grants : db.status[g] = "waiting" <=> e.status[g] = "waiting"
    BY <1>2, <1>4, <1>5 DEF Knows
  <1>7. InOrder(e) /\ \A g \in Grants : Tidy(e, log, g) /\ Grown(db, e, g)
    BY <1>4, <1>5, <1>6, SameTidy
  <1>8. /\ k \in Run /\ k.pc \in {"look", "next"} /\ (k.pc = "look" => t.outer # << >>)
        /\ k.grant = t.grant /\ k.stale = {} /\ k.adopt = None /\ k.mark = t.mark /\ k.queue = t.queue
        /\ k.got = t.got
        /\ \A n : Pending(t, "sessions", n) => Pending(k, "sessions", n)
    <2>1. CASE t.outer # << >>
      <3>1. k = Resume(t)
        BY <1>1, <2>1
      <3>2. /\ k \in Run /\ k.pc = "look" /\ k.grant = t.grant /\ k.stale = t.stale /\ k.adopt = t.adopt
            /\ k.got = t.got
            /\ \A i \in DOMAIN t.outer : t.outer[i] = k.todo \/ \E j \in DOMAIN k.outer : t.outer[i] = k.outer[j]
        BY <1>2, <2>1, <3>1, ResumeIs
      <3>3. k.mark = t.mark /\ k.queue = t.queue
        BY <1>2, <3>1 DEF Resume, Run
      <3> QED  BY <1>2, <2>1, <3>2, <3>3 DEF Pending
    <2>2. CASE t.outer = << >>
      <3>1. k = stop
        BY <1>1, <2>2
      <3>2. /\ k \in Run /\ k.pc = "next" /\ k.grant = t.grant /\ k.stale = t.stale /\ k.adopt = t.adopt
            /\ k.mark = t.mark /\ k.queue = t.queue /\ k.todo = t.todo /\ k.outer = t.outer
            /\ k.got = t.got
        BY <1>2, <3>1, SMTT(40) DEF Run
      <3> QED  BY <1>2, <3>2 DEF Pending
    <2> QED  BY <2>1, <2>2
  <1> HIDE DEF stop
  <1>9. Knows(k, e, log)
    <2>1. \A g \in k.queue : e.status[g] # "waiting"
      <3>1. t.queue \subseteq Grants
        BY <1>2 DEF Run
      <3> QED  BY <1>4, <1>6, <1>8, <3>1 DEF Knows
    <2>2. k.pc = "look" => Marked(e, t.grant)
      BY <1>2, <1>4, <1>5, <1>8 DEF Knows, Marked
    <2>3. e.status[t.grant] # "waiting"
      BY <1>2, <1>5
    <2> QED  BY <1>2, <1>4, <1>8, <2>1, <2>2, <2>3, CleanMark DEF Knows, Ready, Away
  <1>10. ASSUME NEW g \in Grants, NEW n \in 1..e.offset[g]["sessions"].end
         PROVE  Ended(e, log, g, n) \/ (k.grant = g /\ Pending(k, "sessions", n))
    <2>1. n \in Nat \ {0}
      <3>1. e.offset[g]["sessions"].end \in Nat
        BY <1>5, SessionsIsPath DEF Tables, Offset
      <3> QED  BY <3>1
    <2>2. Ended(db, log, g, n) \/ (t.grant = g /\ Pending(t, "sessions", n))
      BY <1>2, <1>5, EndedOrHeld
    <2>3. Ended(db, log, g, n) => Ended(e, log, g, n)
      BY <1>5, <1>7, <2>1, GrownEnded, ClosingParts
    <2> QED  BY <1>8, <2>2, <2>3
  <1>11. lock \in {None, w} /\ lock' = w /\ k.pc # "write"
    BY <1>2, <1>3, <1>8
  <1> HIDE DEF t
  <1> QED  BY <1>3, <1>5, <1>7, <1>8, <1>9, <1>10, <1>11, WriteCloses, Zenon

LEMMA CommitCloses ==
  ASSUME IInv, IInv', Closing, NEW w \in Threads, Commit(w)
  PROVE  Closing'
  <1>1. PICK due \in SUBSET {g \in Grants : View(w).status[g] = "active"} :
          IF task[w].job = "tick" /\ due # {}
          THEN Goto(w, [Idle EXCEPT !.job = "expire", !.pc = "next", !.queue = due])
          ELSE Goto(w, Idle)
    BY DEF Commit
  <1> DEFINE x == Queued("expire", due)
  <1>2. PICK k : /\ k \in {x, Idle} /\ task' = [task EXCEPT ![w] = k]
    BY <1>1 DEF Goto, Queued
  <1>3. /\ UNCHANGED <<log, shell, db>> /\ base' = View(w) /\ task[w].pc = "next"
        /\ lock' = IF lock = w THEN None ELSE lock
    BY DEF Commit, host
  <1>4. k \in Run /\ k.pc # "write" /\ Knows(k, base', log)
    <2>1. due \in SUBSET Grants /\ \A g \in due : base'.status[g] # "waiting"
      BY <1>3
    <2>2. x \in Run /\ x.pc = "next" /\ Knows(x, base', log)
      BY <2>1, QueuedIs, QueuedKnows
    <2> HIDE DEF x
    <2> QED  BY <1>2, <2>2, IdleKnows, IdleIsHandler
  <1> HIDE DEF x
  <1>5. task'[w] = k /\ None \notin Threads /\ \A v \in Threads : v # w => task'[v] = task[v]
    BY <1>2, <1>4, Parts, Runs
  <1>6. \A g \in Grants : Grown(base, base', g)
    BY <1>3, ClosingParts
  <1>7. \A v \in Threads : Knows(task[v], View(v), log)' /\ Chosen(v)'
    <2> SUFFICES ASSUME NEW v \in Threads PROVE Knows(task[v], View(v), log)' /\ Chosen(v)'
      OBVIOUS
    <2>1. CASE v = w
      <3>1. View(w)' = base'
        BY <1>3, <1>5 DEF View
      <3> QED  BY <1>3, <1>4, <1>5, <2>1, <3>1 DEF Chosen
    <2>2. CASE v # w
      <3>1. (lock = v <=> lock' = v) /\ task'[v] = task[v] /\ log' = log /\ db' = db
        BY <1>3, <1>5, <2>2
      <3> QED  BY <1>6, <3>1, OthersKnow
    <2> QED  BY <2>1, <2>2
  <1>8. \A n : ~Pending(task[w], "sessions", n)
    BY <1>3, Parts, AwayIsQuiet DEF Away
  <1>9. ASSUME NEW g \in Grants, NEW n \in 1..base'.offset[g]["sessions"].end
        PROVE  Ended(base', log, g, n)
    BY <1>3, <1>8, EndedOrHeld
  <1>10. ASSUME NEW g \in Grants, NEW n \in 1..db.offset[g]["sessions"].end
         PROVE  Ended(db, log, g, n) \/ Held(g, "sessions", n)'
    <2>1. Ended(db, log, g, n) \/ Held(g, "sessions", n)
      BY ClosingParts DEF EndsPassed
    <2>2. ASSUME NEW v \in Threads, lock = v, task[v].grant = g, Pending(task[v], "sessions", n)
          PROVE  lock' = v /\ task'[v].grant = g /\ Pending(task'[v], "sessions", n)
      <3>1. v # w
        BY <1>8, <2>2
      <3> QED  BY <1>3, <1>5, <2>2, <3>1
    <2> QED  BY <2>1, <2>2 DEF Held
  <1>11. EndsPassed'
    BY <1>3, <1>9, <1>10 DEF EndsPassed
  <1>12. /\ InOrder(base') /\ InOrder(db') /\ \A g \in Grants :
           Tidy(base', log, g) /\ Tidy(db', log, g) /\ Grown(base', db', g)
    <2>1. CASE lock = w
      <3>1. base' = db /\ db' = db
        BY <1>3, <2>1 DEF View
      <3> QED  BY <3>1, ClosingParts, GrownItself
    <2>2. CASE lock # w
      <3>1. base' = base /\ db' = db
        BY <1>3, <2>2 DEF View
      <3> QED  BY <3>1, ClosingParts
    <2> QED  BY <2>1, <2>2
  <1> QED  BY <1>3, <1>7, <1>11, <1>12 DEF Closing

LEMMA FailureCloses ==
  ASSUME IInv, IInv', Closing, NEW w \in Threads, Fault(w) \/ RemoveFails(w)
  PROVE  Closing'
  BY AbortCloses DEF Fault, RemoveFails, host

LEMMA CrashCloses ==
  ASSUME IInv, IInv', Closing, Crash
  PROVE  Closing'
  <1>1. /\ UNCHANGED <<log, shell, base>> /\ db' = base /\ \A v \in Threads : task'[v] = Idle
    BY DEF Crash, host
  <1>2. \A v \in Threads : Knows(task[v], View(v), log)' /\ Chosen(v)'
    BY <1>1, IdleKnows DEF Chosen
  <1>3. EndsPassed'
    BY <1>1 DEF Closing, EndsPassed
  <1> QED  BY <1>1, <1>2, <1>3, GrownItself DEF Closing
-----------------------------------------------------------------------------
(* The host writes: the lines that were there stay.                        *)
Longer(l, m) ==
  \A a \in Accounts, p \in Paths :
    /\ Len(l[a][p].line) <= Len(m[a][p].line)
    /\ \A n \in 1..Len(l[a][p].line) : m[a][p].line[n] = l[a][p].line[n]

LEMMA LongerIs ==
  ASSUME NEW l \in [Accounts -> [Paths -> File]], NEW m \in [Accounts -> [Paths -> File]],
         Longer(l, m), NEW d, NEW g \in Grants
  PROVE  /\ Begun(l, g) => Begun(m, g) /\ First(m, g) = First(l, g)
         /\ Tidy(d, l, g) => Tidy(d, m, g)
         /\ \A n \in Nat \ {0} : Ended(d, l, g, n) => Ended(d, m, g, n)
  <1> DEFINE old == l[Account[g]]["sessions"].line
             new == m[Account[g]]["sessions"].line
  <1>1. /\ Len(old) \in Nat /\ Len(new) \in Nat /\ Len(old) <= Len(new)
        /\ \A n \in 1..Len(old) : new[n] = old[n]
    <2>1. Account[g] \in Accounts /\ "sessions" \in Paths
      BY LogAssumption, SessionsIsPath
    <2>2. l[Account[g]]["sessions"] \in File /\ m[Account[g]]["sessions"] \in File
      BY <2>1
    <2> QED  BY <2>1, <2>2 DEF Longer, File
  <1>2. Begun(l, g) <=> Len(old) > 0
    BY DEF Begun
  <1>3. Begun(m, g) <=> Len(new) > 0
    BY DEF Begun
  <1>4. First(l, g) = old[1].shell /\ First(m, g) = new[1].shell
    BY DEF First
  <1>5. \A n \in Nat \ {0} : Ended(d, l, g, n) <=>
          /\ n <= Len(old)
          /\ old[n].kind = "finished" =>
               \E r \in Rows : d.row[r] = [grant |-> g, shell |-> old[n].shell, status |-> "closed"]
    BY DEF Ended
  <1>6. \A n \in Nat \ {0} : Ended(d, m, g, n) <=>
          /\ n <= Len(new)
          /\ new[n].kind = "finished" =>
               \E r \in Rows : d.row[r] = [grant |-> g, shell |-> new[n].shell, status |-> "closed"]
    BY DEF Ended
  <1> HIDE DEF old, new
  <1>7. Begun(l, g) => Begun(m, g) /\ First(m, g) = First(l, g)
    <2>1. Len(old) > 0 => 1 \in 1..Len(old) /\ Len(new) > 0
      BY <1>1
    <2> QED  BY <1>1, <1>2, <1>3, <1>4, <2>1
  <1>8. ASSUME NEW n \in Nat \ {0}, Ended(d, l, g, n) PROVE Ended(d, m, g, n)
    <2>1. n <= Len(old)
      BY <1>5, <1>8, Zenon
    <2>2. n \in 1..Len(old) /\ n <= Len(new)
      BY <1>1, <2>1
    <2>3. new[n] = old[n]
      BY <1>1, <2>2
    <2> QED  BY <1>5, <1>6, <1>8, <2>2, <2>3, Zenon
  <1>9. Tidy(d, l, g) => Tidy(d, m, g)
    BY <1>7 DEF Tidy
  <1> QED  BY <1>7, <1>8, <1>9

LEMMA HostCloses ==
  ASSUME IInv, IInv', Closing, UNCHANGED <<db, base, lock, task>>, Longer(log, log'),
         \A a \in Accounts : Reports(log'[a]),
         \A s \in Shells : shell'[s] # "idle" => Len(log'[Home[s]]["sessions"].line) > 0
  PROVE  Closing'
  <1>0. PICK m : m = log'
    OBVIOUS
  <1>1. log \in [Accounts -> [Paths -> File]] /\ m \in [Accounts -> [Paths -> File]] /\ Longer(log, m)
    BY <1>0 DEF IInv, TypeOK
  <1>2. \A g \in Grants : Tidy(base, m, g) /\ Tidy(db, m, g)
    BY <1>1, LongerIs DEF Closing
  <1>3. ASSUME NEW d \in Tables, NEW g \in Grants, NEW n \in 1..d.offset[g]["sessions"].end,
               Ended(d, log, g, n)
        PROVE  Ended(d, m, g, n)
    <2>1. d.offset[g]["sessions"].end \in Nat
      BY SessionsIsPath DEF Tables, Offset
    <2>2. n \in Nat \ {0}
      BY <2>1
    <2> QED  BY <1>1, <1>3, <2>2, LongerIs, Zenon
  <1>4. EndsPassed'
    <2>1. db \in Tables /\ base \in Tables
      BY DEF IInv, TypeOK
    <2>2. \A g, n : Held(g, "sessions", n) <=> Held(g, "sessions", n)'
      BY DEF Held
    <2> QED  BY <1>0, <1>3, <2>1, <2>2 DEF Closing, EndsPassed
  <1>5. ASSUME NEW v \in Threads PROVE Knows(task[v], View(v), log)' /\ Chosen(v)'
    <2> DEFINE t == task[v]
               d == View(v)
    <2>1. task'[v] = t /\ View(v)' = d
      BY DEF View
    <2>2. t \in Run /\ Handler(t, log) /\ (~Away(t) => t.grant \in Grants) /\ Knows(t, d, log) /\ Chosen(v)
      BY Parts, ClosingParts DEF Handler
    <2>3. Knows(t, d, m)
      <3>1. t.adopt # None => /\ t.grant \in Launched /\ Begun(m, t.grant)
                              /\ t.adopt = First(m, t.grant)
        <4> SUFFICES ASSUME t.adopt # None
                     PROVE  /\ t.grant \in Launched /\ Begun(m, t.grant)
                            /\ t.adopt = First(m, t.grant)
          OBVIOUS
        <4>1. t.grant \in Launched /\ Begun(log, t.grant) /\ t.adopt = First(log, t.grant)
          BY <2>2 DEF Knows
        <4>2. t.grant \in Grants
          BY <4>1, LogAssumption
        <4> HIDE DEF t
        <4> QED  BY <1>1, <4>1, <4>2, LongerIs, Zenon
      <3>2. ASSUME t.pc \in {"look", "write", "finish"}, "sessions" \in t.stale,
                   NEW n \in 1..t.mark["sessions"].end
            PROVE  Ended(d, m, t.grant, n) \/ Pending(t, "sessions", n)
        <4>1. t.grant \in Grants /\ ~Away(t)
          BY <2>2, <3>2 DEF Away
        <4>2. t.mark["sessions"].end \in Nat
          BY <2>2, SessionsIsPath DEF Run, Offset
        <4>3. Ended(d, log, t.grant, n) \/ Pending(t, "sessions", n)
          BY <2>2, <3>2, <4>1 DEF Knows
        <4>4. n \in Nat \ {0}
          BY <4>2
        <4> HIDE DEF t, d
        <4> QED  BY <1>1, <4>1, <4>3, <4>4, LongerIs, Zenon
      <3> QED  BY <2>2, <3>1, <3>2 DEF Knows
    <2>4. Chosen(v)'
      <3> SUFFICES ASSUME t.pc = "write" PROVE Chosen(v)'
        BY DEF Chosen
      <3>1. t.todo # {} /\ ~Away(t)
        BY <2>2 DEF Handler, Away
      <3>2. /\ Entry(v).path \in Paths /\ Account[t.grant] \in Accounts
            /\ Entry(v).num \in 1..Len(log[Account[t.grant]][Entry(v).path].line)
            /\ Entry(v).line = log[Account[t.grant]][Entry(v).path].line[Entry(v).num]
        BY <2>2, <3>1, EntryIs, LogAssumption, Zenon
      <3>3. m[Account[t.grant]][Entry(v).path].line[Entry(v).num] = Entry(v).line
        BY <1>1, <3>2, Zenon DEF Longer
      <3>4. PICK f, h : f = log[Account[t.grant]] /\ h = m[Account[t.grant]]
        OBVIOUS
      <3>5. task[v] = t /\ task'[v] = t /\ f = log[Account[t.grant]] /\ h = log'[Account[t.grant]]
        BY <1>0, <2>1, <3>4
      <3>6. Entry(v)'.path = Entry(v).path /\ Entry(v)'.num = Entry(v).num
            /\ Entry(v)'.line = h[Entry(v).path].line[Entry(v).num]
        <4>1. Reread(Entry(v), Entry(v)', h)
          <5> HIDE DEF t
          <5> QED  BY <3>5, EntryStays, Zenon
        <4> QED  BY <4>1, Zenon DEF Reread
      <3> QED  BY <2>1, <2>2, <3>3, <3>4, <3>6, Zenon DEF Chosen
    <2> QED  BY <1>0, <2>1, <2>3, <2>4
  <1> QED  BY <1>0, <1>2, <1>4, <1>5 DEF Closing

LEMMA ShellCloses ==
  ASSUME IInv, IInv', Closing, NEW s \in Shells,
         ShellStart(s) \/ ShellExit(s) \/ \E k \in {"plain", "risky", "critical"} : ShellCommand(s, k)
  PROVE  Closing'
  <1>1. PICK p \in Paths, k \in {"plain", "risky", "critical"} \cup Events :
          /\ Log(s, p, k)
          /\ UNCHANGED <<db, base, lock, task>>
          /\ shell' \in {shell, [shell EXCEPT ![s] = "open"], [shell EXCEPT ![s] = "ended"]}
          /\ p = "sessions" => k \in Events
          /\ p = "commands" => shell[s] = "open" /\ shell' = shell
    BY DEF ShellStart, ShellExit, ShellCommand, Paths, Events
  <1> DEFINE a == Home[s]
             old == log[a][p]
             x == [shell |-> s, kind |-> k]
             new == [line |-> Append(old.line, x), cut |-> old.cut]
  <1>2. /\ log' \in [Accounts -> [Paths -> File]] /\ a \in Accounts
        /\ \A b \in Accounts, q \in Paths : log'[b][q] = IF b = a /\ q = p THEN new ELSE log[b][q]
    BY <1>1, LogIs
  <1>3. log \in [Accounts -> [Paths -> File]] /\ shell \in [Shells -> {"idle", "open", "ended"}]
    BY DEF IInv, TypeOK
  <1>4. old \in File /\ x \in Line
    BY <1>2, <1>3 DEF Line
  <1>5. /\ Len(new.line) = Len(old.line) + 1 /\ Len(old.line) \in Nat /\ new.cut = old.cut
        /\ \A n \in 1..Len(new.line) : new.line[n] = IF n = Len(old.line) + 1 THEN x ELSE old.line[n]
        /\ \A n \in 1..Len(new.line) : n = Len(old.line) + 1 \/ n \in 1..Len(old.line)
        /\ \A n \in 1..Len(old.line) : n \in 1..Len(new.line) /\ n # Len(old.line) + 1
    BY <1>4, Z3 DEF File
  <1>6. x.kind = k
    OBVIOUS
  <1> HIDE DEF new, x, old
  <1>7. \A b \in Accounts, q \in Paths : Len(log[b][q].line) \in Nat
    BY <1>3 DEF File
  <1>8. Longer(log, log')
    <2> SUFFICES ASSUME NEW b \in Accounts, NEW q \in Paths
                 PROVE  /\ Len(log[b][q].line) <= Len(log'[b][q].line)
                        /\ \A n \in 1..Len(log[b][q].line) : log'[b][q].line[n] = log[b][q].line[n]
      BY DEF Longer
    <2>1. CASE b = a /\ q = p
      <3>1. log'[b][q] = new /\ log[b][q] = old
        BY <1>2, <2>1 DEF old
      <3> QED  BY <1>5, <3>1
    <2>2. CASE ~(b = a /\ q = p)
      BY <1>2, <1>7, <2>2
    <2> QED  BY <2>1, <2>2
  <1>9. \A b \in Accounts : Len(log[b]["sessions"].line) > 0 => Len(log'[b]["sessions"].line) > 0
    BY <1>2, <1>5, <1>7, <1>8, SessionsIsPath DEF Longer, old
  <1>10. \A z \in Shells : shell'[z] # "idle" => Len(log'[Home[z]]["sessions"].line) > 0
    <2> SUFFICES ASSUME NEW z \in Shells, shell'[z] # "idle"
                 PROVE  Len(log'[Home[z]]["sessions"].line) > 0
      OBVIOUS
    <2>1. Home[z] \in Accounts
      BY LogAssumption
    <2>2. CASE shell[z] # "idle"
      BY <1>9, <2>1, <2>2 DEF Closing
    <2>3. CASE shell[z] = "idle"
      <3>1. z = s /\ p # "commands"
        BY <1>1, <1>3, <2>3
      <3>2. log'[Home[z]]["sessions"] = new
        BY <1>2, <3>1 DEF Paths
      <3> QED  BY <1>5, <3>2
    <2> QED  BY <2>2, <2>3
  <1>11. ASSUME NEW b \in Accounts PROVE Reports(log'[b])
    <2>1. Reports(log[b])
      BY DEF Closing
    <2>2. /\ log'[b]["sessions"].cut = 0
          /\ \A n \in 1..Len(log'[b]["sessions"].line) : log'[b]["sessions"].line[n].kind \in Events
      <3>1. CASE b = a /\ p = "sessions"
        <4>1. log'[b]["sessions"] = new /\ log[b]["sessions"] = old
          BY <1>2, <3>1 DEF old
        <4> QED  BY <1>1, <1>5, <1>6, <2>1, <3>1, <4>1 DEF Reports
      <3>2. CASE ~(b = a /\ p = "sessions")
        <4>1. log'[b]["sessions"] = log[b]["sessions"]
          BY <1>2, <3>2, SessionsIsPath
        <4> QED  BY <2>1, <4>1 DEF Reports
      <3> QED  BY <3>1, <3>2
    <2>3. Len(log'[b]["commands"].line) > 0 => Len(log'[b]["sessions"].line) > 0
      <3>1. CASE b = a /\ p = "commands"
        <4>1. Len(log[b]["sessions"].line) > 0
          BY <1>1, <3>1 DEF Closing
        <4> QED  BY <1>9, <4>1
      <3>2. CASE ~(b = a /\ p = "commands")
        <4>1. log'[b]["commands"] = log[b]["commands"]
          BY <1>2, <3>2, SessionsIsPath
        <4> QED  BY <1>9, <2>1, <4>1 DEF Reports
      <3> QED  BY <3>1, <3>2
    <2> QED  BY <2>2, <2>3 DEF Reports
  <1> QED  BY <1>1, <1>8, <1>10, <1>11, HostCloses

LEMMA RotateCloses ==
  ASSUME IInv, IInv', Closing, NEW a \in Accounts, Rotate(a)
  PROVE  Closing'
  <1> DEFINE old == log[a]["commands"]
             new == [old EXCEPT !.cut = Len(old.line)]
             f == [log[a] EXCEPT !["commands"] = new]
  <1>1. UNCHANGED <<shell, db, base, lock, task>> /\ log' = [log EXCEPT ![a] = f]
    BY DEF Rotate
  <1>2. log \in [Accounts -> [Paths -> File]] /\ old \in File
    BY SessionsIsPath DEF IInv, TypeOK
  <1>3. new \in File /\ new.line = old.line
    <2>1. Len(old.line) \in Nat /\ old.line \in Seq(Line)
      BY <1>2 DEF File
    <2>2. \A o \in File : \A n \in Nat : [o EXCEPT !.cut = n] = [line |-> o.line, cut |-> n]
      BY DEF File
    <2>3. new = [line |-> old.line, cut |-> Len(old.line)]
      BY <1>2, <2>1, <2>2
    <2> HIDE DEF old
    <2> QED  BY <2>1, <2>3 DEF File
  <1> HIDE DEF new
  <1>4. f \in [Paths -> File] /\ \A q \in Paths : f[q] = IF q = "commands" THEN new ELSE log[a][q]
    BY <1>2, <1>3, Zenon
  <1> HIDE DEF f
  <1>5. \A b \in Accounts, q \in Paths : log'[b][q].line = log[b][q].line
    BY <1>1, <1>2, <1>3, <1>4
  <1>6. \A b \in Accounts : log'[b]["sessions"] = log[b]["sessions"]
    BY <1>1, <1>2, <1>4, SessionsIsPath
  <1>7. \A b \in Accounts, q \in Paths : Len(log[b][q].line) \in Nat
    BY <1>2 DEF File
  <1>8. Longer(log, log')
    BY <1>5, <1>7 DEF Longer
  <1>9. \A b \in Accounts : Reports(log'[b])
    BY <1>5, <1>6, SessionsIsPath, Zenon DEF Closing, Reports
  <1>10. \A z \in Shells : shell'[z] # "idle" => Len(log'[Home[z]]["sessions"].line) > 0
    BY <1>1, <1>6, LogAssumption DEF Closing
  <1> QED  BY <1>1, <1>8, <1>9, <1>10, HostCloses

LEMMA OpenCloses ==
  ASSUME IInv, IInv', Closing, NEW g \in Grants, Open(g)
  PROVE  Closing'
  <1> DEFINE d == [base EXCEPT !.status[g] = "active"]
             x == [grant |-> g, shell |-> None, status |-> "active"]
             new == NewRow(base)
  <1>0. PICK e : e = base'
    OBVIOUS
  <1>1. /\ base \in Tables /\ e \in Tables /\ lock = None /\ db = base /\ None \notin Threads
        /\ None \notin Grants /\ base.status[g] = "waiting" /\ log \in [Accounts -> [Paths -> File]]
    BY <1>0, LogAssumption DEF IInv, TypeOK, Open, Threads
  <1>2. UNCHANGED <<log, shell, lock, task>> /\ db' = e
    BY <1>0 DEF Open
  <1>3. /\ d \in Tables /\ d.row = base.row /\ d.cmds = base.cmds /\ d.offset = base.offset
        /\ \A h \in Grants : d.status[h] = IF h = g THEN "active" ELSE base.status[h]
    BY <1>1, Zenon DEF Tables
  <1>4. \/ g \notin Launched /\ e = d
        \/ g \in Launched /\ HasRoom(base) /\ e = [d EXCEPT !.row[new] = x]
    BY <1>0 DEF Open
  <1> HIDE DEF d, new
  <1>5. /\ InOrder(base) /\ \A h \in Grants : Tidy(base, log, h)
        /\ \A r \in Rows : base.row[r].grant # g
        /\ base.offset[g]["sessions"].end = 0 /\ base.offset[g]["sessions"].len = 0
    <2>1. InOrder(base) /\ \A h \in Grants : Tidy(base, log, h)
      BY DEF Closing
    <2>2. base.offset[g]["sessions"].end \in Nat
      BY <1>1, SessionsIsPath DEF Tables, Offset
    <2>3. ~(base.offset[g]["sessions"].end > 0)
      BY <1>1, <2>1 DEF Tidy
    <2> QED  BY <1>1, <2>1, <2>2, <2>3 DEF Tidy
  <1>6. /\ e.cmds = base.cmds /\ e.offset = base.offset
        /\ \A h \in Grants : e.status[h] = IF h = g THEN "active" ELSE base.status[h]
        /\ \/ g \notin Launched /\ e.row = base.row
           \/ /\ g \in Launched /\ new \in Rows /\ base.row[new] = FreeRow
              /\ \A q \in 1..(new - 1) : base.row[q] # FreeRow
              /\ \A q \in Rows : e.row[q] = IF q = new THEN x ELSE base.row[q]
    <2>1. CASE g \notin Launched /\ e = d
      BY <1>3, <2>1
    <2>2. CASE g \in Launched /\ HasRoom(base) /\ e = [d EXCEPT !.row[new] = x]
      <3>1. new \in Rows /\ base.row[new] = FreeRow /\ \A q \in 1..(new - 1) : base.row[q] # FreeRow
        BY <2>2, NewRowIs DEF new
      <3>2. x \in Row /\ d.cmds \in SUBSET (Rows \X Numbers)
        BY <1>3 DEF Row, Tables
      <3>3. e = Put(d, new, x, d.cmds)
        BY <1>3, <2>2, Zenon DEF Put, Tables
      <3> HIDE DEF x
      <3>4. /\ e.cmds = d.cmds /\ e.offset = d.offset /\ e.status = d.status
            /\ \A q \in Rows : e.row[q] = IF q = new THEN x ELSE d.row[q]
        BY <1>3, <3>1, <3>2, <3>3, PutRow
      <3> QED  BY <1>3, <2>2, <3>1, <3>4
    <2> QED  BY <1>4, <2>1, <2>2
  <1>7. /\ \A h \in Grants : h # g => \A r \in Rows :
             /\ base.row[r].grant = h <=> e.row[r].grant = h
             /\ e.row[r].grant = h => e.row[r] = base.row[r]
        /\ \A r \in Rows : e.row[r].grant = g =>
             g \in Launched /\ r = new /\ e.row[r].shell = None /\ base.row[r].grant = None
        /\ g \in Launched => new \in Rows /\ e.row[new].grant = g
    BY <1>1, <1>5, <1>6 DEF FreeRow
  <1>8. InOrder(e)
    <2>1. CASE e.row = base.row
      BY <1>5, <1>6, <2>1 DEF InOrder
    <2>2. CASE e.row # base.row
      <3>1. \A q \in Rows : q < new => q \in 1..(new - 1)
        BY <1>6, <2>2, LogAssumption DEF Rows
      <3>2. \A q \in Rows : q < new => base.row[q].grant # None
        BY <1>5, <1>6, <2>2, <3>1 DEF InOrder
      <3> QED  BY <1>1, <1>5, <1>6, <2>2, <3>2 DEF InOrder
    <2> QED  BY <2>1, <2>2
  <1> HIDE DEF x
  <1>9. ASSUME NEW h \in Grants PROVE Tidy(e, log, h)
    <2>1. CASE h = g
      <3>1. \A r \in Rows : e.row[r].grant = g => \A n \in Numbers : <<r, n>> \notin e.cmds
        BY <1>5, <1>6, <1>7 DEF InOrder
      <3> QED  BY <1>5, <1>6, <1>7, <2>1, <3>1 DEF Tidy
    <2>2. CASE h # g
      <3>1. FirstRow(e, h) = FirstRow(base, h)
        BY <1>7, <2>2, SameFirst
      <3>2. Marked(base, h) <=> Marked(e, h)
        BY <1>7, <2>2 DEF Marked
      <3>3. Tidy(base, log, h) /\ e.status[h] = base.status[h]
        BY <1>5, <1>6, <2>2
      <3> QED  BY <1>6, <1>7, <2>2, <3>1, <3>2, <3>3 DEF Tidy
    <2> QED  BY <2>1, <2>2
  <1>10. ASSUME NEW h \in Grants, h # g PROVE Grown(base, e, h)
    BY <1>6, <1>7, <1>10 DEF Grown
  <1>11. \A v \in Threads : Knows(task[v], View(v), log)' /\ Chosen(v)'
    <2> SUFFICES ASSUME NEW v \in Threads PROVE Knows(task[v], View(v), log)' /\ Chosen(v)'
      OBVIOUS
    <2>1. \A h \in Grants : base.status[h] # "waiting" => Grown(base, base', h)
      BY <1>0, <1>1, <1>10
    <2>2. task'[v] = task[v] /\ log' = log /\ (lock = v <=> lock' = v) /\ lock # v
      BY <1>1, <1>2
    <2> QED  BY <2>1, <2>2, OthersKnow
  <1>12. ASSUME NEW h \in Grants, NEW n \in 1..e.offset[h]["sessions"].end
         PROVE  Ended(e, log, h, n)
    <2>1. n \in Nat \ {0} /\ h # g
      <3>1. e.offset[h]["sessions"].end \in Nat
        BY <1>1, SessionsIsPath DEF Tables, Offset
      <3> QED  BY <1>5, <1>6, <3>1
    <2>2. Ended(base, log, h, n)
      BY <1>6 DEF Closing, EndsPassed
    <2> QED  BY <1>1, <1>10, <2>1, <2>2, GrownEnded
  <1>13. EndsPassed'
    BY <1>0, <1>2, <1>12 DEF EndsPassed
  <1> QED  BY <1>0, <1>2, <1>8, <1>9, <1>11, <1>13, GrownItself DEF Closing

LEMMA LaunchEndsCloses ==
  ASSUME IInv, IInv', Closing, NEW g \in Grants, LaunchEnds(g)
  PROVE  Closing'
  <1>0. PICK e : e = base'
    OBVIOUS
  <1>1. /\ TypeOK /\ base \in Tables /\ lock = None /\ db = base /\ None \notin Threads
        /\ log \in [Accounts -> [Paths -> File]] /\ None \notin Grants
        /\ UNCHANGED <<log, shell, lock, task>> /\ db' = e
    BY <1>0, LogAssumption DEF IInv, TypeOK, LaunchEnds, Threads, host
  <1>2. /\ e \in Tables /\ e.cmds = base.cmds /\ e.offset = base.offset /\ e.status = base.status
        /\ \A r \in Rows :
             /\ e.row[r].grant = base.row[r].grant /\ e.row[r].shell = base.row[r].shell
             /\ base.row[r].grant # g => e.row[r] = base.row[r]
             /\ base.row[r].status = "closed" => e.row[r] = base.row[r]
    BY <1>0, <1>1, EndedRow
  <1>3. InOrder(base) /\ \A h \in Grants : Tidy(base, log, h)
    BY DEF Closing
  <1>4. InOrder(e)
    BY <1>1, <1>2, <1>3 DEF InOrder
  <1>5. ASSUME NEW h \in Grants PROVE Tidy(e, log, h)
    <2>1. FirstRow(e, h) = FirstRow(base, h)
      BY <1>2, SameFirst
    <2>2. Marked(base, h) <=> Marked(e, h)
      BY <1>2 DEF Marked
    <2>3. Tidy(base, log, h)
      BY <1>3
    <2> QED  BY <1>2, <2>1, <2>2, <2>3 DEF Tidy
  <1>6. ASSUME NEW h \in Grants PROVE Grown(base, e, h)
    BY <1>2 DEF Grown
  <1>7. \A v \in Threads : Knows(task[v], View(v), log)' /\ Chosen(v)'
    <2> SUFFICES ASSUME NEW v \in Threads PROVE Knows(task[v], View(v), log)' /\ Chosen(v)'
      OBVIOUS
    <2>1. \A h \in Grants : base.status[h] # "waiting" => Grown(base, base', h)
      BY <1>0, <1>6
    <2>2. task'[v] = task[v] /\ log' = log /\ (lock = v <=> lock' = v) /\ lock # v
      BY <1>1
    <2> QED  BY <2>1, <2>2, OthersKnow
  <1>8. ASSUME NEW h \in Grants, NEW n \in 1..e.offset[h]["sessions"].end
        PROVE  Ended(e, log, h, n)
    <2>1. n \in Nat \ {0}
      <3>1. e.offset[h]["sessions"].end \in Nat
        BY <1>2, SessionsIsPath DEF Tables, Offset
      <3> QED  BY <3>1
    <2>2. Ended(base, log, h, n)
      BY <1>2 DEF Closing, EndsPassed
    <2> QED  BY <1>1, <1>2, <1>6, <2>1, <2>2, GrownEnded
  <1>9. EndsPassed'
    BY <1>0, <1>1, <1>8 DEF EndsPassed
  <1> QED  BY <1>0, <1>1, <1>4, <1>5, <1>7, <1>9, GrownItself DEF Closing

LEMMA InitCloses ==
  ASSUME Init
  PROVE  Closing
  <1>1. /\ base = db /\ \A r \in Rows : db.row[r] = FreeRow
        /\ \A g \in Grants : db.status[g] = "waiting" /\ db.offset[g]["sessions"] = NoOffset
        /\ db.cmds = {} /\ lock = None
        /\ \A a \in Accounts, p \in Paths : log[a][p] = EmptyFile
        /\ \A s \in Shells : shell[s] = "idle"
        /\ \A w \in Threads : task[w] = Idle
    BY SessionsIsPath DEF Init
  <1>2. EmptyFile.cut = 0 /\ Len(EmptyFile.line) = 0 /\ NoOffset.len = 0 /\ NoOffset.end = 0
        /\ FreeRow.grant = None /\ None \notin Grants
    BY LogAssumption DEF EmptyFile, NoOffset, FreeRow
  <1>3. \A a \in Accounts : Reports(log[a])
    BY <1>1, <1>2, SessionsIsPath DEF Reports
  <1>4. InOrder(db)
    BY <1>1, <1>2 DEF InOrder
  <1>5. \A g \in Grants : Tidy(db, log, g)
    BY <1>1, <1>2 DEF Tidy
  <1>6. EndsPassed
    BY <1>1, <1>2 DEF EndsPassed
  <1>7. \A w \in Threads : Knows(task[w], View(w), log) /\ Chosen(w)
    BY <1>1, IdleKnows DEF Chosen
  <1> QED  BY <1>1, <1>3, <1>4, <1>5, <1>6, <1>7, GrownItself DEF Closing

LEMMA HandlerStepCloses ==
  ASSUME IInv, IInv', Closing, NEW w \in Threads, Step(w) \/ Fault(w) \/ RemoveFails(w)
  PROVE  Closing'
  BY NextGrantCloses, CommitCloses, FetchCloses, ReadOffsetsCloses, InsertOffsetsCloses, LookCloses,
     WriteEventCloses, WriteCommandCloses, CommandTakenCloses, FinishImportCloses, RemoveCloses,
     FailureCloses DEF Step

LEMMA StutterCloses ==
  ASSUME Closing, UNCHANGED vars
  PROVE  Closing'
  <1>1. ASSUME NEW w \in Threads PROVE Knows(task[w], View(w), log)' /\ Chosen(w)'
    <2>1. /\ task'[w] = task[w] /\ View(w)' = View(w) /\ log' = log /\ lock' = lock /\ db' = db
          /\ Entry(w)' = Entry(w)
      BY DEF vars, View, Entry
    <2>2. Knows(task[w], View(w), log) /\ Chosen(w)
      BY DEF Closing
    <2> QED  BY <2>1, <2>2 DEF Chosen
  <1>2. EndsPassed'
    BY DEF Closing, EndsPassed, Held, vars
  <1> QED  BY <1>1, <1>2 DEF Closing, vars

LEMMA NextCloses ==
  ASSUME IInv, IInv', Closing, [Next]_vars
  PROVE  Closing'
  <1>1. CASE UNCHANGED vars
    BY <1>1, StutterCloses
  <1>2. ASSUME NEW s \in Shells,
               ShellStart(s) \/ ShellExit(s) \/ \E k \in {"plain", "risky", "critical"} : ShellCommand(s, k)
        PROVE  Closing'
    BY <1>2, ShellCloses
  <1>3. ASSUME NEW a \in Accounts, Rotate(a) PROVE Closing'
    BY <1>3, RotateCloses
  <1>4. ASSUME NEW g \in Grants, Open(g) \/ LaunchEnds(g) PROVE Closing'
    BY <1>4, OpenCloses, LaunchEndsCloses
  <1>5. ASSUME NEW g \in Grants, NEW w \in Workers, StartImport(w, g) \/ StartRevoke(w, g) PROVE Closing'
    BY <1>5, StartCloses DEF Threads
  <1>6. CASE StartTick
    BY <1>6, StartTickCloses
  <1>7. ASSUME NEW w \in Threads, Step(w) \/ Fault(w) \/ RemoveFails(w) PROVE Closing'
    BY <1>7, HandlerStepCloses
  <1>8. CASE Crash
    BY <1>8, CrashCloses
  <1> QED  BY <1>1, <1>2, <1>3, <1>4, <1>5, <1>6, <1>7, <1>8 DEF Next

LEMMA HandlerStepKeeps ==
  ASSUME IInv, Closing, NEW w \in Threads, Step(w) \/ Fault(w) \/ RemoveFails(w)
  PROVE  IInv'
  <1>1. CASE CommandTaken(w)
    <2>1. task[w].pc = "write" /\ Entry(w).path = "commands" /\ Chosen(w)
      BY <1>1, ClosingParts DEF CommandTaken
    <2>2. lock = w => <<task[w].found, Entry(w).num>> \notin db.cmds
      BY <2>1 DEF Chosen
    <2> QED  BY <1>1, <2>2, CommandTakenKeeps
  <1> QED  BY <1>1, NextGrantKeeps, CommitKeeps, FetchKeeps, ReadOffsetsKeeps, InsertOffsetsKeeps,
              LookKeeps, WriteEventKeeps, WriteCommandKeeps, FinishImportKeeps, RemoveKeeps,
              FailureKeeps DEF Step

LEMMA NextKeeps ==
  ASSUME IInv, Closing, [Next]_vars
  PROVE  IInv'
  <1>1. CASE UNCHANGED vars
    BY <1>1, StutterKeeps
  <1>2. ASSUME NEW s \in Shells,
               ShellStart(s) \/ ShellExit(s) \/ \E k \in {"plain", "risky", "critical"} : ShellCommand(s, k)
        PROVE  IInv'
    BY <1>2, ShellKeeps
  <1>3. ASSUME NEW a \in Accounts, Rotate(a) PROVE IInv'
    BY <1>3, RotateKeeps
  <1>4. ASSUME NEW g \in Grants, Open(g) \/ LaunchEnds(g) PROVE IInv'
    BY <1>4, OpenKeeps, LaunchEndsKeeps
  <1>5. ASSUME NEW g \in Grants, NEW w \in Workers, StartImport(w, g) \/ StartRevoke(w, g) PROVE IInv'
    BY <1>5, StartKeeps DEF Threads
  <1>6. CASE StartTick
    BY <1>6, StartTickKeeps
  <1>7. ASSUME NEW w \in Threads, Step(w) \/ Fault(w) \/ RemoveFails(w) PROVE IInv'
    BY <1>7, HandlerStepKeeps
  <1>8. CASE Crash
    BY <1>8, CrashKeeps
  <1> QED  BY <1>1, <1>2, <1>3, <1>4, <1>5, <1>6, <1>7, <1>8 DEF Next

THEOREM Inductive == Spec => [](IInv /\ Closing)
  <1>1. Init => IInv /\ Closing
    BY InitHolds, InitCloses
  <1>2. IInv /\ Closing /\ [Next]_vars => IInv' /\ Closing'
    BY NextKeeps, NextCloses
  <1> QED  BY <1>1, <1>2, PTL DEF Spec

(* Every variable keeps its type: no handler leaves tables, offsets or a   *)
(* continuation that the code could not have made.                         *)
THEOREM LogImportTypes == Spec => []TypeOK
  <1>1. IInv => TypeOK
    BY DEF IInv
  <1> QED  BY <1>1, Inductive, PTL

(* A committed offset passes over no command that was not imported, for    *)
(* any number of grants of one account, of imports side by side, of        *)
(* failures and of truncations an import could have read before.           *)
THEOREM NoLineIsSkipped == Spec => []NothingSkipped
  <1>1. IInv => NothingSkipped
    BY DEF IInv
  <1> QED  BY <1>1, Inductive, PTL

(* A revocation changes the host only when every command its import        *)
(* fetched is in the tables of its transaction, or among what the imports  *)
(* it interrupted have left: also when one of them was rolled back.        *)
THEOREM FinalImportSawEverything == Spec => []ClosingSawEverything
  <1>1. ASSUME IInv PROVE ClosingSawEverything
    <2> SUFFICES ASSUME NEW w \in Threads, task[w].pc = "remove", NEW g \in {task[w].grant} \ gapped,
                        NEW n \in 1..task[w].reach
                 PROVE  \/ Imported(db, g, n)
                        \/ \E i \in DOMAIN task[w].outer : <<"commands", n>> \in task[w].outer[i]
      BY DEF ClosingSawEverything
    <2>1. lock = w /\ task[w].todo = {} /\ View(w) = db
      BY <1>1, Parts DEF Handler, View
    <2>2. g = task[w].grant /\ Marks(task[w], db)
      BY <1>1, <2>1, Parts
    <2>3. Imported(db, g, n) \/ Pending(task[w], "commands", n)
      BY <2>2 DEF Marks
    <2> QED  BY <2>1, <2>3 DEF Pending
  <1> QED  BY <1>1, Inductive, PTL

(* A session whose end a committed offset has passed is closed, whichever  *)
(* import made its row, gave it its marker or was rolled back meanwhile.   *)
THEOREM EndedShellsAreClosed == Spec => []FinishedIsClosed
  <1>1. Closing => FinishedIsClosed
    BY Zenon DEF Closing, EndsPassed, Ended, FinishedIsClosed
  <1> QED  BY <1>1, Inductive, PTL
=============================================================================
