------------------------ MODULE TokenRequestsProofs ------------------------
(***************************************************************************)
(* For any number of workers, versions, nodes and rows, and any skew of    *)
(* the clocks: TokenRequests keeps its types, a token names its row, no    *)
(* token names a node that was gone when it was asked for, and the rows    *)
(* only advance.                                                           *)
(***************************************************************************)
EXTENDS TokenRequests, UserRecordsProofs

(* The table: uids are unique and below the counter, and no row was        *)
(* created in the future.                                                  *)
TableInv ==
    /\ clock >= ClockSkew
    /\ UniqueUids(users)
    /\ \A r \in users : 0 < r.uid /\ r.uid < nextUid /\ r.created_at <= clock

(* The user dict names a row of the table, with its client state and its   *)
(* node (or none, if the node was gone when the row was read).             *)
NamesRow(user) ==
    \E r \in users : /\ r.uid = user.uid
                     /\ r.client_state = user.client_state
                     /\ user.node = r.nodeid \/ user.node = NoNode

(* A worker about to insert a row knows a time that its own clock had      *)
(* reached and, once it has looked one up, a node; its user dict names a   *)
(* row whenever the row is not yet to be inserted.                         *)
JobInv(w) ==
    /\ job[w].pc \in {"allocate", "insert", "create"} =>
          job[w].since >= ClockSkew
    /\ job[w].pc \in {"insert", "create", "older", "granted"} =>
          job[w].user.node \in NodeIds
    /\ job[w].pc \in {"mark", "check", "older", "granted"} =>
          NamesRow(job[w].user)
    /\ job[w].pc \notin {"idle", "error"} =>
          /\ nodes \subseteq job[w].seen.nodes
          /\ job[w].user.node \in job[w].seen.nodes \cup {NoNode}

IInv == TypeOK /\ TableInv /\ \A w \in Workers : JobInv(w)

-----------------------------------------------------------------------------
(* Types of the operators.                                                 *)

LEMMA ConstantTypes ==
    /\ NULL \notin Generations
    /\ 0 \in Generations
    /\ NoUser \in Users
    /\ NoClaims \in Claims
    /\ \A pc \in PCs : Ended(pc) \in Jobs
BY MaxGenerationAssumption
   DEF NULL, Generations, NoUser, Users, NoClaims, Claims, Ended, Jobs, Kinds,
       Seen, States

LEMMA ClaimsTypes ==
    ASSUME NEW v \in 1 .. Len(Versions)
    PROVE  /\ \A client \in Clients : ClaimsOf(v, client) \in Claims
           /\ EventClaims(v) \in Claims
<1>1. Versions[v] \in VersionSet
  BY VersionsAssumption
<1>2. \A x \in 1 .. MAX_GENERATION - 1 : x \in Generations /\ x - 1 \in Generations
  BY MaxGenerationAssumption DEF Generations
<1>3. 0 \in Generations /\ NoState \in States /\ ClientStates \subseteq States
  BY ConstantTypes DEF States
<1>4. ASSUME NEW client \in Clients
      PROVE  ClaimsOf(v, client) \in Claims
  BY <1>1, <1>2, <1>3, ClientsAssumption DEF ClaimsOf, VersionSet, Claims
<1>5. EventClaims(v) \in Claims
  BY <1>1, <1>2, <1>3 DEF EventClaims, VersionSet, Claims, NoClaims
<1>6. QED
  BY <1>4, <1>5

(* The updates a request asks for.                                         *)
LEMMA UpdateTypes ==
    ASSUME NEW user \in Users, NEW claims \in Claims
    PROVE  /\ GenerationUpdate(user, claims) \in Generations \cup {NULL}
           /\ KeysUpdate(user, claims) \in Generations \cup {NULL}
BY DEF GenerationUpdate, KeysUpdate, Users, Claims

LEMMA MaxTypes ==
    ASSUME NEW a \in Generations, NEW b \in Generations \cup {NULL}
    PROVE  Max2(a, b) \in Generations
BY MaxGenerationAssumption DEF Max2, Generations, NULL

LEMMA AdvancedTypes ==
    ASSUME NEW user \in Users, NEW g \in Generations \cup {NULL},
           NEW k \in Generations \cup {NULL}
    PROVE  /\ Advanced(user, g, k) \in Users
           /\ Advanced(user, g, k).uid = user.uid
           /\ Advanced(user, g, k).node = user.node
           /\ Advanced(user, g, k).client_state = user.client_state
<1> DEFINE user1 == [user EXCEPT !.generation = Max2(@, g)]
<1>1. /\ user1 \in Users
      /\ user1.uid = user.uid /\ user1.node = user.node
      /\ user1.client_state = user.client_state
      /\ user1.keys_changed_at = user.keys_changed_at
  BY MaxTypes DEF Users
<1>2. Advanced(user, g, k) = [user1 EXCEPT !.keys_changed_at = Max2(@, k)]
  BY DEF Advanced
<1> HIDE DEF user1
<1>3. QED
  BY <1>1, <1>2, MaxTypes DEF Users

LEMMA NewStateTypes ==
    ASSUME NEW user \in Users, NEW claims \in Claims
    PROVE  NewStateUser(user, claims) \in Users
<1>1. /\ Max2(user.generation, GenerationUpdate(user, claims)) \in Generations
      /\ Max2(user.keys_changed_at, KeysUpdate(user, claims)) \in Generations
  BY MaxTypes, UpdateTypes DEF Users
<1>2. QED
  BY <1>1 DEF NewStateUser, Users, Claims

-----------------------------------------------------------------------------
(* The rows that get_user reads.                                           *)
LEMMA ReadTypes ==
    ASSUME TypeOK, TableInv, users # {}
    PROVE  /\ CurrentRow(users) \in users
           /\ UserOf(CurrentRow(users)) \in Users
           /\ NodelessUserOf(CurrentRow(users)) \in Users
           /\ {r \in OldRows(users) : Active(r)} \in SUBSET Rows
           /\ CurrentRow(users).created_at \in Nat
<1>1. nextUid + clock \in Nat /\ Bounded(users, nextUid + clock)
  BY DEF TypeOK, TableInv, Bounded, Rows
<1>2. CurrentRow(users) \in users
  BY <1>1, CurrentRowExists DEF TypeOK, TableInv
<1>3. OldRows(users) \in SUBSET users
  BY DEF OldRows, Fetched
<1>4. {r.client_state : r \in OldRows(users)} \in SUBSET States
  BY <1>3 DEF TypeOK, Rows
<1>5. QED
  BY <1>2, <1>3, <1>4, ConstantTypes
     DEF TypeOK, UserOf, NodelessUserOf, NodeOf, Users, Rows

(* A row inserted under the next uid.                                      *)
LEMMA InsertTypes ==
    ASSUME NEW rows \in SUBSET Rows, NEW uid \in Nat, NEW nodeid \in NodeIds,
           NEW user \in Users, NEW now \in Nat,
           UniqueUids(rows), \A r \in rows : r.uid < uid
    PROVE  LET rows2 == CreateUserRecord(rows, uid, nodeid, user, now) IN
           /\ rows2 \in SUBSET Rows
           /\ UniqueUids(rows2)
           /\ rows \subseteq rows2
           /\ \E s \in rows2 : /\ s.uid = uid
                               /\ s.nodeid = nodeid
                               /\ s.client_state = user.client_state
           /\ \A s \in rows2 \ rows : s.uid = uid /\ s.created_at = now
<1> DEFINE new == [uid |-> uid, nodeid |-> nodeid,
                   client_state |-> user.client_state,
                   generation |-> user.generation,
                   keys_changed_at |-> user.keys_changed_at,
                   created_at |-> now, replaced_at |-> NULL]
<1>1. CreateUserRecord(rows, uid, nodeid, user, now) = rows \cup {new}
  BY DEF CreateUserRecord
<1>2. /\ new \in Rows /\ new.uid = uid /\ new.nodeid = nodeid
      /\ new.client_state = user.client_state /\ new.created_at = now
  BY DEF Rows, Users
<1> HIDE DEF new
<1>3. UniqueUids(rows \cup {new})
  BY <1>2 DEF UniqueUids, Rows
<1>4. QED
  BY <1>1, <1>2, <1>3

-----------------------------------------------------------------------------
(* What a step does to the table: nothing, a statement that advances rows, *)
(* or the insertion of one row.                                            *)
Insertion ==
    /\ users' \in SUBSET Rows
    /\ UniqueUids(users')
    /\ users \subseteq users'
    /\ \A s \in users' \ users : s.uid = nextUid /\ s.created_at <= clock
    /\ nextUid' = nextUid + 1

TableStep ==
    \/ UNCHANGED table
    \/ Evolves(users, users') /\ nextUid' = nextUid
    \/ Insertion

(* Such a step keeps the table in order, and every user dict that names a  *)
(* row goes on naming one.                                                 *)
LEMMA TableStepPreserves ==
    ASSUME TypeOK, TableInv, TableStep, clock' \in Nat, clock' >= clock
    PROVE  /\ users' \subseteq Rows
           /\ nextUid' \in Nat \ {0}
           /\ TableInv'
           /\ \A user \in Users : NamesRow(user) => NamesRow(user)'
           /\ \A r \in users, s \in users' : r.uid = s.uid => Advances(r, s)
<1>1. users \in SUBSET Rows /\ nextUid \in Nat \ {0} /\ clock \in Nat
      /\ ClockSkew \in Nat
  BY BoundsAssumption DEF TypeOK
<1>2. \A r \in Rows : Advances(r, r)
  BY MaxGenerationAssumption DEF Rows, Generations, Advances
<1>3. CASE UNCHANGED table
  <2>1. \A r \in users, s \in users : r.uid = s.uid => r = s
    BY DEF TableInv, UniqueUids
  <2>2. QED
    BY <1>1, <1>2, <1>3, <2>1 DEF table, TableInv, UniqueUids, NamesRow, Rows
<1>4. CASE Evolves(users, users') /\ nextUid' = nextUid
  <2>1. /\ users' \in SUBSET Rows
        /\ UniqueUids(users')
        /\ \A r \in users : \E s \in users' : Advances(r, s)
        /\ \A s \in users' : \E r \in users : Advances(r, s)
    BY <1>4 DEF Evolves, TableInv
  <2>2. TableInv'
    <3>1. \A s \in users' : 0 < s.uid /\ s.uid < nextUid' /\ s.created_at <= clock'
      BY <1>1, <1>4, <2>1 DEF TableInv, Advances, Rows
    <3>2. QED
      BY <1>1, <2>1, <3>1 DEF TableInv
  <2>3. ASSUME NEW user \in Users, NamesRow(user)
        PROVE  NamesRow(user)'
    <3>1. PICK r \in users : /\ r.uid = user.uid
                             /\ r.client_state = user.client_state
                             /\ user.node = r.nodeid \/ user.node = NoNode
      BY <2>3 DEF NamesRow
    <3>2. PICK s \in users' : Advances(r, s)
      BY <2>1
    <3>3. QED
      BY <3>1, <3>2 DEF Advances, NamesRow
  <2>4. ASSUME NEW r \in users, NEW s \in users', r.uid = s.uid
        PROVE  Advances(r, s)
    <3>1. PICK q \in users : Advances(q, s)
      BY <2>1
    <3>2. q = r
      BY <2>4, <3>1 DEF Advances, TableInv, UniqueUids
    <3>3. QED
      BY <3>1, <3>2
  <2>5. QED
    BY <1>1, <1>4, <2>1, <2>2, <2>3, <2>4
<1>5. CASE Insertion
  <2>1. \A s \in users' : \/ s \in users
                          \/ s.uid = nextUid /\ s.created_at <= clock
    BY <1>5 DEF Insertion
  <2>2. TableInv'
    <3>1. \A s \in users' : 0 < s.uid /\ s.uid < nextUid' /\ s.created_at <= clock'
      BY <1>1, <1>5, <2>1 DEF TableInv, Insertion, Rows
    <3>2. QED
      BY <1>1, <1>5, <3>1 DEF TableInv, Insertion
  <2>3. \A user \in Users : NamesRow(user) => NamesRow(user)'
    BY <1>5 DEF Insertion, NamesRow
  <2>4. ASSUME NEW r \in users, NEW s \in users', r.uid = s.uid
        PROVE  Advances(r, s)
    <3>1. r = s
      BY <1>5, <2>4 DEF Insertion, UniqueUids
    <3>2. QED
      BY <1>1, <1>2, <3>1
  <2>5. QED
    BY <1>1, <1>5, <2>2, <2>3, <2>4 DEF Insertion
<1>6. QED
  BY <1>3, <1>4, <1>5 DEF TableStep

-----------------------------------------------------------------------------
(* What a worker's step does: to the table, to its own job, to the floor.  *)
FloorType == [generation : Generations, keys_changed_at : Generations]

GoodStep(w) ==
    /\ TableStep
    /\ UNCHANGED <<nodeTable, world>>
    /\ floor' \in FloorType
    /\ \E j \in Jobs : job' = [job EXCEPT ![w] = j]
    /\ JobInv(w)'

LEMMA EndTypes ==
    ASSUME NEW w \in Workers, NEW pc \in {"idle", "error"},
           TypeOK, End(w, pc)
    PROVE  /\ \E j \in Jobs : job' = [job EXCEPT ![w] = j]
           /\ JobInv(w)'
<1>1. Ended(pc) \in Jobs
  BY ConstantTypes DEF PCs
<1>2. job'[w] = Ended(pc)
  BY DEF End, TypeOK
<1>3. job'[w].pc \in {"idle", "error"}
  BY <1>2 DEF Ended
<1>4. JobInv(w)'
  BY <1>3 DEF JobInv
<1>5. QED
  BY <1>1, <1>4 DEF End

(* A job that carries on has a type and says what it was told to.          *)
LEMMA GoTypes ==
    ASSUME NEW w \in Workers, NEW pc \in PCs, NEW user \in Users,
           NEW stale \in SUBSET Rows, NEW since \in Nat, NEW stamp \in Nat,
           TypeOK, Go(w, pc, user, stale, since, stamp)
    PROVE  /\ \E j \in Jobs : job' = [job EXCEPT ![w] = j]
           /\ job'[w].pc = pc /\ job'[w].user = user
           /\ job'[w].since = since /\ job'[w].seen = job[w].seen
BY DEF TypeOK, Go, Jobs

(* The facts about a worker that its steps start from.                     *)
LEMMA JobTypes ==
    ASSUME NEW w \in Workers, IInv
    PROVE  /\ job[w] \in Jobs
           /\ job[w].user \in Users /\ job[w].claims \in Claims
           /\ job[w].stale \in SUBSET Rows
           /\ job[w].since \in Nat /\ job[w].stamp \in Nat
           /\ floor \in FloorType
           /\ users \in SUBSET Rows
           /\ JobInv(w)
BY DEF IInv, TypeOK, Jobs, FloorType

(* The floor rises within its type.                                        *)
LEMMA FloorTypes ==
    ASSUME NEW g \in Generations, NEW k \in Generations,
           TypeOK, RaiseFloor(g, k)
    PROVE  floor' \in FloorType
BY MaxTypes DEF TypeOK, RaiseFloor, FloorType

-----------------------------------------------------------------------------
(* One lemma per action of a worker.                                       *)

LEMMA ReceiveStep ==
    ASSUME IInv, NEW w \in Workers,
           Receive(w) \/ ReceiveEvent(w) \/ ReceiveScript(w)
    PROVE  GoodStep(w)
<1>1. PICK kind \in {"token", "event", "move"}, claims \in Claims :
         Start(w, kind, claims)
  <2>1. CASE Receive(w)
    <3>1. PICK v \in 1 .. account, client \in Clients :
             Start(w, "token", ClaimsOf(v, client))
      BY <2>1 DEF Receive
    <3>2. v \in 1 .. Len(Versions)
      BY <3>1, VersionsAssumption DEF IInv, TypeOK
    <3>3. QED
      BY <3>1, <3>2, ClaimsTypes
  <2>2. CASE ReceiveEvent(w)
    <3>1. PICK v \in 2 .. account : Start(w, "event", EventClaims(v))
      BY <2>2 DEF ReceiveEvent, StartEvent
    <3>2. v \in 1 .. Len(Versions)
      BY <3>1, VersionsAssumption DEF IInv, TypeOK
    <3>3. QED
      BY <3>1, <3>2, ClaimsTypes
  <2>3. CASE ReceiveScript(w)
    BY <2>3, ConstantTypes DEF ReceiveScript
  <2>4. QED
    BY <2>1, <2>2, <2>3
<1> DEFINE j == [pc |-> "select", kind |-> kind, claims |-> claims,
                 seen |-> [generation |-> floor.generation,
                           keys_changed_at |-> floor.keys_changed_at,
                           nodes |-> nodes],
                 user |-> NoUser, stale |-> {}, since |-> 0, stamp |-> 0]
<1>2. UNCHANGED <<table, nodeTable, world, floor>>
  BY DEF Receive, ReceiveEvent, StartEvent, ReceiveScript
<1>3. j \in Jobs
  BY ConstantTypes DEF Jobs, PCs, Kinds, Seen, IInv, TypeOK
<1>4. job' = [job EXCEPT ![w] = j] /\ job'[w] = j
  BY <1>1 DEF Start, IInv, TypeOK
<1>5. JobInv(w)'
  BY <1>2, <1>4 DEF JobInv, NoUser, nodeTable
<1> HIDE DEF j
<1>6. QED
  BY <1>2, <1>3, <1>4, <1>5
     DEF GoodStep, TableStep, IInv, TypeOK, FloorType

LEMMA SelectRecordsStep ==
    ASSUME IInv, NEW w \in Workers, SelectRecords(w)
    PROVE  GoodStep(w)
<1> DEFINE row == CurrentRow(users)
           stale == {r \in OldRows(users) : Active(r)}
           stamp == IF stale = {} THEN 0 ELSE row.created_at
<1>1. /\ UNCHANGED <<table, nodeTable, world, floor>>
      /\ job[w].pc = "select"
      /\ \/ Go(w, "allocate", NodelessUserOf(row), stale, clock, stamp)
         \/ Go(w, AfterRead(stale), UserOf(row), stale, 0, stamp)
  BY DEF SelectRecords
<1>2. /\ row \in users
      /\ UserOf(row) \in Users /\ NodelessUserOf(row) \in Users
      /\ stale \in SUBSET Rows
      /\ stamp \in Nat
  BY ReadTypes DEF SelectRecords, IInv
<1>3. clock \in Nat /\ clock >= ClockSkew
  BY DEF IInv, TypeOK, TableInv
<1>4. NodeOf(row) \in nodes \cup {NoNode}
  BY DEF NodeOf
<1>5. nodes \subseteq job[w].seen.nodes
  BY <1>1 DEF IInv, JobInv
<1>6. UserOf(row).node = NodeOf(row) /\ NodelessUserOf(row).node = NoNode
  BY DEF UserOf, NodelessUserOf
<1>7. NamesRow(UserOf(row))
  BY <1>2 DEF UserOf, NodeOf, NamesRow
<1>8. users' = users /\ nodes' = nodes
  BY <1>1 DEF table, nodeTable
<1> HIDE DEF row, stale, stamp
<1>9. CASE Go(w, "allocate", NodelessUserOf(row), stale, clock, stamp)
  <2>1. /\ \E j \in Jobs : job' = [job EXCEPT ![w] = j]
        /\ job'[w].pc = "allocate" /\ job'[w].user = NodelessUserOf(row)
        /\ job'[w].since = clock /\ job'[w].seen = job[w].seen
    BY <1>2, <1>3, <1>9, GoTypes DEF IInv, PCs
  <2>2. JobInv(w)'
    BY <1>3, <1>5, <1>6, <1>8, <2>1 DEF JobInv
  <2>3. QED
    BY <1>1, <2>1, <2>2 DEF GoodStep, TableStep, IInv, TypeOK, FloorType
<1>10. CASE Go(w, AfterRead(stale), UserOf(row), stale, 0, stamp)
  <2>1. AfterRead(stale) \in {"check", "mark"} /\ AfterRead(stale) \in PCs
    BY DEF AfterRead, PCs
  <2>2. /\ \E j \in Jobs : job' = [job EXCEPT ![w] = j]
        /\ job'[w].pc = AfterRead(stale) /\ job'[w].user = UserOf(row)
        /\ job'[w].seen = job[w].seen
    BY <1>2, <1>10, <2>1, GoTypes DEF IInv
  <2>3. JobInv(w)'
    BY <1>4, <1>5, <1>6, <1>7, <1>8, <2>1, <2>2 DEF JobInv, NamesRow
  <2>4. QED
    BY <1>1, <2>2, <2>3 DEF GoodStep, TableStep, IInv, TypeOK, FloorType
<1>11. QED
  BY <1>1, <1>9, <1>10

LEMMA SelectNothingStep ==
    ASSUME IInv, NEW w \in Workers, SelectNothing(w)
    PROVE  GoodStep(w)
<1>1. /\ UNCHANGED <<table, nodeTable, world, floor>>
      /\ job[w].pc = "select"
  BY DEF SelectNothing
<1>2. CASE End(w, "idle")
  BY <1>1, <1>2, EndTypes
     DEF GoodStep, TableStep, IInv, TypeOK, FloorType
<1>3. CASE Go(w, "allocate", NewUser(job[w].claims), {}, clock, 0)
  <2>1. NewUser(job[w].claims) \in Users
    BY JobTypes DEF NewUser, Users, Claims
  <2>2. clock \in Nat /\ clock >= ClockSkew
    BY DEF IInv, TypeOK, TableInv
  <2>3. /\ \E j \in Jobs : job' = [job EXCEPT ![w] = j]
        /\ job'[w].pc = "allocate" /\ job'[w].user = NewUser(job[w].claims)
        /\ job'[w].since = clock /\ job'[w].seen = job[w].seen
    BY <1>3, <2>1, <2>2, GoTypes DEF IInv, PCs
  <2>4. JobInv(w)'
    BY <1>1, <2>2, <2>3 DEF JobInv, NewUser, IInv, nodeTable
  <2>5. QED
    BY <1>1, <2>3, <2>4 DEF GoodStep, TableStep, IInv, TypeOK, FloorType
<1>4. CASE job' = [job EXCEPT ![w].pc = "allocate", ![w].kind = "place",
                              ![w].user = NewUser(NoClaims), ![w].since = clock]
  <2> DEFINE j == [job[w] EXCEPT !.pc = "allocate", !.kind = "place",
                                 !.user = NewUser(NoClaims), !.since = clock]
  <2>1. NewUser(NoClaims) \in Users
    BY ConstantTypes DEF NewUser, Users, Claims
  <2>2. clock \in Nat /\ clock >= ClockSkew
    BY DEF IInv, TypeOK, TableInv
  <2>3. job[w] \in Jobs /\ nodes \subseteq job[w].seen.nodes
    BY <1>1, JobTypes DEF JobInv
  <2>4. /\ j \in Jobs /\ j.pc = "allocate" /\ j.user = NewUser(NoClaims)
        /\ j.since = clock /\ j.seen = job[w].seen
    BY <2>1, <2>2, <2>3 DEF Jobs, PCs, Kinds
  <2>5. job' = [job EXCEPT ![w] = j]
    BY <1>4 DEF IInv, TypeOK, Jobs
  <2> HIDE DEF j
  <2>6. job'[w] = j
    BY <2>5 DEF IInv, TypeOK
  <2>7. NewUser(NoClaims).node = NoNode /\ nodes' = nodes
    BY <1>1 DEF NewUser, nodeTable
  <2>8. JobInv(w)'
    BY <2>2, <2>3, <2>4, <2>6, <2>7 DEF JobInv
  <2>9. QED
    BY <1>1, <2>4, <2>5, <2>8
       DEF GoodStep, TableStep, IInv, TypeOK, FloorType
<1>5. QED
  BY <1>2, <1>3, <1>4 DEF SelectNothing

LEMMA BestNodeStep ==
    ASSUME IInv, NEW w \in Workers, BestNode(w)
    PROVE  GoodStep(w)
<1>1. /\ UNCHANGED <<table, nodeTable, world, floor>>
      /\ job[w].pc = "allocate"
  BY DEF BestNode
<1>2. CASE End(w, "error")
  BY <1>1, <1>2, EndTypes
     DEF GoodStep, TableStep, IInv, TypeOK, FloorType
<1>3. ASSUME NEW n \in nodes,
             Go(w, "insert", [job[w].user EXCEPT !.node = n],
                job[w].stale, job[w].since, job[w].stamp)
      PROVE  GoodStep(w)
  <2>1. n \in NodeIds
    BY DEF IInv, TypeOK
  <2>2. [job[w].user EXCEPT !.node = n] \in Users
    BY <2>1, JobTypes DEF Users
  <2>3. /\ \E j \in Jobs : job' = [job EXCEPT ![w] = j]
        /\ job'[w].pc = "insert"
        /\ job'[w].user = [job[w].user EXCEPT !.node = n]
        /\ job'[w].since = job[w].since /\ job'[w].seen = job[w].seen
    BY <1>3, <2>2, JobTypes, GoTypes DEF IInv, PCs
  <2>4. job'[w].user.node = n
    BY <2>3, JobTypes DEF Users
  <2>5. JobInv(w)'
    BY <1>1, <2>1, <2>3, <2>4 DEF JobInv, IInv, nodeTable
  <2>6. QED
    BY <1>1, <2>3, <2>5 DEF GoodStep, TableStep, IInv, TypeOK, FloorType
<1>4. QED
  BY <1>2, <1>3 DEF BestNode

LEMMA InsertAllocatedStep ==
    ASSUME IInv, NEW w \in Workers, InsertAllocated(w)
    PROVE  GoodStep(w)
<1> DEFINE user == Inserted(job[w].user, nextUid)
<1>1. /\ UNCHANGED <<nodeTable, world, floor>>
      /\ job[w].pc = "insert"
      /\ nextUid' = nextUid + 1
      /\ Go(w, AfterRead(job[w].stale), user, job[w].stale, 0, job[w].stamp)
  BY DEF InsertAllocated
<1>2. /\ job[w].since >= ClockSkew /\ job[w].user.node \in NodeIds
      /\ nodes \subseteq job[w].seen.nodes
      /\ job[w].user.node \in job[w].seen.nodes \cup {NoNode}
  BY <1>1, JobTypes DEF JobInv
<1>3. PICK now \in ReadSince(job[w].since) :
         users' = CreateUserRecord(users, nextUid, job[w].user.node,
                                   job[w].user, now)
  BY DEF InsertAllocated
<1>4. now \in Nat /\ now <= clock
  BY <1>2, <1>3, JobTypes, BoundsAssumption DEF ReadSince, IInv, TypeOK
<1>5. /\ nextUid \in Nat /\ UniqueUids(users)
      /\ \A r \in users : r.uid < nextUid
  BY DEF IInv, TypeOK, TableInv
<1>6. /\ users' \in SUBSET Rows
      /\ UniqueUids(users')
      /\ users \subseteq users'
      /\ \E s \in users' : /\ s.uid = nextUid
                           /\ s.nodeid = job[w].user.node
                           /\ s.client_state = job[w].user.client_state
      /\ \A s \in users' \ users : s.uid = nextUid /\ s.created_at = now
  BY <1>2, <1>3, <1>4, <1>5, JobTypes, InsertTypes
<1>7. Insertion
  BY <1>1, <1>4, <1>6 DEF Insertion
<1>8. /\ user \in Users /\ user.uid = nextUid /\ user.node = job[w].user.node
      /\ user.client_state = job[w].user.client_state
  BY <1>5, JobTypes DEF Users, Inserted
<1> HIDE DEF user
<1>9. /\ AfterRead(job[w].stale) \in {"check", "mark"}
      /\ AfterRead(job[w].stale) \in PCs
  BY DEF AfterRead, PCs
<1>10. /\ \E j \in Jobs : job' = [job EXCEPT ![w] = j]
       /\ job'[w].pc = AfterRead(job[w].stale) /\ job'[w].user = user
       /\ job'[w].seen = job[w].seen
  BY <1>1, <1>8, <1>9, JobTypes, GoTypes DEF IInv
<1>11. JobInv(w)'
  <2>1. \E s \in users' : /\ s.uid = job'[w].user.uid
                          /\ s.client_state = job'[w].user.client_state
                          /\ job'[w].user.node = s.nodeid
    BY <1>6, <1>8, <1>10
  <2>2. nodes' = nodes
    BY <1>1 DEF nodeTable
  <2>3. QED
    BY <1>2, <1>8, <1>9, <1>10, <2>1, <2>2 DEF JobInv, NamesRow
<1>12. QED
  BY <1>1, <1>7, <1>10, <1>11
     DEF GoodStep, TableStep, IInv, TypeOK, FloorType

(* A worker whose user dict names a row goes on naming it, whatever the    *)
(* statement it ran did to the table.                                      *)
LEMMA StillNames ==
    ASSUME IInv, NEW user \in Users, NamesRow(user), TableStep,
           UNCHANGED world
    PROVE  \E s \in users' : /\ s.uid = user.uid
                             /\ s.client_state = user.client_state
                             /\ user.node = s.nodeid \/ user.node = NoNode
<1>1. clock' = clock /\ clock \in Nat
  BY DEF world, IInv, TypeOK
<1>2. NamesRow(user)'
  BY <1>1, TableStepPreserves DEF IInv
<1>3. QED
  BY <1>2 DEF NamesRow

LEMMA MarkOldStep ==
    ASSUME IInv, NEW w \in Workers, MarkOld(w)
    PROVE  GoodStep(w)
<1> DEFINE row == TopRanked(job[w].stale)
           stale == job[w].stale \ {row}
           stamp == IF stale = {} THEN 0 ELSE job[w].stamp
<1>1. /\ UNCHANGED <<nextUid, nodeTable, world, floor>>
      /\ job[w].pc = "mark"
      /\ users' = ReplaceUserRecord(users, row.uid, job[w].stamp)
      /\ Go(w, AfterRead(stale), job[w].user, stale, 0, stamp)
  BY DEF MarkOld
<1>2. TableStep
  <2>1. Evolves(users, users')
    BY <1>1, JobTypes, ReplaceOneEvolves
  <2>2. QED
    BY <1>1, <2>1 DEF TableStep
<1>3. stale \in SUBSET Rows /\ stamp \in Nat
  BY JobTypes
<1> HIDE DEF row, stale, stamp
<1>4. AfterRead(stale) \in {"check", "mark"} /\ AfterRead(stale) \in PCs
  BY DEF AfterRead, PCs
<1>5. /\ \E j \in Jobs : job' = [job EXCEPT ![w] = j]
      /\ job'[w].pc = AfterRead(stale) /\ job'[w].user = job[w].user
      /\ job'[w].seen = job[w].seen
  BY <1>1, <1>3, <1>4, JobTypes, GoTypes DEF IInv
<1>6. JobInv(w)'
  <2>1. /\ NamesRow(job[w].user) /\ nodes \subseteq job[w].seen.nodes
        /\ job[w].user.node \in job[w].seen.nodes \cup {NoNode}
    BY <1>1, JobTypes DEF JobInv
  <2>2. \E s \in users' :
           /\ s.uid = job'[w].user.uid
           /\ s.client_state = job'[w].user.client_state
           /\ job'[w].user.node = s.nodeid \/ job'[w].user.node = NoNode
    BY <1>1, <1>2, <1>5, <2>1, JobTypes, StillNames
  <2>3. nodes' = nodes
    BY <1>1 DEF nodeTable
  <2>4. QED
    BY <1>4, <1>5, <2>1, <2>2, <2>3 DEF JobInv, NamesRow
<1>7. QED
  BY <1>1, <1>2, <1>5, <1>6 DEF GoodStep, IInv, TypeOK, FloorType

(* Answering a request that has a user dict which names a row.             *)
LEMMA AnswerStep ==
    ASSUME IInv, NEW w \in Workers, NEW user \in Users, NamesRow(user),
           user.node \in job[w].seen.nodes \cup {NoNode},
           nodes \subseteq job[w].seen.nodes,
           TableStep, UNCHANGED <<nodeTable, world>>, Answer(w, user)
    PROVE  GoodStep(w)
<1>1. CASE End(w, "idle") /\ UNCHANGED floor
  BY <1>1, EndTypes DEF GoodStep, IInv, TypeOK, FloorType
<1>2. CASE End(w, "error") /\ UNCHANGED floor
  BY <1>2, EndTypes DEF GoodStep, IInv, TypeOK, FloorType
<1>3. CASE /\ user.node # NoNode
           /\ Go(w, "granted", user, {}, 0, 0)
           /\ RaiseFloor(user.generation, user.keys_changed_at)
  <2>1. /\ \E j \in Jobs : job' = [job EXCEPT ![w] = j]
        /\ job'[w].pc = "granted" /\ job'[w].user = user
        /\ job'[w].seen = job[w].seen
    BY <1>3, GoTypes DEF IInv, PCs
  <2>2. floor' \in FloorType
    BY <1>3, FloorTypes DEF IInv, Users
  <2>3. \E s \in users' : /\ s.uid = user.uid
                          /\ s.client_state = user.client_state
                          /\ user.node = s.nodeid \/ user.node = NoNode
    BY StillNames
  <2>4. nodes' = nodes /\ user.node \in NodeIds
    BY <1>3 DEF nodeTable, Users
  <2>5. JobInv(w)'
    BY <2>1, <2>3, <2>4 DEF JobInv, NamesRow
  <2>6. QED
    BY <2>1, <2>2, <2>5 DEF GoodStep
<1>4. QED
  BY <1>1, <1>2, <1>3 DEF Answer

(* What a worker at its checks knows.                                      *)
LEMMA CheckingFacts ==
    ASSUME IInv, NEW w \in Workers, job[w].pc \in {"check", "older"}
    PROVE  /\ NamesRow(job[w].user)
           /\ job[w].user.node \in job[w].seen.nodes \cup {NoNode}
           /\ nodes \subseteq job[w].seen.nodes
BY JobTypes DEF JobInv

LEMMA NoUpdateStep ==
    ASSUME IInv, NEW w \in Workers, NoUpdate(w)
    PROVE  GoodStep(w)
<1>1. /\ UNCHANGED <<table, nodeTable, world>>
      /\ job[w].pc = "check"
      /\ Answer(w, job[w].user)
  BY DEF NoUpdate, Checking
<1>2. QED
  BY <1>1, CheckingFacts, JobTypes, AnswerStep DEF TableStep

LEMMA UpdateInPlaceStep ==
    ASSUME IInv, NEW w \in Workers, UpdateInPlace(w)
    PROVE  GoodStep(w)
<1> DEFINE g == GenerationUpdate(job[w].user, job[w].claims)
           k == KeysUpdate(job[w].user, job[w].claims)
           user == Advanced(job[w].user, g, k)
<1>1. /\ UNCHANGED <<nextUid, nodeTable, world>>
      /\ job[w].pc = "check"
      /\ users' = UpdateUserRecordInPlace(users, g, k)
      /\ Answer(w, user)
  BY DEF UpdateInPlace, Checking
<1>2. g \in Generations \cup {NULL} /\ k \in Generations \cup {NULL}
  BY JobTypes, UpdateTypes
<1> HIDE DEF g, k
<1>3. TableStep
  <2>1. Evolves(users, users')
    BY <1>1, <1>2, JobTypes, UpdateInPlaceEvolves
  <2>2. QED
    BY <1>1, <2>1 DEF TableStep
<1>4. /\ user \in Users /\ user.uid = job[w].user.uid
      /\ user.node = job[w].user.node
      /\ user.client_state = job[w].user.client_state
  BY <1>2, JobTypes, AdvancedTypes
<1> HIDE DEF user
<1>5. NamesRow(user)
  BY <1>1, <1>4, CheckingFacts DEF NamesRow
<1>6. QED
  BY <1>1, <1>3, <1>4, <1>5, CheckingFacts, AnswerStep

LEMMA BumpGenerationStep ==
    ASSUME IInv, NEW w \in Workers, BumpGeneration(w)
    PROVE  GoodStep(w)
<1> DEFINE g == job[w].claims.generation
<1>1. /\ UNCHANGED <<nextUid, nodeTable, world>>
      /\ users' = UpdateUserRecordInPlace(users, g, NULL)
      /\ RaiseFloor(g, 0)
      /\ End(w, "idle")
  BY DEF BumpGeneration
<1>2. g \in Generations
  BY JobTypes DEF Claims
<1> HIDE DEF g
<1>3. Evolves(users, users')
  BY <1>1, <1>2, JobTypes, UpdateInPlaceEvolves
<1>4. floor' \in FloorType
  BY <1>1, <1>2, ConstantTypes, FloorTypes DEF IInv
<1>5. QED
  BY <1>1, <1>3, <1>4, EndTypes DEF GoodStep, TableStep, IInv

LEMMA LookupNodeStep ==
    ASSUME IInv, NEW w \in Workers, LookupNode(w)
    PROVE  GoodStep(w)
<1> DEFINE user == NewStateUser(job[w].user, job[w].claims)
<1>1. /\ UNCHANGED <<table, nodeTable, world, floor>>
      /\ job[w].pc = "check"
      /\ \/ job[w].user.node \in nodes /\ Go(w, "create", user, {}, clock, 0)
         \/ End(w, "error")
  BY DEF LookupNode, Checking
<1>2. CASE End(w, "error")
  BY <1>1, <1>2, EndTypes
     DEF GoodStep, TableStep, IInv, TypeOK, FloorType
<1>3. CASE job[w].user.node \in nodes /\ Go(w, "create", user, {}, clock, 0)
  <2>1. user \in Users /\ user.node = job[w].user.node
    BY JobTypes, NewStateTypes DEF NewStateUser
  <2>2. clock \in Nat /\ clock >= ClockSkew
    BY DEF IInv, TypeOK, TableInv
  <2> HIDE DEF user
  <2>3. /\ \E j \in Jobs : job' = [job EXCEPT ![w] = j]
        /\ job'[w].pc = "create" /\ job'[w].user = user
        /\ job'[w].since = clock /\ job'[w].seen = job[w].seen
    BY <1>3, <2>1, <2>2, GoTypes DEF IInv, PCs
  <2>4. nodes \subseteq NodeIds /\ nodes \subseteq job[w].seen.nodes
    BY <1>1, CheckingFacts DEF IInv, TypeOK
  <2>5. JobInv(w)'
    BY <1>1, <1>3, <2>1, <2>2, <2>3, <2>4 DEF JobInv, nodeTable
  <2>6. QED
    BY <1>1, <2>3, <2>5 DEF GoodStep, TableStep, IInv, TypeOK, FloorType
<1>4. QED
  BY <1>1, <1>2, <1>3

LEMMA CreateReplacementStep ==
    ASSUME IInv, NEW w \in Workers, CreateReplacement(w)
    PROVE  GoodStep(w)
<1> DEFINE user == Inserted(job[w].user, nextUid)
<1>1. /\ UNCHANGED <<nodeTable, world, floor>>
      /\ job[w].pc = "create"
      /\ nextUid' = nextUid + 1
  BY DEF CreateReplacement
<1>2. /\ job[w].since >= ClockSkew /\ job[w].user.node \in NodeIds
      /\ nodes \subseteq job[w].seen.nodes
      /\ job[w].user.node \in job[w].seen.nodes \cup {NoNode}
  BY <1>1, JobTypes DEF JobInv
<1>3. PICK now \in ReadSince(job[w].since) :
         /\ users' = CreateUserRecord(users, nextUid, job[w].user.node,
                                      job[w].user, now)
         /\ Go(w, "older", user, {}, 0, now)
  BY DEF CreateReplacement
<1>4. now \in Nat /\ now <= clock
  BY <1>2, <1>3, JobTypes, BoundsAssumption DEF ReadSince, IInv, TypeOK
<1>5. /\ nextUid \in Nat /\ UniqueUids(users)
      /\ \A r \in users : r.uid < nextUid
  BY DEF IInv, TypeOK, TableInv
<1>6. /\ users' \in SUBSET Rows
      /\ UniqueUids(users')
      /\ users \subseteq users'
      /\ \E s \in users' : /\ s.uid = nextUid
                           /\ s.nodeid = job[w].user.node
                           /\ s.client_state = job[w].user.client_state
      /\ \A s \in users' \ users : s.uid = nextUid /\ s.created_at = now
  BY <1>2, <1>3, <1>4, <1>5, JobTypes, InsertTypes
<1>7. Insertion
  BY <1>1, <1>4, <1>6 DEF Insertion
<1>8. /\ user \in Users /\ user.uid = nextUid /\ user.node = job[w].user.node
      /\ user.client_state = job[w].user.client_state
  BY <1>5, JobTypes DEF Users, Inserted
<1> HIDE DEF user
<1>9. /\ \E j \in Jobs : job' = [job EXCEPT ![w] = j]
      /\ job'[w].pc = "older" /\ job'[w].user = user
      /\ job'[w].seen = job[w].seen
  BY <1>3, <1>4, <1>8, GoTypes DEF IInv, PCs
<1>10. JobInv(w)'
  <2>1. \E s \in users' : /\ s.uid = job'[w].user.uid
                          /\ s.client_state = job'[w].user.client_state
                          /\ job'[w].user.node = s.nodeid
    BY <1>6, <1>8, <1>9
  <2>2. nodes' = nodes
    BY <1>1 DEF nodeTable
  <2>3. QED
    BY <1>2, <1>8, <1>9, <2>1, <2>2 DEF JobInv, NamesRow
<1>11. QED
  BY <1>1, <1>7, <1>9, <1>10
     DEF GoodStep, TableStep, IInv, TypeOK, FloorType

LEMMA ReplaceOlderStep ==
    ASSUME IInv, NEW w \in Workers, ReplaceOlder(w)
    PROVE  GoodStep(w)
<1>1. /\ UNCHANGED <<nextUid, nodeTable, world>>
      /\ job[w].pc = "older"
      /\ users' = ReplaceUserRecords(users, job[w].stamp)
      /\ Answer(w, job[w].user)
  BY DEF ReplaceOlder
<1>2. Evolves(users, users')
  BY <1>1, JobTypes, ReplaceOlderEvolves
<1>3. TableStep
  BY <1>1, <1>2 DEF TableStep
<1>4. QED
  BY <1>1, <1>3, JobTypes, CheckingFacts, AnswerStep

LEMMA MoveUserStep ==
    ASSUME IInv, NEW w \in Workers, MoveUser(w)
    PROVE  GoodStep(w)
<1>1. /\ UNCHANGED <<table, nodeTable, world, floor>>
      /\ job[w].pc = "check"
  BY DEF MoveUser, Checking
<1>2. PICK n \in nodes :
         Go(w, "create", MovedUser(job[w].user, n), {}, clock, 0)
  BY DEF MoveUser
<1>3. n \in NodeIds /\ n \in job[w].seen.nodes
  BY <1>1, CheckingFacts DEF IInv, TypeOK
<1>4. /\ MovedUser(job[w].user, n) \in Users
      /\ MovedUser(job[w].user, n).node = n
  BY <1>3, JobTypes DEF MovedUser, Users
<1>5. clock \in Nat /\ clock >= ClockSkew
  BY DEF IInv, TypeOK, TableInv
<1>6. /\ \E j \in Jobs : job' = [job EXCEPT ![w] = j]
      /\ job'[w].pc = "create" /\ job'[w].user = MovedUser(job[w].user, n)
      /\ job'[w].since = clock /\ job'[w].seen = job[w].seen
  BY <1>2, <1>4, <1>5, GoTypes DEF IInv, PCs
<1>7. nodes' = nodes /\ nodes \subseteq job[w].seen.nodes
  BY <1>1, CheckingFacts DEF nodeTable
<1>8. JobInv(w)'
  BY <1>3, <1>4, <1>5, <1>6, <1>7 DEF JobInv
<1>9. QED
  BY <1>1, <1>6, <1>8 DEF GoodStep, TableStep, IInv, TypeOK, FloorType

LEMMA FinishMoveStep ==
    ASSUME IInv, NEW w \in Workers, FinishMove(w)
    PROVE  GoodStep(w)
<1>1. /\ UNCHANGED <<nextUid, nodeTable, world, floor>>
      /\ users' = ReplaceUserRecords(users, job[w].stamp)
      /\ End(w, "idle")
  BY DEF FinishMove
<1>2. Evolves(users, users')
  BY <1>1, JobTypes, ReplaceOlderEvolves
<1>3. QED
  BY <1>1, <1>2, EndTypes DEF GoodStep, TableStep, IInv, TypeOK, FloorType

LEMMA QuitStep ==
    ASSUME IInv, NEW w \in Workers, Reject(w) \/ StayPut(w) \/ Crash(w)
    PROVE  GoodStep(w)
<1>1. UNCHANGED <<table, nodeTable, world, floor>> /\ End(w, "idle")
  BY DEF Reject, StayPut, Crash
<1>2. QED
  BY <1>1, EndTypes DEF GoodStep, TableStep, IInv, TypeOK, FloorType

LEMMA WorkerStep ==
    ASSUME IInv, NEW w \in Workers, Step(w)
    PROVE  GoodStep(w)
BY ReceiveStep, SelectRecordsStep, SelectNothingStep, BestNodeStep,
   InsertAllocatedStep, MarkOldStep, NoUpdateStep, UpdateInPlaceStep,
   BumpGenerationStep, LookupNodeStep, CreateReplacementStep,
   ReplaceOlderStep, MoveUserStep, FinishMoveStep, QuitStep
   DEF Step

-----------------------------------------------------------------------------
(* What the environment's steps do: no job changes, no node comes back and *)
(* the clock does not go back.                                             *)
GoodEnvironmentStep ==
    /\ TableStep
    /\ job' = job
    /\ nodes' \subseteq nodes
    /\ removing' \subseteq NodeIds
    /\ clock' \in Nat /\ clock' >= clock
    /\ account' \in 1 .. Len(Versions)
    /\ floor' \in FloorType

LEMMA EnvironmentStep ==
    ASSUME IInv, Environment
    PROVE  GoodEnvironmentStep
<1> USE DEF FloorType, table, nodeTable, world
<1>1. TypeOK /\ clock \in Nat /\ clock >= ClockSkew /\ ClockSkew \in Nat
  BY BoundsAssumption DEF IInv, TypeOK, TableInv
<1>2. \A now \in ReadSince(clock) : now \in Nat
  BY <1>1 DEF ReadSince
<1>3. CASE Tick
  BY <1>1, <1>3 DEF Tick, GoodEnvironmentStep, TableStep, TypeOK
<1>4. CASE ChangeAccount
  BY <1>1, <1>4, VersionsAssumption
     DEF ChangeAccount, GoodEnvironmentStep, TableStep, TypeOK
<1>5. CASE RetireUser
  <2>1. Evolves(users, users')
    BY <1>1, <1>2, <1>5, RetireEvolves DEF RetireUser, TypeOK
  <2>2. MAX_GENERATION \in Generations
    BY MaxGenerationAssumption DEF Generations
  <2>3. QED
    BY <1>1, <1>5, <2>1, <2>2
       DEF RetireUser, GoodEnvironmentStep, TableStep, TypeOK
<1>6. ASSUME NEW n \in NodeIds, UnassignNode(n) \/ UnassignRemoved(n)
      PROVE  GoodEnvironmentStep
  <2>1. Evolves(users, users')
    BY <1>1, <1>2, <1>6, UnassignEvolves
       DEF UnassignNode, UnassignRemoved, TypeOK
  <2>2. QED
    BY <1>1, <1>6, <2>1
       DEF UnassignNode, UnassignRemoved, GoodEnvironmentStep, TableStep,
           TypeOK
<1>7. ASSUME NEW n \in NodeIds, DeleteNode(n)
      PROVE  GoodEnvironmentStep
  BY <1>1, <1>7 DEF DeleteNode, GoodEnvironmentStep, TableStep, TypeOK
<1>8. QED
  BY <1>3, <1>4, <1>5, <1>6, <1>7 DEF Environment

-----------------------------------------------------------------------------
(* The invariant is inductive.                                             *)

LEMMA InitInv == Init => IInv
<1> SUFFICES ASSUME Init PROVE IInv
  OBVIOUS
<1>1. TypeOK
  <2>1. Ended("idle") \in Jobs
    BY ConstantTypes DEF PCs
  <2>2. QED
    BY <2>1, ConstantTypes, BoundsAssumption, VersionsAssumption
       DEF Init, TypeOK
<1>2. TableInv
  BY BoundsAssumption DEF Init, TableInv, UniqueUids
<1>3. ASSUME NEW w \in Workers
      PROVE  JobInv(w)
  <2>1. job[w].pc = "idle"
    BY DEF Init, Ended
  <2>2. QED
    BY <2>1 DEF JobInv
<1>4. QED
  BY <1>1, <1>2, <1>3 DEF IInv

(* A job that a step leaves alone keeps its invariant.                     *)
LEMMA OtherJobs ==
    ASSUME IInv, NEW w \in Workers, TableStep, job'[w] = job[w],
           nodes' \subseteq nodes, clock' \in Nat, clock' >= clock
    PROVE  JobInv(w)'
<1>1. NamesRow(job[w].user) =>
         \E s \in users' : /\ s.uid = job[w].user.uid
                           /\ s.client_state = job[w].user.client_state
                           /\ \/ job[w].user.node = s.nodeid
                              \/ job[w].user.node = NoNode
  <2> SUFFICES ASSUME NEW user \in Users, NamesRow(user)
               PROVE  \E s \in users' :
                         /\ s.uid = user.uid
                         /\ s.client_state = user.client_state
                         /\ user.node = s.nodeid \/ user.node = NoNode
    BY JobTypes
  <2>1. NamesRow(user)'
    BY TableStepPreserves DEF IInv
  <2>2. QED
    BY <2>1 DEF NamesRow
<1>2. JobInv(w)
  BY JobTypes
<1>3. QED
  BY <1>1, <1>2 DEF JobInv, NamesRow

LEMMA NextInv ==
    ASSUME IInv, [Next]_vars
    PROVE  /\ IInv'
           /\ \A r \in users, s \in users' : r.uid = s.uid => Advances(r, s)
<1>1. clock \in Nat /\ TypeOK
  BY DEF IInv, TypeOK
<1>2. CASE Environment
  <2>1. GoodEnvironmentStep
    BY <1>2, EnvironmentStep
  <2>2. \A w \in Workers : JobInv(w)'
    BY <2>1, OtherJobs DEF GoodEnvironmentStep
  <2>3. TypeOK'
    BY <1>1, <2>1, TableStepPreserves
       DEF GoodEnvironmentStep, FloorType, TypeOK, IInv
  <2>4. QED
    BY <1>1, <2>1, <2>2, <2>3, TableStepPreserves
       DEF GoodEnvironmentStep, IInv
<1>3. ASSUME NEW w \in Workers, Step(w)
      PROVE  /\ IInv'
             /\ \A r \in users, s \in users' : r.uid = s.uid => Advances(r, s)
  <2>1. GoodStep(w)
    BY <1>3, WorkerStep
  <2>2. clock' = clock /\ nodes' = nodes /\ removing' = removing
        /\ account' = account
    BY <2>1 DEF GoodStep, nodeTable, world
  <2>3. PICK j \in Jobs : job' = [job EXCEPT ![w] = j]
    BY <2>1 DEF GoodStep
  <2>4. ASSUME NEW v \in Workers
        PROVE  JobInv(v)'
    <3>1. CASE v = w
      BY <2>1, <3>1 DEF GoodStep
    <3>2. CASE v # w
      <4>1. job'[v] = job[v]
        BY <1>1, <2>3, <3>2 DEF TypeOK
      <4>2. QED
        BY <1>1, <2>1, <2>2, <4>1, OtherJobs DEF GoodStep
    <3>3. QED
      BY <3>1, <3>2
  <2>5. TypeOK'
    <3>1. job' \in [Workers -> Jobs]
      BY <1>1, <2>3 DEF TypeOK
    <3>2. users' \subseteq Rows /\ nextUid' \in Nat \ {0}
      BY <1>1, <2>1, <2>2, TableStepPreserves DEF GoodStep, IInv
    <3>3. QED
      BY <1>1, <2>1, <2>2, <3>1, <3>2 DEF GoodStep, FloorType, TypeOK
  <2>6. QED
    BY <1>1, <2>1, <2>2, <2>4, <2>5, TableStepPreserves DEF GoodStep, IInv
<1>4. CASE UNCHANGED vars
  <2>1. /\ UNCHANGED <<users, nextUid, nodes, removing, clock, account, job,
                       floor>>
    BY <1>4 DEF vars, table, nodeTable, world
  <2>2. TableStep
    BY <2>1 DEF TableStep, table
  <2>3. \A w \in Workers : JobInv(w)'
    BY <1>1, <2>1, <2>2, OtherJobs
  <2>4. TypeOK'
    BY <1>1, <2>1 DEF TypeOK
  <2>5. QED
    BY <1>1, <2>1, <2>2, <2>3, <2>4, TableStepPreserves DEF IInv
<1>5. QED
  BY <1>2, <1>3, <1>4 DEF Next

LEMMA Invariance == Spec => []IInv
<1>1. Init => IInv
  BY InitInv
<1>2. IInv /\ [Next]_vars => IInv'
  BY NextInv
<1>3. QED
  BY <1>1, <1>2, PTL DEF Spec

-----------------------------------------------------------------------------
(* Every value stays within its type.                                      *)
THEOREM TypeCorrect == Spec => []TypeOK
<1>1. IInv => TypeOK
  BY DEF IInv
<1>2. QED
  BY <1>1, Invariance, PTL

(* Every token names one row of the table, and that row's node and client  *)
(* state, however the requests of the account interleave with each other,  *)
(* with events, with crashes and with the operators' work on the nodes.    *)
THEOREM TokensNameTheirRows == Spec => []TokenNamesItsRow
<1>1. IInv => TokenNamesItsRow
  <2> SUFFICES ASSUME IInv, NEW w \in Workers, job[w].pc = "granted"
               PROVE  LET named == {r \in users : r.uid = job[w].user.uid} IN
                      /\ Cardinality(named) = 1
                      /\ \A r \in named :
                            /\ r.nodeid = job[w].user.node
                            /\ r.client_state = job[w].user.client_state
    BY DEF TokenNamesItsRow
  <2>1. job[w].user.node \in NodeIds /\ NamesRow(job[w].user)
    BY JobTypes DEF JobInv
  <2>2. PICK r \in users : /\ r.uid = job[w].user.uid
                           /\ r.client_state = job[w].user.client_state
                           /\ job[w].user.node = r.nodeid
    BY <2>1, NoNodeAssumption DEF NamesRow
  <2>3. {q \in users : q.uid = job[w].user.uid} = {r}
    BY <2>2 DEF IInv, TableInv, UniqueUids
  <2>4. Cardinality({r}) = 1
    BY FS_Singleton
  <2>5. QED
    BY <2>2, <2>3, <2>4
<1>2. QED
  BY <1>1, Invariance, PTL

(* No token is issued for a node that was gone when its request arrived.   *)
THEOREM TokensNameLiveNodes == Spec => []NoTokenForRemovedNode
<1>1. IInv => NoTokenForRemovedNode
  BY NoNodeAssumption, JobTypes DEF JobInv, NoTokenForRemovedNode
<1>2. QED
  BY <1>1, Invariance, PTL

(* No step ever moves a timestamp of a row back, reactivates a replaced    *)
(* row or changes what a row identifies.                                   *)
THEOREM RowsAdvance == Spec => RowsOnlyAdvance
<1>1. IInv /\ [Next]_vars =>
         [\A r \in users, s \in users' : r.uid = s.uid => Advances(r, s)]_vars
  BY NextInv
<1>2. QED
  BY <1>1, Invariance, PTL DEF Spec, RowsOnlyAdvance

=============================================================================
