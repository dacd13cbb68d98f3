------------------------- MODULE AccountPurgeProofs -------------------------
(***************************************************************************)
(* Requests and purging together, while the requests, events and scripts   *)
(* of the account take turns and it is not deleted: for any number of      *)
(* purgers and any of their options, any versions, clients, nodes and      *)
(* rows, and any skew of the clocks that the grace period allows for.      *)
(***************************************************************************)
EXTENDS AccountPurge, OneWorkerProofs

NoneDeleted == "delete" \notin Operations

(* The grace period is longer than a token lives and a clock lags.         *)
GraceSuffices == Grace >= TokenDuration + ClockSkew

(* What the state of a purger is made of.                                  *)
PurgePCs == {"idle", "fetch", "row", "record"}

Runs == [pc : PurgePCs, settings : Settings, service : Int, counter : Int,
         batch : SUBSET P!Reads, previous : SUBSET P!Reads]

-----------------------------------------------------------------------------
(* The inductive invariant.                                                *)

(* Every token that names uid expires by when a token does that was issued *)
(* while some clock showed t.                                              *)
ExpiresWith(uid, t) == expires[uid] <= t + TokenDuration + ClockSkew

(* The tokens that name a row other than the current one were issued       *)
(* before the current one was created, and before the row was replaced.    *)
Lasting(rows, current) ==
    \A r \in rows :
       /\ ~Active(r) => ExpiresWith(r.uid, r.replaced_at)
       /\ r # current => \/ ~Active(r)
                         \/ ExpiresWith(r.uid, current.created_at)

ExpiryInv ==
    /\ expires \in [1 .. MaxUid -> Nat]
    /\ \A u \in 1 .. MaxUid : /\ expires[u] <= clock + TokenDuration
                              /\ u >= nextUid => expires[u] = 0
    /\ Lasting(users, Current)

(* So do those of the rows that a worker is about to mark, with the time   *)
(* it is going to write; and a token is issued for an active row.          *)
MarkingInv(w) ==
    job[w].pc = "mark" =>
       \A s \in job[w].stale : ExpiresWith(s.uid, job[w].stamp)

HoldingInv(w) ==
    /\ job[w].pc = "create" => job[w].since = clock
    /\ job[w].pc = "older" =>
          /\ clock <= job[w].stamp + ClockSkew
          /\ \A r \in users : r.uid = job[w].user.uid =>
                r.created_at = job[w].stamp
    /\ job[w].pc \in {"older", "granted"} =>
          \A r \in users : r.uid = job[w].user.uid => Active(r)

HeldInv(w) == MarkingInv(w) /\ HoldingInv(w)

(* A uid whose row is out of use, and of which every token has expired.    *)
Expired(uid) ==
    /\ uid \in 1 .. MaxUid /\ uid < nextUid
    /\ GraceSuffices => expires[uid] < clock
    /\ \A r \in users : r.uid = uid => ~Active(r)

(* A purger has only rows in its batch of which all tokens have expired.   *)
PurgedInv ==
    /\ \A p \in Purgers : \A b \in purge[p].batch : Expired(b.row.uid)
    /\ \A u \in cleared : Expired(u)
    /\ \A r \in dropped : Expired(r.uid)

PurgeInv ==
    /\ purge \in [Purgers -> Runs]
    /\ ExpiryInv /\ PurgedInv
    /\ \A w \in Workers : HeldInv(w)

-----------------------------------------------------------------------------
(* The purgers.                                                            *)

LEMMA SameRows == P!Rows = Rows
BY DEF P!Rows, Rows, P!Generations, Generations, P!States, States, P!NULL, NULL

(* A step that moves one purger and leaves it a part of its batch.         *)
Moves(p) ==
    \E next \in Runs : /\ purge' = [purge EXCEPT ![p] = next]
                       /\ next.batch \subseteq purge[p].batch

LEMMA RestMoves ==
    ASSUME purge \in [Purgers -> Runs], NEW p \in Purgers, P!Rest(p)
    PROVE  Moves(p)
<1>1. purge[p].settings \in Settings
  BY DEF Runs, PurgePCs
<1>2. /\ P!Idle(purge[p].settings) \in Runs
      /\ P!Idle(purge[p].settings).batch = {}
  BY <1>1 DEF P!Idle, Runs, PurgePCs
<1>3. QED
  BY <1>2 DEF P!Rest, Moves

LEMMA MoveMoves ==
    ASSUME purge \in [Purgers -> Runs], NEW p \in Purgers, NEW pc \in PurgePCs,
           P!Move(p, pc)
    PROVE  Moves(p)
<1> DEFINE next == [purge[p] EXCEPT !.pc = pc]
<1>1. next \in Runs /\ next.batch = purge[p].batch
  BY DEF Runs, PurgePCs
<1>2. purge' = [purge EXCEPT ![p] = next]
  BY DEF P!Move
<1> HIDE DEF next
<1>3. QED
  BY <1>1, <1>2 DEF Moves

LEMMA NextServiceMoves ==
    ASSUME purge \in [Purgers -> Runs], NEW p \in Purgers, P!NextService(p)
    PROVE  Moves(p)
<1> DEFINE next == [purge[p] EXCEPT !.pc = "fetch", !.service = @ + 1,
                                    !.batch = {}, !.previous = {}]
<1>1. P!Rest(p) \/ purge' = [purge EXCEPT ![p] = next]
  BY DEF P!NextService
<1>2. next \in Runs /\ next.batch = {}
  <2>1. purge[p] \in Runs /\ purge[p].service + 1 \in Int
    BY DEF Runs
  <2>2. QED
    BY <2>1 DEF Runs, PurgePCs
<1> HIDE DEF next
<1>3. QED
  BY <1>1, <1>2, RestMoves DEF Moves

LEMMA NextRowMoves ==
    ASSUME purge \in [Purgers -> Runs], NEW p \in Purgers, P!NextRow(p)
    PROVE  Moves(p)
<1> DEFINE counter == purge[p].counter + (IF P!Counted(p) THEN 1 ELSE 0)
           next == [purge[p] EXCEPT !.pc = "row", !.counter = counter,
                                    !.batch = @ \ P!Current(p)]
<1>1. P!Rest(p) \/ purge' = [purge EXCEPT ![p] = next]
  BY DEF P!NextRow
<1>2. counter \in Int
  BY DEF Runs, PurgePCs
<1> HIDE DEF counter
<1>3. next \in Runs /\ next.batch \subseteq purge[p].batch
  BY <1>2 DEF Runs, PurgePCs
<1> HIDE DEF next
<1>4. QED
  BY <1>1, <1>3, RestMoves DEF Moves

LEMMA FetchMoves ==
    ASSUME users \in SUBSET Rows, purge \in [Purgers -> Runs],
           NEW p \in Purgers, P!FetchRows(p)
    PROVE  \E next \in Runs :
              /\ purge' = [purge EXCEPT ![p] = next]
              /\ \A b \in next.batch : \/ b \in purge[p].batch
                                       \/ b.row \in users /\ P!Old(b.row)
<1>1. CASE P!NextService(p)
  BY <1>1, NextServiceMoves DEF Moves
<1>2. CASE ~P!NextService(p)
  <2>1. PICK offset : purge' = [purge EXCEPT ![p] =
                         [@ EXCEPT !.pc = "row", !.counter = 0,
                                   !.batch = P!Fetchable(p, offset),
                                   !.previous = P!Fetchable(p, offset)]]
    BY <1>2 DEF P!FetchRows
  <2> DEFINE rows == P!Fetchable(p, offset)
             next == [purge[p] EXCEPT !.pc = "row", !.counter = 0,
                                      !.batch = rows, !.previous = rows]
  <2>2. ASSUME NEW b \in rows
        PROVE  b \in P!Reads /\ b.row \in users /\ P!Old(b.row)
    <3>1. PICK r \in users : b = P!ReadOf(r) /\ P!Old(r)
      BY DEF P!Fetchable, P!GetOldUserRecords
    <3>2. P!ReadOf(r).row = r /\ P!ReadOf(r) \in P!Reads
      <4>1. PICK node \in {"up", "down", "none"} :
               P!ReadOf(r) = [row |-> r, node |-> node]
        BY DEF P!ReadOf
      <4>2. r \in P!Rows
        BY SameRows
      <4>3. QED
        BY <4>1, <4>2 DEF P!Reads
    <3>3. QED
      BY <3>1, <3>2
  <2>3. purge' = [purge EXCEPT ![p] = next]
    BY <2>1
  <2> HIDE DEF rows
  <2>4. next \in Runs /\ next.batch = rows
    <3>1. purge[p] \in Runs /\ 0 \in Int /\ rows \in SUBSET P!Reads
      BY <2>2
    <3>2. QED
      BY <3>1 DEF Runs, PurgePCs
  <2> HIDE DEF next
  <2>5. QED
    BY <2>2, <2>3, <2>4
<1>3. QED
  BY <1>1, <1>2

(* What a purger does: rows it forgets and data it has deleted are of its  *)
(* batch, and what comes into the batch are old rows.                      *)
Purging(p) ==
    /\ purge' \in [Purgers -> Runs]
    /\ clock' = clock /\ nodes' = nodes
    /\ users' \subseteq users
    /\ \A r \in users \ users' : \E b \in purge[p].batch : r.uid = b.row.uid
    /\ \A q \in Purgers : \A b \in purge'[q].batch :
          b \in purge[q].batch \/ (b.row \in users /\ P!Old(b.row))
    /\ \A u \in cleared' \ cleared : \E b \in purge[p].batch : u = b.row.uid
    /\ \A r \in dropped' \ dropped : \E b \in purge[p].batch : r.uid = b.row.uid

LEMMA PurgerStepIs ==
    ASSUME users \in SUBSET Rows, purge \in [Purgers -> Runs],
           NEW p \in Purgers, P!PurgerStep(p)
    PROVE  Purging(p)
<1>1. P!Current(p) \subseteq purge[p].batch
  BY DEF P!Current
<1>2. /\ clock' = clock /\ nodes' = nodes
      /\ \/ P!DeleteUserRecord(p)
         \/ users' = users /\ dropped' = dropped
      /\ P!DeleteServiceData(p) \/ cleared' = cleared
  BY DEF P!PurgerStep, P!StartPurge, P!FetchRows, P!DetectLoop, P!EndBatch,
         P!PassRow, P!SkipData, P!DeleteServiceData, P!SkipDowned,
         P!DeleteUserRecord, P!StopPurge
<1>3. /\ users' \subseteq users
      /\ \A r \in users \ users' : \E b \in purge[p].batch : r.uid = b.row.uid
      /\ \A r \in dropped' \ dropped :
            \E b \in purge[p].batch : r.uid = b.row.uid
  BY <1>1, <1>2 DEF P!DeleteUserRecord
<1>4. \A u \in cleared' \ cleared : \E b \in purge[p].batch : u = b.row.uid
  BY <1>1, <1>2 DEF P!DeleteServiceData
<1>5. P!FetchRows(p) \/ Moves(p)
  <2>1. CASE P!StartPurge(p)
    <3> DEFINE next == [purge[p] EXCEPT !.pc = "fetch", !.service = 1]
    <3>1. next \in Runs /\ next.batch = purge[p].batch
      <4>1. purge[p] \in Runs /\ 1 \in Int
        OBVIOUS
      <4>2. QED
        BY <4>1 DEF Runs, PurgePCs
    <3>2. purge' = [purge EXCEPT ![p] = next]
      BY <2>1 DEF P!StartPurge
    <3> HIDE DEF next
    <3>3. QED
      BY <3>1, <3>2 DEF Moves
  <2>2. CASE \/ P!DetectLoop(p) \/ P!EndBatch(p) \/ P!PassRow(p)
             \/ P!SkipData(p) \/ P!DeleteServiceData(p) \/ P!SkipDowned(p)
             \/ P!DeleteUserRecord(p) \/ P!StopPurge(p)
    <3>1. \/ P!Rest(p) \/ P!NextService(p) \/ P!NextRow(p)
          \/ P!Move(p, "fetch") \/ P!Move(p, "record")
      BY <2>2 DEF P!DetectLoop, P!EndBatch, P!PassRow, P!SkipData,
                  P!DeleteServiceData, P!SkipDowned, P!DeleteUserRecord,
                  P!StopPurge
    <3>2. QED
      BY <3>1, RestMoves, MoveMoves, NextServiceMoves, NextRowMoves
         DEF PurgePCs
  <2>3. QED
    BY <2>1, <2>2 DEF P!PurgerStep
<1>6. PICK next \in Runs :
         /\ purge' = [purge EXCEPT ![p] = next]
         /\ \A b \in next.batch : \/ b \in purge[p].batch
                                  \/ b.row \in users /\ P!Old(b.row)
  BY <1>5, FetchMoves DEF Moves
<1>7. /\ purge' \in [Purgers -> Runs]
      /\ \A q \in Purgers : \A b \in purge'[q].batch :
            b \in purge[q].batch \/ (b.row \in users /\ P!Old(b.row))
  BY <1>6
<1>8. QED
  BY <1>2, <1>3, <1>4, <1>7 DEF Purging

(* The account is in use once it has a row.                                *)
LEMMA InUse ==
    ASSUME Serial, NoneDeleted, IInv, SerialInv
    PROVE  /\ ~Deleted
           /\ users # {} => /\ Live /\ Active(Current)
                            /\ Current \in users /\ Current \in Rows
                            /\ \A r \in users : r.uid = Current.uid => r = Current
<1>1. ~Deleted
  BY DEF SerialInv, CurrentInv, NoneDeleted
<1>2. QED
  BY <1>1, CurrentFacts DEF SerialInv, CurrentInv, Live

LEMMA InUseNext ==
    ASSUME Serial, NoneDeleted
    PROVE  (IInv /\ SerialInv)' =>
              /\ ~Deleted'
              /\ users' # {} =>
                    /\ Live' /\ Active(Current')
                    /\ Current' \in users' /\ Current' \in Rows
                    /\ \A r \in users' : r.uid = Current'.uid => r = Current'
<1> SUFFICES ASSUME IInv', SerialInv'
             PROVE  /\ ~Deleted'
                    /\ users' # {} =>
                          /\ Live' /\ Active(Current')
                          /\ Current' \in users' /\ Current' \in Rows
                          /\ \A r \in users' : r.uid = Current'.uid => r = Current'
  OBVIOUS
<1>1. ~Deleted' /\ nextUid' <= MaxUid + 1 /\ (Live' => Active(Current'))
  BY DEF SerialInv, CurrentInv, NoneDeleted
<1>2. Ordered(users')
  BY <1>1, OrderedNext
<1>3. users' # {} => Current' \in users'
  BY <1>2, Sight DEF Current
<1>4. QED
  BY <1>1, <1>2, <1>3 DEF Live, Ordered, UniqueUids

(* Rows out of use may be forgotten.                                       *)
LEMMA Forgotten ==
    ASSUME Serial, NoneDeleted, IInv, SerialInv, PurgeInv,
           users' \subseteq users, \A r \in users \ users' : ~Active(r),
           UNCHANGED <<nextUid, nodeTable, world, job, floor>>
    PROVE  /\ IInv' /\ SerialInv'
           /\ users' = {} <=> users = {}
           /\ Current' = Current
<1>1. CASE users' = users
  <2>1. [Next]_vars
    BY <1>1 DEF vars, table
  <2>2. QED
    BY <1>1, <2>1, NextInv, SerialNext DEF Current
<1>2. CASE users' # users
  <2>1. /\ users # {} /\ Live /\ Active(Current) /\ ~Deleted
        /\ Current \in users /\ Current \in users'
        /\ \A r \in users : r.uid = Current.uid => r = Current
    BY <1>2, InUse
  <2>2. /\ Ordered(users) /\ Ordered(users')
        /\ \A s \in users' \ {Current} : Outranks(Current, s)
    <3>1. Ordered(users)
      BY OrderedNow DEF SerialInv, CurrentInv
    <3>2. Ordered(users')
      BY <3>1 DEF Ordered, UniqueUids, Bounded
    <3>3. QED
      BY <2>1, <3>1, <3>2, Sight DEF Current
  <2>3. Current' = Current
    BY <2>1, <2>2, CurrentIs DEF Current
  <2>4. (Live' <=> Live) /\ ~Deleted'
    BY <2>1 DEF Live, Deleted
  <2>5. ASSUME NEW w \in Workers
        PROVE  JobInv(w)'
    <3>1. CASE job[w].pc \in {"mark", "check", "older", "granted"}
      <4>1. PICK r \in users : /\ r.uid = job[w].user.uid
                               /\ r.client_state = job[w].user.client_state
                               /\ job[w].user.node = r.nodeid
                                     \/ job[w].user.node = NoNode
        BY <3>1 DEF IInv, JobInv, NamesRow
      <4>2. r \in users'
        <5>1. CASE job[w].pc \in {"mark", "check"}
          BY <2>1, <4>1, <5>1, WorkerFacts DEF PlaceInv, Matches
        <5>2. CASE job[w].pc \in {"older", "granted"}
          BY <4>1, <5>2 DEF PurgeInv, HeldInv, HoldingInv
        <5>3. QED
          BY <3>1, <5>1, <5>2
      <4>3. QED
        BY <4>1, <4>2 DEF IInv, JobInv, NamesRow, nodeTable
    <3>2. CASE job[w].pc \notin {"mark", "check", "older", "granted"}
      BY <3>2 DEF IInv, JobInv, nodeTable
    <3>3. QED
      BY <3>1, <3>2
  <2>6. IInv'
    <3>1. TypeOK'
      BY DEF IInv, TypeOK, nodeTable, world
    <3>2. TableInv'
      BY DEF IInv, TableInv, UniqueUids, world
    <3>3. QED
      BY <2>5, <3>1, <3>2 DEF IInv
  <2>7. CurrentInv' /\ FloorInv'
    BY <2>1, <2>3, <2>4 DEF SerialInv, CurrentInv, FloorInv, nodeTable
  <2>8. ASSUME NEW w \in Workers
        PROVE  WorkerInv(w)'
    <3>1. /\ Matches(job[w].user, Current)' <=> Matches(job[w].user, Current)
          /\ OnlyActive(Current) => OnlyActive(Current)'
          /\ Succeeds(job[w].user, job[w].claims, job[w].kind)' <=>
                Succeeds(job[w].user, job[w].claims, job[w].kind)
      BY <2>3 DEF Matches, OnlyActive, Succeeds
    <3>2. PlaceInv(w)'
      BY <2>1, <2>3, <2>4, <3>1, WorkerFacts DEF PlaceInv, world
    <3>3. ClaimsInv(w)' /\ SeenInv(w)'
      BY WorkerFacts DEF ClaimsInv, SeenInv
    <3>4. QED
      BY <3>2, <3>3 DEF WorkerInv
  <2>9. QED
    BY <2>1, <2>3, <2>6, <2>7, <2>8 DEF SerialInv
<1>3. QED
  BY <1>1, <1>2

LEMMA PurgeStepKeeps ==
    ASSUME Serial, NoneDeleted, IInv, SerialInv, PurgeInv,
           NEW p \in Purgers, PurgeStep(p)
    PROVE  /\ IInv' /\ SerialInv' /\ PurgeInv'
           /\ users' = {} <=> users = {}
           /\ Current' = Current
<1>1. /\ UNCHANGED <<nextUid, removing, account, job, floor, expires>>
      /\ Purging(p) /\ users \in SUBSET Rows
  BY PurgerStepIs DEF PurgeStep, PurgeInv, IInv, TypeOK
<1>2. UNCHANGED <<nextUid, nodeTable, world, job, floor, expires>>
      /\ users' \subseteq users
  BY <1>1 DEF Purging, nodeTable, world
<1>3. \A b \in purge[p].batch : Expired(b.row.uid)
  BY DEF PurgeInv, PurgedInv
<1>4. \A r \in users \ users' : ~Active(r)
  BY <1>1, <1>3 DEF Purging, Expired
<1>5. /\ IInv' /\ SerialInv' /\ Current' = Current
      /\ users' = {} <=> users = {}
  BY <1>2, <1>4, Forgotten
<1>6. ExpiryInv'
  BY <1>2, <1>5 DEF PurgeInv, ExpiryInv, Lasting, ExpiresWith, world
<1>7. \A w \in Workers : HeldInv(w)'
  BY <1>2 DEF PurgeInv, HeldInv, MarkingInv, HoldingInv, ExpiresWith, world
<1>8. \A u : Expired(u) => Expired(u)'
  BY <1>2 DEF Expired, world
<1>9. ASSUME NEW row \in users, P!Old(row)
      PROVE  Expired(row.uid)
  <2>1. ~Active(row) /\ row.replaced_at < clock - Grace
    BY <1>9 DEF P!Old, P!Active, Active, P!NULL, NULL
  <2>2. /\ row.uid \in Nat /\ 0 < row.uid /\ row.uid < nextUid
        /\ row.replaced_at \in Nat /\ clock \in Nat /\ nextUid \in Nat
        /\ \A r \in users : r.uid = row.uid => r = row
    BY <1>1, <2>1 DEF Rows, Active, IInv, TypeOK, TableInv, UniqueUids
  <2>3. row.uid \in 1 .. MaxUid
    BY <2>2, BoundsAssumption DEF SerialInv, CurrentInv
  <2>4. expires[row.uid] \in Nat /\ ExpiresWith(row.uid, row.replaced_at)
    BY <2>1, <2>3 DEF PurgeInv, ExpiryInv, Lasting
  <2>5. GraceSuffices => expires[row.uid] < clock
    BY <2>1, <2>2, <2>4, GraceAssumption, BoundsAssumption,
       TokenDurationAssumption DEF GraceSuffices, ExpiresWith
  <2>6. QED
    BY <2>1, <2>2, <2>3, <2>5 DEF Expired
<1>10. PurgedInv'
  <2>1. ASSUME NEW q \in Purgers, NEW b \in purge'[q].batch
        PROVE  Expired(b.row.uid)'
    <3>1. Expired(b.row.uid)
      BY <1>1, <1>9 DEF Purging, PurgeInv, PurgedInv
    <3>2. PICK u : u = b.row.uid
      OBVIOUS
    <3>3. QED
      BY <1>8, <3>1, <3>2
  <2>2. ASSUME NEW u \in cleared'
        PROVE  Expired(u)'
    BY <1>1, <1>3, <1>8 DEF Purging, PurgeInv, PurgedInv
  <2>3. ASSUME NEW r \in dropped'
        PROVE  Expired(r.uid)'
    <3>1. Expired(r.uid)
      BY <1>1, <1>3 DEF Purging, PurgeInv, PurgedInv
    <3>2. PICK u : u = r.uid
      OBVIOUS
    <3>3. QED
      BY <1>8, <3>1, <3>2
  <2>4. QED
    BY <2>1, <2>2, <2>3 DEF PurgedInv
<1>11. QED
  BY <1>1, <1>5, <1>6, <1>7, <1>10 DEF PurgeInv, Purging

-----------------------------------------------------------------------------
(* The requests.                                                           *)

(* What a worker's step does, before the token it issues is counted.       *)
RequestLasts(w) ==
    /\ Lasting(users', Current')
    /\ job'[w].pc = "mark" =>
          \A s \in job'[w].stale : ExpiresWith(s.uid, job'[w].stamp)
    /\ job'[w].pc = "granted" =>
          \/ job'[w].user.uid = Current'.uid
          \/ clock <= Current'.created_at + ClockSkew
    /\ HoldingInv(w)'

AllInv == IInv /\ SerialInv /\ PurgeInv

LEMMA RequestFacts ==
    ASSUME AllInv, NEW w \in Workers
    PROVE  /\ IInv /\ SerialInv /\ Lasting(users, Current)
           /\ MarkingInv(w) /\ HoldingInv(w)
           /\ clock \in Nat /\ ClockSkew \in Nat /\ TokenDuration \in Nat
           /\ MaxUid \in Nat
           /\ \A u \in 1 .. MaxUid : /\ expires[u] \in Nat
                                     /\ expires[u] <= clock + TokenDuration
           /\ \A r \in users : /\ r.uid \in 1 .. MaxUid /\ r.uid < nextUid
                               /\ r.created_at \in Nat
<1>1. /\ IInv /\ SerialInv /\ ExpiryInv /\ HeldInv(w)
  BY DEF AllInv, PurgeInv
<1>2. clock \in Nat /\ nextUid \in Nat /\ nextUid <= MaxUid + 1
  BY <1>1 DEF IInv, TypeOK, SerialInv, CurrentInv
<1>3. ClockSkew \in Nat /\ TokenDuration \in Nat /\ MaxUid \in Nat
  BY BoundsAssumption, TokenDurationAssumption
<1>4. ASSUME NEW r \in users
      PROVE  /\ r.uid \in 1 .. MaxUid /\ r.uid < nextUid
             /\ r.created_at \in Nat
  <2>1. /\ r.uid \in Nat /\ r.created_at \in Nat
        /\ 0 < r.uid /\ r.uid < nextUid
    BY <1>1 DEF IInv, TypeOK, TableInv, Rows
  <2>2. QED
    BY <1>2, <1>3, <2>1
<1>5. QED
  BY <1>1, <1>2, <1>3, <1>4 DEF ExpiryInv, HeldInv

(* Statements that leave the rows alone.                                   *)
LEMMA QuietLasts ==
    ASSUME AllInv, IInv', NEW w \in Workers,
           \/ Receive(w) \/ ReceiveEvent(w) \/ ReceiveScript(w)
           \/ SelectNothing(w) \/ BestNode(w)
           \/ Reject(w) \/ StayPut(w) \/ Crash(w)
    PROVE  RequestLasts(w)
<1>1. /\ UNCHANGED <<table, nodeTable, world, floor>>
      /\ job'[w].pc \in {"idle", "error", "select", "allocate", "insert"}
  <2>1. job \in [Workers -> Jobs]
    BY DEF AllInv, IInv, TypeOK
  <2>2. CASE Receive(w) \/ ReceiveEvent(w) \/ ReceiveScript(w)
    BY <2>1, <2>2 DEF Receive, ReceiveEvent, StartEvent, ReceiveScript, Start
  <2>3. CASE SelectNothing(w)
    <3>1. CASE End(w, "idle")
      BY <2>1, <2>3, <3>1 DEF SelectNothing, End, Ended
    <3>2. CASE Go(w, "allocate", NewUser(job[w].claims), {}, clock, 0)
      BY <2>1, <2>3, <3>2 DEF SelectNothing, Go
    <3>3. CASE job' = [job EXCEPT ![w].pc = "allocate", ![w].kind = "place",
                                  ![w].user = NewUser(NoClaims),
                                  ![w].since = clock]
      <4>1. job'[w].pc = "allocate"
        BY <2>1, <3>3 DEF Jobs
      <4>2. QED
        BY <2>3, <4>1 DEF SelectNothing
    <3>4. QED
      BY <2>3, <3>1, <3>2, <3>3 DEF SelectNothing
  <2>4. CASE BestNode(w)
    BY <2>1, <2>4 DEF BestNode, End, Ended, Go
  <2>5. CASE Reject(w) \/ StayPut(w) \/ Crash(w)
    BY <2>1, <2>5 DEF Reject, StayPut, Crash, End, Ended
  <2>6. QED
    BY <2>2, <2>3, <2>4, <2>5
<1>2. users' = users /\ Current' = Current
  BY <1>1 DEF table, Current
<1>3. HoldingInv(w)'
  BY <1>1 DEF HoldingInv
<1>4. QED
  BY <1>1, <1>2, <1>3, RequestFacts DEF RequestLasts

LEMMA SelectRecordsLasts ==
    ASSUME Serial, NoneDeleted, AllInv, IInv', NEW w \in Workers,
           SelectRecords(w)
    PROVE  RequestLasts(w)
<1> DEFINE stale == {r \in OldRows(users) : Active(r)}
           stamp == IF stale = {} THEN 0 ELSE Current.created_at
<1>1. IInv /\ SerialInv /\ Lasting(users, Current)
  BY RequestFacts
<1>2. /\ UNCHANGED <<table, nodeTable, world, floor>> /\ users # {}
      /\ users' = users /\ Current' = Current
  BY DEF SelectRecords, table, Current
<1>3. /\ OldRows(users) = users \ {Current}
      /\ ~NeedsNode(Current)
  BY <1>1, <1>2, CurrentFacts, CurrentNeedsNoNode DEF SerialInv
<1>4. Go(w, AfterRead(stale), UserOf(Current), stale, 0, stamp)
  BY <1>3 DEF SelectRecords, Current
<1>5. \A s \in stale : ExpiresWith(s.uid, Current.created_at)
  BY <1>1, <1>3 DEF Lasting
<1> HIDE DEF stale
<1>6. /\ job'[w].pc = AfterRead(stale) /\ job'[w].stale = stale
      /\ job'[w].stamp = stamp
  BY <1>1, <1>4, GoIs
<1>7. job'[w].pc \in {"mark", "check"} /\ (job'[w].pc = "mark" => stale # {})
  BY <1>6 DEF AfterRead
<1>8. HoldingInv(w)'
  BY <1>7 DEF HoldingInv
<1>9. QED
  BY <1>1, <1>2, <1>5, <1>6, <1>7, <1>8 DEF RequestLasts

(* A row is about to be inserted, at the time now.                         *)
LEMMA LookupLasts ==
    ASSUME AllInv, IInv', NEW w \in Workers, LookupNode(w) \/ MoveUser(w)
    PROVE  RequestLasts(w)
<1>1. IInv /\ Lasting(users, Current)
  BY RequestFacts
<1>2. UNCHANGED <<table, nodeTable, world, floor>>
      /\ users' = users /\ Current' = Current /\ clock' = clock
  BY DEF LookupNode, MoveUser, table, world, Current
<1>3. \/ End(w, "error")
      \/ \E user : Go(w, "create", user, {}, clock, 0)
  BY DEF LookupNode, MoveUser
<1>4. \/ job'[w].pc = "error"
      \/ job'[w].pc = "create" /\ job'[w].since = clock
  BY <1>1, <1>3 DEF End, Ended, Go, IInv, TypeOK
<1>5. HoldingInv(w)'
  BY <1>2, <1>4 DEF HoldingInv
<1>6. QED
  BY <1>1, <1>2, <1>4, <1>5 DEF RequestLasts


(* The account's first row is in use.                                      *)
LEMMA InsertAllocatedLasts ==
    ASSUME Serial, NoneDeleted, AllInv, IInv', SerialInv', NEW w \in Workers,
           InsertAllocated(w)
    PROVE  RequestLasts(w)
<1>1. IInv /\ SerialInv
  BY RequestFacts
<1>2. /\ users = {} /\ job[w].stale = {}
  BY <1>1, WorkerFacts DEF InsertAllocated, PlaceInv
<1>3. PICK new : users' = {new}
  BY <1>2 DEF InsertAllocated, CreateUserRecord
<1>4. Current' = new /\ Active(new)
  BY <1>3, InUseNext
<1>5. Go(w, "check", Inserted(job[w].user, nextUid), {}, 0, job[w].stamp)
  BY <1>2 DEF InsertAllocated, AfterRead
<1>6. job'[w].pc = "check"
  BY <1>1, <1>5, GoIs
<1>7. Lasting(users', Current') /\ HoldingInv(w)'
  BY <1>3, <1>4, <1>6 DEF Lasting, HoldingInv
<1>8. QED
  BY <1>6, <1>7 DEF RequestLasts

(* Marking a row leaves the current one, and is due for the row's tokens.  *)
LEMMA MarkOldLasts ==
    ASSUME Serial, NoneDeleted, AllInv, IInv', SerialInv', NEW w \in Workers,
           MarkOld(w)
    PROVE  RequestLasts(w)
<1> DEFINE stale == job[w].stale
           stamp == job[w].stamp
<1>1. IInv /\ SerialInv /\ Lasting(users, Current) /\ MarkingInv(w)
  BY RequestFacts
<1>2. PICK row : row = TopRanked(stale)
  OBVIOUS
<1>3. /\ job[w].pc = "mark"
      /\ users' = ReplaceUserRecord(users, row.uid, stamp)
      /\ Go(w, AfterRead(stale \ {row}), job[w].user, stale \ {row}, 0,
            IF stale \ {row} = {} THEN 0 ELSE stamp)
      /\ UNCHANGED <<nextUid, nodeTable, world, floor>>
  BY <1>2 DEF MarkOld
<1>4. /\ stale # {} /\ UniqueUids(stale) /\ stale \in SUBSET Rows
      /\ \A s \in stale : s.uid < nextUid /\ s.created_at <= clock
  BY <1>1, <1>3, WorkerFacts, JobTypes DEF PlaceInv
<1>5. row \in stale
  <2>1. nextUid \in Nat /\ clock \in Nat
    BY <1>1 DEF IInv, TypeOK
  <2>2. nextUid + clock \in Nat /\ Bounded(stale, nextUid + clock)
    BY <1>4, <2>1 DEF Bounded, Rows
  <2>3. QED
    BY <1>2, <1>4, <2>2, TopRankedExists
<1>6. users # {} /\ nextUid <= MaxUid + 1 /\ nextUid' = nextUid
  BY <1>1, <1>3 DEF IInv, JobInv, NamesRow, SerialInv, CurrentInv
<1>7. Ordered(users) /\ Ordered(users')
  BY <1>1, <1>6, OrderedNow, OrderedNext
<1>8. Live /\ stamp \in Nat
  BY <1>1, <1>6, InUse, JobTypes
<1>9. row.uid # Current.uid
  BY <1>1, <1>3, <1>5, <1>8, WorkerFacts DEF PlaceInv
<1>10. Current' = Current
  BY <1>3, <1>6, <1>7, <1>8, <1>9, MarkKeepsCurrent DEF Current
<1>11. /\ job'[w].pc = AfterRead(stale \ {row})
       /\ job'[w].stale = stale \ {row}
       /\ job'[w].stamp = IF stale \ {row} = {} THEN 0 ELSE stamp
  BY <1>1, <1>3, GoIs
<1>12. /\ job'[w].pc \in {"mark", "check"}
       /\ job'[w].pc = "mark" => stale \ {row} # {}
  BY <1>11 DEF AfterRead
<1>13. \A s \in stale : ExpiresWith(s.uid, stamp)
  BY <1>1, <1>3 DEF MarkingInv
<1>14. ASSUME NEW s \in users'
       PROVE  /\ ~Active(s) => ExpiresWith(s.uid, s.replaced_at)
              /\ s # Current => \/ ~Active(s)
                                \/ ExpiresWith(s.uid, Current.created_at)
  <2>1. PICK r \in users :
           s = IF r.uid = row.uid THEN [r EXCEPT !.replaced_at = stamp] ELSE r
    BY <1>3 DEF ReplaceUserRecord
  <2>2. CASE r.uid = row.uid
    <3>1. s.uid = row.uid /\ s.replaced_at = stamp
      BY <1>7, <2>1, <2>2 DEF Ordered, Rows
    <3>2. ~Active(s)
      BY <1>8, <3>1 DEF Active, NULL
    <3>3. QED
      BY <1>5, <1>13, <3>1, <3>2
  <2>3. CASE r.uid # row.uid
    BY <1>1, <2>1, <2>3 DEF Lasting
  <2>4. QED
    BY <2>2, <2>3
<1>15. HoldingInv(w)'
  BY <1>12 DEF HoldingInv
<1>16. QED
  BY <1>10, <1>11, <1>12, <1>13, <1>14, <1>15 DEF RequestLasts, Lasting


LEMMA AnswerIs ==
    ASSUME IInv, NEW w \in Workers, NEW user, Answer(w, user)
    PROVE  \/ job'[w].pc \in {"idle", "error"}
           \/ job'[w].pc = "granted" /\ job'[w].user = user
BY DEF Answer, End, Ended, Go, IInv, TypeOK

(* A token for the row in use.                                             *)
LEMMA CurrentAnswered ==
    ASSUME Serial, NoneDeleted, AllInv, IInv', SerialInv', NEW w \in Workers,
           NEW user, Answer(w, user), users' # {}, user.uid = Current'.uid,
           Lasting(users', Current')
    PROVE  RequestLasts(w)
<1>1. \/ job'[w].pc \in {"idle", "error"}
      \/ job'[w].pc = "granted" /\ job'[w].user = user
  BY AnswerIs, RequestFacts
<1>2. /\ Active(Current')
      /\ \A r \in users' : r.uid = Current'.uid => r = Current'
  BY InUseNext
<1>3. HoldingInv(w)'
  BY <1>1, <1>2 DEF HoldingInv
<1>4. QED
  BY <1>1, <1>3 DEF RequestLasts

LEMMA NoUpdateLasts ==
    ASSUME Serial, NoneDeleted, AllInv, IInv', SerialInv', NEW w \in Workers,
           NoUpdate(w)
    PROVE  RequestLasts(w)
<1>1. IInv /\ SerialInv /\ Lasting(users, Current)
  BY RequestFacts
<1>2. /\ job[w].pc = "check" /\ users' = users /\ Current' = Current
      /\ Answer(w, job[w].user)
  BY DEF NoUpdate, Checking, table, Current
<1>3. users # {} /\ Matches(job[w].user, Current)
  BY <1>1, <1>2, CheckingSerial, InUse
<1>4. QED
  BY <1>1, <1>2, <1>3, CurrentAnswered DEF Matches

(* An in-place update moves the current row and no other.                  *)
LEMMA InPlaceLasts ==
    ASSUME Serial, NoneDeleted, AllInv, IInv', SerialInv', NEW w \in Workers,
           job[w].pc = "check", nextUid' = nextUid, world' = world,
           NEW g \in Generations \cup {NULL}, NEW k \in Generations \cup {NULL},
           users' = UpdateUserRecordInPlace(users, g, k), [Next]_vars,
           \/ k = NULL
           \/ /\ g = NULL \/ g >= Current.generation
              /\ k >= Current.keys_changed_at
    PROVE  /\ users' # {}
           /\ Current'.uid = job[w].user.uid
           /\ Lasting(users', Current')
<1>1. IInv /\ SerialInv /\ Lasting(users, Current)
  BY RequestFacts
<1>2. ~Deleted /\ users # {} /\ Matches(job[w].user, Current)
  BY <1>1, CheckingSerial, InUse
<1>3. /\ Current'.uid = Current.uid /\ Active(Current')
      /\ \A s \in users' : s \in users \/ s = Current'
  BY <1>1, <1>2, InPlaceMoves
<1>4. users' # {}
  BY <1>2 DEF UpdateUserRecordInPlace
<1>5. /\ Current \in users /\ Current' \in users'
      /\ \A r \in users' : r.uid = Current'.uid => r = Current'
  BY <1>1, <1>2, <1>4, InUse, InUseNext
<1>6. Current'.created_at = Current.created_at
  BY <1>1, <1>3, <1>5, NextInv DEF Advances
<1>7. ASSUME NEW s \in users'
      PROVE  /\ ~Active(s) => ExpiresWith(s.uid, s.replaced_at)
             /\ s # Current' => \/ ~Active(s)
                                \/ ExpiresWith(s.uid, Current.created_at)
  <2>1. CASE s = Current'
    BY <1>3, <2>1
  <2>2. CASE s # Current'
    BY <1>1, <1>3, <1>5, <2>2 DEF Lasting
  <2>3. QED
    BY <2>1, <2>2
<1>8. Lasting(users', Current')
  BY <1>6, <1>7 DEF Lasting
<1>9. QED
  BY <1>2, <1>3, <1>4, <1>8 DEF Matches

LEMMA UpdateInPlaceLasts ==
    ASSUME Serial, NoneDeleted, AllInv, IInv', SerialInv', NEW w \in Workers,
           UpdateInPlace(w), [Next]_vars
    PROVE  RequestLasts(w)
<1> DEFINE generation == GenerationUpdate(job[w].user, job[w].claims)
           keys == KeysUpdate(job[w].user, job[w].claims)
           user == Advanced(job[w].user, generation, keys)
<1>1. /\ job[w].pc = "check" /\ nextUid' = nextUid /\ world' = world
      /\ users' = UpdateUserRecordInPlace(users, generation, keys)
      /\ Answer(w, user)
  BY DEF UpdateInPlace, Checking
<1>2. IInv /\ SerialInv
  BY RequestFacts
<1>3. /\ generation \in Generations \cup {NULL} /\ keys \in Generations \cup {NULL}
      /\ user.uid = job[w].user.uid
  BY <1>2, UpdateTypes, AdvancedTypes, JobTypes
<1>4. /\ generation = NULL \/ generation > job[w].user.generation
      /\ keys = NULL \/ keys > job[w].user.keys_changed_at
  BY <1>2, WorkerFacts, UpdatesAre
<1>5. Matches(job[w].user, Current)
  BY <1>1, <1>2, CheckingSerial, InUse
<1> HIDE DEF generation, keys, user
<1>6. \/ keys = NULL
      \/ /\ generation = NULL \/ generation >= Current.generation
         /\ keys >= Current.keys_changed_at
  BY <1>2, <1>3, <1>4, <1>5, WorkerFacts, MaxGenerationAssumption
     DEF Matches, Generations, NULL
<1>7. users' # {} /\ Current'.uid = user.uid /\ Lasting(users', Current')
  BY <1>1, <1>3, <1>6, InPlaceLasts
<1>8. QED
  BY <1>1, <1>7, CurrentAnswered

LEMMA BumpGenerationLasts ==
    ASSUME Serial, NoneDeleted, AllInv, IInv', SerialInv', NEW w \in Workers,
           BumpGeneration(w), [Next]_vars
    PROVE  RequestLasts(w)
<1>1. IInv
  BY RequestFacts
<1>2. PICK g \in Generations : g = job[w].claims.generation
  BY <1>1, JobTypes DEF Claims
<1>3. /\ job[w].pc = "check" /\ nextUid' = nextUid /\ world' = world
      /\ users' = UpdateUserRecordInPlace(users, g, NULL)
      /\ End(w, "idle")
  BY <1>2 DEF BumpGeneration, Checking
<1>4. Lasting(users', Current')
  BY <1>3, InPlaceLasts
<1>5. job'[w].pc = "idle"
  BY <1>1, <1>3 DEF End, Ended, IInv, TypeOK
<1>6. HoldingInv(w)'
  BY <1>5 DEF HoldingInv
<1>7. QED
  BY <1>4, <1>5, <1>6 DEF RequestLasts


(* A row is inserted with a time that a clock shows now; the tokens issued *)
(* so far expire in time for it.                                           *)
LEMMA CreateReplacementLasts ==
    ASSUME Serial, NoneDeleted, AllInv, IInv', SerialInv', NEW w \in Workers,
           CreateReplacement(w)
    PROVE  RequestLasts(w)
<1>1. /\ IInv /\ SerialInv /\ Lasting(users, Current) /\ HoldingInv(w)
      /\ clock \in Nat /\ ClockSkew \in Nat /\ TokenDuration \in Nat
      /\ \A r \in users : r.uid < nextUid
  BY RequestFacts
<1>2. PICK now \in ReadSince(job[w].since) :
         /\ users' = CreateUserRecord(users, nextUid, job[w].user.node,
                                      job[w].user, now)
         /\ Go(w, "older", Inserted(job[w].user, nextUid), {}, 0, now)
  BY DEF CreateReplacement
<1>3. /\ job[w].pc = "create" /\ nextUid <= MaxUid /\ nextUid' = nextUid + 1
      /\ UNCHANGED <<nodeTable, world, floor>>
  BY DEF CreateReplacement
<1>4. PICK new : /\ users' = users \cup {new} /\ new.uid = nextUid
                 /\ new.created_at = now /\ new.replaced_at = NULL
  <2> DEFINE new == [uid |-> nextUid, nodeid |-> job[w].user.node,
                     client_state |-> job[w].user.client_state,
                     generation |-> job[w].user.generation,
                     keys_changed_at |-> job[w].user.keys_changed_at,
                     created_at |-> now, replaced_at |-> NULL]
  <2>1. users' = users \cup {new}
    BY <1>2 DEF CreateUserRecord
  <2>2. new.uid = nextUid /\ new.created_at = now /\ new.replaced_at = NULL
    OBVIOUS
  <2> HIDE DEF new
  <2>3. QED
    BY <2>1, <2>2
<1>5. /\ clock' = clock /\ now \in Int /\ clock <= now + ClockSkew
  <2>1. job[w].since = clock
    BY <1>1, <1>3 DEF HoldingInv
  <2>2. now \in clock - ClockSkew .. clock
    BY <2>1 DEF ReadSince
  <2>3. QED
    BY <1>1, <1>3, <2>2 DEF world
<1>6. users # {}
  BY <1>1, <1>3, WorkerFacts DEF PlaceInv
<1>7. /\ nextUid \in Nat \ {0} /\ nextUid <= MaxUid + 1
      /\ nextUid' <= MaxUid + 1
  BY <1>1, <1>3, BoundsAssumption DEF IInv, TypeOK
<1>8. Ordered(users) /\ Ordered(users')
  BY <1>1, <1>7, OrderedNow, OrderedNext
<1>9. new \notin users /\ \A r \in users : r.uid # new.uid
  BY <1>1, <1>4, <1>7, <1>8 DEF Ordered, Rows
<1>10. Current' \in {new, Current}
  BY <1>4, <1>6, <1>8, <1>9, InsertMovesCurrent DEF Current
<1>11. \A u \in 1 .. MaxUid : ExpiresWith(u, now)
  <2>1. \A u \in 1 .. MaxUid : /\ expires[u] \in Nat
                               /\ expires[u] <= clock + TokenDuration
    BY RequestFacts
  <2>2. QED
    BY <1>1, <1>5, <2>1 DEF ExpiresWith
<1>12. ASSUME NEW s \in users'
       PROVE  /\ ~Active(s) => ExpiresWith(s.uid, s.replaced_at)
              /\ s # Current' => \/ ~Active(s)
                                 \/ ExpiresWith(s.uid, Current'.created_at)
  <2>1. CASE s = new
    <3>1. Active(s)
      BY <1>4, <2>1 DEF Active
    <3>2. CASE Current' = new
      BY <2>1, <3>1, <3>2
    <3>3. CASE Current' = Current
      <4>1. expires[nextUid] = 0
        BY <1>3, <1>7, BoundsAssumption DEF AllInv, PurgeInv, ExpiryInv
      <4>2. Current \in users /\ Current.created_at \in Nat
        BY <1>1, <1>6, InUse DEF Rows
      <4>3. QED
        BY <1>1, <1>4, <2>1, <3>1, <3>3, <4>1, <4>2 DEF ExpiresWith
    <3>4. QED
      BY <1>10, <3>2, <3>3
  <2>2. CASE s # new
    <3>1. s \in users
      BY <1>4, <2>2
    <3>2. ~Active(s) => ExpiresWith(s.uid, s.replaced_at)
      BY <1>1, <3>1 DEF Lasting
    <3>3. CASE Current' = Current
      BY <1>1, <3>1, <3>2, <3>3 DEF Lasting
    <3>4. CASE Current' = new
      <4>1. s.uid \in 1 .. MaxUid
        BY <3>1, RequestFacts
      <4>2. ExpiresWith(s.uid, Current'.created_at)
        BY <1>4, <1>11, <3>4, <4>1
      <4>3. QED
        BY <3>2, <4>2
    <3>5. QED
      BY <1>10, <3>3, <3>4
  <2>3. QED
    BY <2>1, <2>2
<1>13. /\ job'[w].pc = "older" /\ job'[w].stamp = now
       /\ job'[w].user.uid = nextUid
  <2>1. /\ job'[w].pc = "older" /\ job'[w].stamp = now
        /\ job'[w].user = Inserted(job[w].user, nextUid)
    BY <1>1, <1>2, GoIs
  <2>2. job[w].user \in Users
    BY <1>1, JobTypes
  <2>3. QED
    BY <2>1, <2>2 DEF Inserted, Users
<1>14. \A r \in users' : r.uid = nextUid => r = new
  BY <1>4, <1>9
<1>15. HoldingInv(w)'
  BY <1>4, <1>5, <1>13, <1>14 DEF HoldingInv, Active
<1>16. QED
  BY <1>12, <1>13, <1>15 DEF RequestLasts, Lasting

(* The older rows are marked with the new row's time.                      *)
LEMMA OlderLasts ==
    ASSUME Serial, NoneDeleted, AllInv, IInv', SerialInv', NEW w \in Workers,
           ReplaceOlder(w) \/ FinishMove(w), [Next]_vars
    PROVE  RequestLasts(w)
<1> DEFINE stamp == job[w].stamp
<1>1. /\ IInv /\ SerialInv /\ Lasting(users, Current) /\ HoldingInv(w)
      /\ clock \in Nat /\ ClockSkew \in Nat /\ TokenDuration \in Nat
  BY RequestFacts
<1>2. /\ job[w].pc = "older" /\ users' = ReplaceUserRecords(users, stamp)
      /\ UNCHANGED <<nextUid, nodeTable, world>>
      /\ Answer(w, job[w].user) \/ End(w, "idle")
  BY DEF ReplaceOlder, FinishMove
<1>3. TableStep
  BY <1>1, SteppedTable
<1>4. users' # {} /\ (Live => Current' = Current)
  BY <1>1, <1>2, <1>3, MarkedOlder
<1>5. users # {}
  BY <1>2, <1>4 DEF ReplaceUserRecords
<1>6. /\ Live /\ Current' = Current /\ Current \in Rows /\ stamp \in Nat
      /\ stamp <= Current.created_at
  BY <1>1, <1>2, <1>4, <1>5, InUse, JobTypes, WorkerFacts DEF PlaceInv
<1>7. clock <= stamp + ClockSkew
  BY <1>1, <1>2 DEF HoldingInv
<1>8. \A u \in 1 .. MaxUid : ExpiresWith(u, stamp)
  <2>1. \A u \in 1 .. MaxUid : /\ expires[u] \in Nat
                               /\ expires[u] <= clock + TokenDuration
    BY RequestFacts
  <2>2. QED
    BY <1>1, <1>6, <1>7, <2>1 DEF ExpiresWith
<1>9. users \in SUBSET Rows
  BY <1>1 DEF IInv, TypeOK
<1>10. ASSUME NEW s \in users'
       PROVE  /\ ~Active(s) => ExpiresWith(s.uid, s.replaced_at)
              /\ s # Current => \/ ~Active(s)
                                \/ ExpiresWith(s.uid, Current.created_at)
  <2>1. PICK r \in users :
           s = IF Active(r) /\ r.created_at < stamp
               THEN [r EXCEPT !.replaced_at = stamp] ELSE r
    BY <1>2 DEF ReplaceUserRecords
  <2>2. CASE Active(r) /\ r.created_at < stamp
    <3>1. s.uid = r.uid /\ s.replaced_at = stamp
      BY <1>9, <2>1, <2>2 DEF Rows
    <3>2. ~Active(s)
      BY <1>6, <3>1 DEF Active, NULL
    <3>3. r.uid \in 1 .. MaxUid
      BY RequestFacts
    <3>4. QED
      BY <1>8, <3>1, <3>2, <3>3
  <2>3. CASE ~(Active(r) /\ r.created_at < stamp)
    BY <1>1, <2>1, <2>3 DEF Lasting
  <2>4. QED
    BY <2>2, <2>3
<1>11. \/ job'[w].pc \in {"idle", "error"}
       \/ job'[w].pc = "granted" /\ job'[w].user = job[w].user
  <2>1. CASE Answer(w, job[w].user)
    BY <1>1, <2>1, AnswerIs
  <2>2. CASE End(w, "idle")
    BY <1>1, <2>2 DEF End, Ended, IInv, TypeOK
  <2>3. QED
    BY <1>2, <2>1, <2>2
<1>12. \A s \in users' : s.uid = job[w].user.uid => Active(s)
  <2>1. \A r \in users : r.uid = job[w].user.uid =>
           r.created_at = stamp /\ Active(r)
    BY <1>1, <1>2 DEF HoldingInv
  <2>2. QED
    BY <1>2, <1>6, <1>9, <2>1 DEF ReplaceUserRecords, Rows
<1>13. HoldingInv(w)'
  BY <1>11, <1>12 DEF HoldingInv
<1>14. clock <= Current'.created_at + ClockSkew
  <2>1. Current.created_at \in Nat
    BY <1>6 DEF Rows
  <2>2. QED
    BY <1>1, <1>6, <1>7, <2>1
<1>15. QED
  BY <1>6, <1>10, <1>11, <1>13, <1>14 DEF RequestLasts, Lasting

LEMMA StepLasts ==
    ASSUME Serial, NoneDeleted, AllInv, IInv', SerialInv', NEW w \in Workers,
           Step(w), [Next]_vars
    PROVE  RequestLasts(w)
BY QuietLasts, SelectRecordsLasts, LookupLasts, InsertAllocatedLasts,
   MarkOldLasts, NoUpdateLasts, UpdateInPlaceLasts, BumpGenerationLasts,
   CreateReplacementLasts, OlderLasts DEF Step


-----------------------------------------------------------------------------
(* The invariant is inductive.                                             *)

(* A row that is not the newly inserted one was there before.              *)
LEMMA RowsWere ==
    ASSUME IInv, TableStep
    PROVE  \A s \in users' : s.uid < nextUid =>
              \E r \in users : r.uid = s.uid /\ (Active(s) => Active(r))
<1>1. nextUid \in Nat
  BY DEF IInv, TypeOK
<1>2. QED
  BY <1>1 DEF TableStep, table, Evolves, Insertion, Advances, IInv, TableInv

LEMMA RequestStepKeeps ==
    ASSUME Serial, NoneDeleted, AllInv, NEW w \in Workers, RequestStep(w)
    PROVE  AllInv'
<1>1. /\ IInv /\ SerialInv /\ PurgeInv /\ ExpiryInv
      /\ clock \in Nat /\ ClockSkew \in Nat /\ TokenDuration \in Nat
      /\ MaxUid \in Nat
  BY RequestFacts DEF AllInv, PurgeInv
<1>2. Step(w) /\ [Next]_vars /\ UNCHANGED purgeVars
  BY DEF RequestStep, Next
<1>3. /\ IInv' /\ SerialInv' /\ TableStep /\ GoodStep(w)
  BY <1>1, <1>2, NextInv, SerialNext, SteppedTable, WorkerStep
<1>4. RequestLasts(w)
  BY <1>2, <1>3, StepLasts
<1>5. clock' = clock /\ \A v \in Workers : v = w
  BY <1>3 DEF GoodStep, world, Serial, OneAtATime
<1>6. nextUid' \in {nextUid, nextUid + 1} /\ nextUid \in Nat
  BY <1>1, <1>3 DEF TableStep, table, Insertion, IInv, TypeOK
<1>7. CASE ~(job[w].pc # "granted" /\ job'[w].pc = "granted")
  <2>1. expires' = expires
    BY <1>7 DEF RequestStep
  <2>2. \A u : Expired(u) => Expired(u)'
    <3>1. ASSUME NEW u, Expired(u)
          PROVE  Expired(u)'
      <4>1. \A s \in users' : s.uid = u => ~Active(s)
        BY <1>1, <1>3, <3>1, RowsWere DEF Expired
      <4>2. QED
        BY <1>5, <1>6, <2>1, <3>1, <4>1 DEF Expired
    <3>2. QED
      BY <3>1
  <2>3. PurgedInv'
    BY <1>1, <1>2, <2>2 DEF PurgeInv, PurgedInv, purgeVars
  <2>4. ExpiryInv'
    <3>1. Lasting(users, Current)'
      BY <1>4, <2>1 DEF RequestLasts, Lasting, ExpiresWith
    <3>2. QED
      BY <1>1, <1>5, <1>6, <2>1, <3>1 DEF ExpiryInv
  <2>5. HeldInv(w)'
    <3>1. MarkingInv(w)'
      BY <1>4, <2>1 DEF RequestLasts, MarkingInv, ExpiresWith
    <3>2. QED
      BY <1>4, <3>1 DEF RequestLasts, HeldInv
  <2>6. QED
    BY <1>1, <1>2, <1>3, <1>5, <2>3, <2>4, <2>5
       DEF AllInv, PurgeInv, purgeVars
<1>8. CASE job[w].pc # "granted" /\ job'[w].pc = "granted"
  <2>1. PICK g : g = job'[w].user.uid
    OBVIOUS
  <2>2. expires' = [expires EXCEPT ![g] = clock + TokenDuration]
    BY <1>8, <2>1 DEF RequestStep
  <2>3. PICK row \in users' : row.uid = g
    BY <1>3, <1>8, <2>1 DEF IInv, JobInv, NamesRow
  <2>4. \A r \in users' : r.uid = g => Active(r)
    BY <1>4, <1>8, <2>1 DEF RequestLasts, HoldingInv
  <2>5. g \in 1 .. MaxUid /\ g < nextUid'
    <3>1. /\ row.uid \in Nat /\ 0 < row.uid /\ row.uid < nextUid'
          /\ nextUid' <= MaxUid + 1
      BY <1>3 DEF IInv, TypeOK, TableInv, Rows, SerialInv, CurrentInv
    <3>2. PICK n \in Nat : n = nextUid'
      BY <1>6
    <3>3. QED
      BY <1>1, <2>3, <3>1, <3>2
  <2>6. /\ expires' \in [1 .. MaxUid -> Nat]
        /\ expires'[g] = clock + TokenDuration
        /\ \A u \in 1 .. MaxUid : u # g => expires'[u] = expires[u]
    BY <1>1, <2>2, <2>5 DEF ExpiryInv
  <2>7. \A u : Expired(u) => Expired(u)'
    <3>1. ASSUME NEW u, Expired(u)
          PROVE  Expired(u)'
      <4>1. \A s \in users' : s.uid = u => ~Active(s)
        BY <1>1, <1>3, <3>1, RowsWere DEF Expired
      <4>2. u # g
        BY <2>3, <2>4, <4>1
      <4>3. expires'[u] = expires[u]
        BY <2>6, <3>1, <4>2 DEF Expired
      <4>4. QED
        BY <1>5, <1>6, <3>1, <4>1, <4>3 DEF Expired
    <3>2. QED
      BY <3>1
  <2>8. PurgedInv'
    BY <1>1, <1>2, <2>7 DEF PurgeInv, PurgedInv, purgeVars
  <2>9. Lasting(users, Current)'
    <3>1. ASSUME NEW s \in users'
          PROVE  /\ ~Active(s) => ExpiresWith(s.uid, s.replaced_at)'
                 /\ s # Current' =>
                       \/ ~Active(s)
                       \/ ExpiresWith(s.uid, Current.created_at)'
      <4>1. CASE s.uid = g
        <5>1. Active(s)
          BY <2>4, <4>1
        <5>2. s # Current' => clock <= Current'.created_at + ClockSkew
          <6>1. s # Current' => Current'.uid # g
            BY <1>1, <1>3, <4>1, InUseNext
          <6>2. QED
            BY <1>4, <1>8, <2>1, <6>1 DEF RequestLasts
        <5>3. PICK t \in Nat : t = Current'.created_at
          BY <1>3, InUseNext DEF Rows
        <5>4. s # Current' => ExpiresWith(s.uid, Current.created_at)'
          BY <1>1, <2>6, <4>1, <5>2, <5>3 DEF ExpiresWith
        <5>5. QED
          BY <5>1, <5>4
      <4>2. CASE s.uid # g
        <5>1. s.uid \in 1 .. MaxUid
          <6>1. /\ s.uid \in Nat /\ 0 < s.uid /\ s.uid < nextUid'
                /\ nextUid' <= MaxUid + 1
            BY <1>3 DEF IInv, TypeOK, TableInv, Rows, SerialInv, CurrentInv
          <6>2. PICK n \in Nat : n = nextUid'
            BY <1>6
          <6>3. QED
            BY <1>1, <6>1, <6>2
        <5>2. expires'[s.uid] = expires[s.uid]
          BY <2>6, <4>2, <5>1
        <5>3. QED
          BY <1>4, <5>2 DEF RequestLasts, Lasting, ExpiresWith
      <4>3. QED
        BY <4>1, <4>2
    <3>2. QED
      BY <3>1 DEF Lasting, ExpiresWith
  <2>10. ExpiryInv'
    <3>1. ASSUME NEW u \in 1 .. MaxUid
          PROVE  /\ expires'[u] <= clock' + TokenDuration
                 /\ u >= nextUid' => expires'[u] = 0
      <4>1. CASE u = g
        BY <1>1, <1>5, <1>6, <2>5, <2>6, <4>1
      <4>2. CASE u # g
        BY <1>1, <1>5, <1>6, <2>6, <4>2 DEF ExpiryInv
      <4>3. QED
        BY <4>1, <4>2
    <3>2. QED
      BY <2>6, <2>9, <3>1 DEF ExpiryInv
  <2>11. HeldInv(w)'
    <3>1. MarkingInv(w)'
      BY <1>8 DEF MarkingInv
    <3>2. QED
      BY <1>4, <3>1 DEF RequestLasts, HeldInv
  <2>12. QED
    BY <1>1, <1>2, <1>3, <1>5, <2>8, <2>10, <2>11
       DEF AllInv, PurgeInv, purgeVars
<1>9. QED
  BY <1>7, <1>8


(* Time passes between requests, and the account changes.                  *)
LEMMA OtherStepKeeps ==
    ASSUME Serial, NoneDeleted, AllInv, OtherStep
    PROVE  AllInv'
<1>1. IInv /\ SerialInv /\ PurgeInv
  BY DEF AllInv
<1>2. /\ Environment /\ [Next]_vars /\ UNCHANGED <<purgeVars, expires>>
      /\ clock' # clock => \A w \in Workers : job[w].pc \in Resting
  BY DEF OtherStep, Next
<1>3. IInv' /\ SerialInv'
  BY <1>1, <1>2, NextInv, SerialNext
<1>4. Tick \/ ChangeAccount
  <2>1. removing = {}
    BY <1>1 DEF SerialInv, CurrentInv
  <2>2. QED
    BY <1>2, <2>1 DEF Environment, NoneDeleted, RetireUser, Serial,
       NoneReassigned, UnassignNode, DeleteNode, UnassignRemoved
<1>5. /\ users' = users /\ nextUid' = nextUid /\ job' = job
      /\ Current' = Current /\ clock' \in Nat /\ clock \in Nat /\ clock <= clock'
  BY <1>1, <1>4 DEF Tick, ChangeAccount, table, Current, IInv, TypeOK
<1>6. ExpiryInv'
  <2>1. ASSUME NEW u \in 1 .. MaxUid
        PROVE  expires[u] <= clock' + TokenDuration
    <3>1. PICK t \in Nat : t = clock'
      BY <1>5
    <3>2. QED
      BY <1>1, <1>5, <3>1, RequestFacts, TokenDurationAssumption
         DEF PurgeInv, ExpiryInv
  <2>2. Lasting(users, Current)'
    BY <1>1, <1>2, <1>5 DEF PurgeInv, ExpiryInv, Lasting, ExpiresWith
  <2>3. QED
    BY <1>1, <1>2, <1>5, <2>1, <2>2 DEF PurgeInv, ExpiryInv
<1>7. ASSUME NEW w \in Workers
      PROVE  HeldInv(w)'
  <2>1. HeldInv(w)
    BY <1>1 DEF PurgeInv
  <2>2. job[w].pc \in {"create", "older"} => clock' = clock
    BY <1>2 DEF Resting
  <2>3. QED
    BY <1>2, <1>5, <2>1, <2>2
       DEF HeldInv, MarkingInv, HoldingInv, ExpiresWith
<1>8. \A u : Expired(u) => Expired(u)'
  <2>1. ASSUME NEW u, Expired(u)
        PROVE  Expired(u)'
    <3>1. expires[u] \in Nat
      BY <1>1, <2>1 DEF Expired, PurgeInv, ExpiryInv
    <3>2. QED
      BY <1>2, <1>5, <2>1, <3>1 DEF Expired
  <2>2. QED
    BY <2>1
<1>9. PurgedInv'
  BY <1>1, <1>2, <1>8 DEF PurgeInv, PurgedInv, purgeVars
<1>10. QED
  BY <1>1, <1>2, <1>3, <1>6, <1>7, <1>9 DEF AllInv, PurgeInv, purgeVars

LEMMA DownedStepKeeps ==
    ASSUME Serial, NoneDeleted, AllInv, NEW n \in NodeIds, UpdateDowned(n)
    PROVE  AllInv'
<1>1. /\ UNCHANGED <<users, nextUid, nodes, removing, clock, account, job,
                     floor, expires, purge, cleared, dropped>>
  BY DEF UpdateDowned, P!UpdateDowned, P!purgeVars
<1>2. IInv /\ SerialInv /\ PurgeInv
  BY DEF AllInv
<1>3. [Next]_vars
  BY <1>1 DEF vars, table, nodeTable, world
<1>4. IInv' /\ SerialInv'
  BY <1>2, <1>3, NextInv, SerialNext
<1>5. Current' = Current
  BY <1>1 DEF Current
<1>6. ExpiryInv'
  BY <1>1, <1>2, <1>5 DEF PurgeInv, ExpiryInv, Lasting, ExpiresWith
<1>7. \A w \in Workers : HeldInv(w)'
  BY <1>1, <1>2 DEF PurgeInv, HeldInv, MarkingInv, HoldingInv, ExpiresWith
<1>8. PurgedInv'
  BY <1>1, <1>2 DEF PurgeInv, PurgedInv, Expired
<1>9. QED
  BY <1>1, <1>2, <1>4, <1>6, <1>7, <1>8 DEF AllInv, PurgeInv

LEMMA AccountInitInv ==
    ASSUME Serial, AccountInit
    PROVE  AllInv
<1>1. Init /\ IInv /\ SerialInv
  BY InitInv, SerialInit DEF AccountInit
<1>2. /\ users = {} /\ cleared = {} /\ dropped = {}
      /\ expires = [u \in 1 .. MaxUid |-> 0]
      /\ clock \in Nat
      /\ \A w \in Workers : job[w].pc = "idle"
  BY <1>1, BoundsAssumption DEF AccountInit, Init, Ended
<1>3. /\ purge \in [Purgers -> Runs]
      /\ \A p \in Purgers : purge[p].batch = {}
  <2>1. PICK settings \in [Purgers -> Settings] :
           purge = [p \in Purgers |-> P!Idle(settings[p])]
    BY DEF AccountInit
  <2>2. \A p \in Purgers : /\ P!Idle(settings[p]) \in Runs
                           /\ P!Idle(settings[p]).batch = {}
    BY DEF P!Idle, Runs, PurgePCs
  <2>3. QED
    BY <2>1, <2>2
<1>4. ExpiryInv
  BY <1>2, TokenDurationAssumption DEF ExpiryInv, Lasting
<1>5. \A w \in Workers : HeldInv(w)
  BY <1>2 DEF HeldInv, MarkingInv, HoldingInv
<1>6. QED
  BY <1>1, <1>2, <1>3, <1>4, <1>5 DEF AllInv, PurgeInv, PurgedInv

LEMMA AccountNextInv ==
    ASSUME Serial, NoneDeleted, AllInv, [AccountNext]_allVars
    PROVE  AllInv'
<1>1. CASE UNCHANGED allVars
  <2>1. /\ UNCHANGED vars /\ UNCHANGED <<purgeVars, expires>>
    BY <1>1 DEF allVars
  <2>2. UNCHANGED <<users, clock, job, nextUid, expires, purge, cleared, dropped>>
    BY <2>1 DEF vars, table, world, purgeVars
  <2>3. Current' = Current
    BY <2>2 DEF Current
  <2>4. IInv' /\ SerialInv'
    BY <2>1, NextInv, SerialNext DEF AllInv
  <2>5. ExpiryInv'
    BY <2>2, <2>3 DEF AllInv, PurgeInv, ExpiryInv, Lasting, ExpiresWith
  <2>6. \A w \in Workers : HeldInv(w)'
    BY <2>2 DEF AllInv, PurgeInv, HeldInv, MarkingInv, HoldingInv, ExpiresWith
  <2>7. PurgedInv'
    BY <2>2 DEF AllInv, PurgeInv, PurgedInv, Expired
  <2>8. QED
    BY <2>2, <2>4, <2>5, <2>6, <2>7 DEF AllInv, PurgeInv
<1>2. ASSUME NEW p \in Purgers, PurgeStep(p)
      PROVE  AllInv'
  BY <1>2, PurgeStepKeeps DEF AllInv
<1>3. QED
  BY <1>1, <1>2, RequestStepKeeps, OtherStepKeeps, DownedStepKeeps
     DEF AccountNext

LEMMA AccountInvariance ==
    ASSUME Serial, NoneDeleted
    PROVE  AccountSpec => []AllInv
<1>1. AccountInit => AllInv
  BY AccountInitInv
<1>2. AllInv /\ [AccountNext]_allVars => AllInv'
  BY AccountNextInv
<1>3. QED
  BY <1>1, <1>2, PTL DEF AccountSpec

(* No data goes while a token names its row: the grace period outlives     *)
(* every token, although old rows are marked with the time at which their  *)
(* successor was created and not with the time of the marking.             *)
THEOREM DataOutlivesTokens ==
    ASSUME Serial, NoneDeleted, GraceSuffices
    PROVE  AccountSpec => []GraceOutlivesTokens
<1>1. AllInv => GraceOutlivesTokens
  BY DEF AllInv, PurgeInv, PurgedInv, Expired, GraceOutlivesTokens
<1>2. QED
  BY <1>1, AccountInvariance, PTL


-----------------------------------------------------------------------------
(* The account's versions.                                                 *)

(* A step of TokenRequests, or one that forgets rows out of use.           *)
Forgetting ==
    /\ users' \subseteq users /\ (users' = {} <=> users = {})
    /\ Current' = Current
    /\ job' = job /\ account' = account

LEMMA AccountStepIs ==
    ASSUME Serial, NoneDeleted, AllInv, [AccountNext]_allVars
    PROVE  [Next]_vars \/ Forgetting
<1>1. CASE UNCHANGED allVars
  BY <1>1 DEF allVars
<1>2. CASE (\E w \in Workers : RequestStep(w)) \/ OtherStep
  BY <1>2 DEF RequestStep, OtherStep, Next
<1>3. ASSUME NEW p \in Purgers, PurgeStep(p)
      PROVE  Forgetting
  <2>1. (users' = {} <=> users = {}) /\ Current' = Current
    BY <1>3, PurgeStepKeeps DEF AllInv
  <2>2. users' \subseteq users
    BY <1>3, PurgerStepIs DEF PurgeStep, AllInv, PurgeInv, IInv, TypeOK, Purging
  <2>3. QED
    BY <1>3, <2>1, <2>2 DEF PurgeStep, Forgetting
<1>4. ASSUME NEW n \in NodeIds, UpdateDowned(n)
      PROVE  [Next]_vars
  <2>1. /\ UNCHANGED <<users, nextUid, nodes, removing, clock, account, job,
                       floor>>
    BY <1>4 DEF UpdateDowned, P!UpdateDowned
  <2>2. QED
    BY <2>1 DEF vars, table, nodeTable, world
<1>5. QED
  BY <1>1, <1>2, <1>3, <1>4 DEF AccountNext

LEMMA ForgettingVersions ==
    ASSUME Serial, NoneDeleted, AllInv, VersionsInv, AllInv', Forgetting
    PROVE  VersionsInv'
<1>1. (Live' <=> Live) /\ users' \subseteq users /\ Current' = Current
  <2>1. ~Deleted
    BY InUse DEF AllInv
  <2>2. ~Deleted'
    BY InUseNext DEF AllInv
  <2>3. QED
    BY <2>1, <2>2 DEF Forgetting, Live
<1>2. RowsInv'
  <2>1. \A x : From(x)' <=> From(x)
    BY FromSame DEF Forgetting
  <2>2. ASSUME Live', NEW r \in users'
        PROVE  /\ From(r)'
               /\ Comparable => r.keys_changed_at <= Current'.keys_changed_at
    <3>1. r \in users /\ From(r)
      BY <1>1, <2>2 DEF VersionsInv, RowsInv
    <3>2. PICK x : x = r
      OBVIOUS
    <3>3. From(x)'
      BY <2>1, <3>1, <3>2
    <3>4. QED
      BY <1>1, <2>2, <3>1, <3>2, <3>3 DEF VersionsInv, RowsInv
  <2>3. QED
    BY <2>2 DEF RowsInv
<1>3. ASSUME NEW w \in Workers
      PROVE  RequestInv(w)'
  BY <1>1, FromSame DEF Forgetting, VersionsInv, RequestInv
<1>4. QED
  BY <1>2, <1>3 DEF VersionsInv

LEMMA AccountVersions ==
    ASSUME Serial, NoneDeleted, VersionsAdvance, KeysReported
    PROVE  AccountSpec => [](AllInv /\ VersionsInv)
<1>1. AccountInit => AllInv /\ VersionsInv
  BY AccountInitInv, VersionsInit DEF AccountInit
<1>2. ASSUME AllInv, VersionsInv, [AccountNext]_allVars
      PROVE  AllInv' /\ VersionsInv'
  <2>1. AllInv'
    BY <1>2, AccountNextInv
  <2>2. CASE [Next]_vars
    BY <1>2, <2>1, <2>2, VersionsNext DEF AllInv
  <2>3. CASE Forgetting
    BY <1>2, <2>1, <2>3, ForgettingVersions
  <2>4. QED
    BY <1>2, <2>2, <2>3, AccountStepIs
<1>3. QED
  BY <1>1, <1>2, PTL DEF AccountSpec

(* The client state in use does not go back when purging forgets rows that *)
(* had an older one.                                                       *)
THEOREM PurgingRevivesNoState ==
    ASSUME Serial, NoneDeleted, VersionsAdvance, KeysReported,
           "allocate" \notin Operations
    PROVE  AccountSpec => NoRevivalByPurge
<1> DEFINE Inv == AllInv /\ VersionsInv
<1>1. Inv => KeysInUse
  BY KeysInUseNow DEF AllInv
<1>2. Inv' => KeysInUse'
  BY KeysInUseNext DEF AllInv
<1>3. ASSUME Inv, [AccountNext]_allVars, Inv'
      PROVE  [users # {} /\ users' # {} /\ floor'.generation < MAX_GENERATION =>
                VersionOf(CurrentRow(users').client_state) >=
                VersionOf(CurrentRow(users).client_state)]_allVars
  <2> SUFFICES ASSUME users # {}, users' # {}
               PROVE  VersionOf(Current'.client_state) >=
                      VersionOf(Current.client_state)
    BY DEF Current
  <2>1. Live /\ Current \in Rows
    BY <1>3, InUse DEF AllInv
  <2>2. Live'
    BY <1>3, InUseNext DEF AllInv
  <2>3. Current'.keys_changed_at >= Current.keys_changed_at
    <3>1. CASE [Next]_vars
      <4>1. TableKept
        BY <1>3, <3>1, SerialNext DEF AllInv
      <4>2. QED
        BY <2>2, <4>1 DEF TableKept, CurrentMoves
    <3>2. CASE Forgetting
      BY <2>1, <3>2, MaxGenerationAssumption DEF Forgetting, Rows, Generations
    <3>3. QED
      BY <1>3, <3>1, <3>2, AccountStepIs
  <2>4. QED
    BY <1>1, <1>2, <1>3, <2>1, <2>2, <2>3, StateAdvances
<1>4. QED
  BY <1>3, AccountVersions, PTL DEF AccountSpec, NoRevivalByPurge

(* With purging, too, no token is issued for stale claims.                 *)
THEOREM NoTokenIsStaleWithPurging ==
    ASSUME Serial, NoneDeleted, Comparable
    PROVE  AccountSpec => []NoStaleToken
<1>1. AllInv => NoStaleToken
  BY NoneStale DEF AllInv
<1>2. QED
  BY <1>1, AccountInvariance, PTL

(* Nor does purging keep the newest credentials from being accepted.       *)
THEOREM NewestClientGetsInWithPurging ==
    ASSUME Serial, NoneDeleted, Comparable, VersionsAdvance, KeysReported
    PROVE  AccountSpec => []NewestClientAccepted
<1>1. AllInv /\ VersionsInv => NewestClientAccepted
  BY NewestAccepted DEF AllInv
<1>2. QED
  BY <1>1, AccountVersions, PTL


=============================================================================
