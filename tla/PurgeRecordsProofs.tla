------------------------- MODULE PurgeRecordsProofs -------------------------
(***************************************************************************)
(* Proofs about PurgeRecords, for any rows, nodes, batches and number of   *)
(* purgers.                                                                *)
(***************************************************************************)
EXTENDS PurgeRecords, UserRecordsProofs

(* A row that a purger has yet to do is still where it was when the batch  *)
(* was read, if it is still there, and a node that was gone then is gone.  *)
BatchInv ==
    \A p \in Purgers : \A b \in purge[p].batch :
        /\ \A r \in users : r.uid = b.row.uid => r.nodeid = b.row.nodeid
        /\ b.node = "none" => b.row.nodeid \notin nodes

(* A purger about to delete a record has had its data deleted, or had no   *)
(* node to ask.  RecordOutlivesData does not say so, and is not inductive  *)
(* without it.                                                             *)
ClearedInv ==
    \A p \in Purgers : At(p, "record") =>
        \A b \in Current(p) :
            b.row.uid \in cleared \/ b.row.nodeid \notin nodes

NoForce == \A o \in Settings : ~o.force

IInv == TypeOK /\ UniqueUids(users) /\ BatchInv
           /\ (NoForce => ClearedInv /\ RecordOutlivesData)

-----------------------------------------------------------------------------
(* A purger works on one row at a time.                                    *)
LEMMA OneCurrentRow ==
    ASSUME TypeOK, NEW p \in Purgers, NEW b \in Current(p), NEW c \in Current(p)
    PROVE  b = c
<1> SUFFICES ASSUME b # c PROVE FALSE
  OBVIOUS
<1>1. b \in Reads /\ c \in Reads
  BY DEF Current, TypeOK, Purges
<1>2. ListedBefore(b.row, c.row) /\ ListedBefore(c.row, b.row)
  BY DEF Current
<1>3. QED
  BY <1>1, <1>2 DEF ListedBefore, Reads, Rows, NULL

(* A step that moves one purger and leaves it a part of its batch.         *)
LEMMA MoveKeepsBatches ==
    ASSUME TypeOK, BatchInv, NEW p \in Purgers, NEW next \in Purges,
           next.batch \subseteq purge[p].batch,
           purge' = [purge EXCEPT ![p] = next],
           nodes' = nodes, users' \subseteq users
    PROVE  BatchInv'
BY DEF BatchInv, TypeOK

(* The other purgers stay as they are.                                     *)
LEMMA MoveKeepsCleared ==
    ASSUME TypeOK, ClearedInv, NEW p \in Purgers, NEW next \in Purges,
           next.pc # "record",
           purge' = [purge EXCEPT ![p] = next],
           nodes' = nodes, cleared \subseteq cleared'
    PROVE  ClearedInv'
BY DEF ClearedInv, TypeOK, At, Current

(* What a purger has read are rows of the table.                           *)
LEMMA FetchedReads ==
    ASSUME TypeOK, NEW service, NEW offset \in Nat,
           NEW b \in GetOldUserRecords(service, offset)
    PROVE  /\ b \in Reads
           /\ b.row \in users
           /\ b.node = "none" => b.row.nodeid \notin nodes
<1>1. PICK r \in users : b = ReadOf(r)
  BY DEF GetOldUserRecords
<1>2. b.row = r
  BY <1>1 DEF ReadOf
<1>3. /\ b.node \in {"up", "down", "none"}
      /\ b.node = "none" => r.nodeid \notin nodes
  BY <1>1 DEF ReadOf
<1>4. b = [row |-> b.row, node |-> b.node]
  BY <1>1 DEF ReadOf
<1>5. QED
  BY <1>2, <1>3, <1>4 DEF Reads, TypeOK

-----------------------------------------------------------------------------
(* What the steps of a purger make of its state.                           *)
LEMMA IdlePurge ==
    ASSUME NEW settings \in Settings
    PROVE  /\ Idle(settings) \in Purges
           /\ Idle(settings).pc = "idle"
           /\ Idle(settings).batch = {} /\ Idle(settings).previous = {}
<1>1. Len(Patterns) \in Nat
  BY PurgeAssumption
<1>2. QED
  BY <1>1 DEF Idle, Purges

(* A purger that is through waits for its next run. *)
LEMMA RestPurge ==
    ASSUME TypeOK, NEW p \in Purgers, Rest(p)
    PROVE  \E next \in Purges :
               /\ purge' = [purge EXCEPT ![p] = next]
               /\ next.pc = "idle" /\ next.batch = {} /\ next.previous = {}
<1>1. purge[p].settings \in Settings
  BY DEF TypeOK, Purges
<1>2. QED
  BY <1>1, IdlePurge DEF Rest

(* A run starts with the first service. *)
LEMMA StartedPurge ==
    ASSUME TypeOK, NEW p \in Purgers, StartPurge(p)
    PROVE  \E next \in Purges :
               /\ purge' = [purge EXCEPT ![p] = next]
               /\ next.pc = "fetch" /\ next.batch = purge[p].batch
               /\ next.previous = purge[p].previous
               /\ next.settings = purge[p].settings
<1> DEFINE started == [purge[p] EXCEPT !.pc = "fetch", !.service = 1]
<1>1. 1 \in 0 .. Len(Patterns)
  BY PurgeAssumption
<1>2. purge[p] \in Purges
  BY DEF TypeOK
<1>3. /\ started \in Purges
      /\ started.pc = "fetch" /\ started.batch = purge[p].batch
      /\ started.previous = purge[p].previous
      /\ started.settings = purge[p].settings
  BY <1>1, <1>2 DEF Purges
<1>4. purge' = [purge EXCEPT ![p] = started]
  BY DEF StartPurge
<1> HIDE DEF started
<1>5. QED
  BY <1>3, <1>4

(* It goes on with the next one, or ends. *)
LEMMA NextServicePurge ==
    ASSUME TypeOK, NEW p \in Purgers, NextService(p)
    PROVE  \E next \in Purges :
               /\ purge' = [purge EXCEPT ![p] = next]
               /\ next.pc \in {"idle", "fetch"}
               /\ next.batch = {} /\ next.previous = {}
<1>1. CASE Rest(p)
  BY <1>1, RestPurge
<1>2. CASE ~Rest(p)
  <2> DEFINE next == [purge[p] EXCEPT !.pc = "fetch", !.service = @ + 1,
                                      !.batch = {}, !.previous = {}]
  <2>1. purge[p] \in Purges /\ Len(Patterns) \in Nat
    BY PurgeAssumption DEF TypeOK
  <2>2. purge[p].service # Len(Patterns) /\ purge' = [purge EXCEPT ![p] = next]
    BY <1>2 DEF NextService
  <2>3. purge[p].service + 1 \in 0 .. Len(Patterns)
    BY <2>1, <2>2 DEF Purges
  <2>4. next \in Purges /\ next.pc = "fetch"
        /\ next.batch = {} /\ next.previous = {}
    BY <2>1, <2>3 DEF Purges
  <2> HIDE DEF next
  <2>5. QED
    BY <2>2, <2>4
<1>3. QED
  BY <1>1, <1>2

(* It leaves the row it is at, or ends. *)
LEMMA NextRowPurge ==
    ASSUME TypeOK, NEW p \in Purgers, NextRow(p)
    PROVE  \E next \in Purges :
               /\ purge' = [purge EXCEPT ![p] = next]
               /\ \/ /\ next.pc = "idle"
                     /\ next.batch = {} /\ next.previous = {}
                  \/ /\ next.pc = "row"
                     /\ next.batch = purge[p].batch \ Current(p)
                     /\ next.previous = purge[p].previous
                     /\ next.settings = purge[p].settings
<1>1. CASE Rest(p)
  BY <1>1, RestPurge
<1>2. CASE ~Rest(p)
  <2> DEFINE counter == purge[p].counter + (IF Counted(p) THEN 1 ELSE 0)
             next == [purge[p] EXCEPT !.pc = "row", !.counter = counter,
                                      !.batch = @ \ Current(p)]
  <2>1. purge[p] \in Purges
    BY DEF TypeOK
  <2>2. purge' = [purge EXCEPT ![p] = next]
    BY <1>2 DEF NextRow
  <2>3. counter \in Nat
    BY <2>1 DEF Purges
  <2> HIDE DEF counter
  <2>4. /\ next \in Purges /\ next.pc = "row"
        /\ next.batch = purge[p].batch \ Current(p)
        /\ next.previous = purge[p].previous
        /\ next.settings = purge[p].settings
    BY <2>1, <2>3 DEF Purges
  <2> HIDE DEF next
  <2>5. QED
    BY <2>2, <2>4
<1>3. QED
  BY <1>1, <1>2

(* It takes a batch, of rows that are there. *)
LEMMA FetchedPurge ==
    ASSUME TypeOK, NEW p \in Purgers, FetchRows(p), ~NextService(p)
    PROVE  \E next \in Purges :
               /\ purge' = [purge EXCEPT ![p] = next]
               /\ next.pc = "row" /\ next.previous = next.batch
               /\ \A b \in next.batch :
                     b.row \in users /\ (b.node = "none" =>
                                            b.row.nodeid \notin nodes)
<1>1. PICK offset \in 0 .. MaxOffset :
         purge' = [purge EXCEPT ![p] =
                      [@ EXCEPT !.pc = "row", !.counter = 0,
                                !.batch = Fetchable(p, offset),
                                !.previous = Fetchable(p, offset)]]
  BY DEF FetchRows
<1> DEFINE rows == Fetchable(p, offset)
           next == [purge[p] EXCEPT !.pc = "row", !.counter = 0,
                                    !.batch = rows, !.previous = rows]
<1>2. offset \in Nat
  BY PurgeAssumption
<1>3. \A b \in rows : /\ b \in Reads /\ b.row \in users
                      /\ b.node = "none" => b.row.nodeid \notin nodes
  BY <1>2, FetchedReads DEF Fetchable
<1>4. purge[p] \in Purges
  BY DEF TypeOK
<1>5. purge' = [purge EXCEPT ![p] = next]
  BY <1>1
<1> HIDE DEF rows
<1>6. next \in Purges /\ next.pc = "row" /\ next.batch = rows
      /\ next.previous = rows
  BY <1>3, <1>4 DEF Purges
<1> HIDE DEF next
<1>7. QED
  BY <1>3, <1>5, <1>6

-----------------------------------------------------------------------------
(* The invariant holds at first.                                           *)
LEMMA InitIInv == Init => IInv
<1> SUFFICES ASSUME Init PROVE IInv
  OBVIOUS
<1>1. PICK home \in Homes, state \in ClientStates :
         users = {[uid |-> u, nodeid |-> home[u], client_state |-> state,
                   generation |-> 0, keys_changed_at |-> 0,
                   created_at |-> 0, replaced_at |-> NULL] : u \in PurgeUids}
  BY DEF Init
<1>0. home \in [PurgeUids -> NodeIds]
  BY PurgeAssumption
<1>2. users \subseteq Rows
  BY <1>0, <1>1, PurgeAssumption, MaxGenerationAssumption
     DEF Rows, States, Generations, NULL
<1>3. UniqueUids(users)
  BY <1>1 DEF UniqueUids
<1>4. PICK settings \in [Purgers -> Settings] :
         purge = [p \in Purgers |-> Idle(settings[p])]
  BY DEF Init
<1>9. /\ nodes = NodeIds /\ downed = {} /\ clock = 0
      /\ cleared = {} /\ dropped = {}
  BY DEF Init
<1>5. TypeOK
  BY <1>2, <1>4, <1>9, IdlePurge DEF TypeOK
<1>6. \A p \in Purgers : purge[p].batch = {} /\ purge[p].pc = "idle"
  BY <1>4, IdlePurge
<1>7. BatchInv /\ ClearedInv /\ RecordOutlivesData
  BY <1>9, <1>6 DEF BatchInv, ClearedInv, RecordOutlivesData, At
<1>8. QED
  BY <1>3, <1>5, <1>7 DEF IInv

(* A step of a purger preserves the invariant.                             *)
LEMMA PurgerStepIInv ==
    ASSUME IInv, NEW p \in Purgers, PurgerStep(p)
    PROVE  IInv'
<1> USE DEF IInv
<1>1. purge[p] \in Purges /\ purge \in [Purgers -> Purges]
  BY DEF TypeOK
<1>3. ASSUME NEW next \in Purges, next.pc # "record",
             next.batch \subseteq purge[p].batch,
             purge' = [purge EXCEPT ![p] = next],
             UNCHANGED <<users, nodes, downed, clock, cleared, dropped>>
      PROVE  IInv'
  <2>1. TypeOK'
    BY <1>3 DEF TypeOK
  <2>2. BatchInv'
    BY <1>3, MoveKeepsBatches
  <2>3. ClearedInv => ClearedInv'
    BY <1>3, MoveKeepsCleared
  <2>4. RecordOutlivesData => RecordOutlivesData'
    BY <1>3 DEF RecordOutlivesData
  <2>5. QED
    BY <1>3, <2>1, <2>2, <2>3, <2>4 DEF NoForce, UniqueUids
<1>2. ASSUME NextService(p),
             UNCHANGED <<users, nodes, downed, clock, cleared, dropped>>
      PROVE  IInv'
  <2>1. PICK next \in Purges : /\ purge' = [purge EXCEPT ![p] = next]
                               /\ next.pc \in {"idle", "fetch"}
                               /\ next.batch = {}
    BY <1>2, NextServicePurge
  <2>2. QED
    BY <1>2, <1>3, <2>1
<1>4. CASE StartPurge(p)
  <2>1. PICK next \in Purges : /\ purge' = [purge EXCEPT ![p] = next]
                               /\ next.pc = "fetch"
                               /\ next.batch = purge[p].batch
    BY <1>4, StartedPurge
  <2>2. QED
    BY <1>3, <1>4, <2>1 DEF StartPurge
<1>5. CASE FetchRows(p)
  <2>1. CASE NextService(p)
    BY <1>2, <1>5, <2>1 DEF FetchRows
  <2>2. CASE ~NextService(p)
    <3>1. PICK next \in Purges :
             /\ purge' = [purge EXCEPT ![p] = next]
             /\ next.pc = "row"
             /\ \A b \in next.batch :
                   b.row \in users /\ (b.node = "none" =>
                                          b.row.nodeid \notin nodes)
      BY <1>5, <2>2, FetchedPurge
    <3>2. UNCHANGED <<users, nodes, downed, clock, cleared, dropped>>
      BY <1>5 DEF FetchRows
    <3>3. TypeOK'
      BY <3>1, <3>2 DEF TypeOK
    <3>4. BatchInv'
      BY <1>1, <3>1, <3>2 DEF BatchInv, UniqueUids
    <3>5. ClearedInv => ClearedInv'
      BY <3>1, <3>2, MoveKeepsCleared
    <3>6. QED
      BY <3>2, <3>3, <3>4, <3>5 DEF RecordOutlivesData, NoForce, UniqueUids
  <2>3. QED
    BY <2>1, <2>2
<1>6. CASE DetectLoop(p) \/ StopPurge(p)
  <2>1. PICK next \in Purges : /\ purge' = [purge EXCEPT ![p] = next]
                               /\ next.pc = "idle" /\ next.batch = {}
    BY <1>6, RestPurge DEF DetectLoop, StopPurge
  <2>2. QED
    BY <1>3, <1>6, <2>1 DEF DetectLoop, StopPurge
<1>7. CASE EndBatch(p)
  <2>1. CASE NextService(p)
    BY <1>2, <1>7, <2>1 DEF EndBatch
  <2>2. CASE Move(p, "fetch")
    <3>1. /\ [purge[p] EXCEPT !.pc = "fetch"] \in Purges
          /\ [purge[p] EXCEPT !.pc = "fetch"].pc = "fetch"
          /\ [purge[p] EXCEPT !.pc = "fetch"].batch = purge[p].batch
      BY <1>1 DEF Purges
    <3>2. QED
      BY <1>3, <1>7, <2>2, <3>1 DEF EndBatch, Move
  <2>3. QED
    BY <1>7, <2>1, <2>2 DEF EndBatch
<1> DEFINE asked == [purge[p] EXCEPT !.pc = "record"]
<1>8. /\ asked \in Purges /\ asked.pc = "record"
      /\ asked.batch = purge[p].batch
  BY <1>1 DEF Purges
<1>9. ASSUME NextRow(p)
      PROVE  \E done \in Purges : /\ purge' = [purge EXCEPT ![p] = done]
                                  /\ done.pc # "record"
                                  /\ done.batch \subseteq purge[p].batch
  BY <1>9, NextRowPurge
<1>16. ASSUME NextRow(p),
              UNCHANGED <<users, nodes, downed, clock, cleared, dropped>>
       PROVE  IInv'
  BY <1>3, <1>9, <1>16
<1>10. ASSUME Move(p, "record"),
              UNCHANGED <<users, nodes, downed, clock, dropped>>,
              cleared \subseteq cleared', cleared' \subseteq Nat,
              NoForce => \A b \in Current(p) :
                 b.row.uid \in cleared' \/ b.row.nodeid \notin nodes
       PROVE  IInv'
  <2>1. purge' = [purge EXCEPT ![p] = asked]
    BY <1>10 DEF Move
  <2> HIDE DEF asked
  <2>2. TypeOK'
    BY <1>8, <1>10, <2>1 DEF TypeOK
  <2>3. BatchInv'
    BY <1>8, <1>10, <2>1, MoveKeepsBatches
  <2>4. ASSUME NoForce PROVE ClearedInv'
    <3> SUFFICES ASSUME NEW q \in Purgers, At(q, "record")',
                        NEW b \in Current(q)'
                 PROVE  (b.row.uid \in cleared \/ b.row.nodeid \notin nodes)'
      BY DEF ClearedInv
    <3>1. b \in Current(q)
      BY <1>1, <1>8, <2>1 DEF Current
    <3>2. CASE q = p
      BY <1>10, <2>4, <3>1, <3>2
    <3>3. CASE q # p
      <4>1. At(q, "record")
        BY <1>1, <2>1, <3>3 DEF At
      <4>2. QED
        BY <1>10, <2>4, <3>1, <4>1 DEF ClearedInv
    <3>4. QED
      BY <3>2, <3>3
  <2>5. NoForce => RecordOutlivesData'
    BY <1>10 DEF RecordOutlivesData
  <2>6. QED
    BY <1>10, <2>2, <2>3, <2>4, <2>5 DEF NoForce, UniqueUids
<1>11. CASE SkipData(p)
  <2>1. \A b \in Current(p) : b.row.nodeid \notin nodes
    <3>1. PICK c \in Current(p) : c.node = "none"
      BY <1>11 DEF SkipData, OnRow
    <3>2. c.row.nodeid \notin nodes
      BY <3>1 DEF BatchInv, Current
    <3>3. QED
      BY <3>2, OneCurrentRow
  <2>2. QED
    BY <1>10, <1>11, <2>1 DEF SkipData, TypeOK
<1>12. CASE DeleteServiceData(p)
  <2>1. \A b \in Current(p) : b.row.uid \in Nat
    BY <1>1 DEF Current, Purges, Reads, Rows
  <2>2. cleared' = cleared \cup {b.row.uid : b \in Current(p)}
    BY <1>12 DEF DeleteServiceData
  <2>3. cleared' \subseteq Nat
    BY <2>1, <2>2 DEF TypeOK
  <2>4. QED
    BY <1>10, <1>12, <2>2, <2>3 DEF DeleteServiceData
<1>13. CASE SkipDowned(p)
  <2>1. CASE NextRow(p)
    BY <1>13, <1>16, <2>1 DEF SkipDowned
  <2>2. CASE purge[p].settings.force /\ Move(p, "record")
    <3>1. ~NoForce
      BY <1>1, <2>2 DEF NoForce, Purges
    <3>2. QED
      BY <1>10, <1>13, <2>2, <3>1 DEF SkipDowned, TypeOK
  <2>3. QED
    BY <1>13, <2>1, <2>2 DEF SkipDowned
<1>14. CASE DeleteUserRecord(p)
  <2> DEFINE gone == {r \in users : \E b \in Current(p) : r.uid = b.row.uid}
  <2>1. /\ At(p, "record") /\ users' = users \ gone
        /\ dropped' = dropped \cup gone
        /\ UNCHANGED <<nodes, downed, clock, cleared>>
    BY <1>14 DEF DeleteUserRecord
  <2>2. PICK done \in Purges : /\ purge' = [purge EXCEPT ![p] = done]
                               /\ done.pc # "record"
                               /\ done.batch \subseteq purge[p].batch
    BY <1>9, <1>14 DEF DeleteUserRecord
  <2>3. TypeOK' /\ UniqueUids(users')
    BY <2>1, <2>2 DEF TypeOK, UniqueUids
  <2>4. BatchInv'
    BY <2>1, <2>2, MoveKeepsBatches
  <2>5. ClearedInv => ClearedInv'
    BY <2>1, <2>2, MoveKeepsCleared
  <2>6. ASSUME NoForce PROVE RecordOutlivesData'
    <3>1. ASSUME NEW r \in gone
          PROVE  r.uid \in cleared \/ r.nodeid \notin nodes
      <4>1. PICK b \in Current(p) : r.uid = b.row.uid
        OBVIOUS
      <4>2. b.row.uid \in cleared \/ b.row.nodeid \notin nodes
        BY <2>1, <2>6 DEF ClearedInv
      <4>3. r.nodeid = b.row.nodeid
        BY <4>1 DEF BatchInv, Current
      <4>4. QED
        BY <4>1, <4>2, <4>3
    <3> HIDE DEF gone
    <3>2. QED
      BY <2>1, <2>6, <3>1 DEF RecordOutlivesData, NoForce
  <2>7. QED
    BY <2>3, <2>4, <2>5, <2>6 DEF NoForce
<1>15. CASE PassRow(p)
  BY <1>15, <1>16 DEF PassRow
<1>17. QED
  BY <1>4, <1>5, <1>6, <1>7, <1>11, <1>12, <1>13, <1>14, <1>15 DEF PurgerStep

(* What else happens to the rows keeps their uids and their nodes, and     *)
(* nodes that are gone stay away.                                          *)
LEMMA OtherStepIInv ==
    ASSUME IInv,
           UNCHANGED purgeVars, users' \subseteq Rows, Evolves(users, users'),
           nodes' \subseteq nodes, downed' \subseteq NodeIds, clock' \in Nat
    PROVE  IInv'
<1> USE DEF IInv, purgeVars
<1>1. TypeOK'
  BY DEF TypeOK
<1>2. UniqueUids(users')
  BY DEF Evolves
<1>3. BatchInv'
  BY DEF BatchInv, Evolves, Advances
<1>4. ClearedInv => ClearedInv'
  BY DEF ClearedInv, At, Current
<1>5. RecordOutlivesData => RecordOutlivesData'
  BY DEF RecordOutlivesData
<1>6. QED
  BY <1>1, <1>2, <1>3, <1>4, <1>5 DEF NoForce

(* A table that stays the same evolves.                                    *)
LEMMA SameEvolves ==
    ASSUME NEW rows \in SUBSET Rows
    PROVE  Evolves(rows, rows)
BY DEF Evolves, Advances, Rows, Generations

-----------------------------------------------------------------------------
(* The invariant holds in every state.                                     *)
THEOREM PurgeIInv == Spec => []IInv
<1>1. ASSUME IInv, [Next]_vars PROVE IInv'
  <2>1. users \in SUBSET Rows /\ clock \in Nat /\ downed \subseteq NodeIds
    BY <1>1 DEF IInv, TypeOK
  <2>2. Evolves(users, users)
    BY <2>1, SameEvolves
  <2>3. CASE UNCHANGED vars
    BY <1>1, <2>1, <2>2, <2>3, OtherStepIInv DEF vars
  <2>4. CASE \E p \in Purgers : PurgerStep(p)
    BY <1>1, <2>4, PurgerStepIInv
  <2>5. CASE Tick
    <3>1. clock + 1 \in Nat
      BY <2>1
    <3>2. QED
      BY <1>1, <2>1, <2>2, <2>5, <3>1, OtherStepIInv DEF Tick
  <2>6. CASE ReplaceRow
    <3>1. PICK r \in users : users' = ReplaceUserRecord(users, r.uid, clock)
      BY <2>6 DEF ReplaceRow
    <3>2. Evolves(users, users')
      BY <2>1, <3>1, ReplaceOneEvolves
    <3>3. QED
      BY <1>1, <2>1, <2>6, <3>2, OtherStepIInv DEF ReplaceRow, Evolves
  <2>7. ASSUME NEW n \in NodeIds, users' = UnassignRows(users, n, clock)
        PROVE  Evolves(users, users')
    BY <2>1, <2>7, UnassignEvolves
  <2>8. CASE \E n \in NodeIds : UnassignNode(n) \/ RemoveNode(n)
    <3>1. /\ Evolves(users, users') /\ nodes' \subseteq nodes
          /\ UNCHANGED <<downed, clock, purgeVars>>
      BY <2>7, <2>8 DEF UnassignNode, RemoveNode
    <3>2. QED
      BY <1>1, <2>1, <3>1, OtherStepIInv DEF Evolves
  <2>9. CASE \E n \in NodeIds : UpdateDowned(n)
    <3>1. /\ UNCHANGED <<users, nodes, clock, purgeVars>>
          /\ downed' \subseteq NodeIds
      BY <2>1, <2>9 DEF UpdateDowned
    <3>2. QED
      BY <1>1, <2>1, <2>2, <3>1, OtherStepIInv
  <2>10. QED
    BY <1>1, <2>3, <2>4, <2>5, <2>6, <2>8, <2>9 DEF Next
<1>2. QED
  BY InitIInv, <1>1, PTL DEF Spec

(* Type correctness of the purge, for any number of purgers.               *)
THEOREM PurgeTypes == Spec => []TypeOK
<1>1. IInv => TypeOK
  BY DEF IInv
<1>2. QED
  BY PurgeIInv, <1>1, PTL

(* No record goes before its data, whatever purgers, operators and         *)
(* requests do, and whichever steps fail.                                  *)
THEOREM RecordsOutliveData == Spec => []RecordOutlivesData
<1>1. IInv => RecordOutlivesData
  BY DEF IInv, NoForce, RecordOutlivesData
<1>2. QED
  BY PurgeIInv, <1>1, PTL

-----------------------------------------------------------------------------
(* What a purger has done with a batch: the rows it has passed are gone,   *)
(* but for those on downed nodes, and at the end none is left.             *)
Passed(b, settings) ==
    \/ settings.dryrun
    \/ ~settings.force /\ b.node = "down"
    \/ \A r \in users : r.uid # b.row.uid

LoopInv ==
    \A p \in Purgers :
        /\ \A b \in purge[p].previous :
              b \in purge[p].batch \/ Passed(b, purge[p].settings)
        /\ At(p, "idle") \/ At(p, "fetch") => purge[p].batch = {}

(* A step of one purger preserves LoopInv when it does so for that purger. *)
LEMMA LoopInvOfOne ==
    ASSUME TypeOK, LoopInv, NEW p \in Purgers, NEW next \in Purges,
           purge' = [purge EXCEPT ![p] = next], users' \subseteq users,
           \A b \in next.previous : b \in next.batch \/ Passed(b, next.settings)',
           next.pc \in {"idle", "fetch"} => next.batch = {}
    PROVE  LoopInv'
<1>1. /\ purge'[p] = next
      /\ \A q \in Purgers \ {p} : purge'[q] = purge[q]
  BY DEF TypeOK
<1>2. \A b, settings : Passed(b, settings) => Passed(b, settings)'
  BY DEF Passed
<1>3. QED
  BY <1>1, <1>2 DEF LoopInv, At

(* The row at which the loop is has been dealt with.                       *)
LEMMA NextRowLoopInv ==
    ASSUME TypeOK, LoopInv, NEW p \in Purgers, NextRow(p),
           users' \subseteq users,
           NEW settings \in Settings, settings = purge[p].settings,
           \A b \in Current(p) : Passed(b, settings)'
    PROVE  LoopInv'
<1>1. PICK next \in Purges :
         /\ purge' = [purge EXCEPT ![p] = next]
         /\ \/ /\ next.pc = "idle"
               /\ next.batch = {} /\ next.previous = {}
            \/ /\ next.pc = "row"
               /\ next.batch = purge[p].batch \ Current(p)
               /\ next.previous = purge[p].previous
               /\ next.settings = purge[p].settings
  BY NextRowPurge
<1>2. CASE next.pc = "idle"
  BY <1>1, <1>2, LoopInvOfOne
<1>3. CASE next.pc # "idle"
  <2>1. \A b : Passed(b, settings) => Passed(b, settings)'
    BY DEF Passed
  <2>2. \A b \in purge[p].previous :
           b \in purge[p].batch \/ Passed(b, settings)
    BY DEF LoopInv
  <2>3. \A b \in next.previous : b \in next.batch \/ Passed(b, settings)'
    BY <1>1, <1>3, <2>1, <2>2
  <2>4. \A b \in next.previous : b \in next.batch \/ Passed(b, next.settings)'
    BY <1>1, <1>3, <2>3
  <2>5. QED
    BY <1>1, <1>3, <2>4, LoopInvOfOne
<1>4. QED
  BY <1>2, <1>3

(* A step of a purger preserves LoopInv. *)
LEMMA PurgerStepLoopInv ==
    ASSUME TypeOK, LoopInv, NEW p \in Purgers, PurgerStep(p)
    PROVE  LoopInv'
<1> DEFINE settings == purge[p].settings
<1>1. purge[p] \in Purges /\ settings \in Settings
  BY DEF TypeOK, Purges
<1>2. ASSUME Rest(p) \/ NextService(p), users' = users PROVE LoopInv'
  <2>1. PICK next \in Purges : /\ purge' = [purge EXCEPT ![p] = next]
                               /\ next.batch = {} /\ next.previous = {}
    BY <1>2, RestPurge, NextServicePurge
  <2>2. QED
    BY <1>2, <2>1, LoopInvOfOne
<1>3. ASSUME NEW pc \in {"fetch", "record"}, Move(p, pc), users' = users,
             pc = "fetch" => purge[p].batch = {}
      PROVE  LoopInv'
  <2> DEFINE moved == [purge[p] EXCEPT !.pc = pc]
  <2>1. /\ moved \in Purges /\ moved.pc = pc
        /\ moved.batch = purge[p].batch /\ moved.previous = purge[p].previous
        /\ moved.settings = settings
    BY <1>1 DEF Purges
  <2>2. purge' = [purge EXCEPT ![p] = moved]
    BY <1>3 DEF Move
  <2>3. PICK next \in Purges :
           /\ purge' = [purge EXCEPT ![p] = next]
           /\ next.pc = pc /\ next.batch = purge[p].batch
           /\ next.previous = purge[p].previous /\ next.settings = settings
    BY <2>1, <2>2
  <2>4. \A b \in next.previous : b \in next.batch \/ Passed(b, next.settings)
    BY <2>3 DEF LoopInv
  <2>5. \A b \in next.previous : b \in next.batch \/ Passed(b, next.settings)'
    BY <1>3, <2>4 DEF Passed
  <2>6. QED
    BY <1>3, <2>3, <2>5, LoopInvOfOne
<1>4. CASE StartPurge(p)
  <2>1. PICK next \in Purges : /\ purge' = [purge EXCEPT ![p] = next]
                               /\ next.pc = "fetch"
                               /\ next.batch = purge[p].batch
                               /\ next.previous = purge[p].previous
                               /\ next.settings = settings
    BY <1>4, StartedPurge
  <2>2. users' = users /\ purge[p].batch = {}
    BY <1>4 DEF StartPurge, LoopInv
  <2>3. \A b \in next.previous : b \in next.batch \/ Passed(b, next.settings)
    BY <2>1 DEF LoopInv
  <2>4. \A b \in next.previous : b \in next.batch \/ Passed(b, next.settings)'
    BY <2>2, <2>3 DEF Passed
  <2>5. QED
    BY <2>1, <2>2, <2>4, LoopInvOfOne
<1>5. CASE FetchRows(p)
  <2>1. CASE NextService(p)
    BY <1>2, <1>5, <2>1 DEF FetchRows
  <2>2. CASE ~NextService(p)
    <3>1. PICK next \in Purges : /\ purge' = [purge EXCEPT ![p] = next]
                                 /\ next.pc = "row"
                                 /\ next.previous = next.batch
      BY <1>5, <2>2, FetchedPurge
    <3>2. users' = users
      BY <1>5 DEF FetchRows
    <3>3. QED
      BY <3>1, <3>2, LoopInvOfOne
  <2>3. QED
    BY <2>1, <2>2
<1>6. CASE DetectLoop(p) \/ StopPurge(p)
  BY <1>2, <1>6 DEF DetectLoop, StopPurge
<1>7. CASE EndBatch(p)
  BY <1>2, <1>3, <1>7 DEF EndBatch
<1>8. CASE SkipData(p) \/ DeleteServiceData(p)
  BY <1>3, <1>8 DEF SkipData, DeleteServiceData
<1>9. ASSUME NextRow(p), users' \subseteq users, NEW o \in Settings, o = settings,
             \A b \in Current(p) : Passed(b, o)'
      PROVE  LoopInv'
  BY <1>9, NextRowLoopInv
<1>10. PICK o \in Settings : o = settings
  BY <1>1
<1>11. CASE PassRow(p)
  <2>1. \A b \in Current(p) : Passed(b, o)'
    BY <1>10, <1>11 DEF PassRow, Passed
  <2>2. QED
    BY <1>9, <1>10, <1>11, <2>1 DEF PassRow
<1>12. CASE SkipDowned(p)
  <2>1. CASE settings.force /\ Move(p, "record")
    BY <1>3, <1>12, <2>1 DEF SkipDowned
  <2>2. CASE ~settings.force /\ NextRow(p)
    <3>1. \A b \in Current(p) : b.node = "down"
      BY <1>12, OneCurrentRow DEF SkipDowned, OnRow
    <3>2. \A b \in Current(p) : Passed(b, o)'
      BY <1>10, <2>2, <3>1 DEF Passed
    <3>3. QED
      BY <1>9, <1>10, <1>12, <2>2, <3>2 DEF SkipDowned
  <2>3. QED
    BY <1>12, <2>1, <2>2 DEF SkipDowned
<1>13. CASE DeleteUserRecord(p)
  <2>1. /\ users' = users \ {r \in users : \E b \in Current(p) : r.uid = b.row.uid}
        /\ NextRow(p)
    BY <1>13 DEF DeleteUserRecord
  <2>2. \A b \in Current(p) : Passed(b, o)'
    BY <2>1 DEF Passed
  <2>3. QED
    BY <1>9, <1>10, <2>1, <2>2
<1>14. QED
  BY <1>4, <1>5, <1>6, <1>7, <1>8, <1>11, <1>12, <1>13 DEF PurgerStep

(* A purger sees the same batch again only when all of it was on downed    *)
(* nodes, or in a dry run, however many purgers work on the table.         *)
THEOREM LoopsMeanDowned == Spec => []LoopMeansDowned
<1>1. Init => LoopInv
  BY IdlePurge DEF Init, LoopInv, At
<1>2. ASSUME IInv, LoopInv, [Next]_vars PROVE LoopInv'
  <2>1. TypeOK /\ users \in SUBSET Rows /\ clock \in Nat
    BY <1>2 DEF IInv, TypeOK
  <2>2. CASE \E p \in Purgers : PurgerStep(p)
    BY <1>2, <2>1, <2>2, PurgerStepLoopInv
  <2>3. ASSUME UNCHANGED purge, Evolves(users, users') PROVE LoopInv'
    <3>1. \A b, settings : Passed(b, settings) => Passed(b, settings)'
      BY <2>3 DEF Passed, Evolves, Advances
    <3>2. QED
      BY <1>2, <2>3, <3>1 DEF LoopInv, At
  <2>4. CASE UNCHANGED <<users, purge>>
    BY <2>1, <2>3, <2>4, SameEvolves
  <2>5. CASE ReplaceRow
    <3>1. PICK r \in users : users' = ReplaceUserRecord(users, r.uid, clock)
      BY <2>5 DEF ReplaceRow
    <3>2. QED
      BY <2>1, <2>3, <2>5, <3>1, ReplaceOneEvolves DEF ReplaceRow, purgeVars
  <2>6. CASE \E n \in NodeIds : UnassignNode(n) \/ RemoveNode(n)
    BY <2>1, <2>3, <2>6, UnassignEvolves
       DEF UnassignNode, RemoveNode, purgeVars
  <2>7. QED
    BY <1>2, <2>2, <2>4, <2>5, <2>6 DEF Next, Tick, UpdateDowned, vars, purgeVars
<1>3. IInv /\ LoopInv => LoopMeansDowned
  <2> SUFFICES ASSUME IInv, LoopInv, NEW p \in Purgers, At(p, "fetch"),
                      NEW offset \in 0 .. MaxOffset,
                      Fetchable(p, offset) = purge[p].previous,
                      ~purge[p].settings.dryrun, purge[p].previous # {}
               PROVE  /\ ~purge[p].settings.force
                      /\ \A b \in purge[p].previous : b.node = "down"
    BY DEF LoopMeansDowned
  <2>1. \A b \in purge[p].previous : b.row \in users
    BY FetchedReads, PurgeAssumption DEF IInv, Fetchable
  <2>2. \A b \in purge[p].previous : Passed(b, purge[p].settings)
    BY DEF LoopInv
  <2>3. QED
    BY <2>1, <2>2 DEF Passed
<1>4. QED
  BY PurgeIInv, <1>1, <1>2, <1>3, PTL DEF Spec

=============================================================================
