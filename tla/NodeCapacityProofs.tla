------------------------- MODULE NodeCapacityProofs -------------------------
(***************************************************************************)
(* Proofs about NodeCapacity, for any nodes, capacities, rate, number of   *)
(* workers and number of purgers.                                          *)
(***************************************************************************)
EXTENDS NodeCapacity, FiniteSetTheorems, TLAPS

(* The workers about to count a row in on a node. *)
Pending(n) == {w \in Workers : job[w].pc = "claim" /\ job[w].node = n}

(* A migrated user's row goes to the Spanner node. *)
SpannerInv ==
    \A w \in Workers :
        job[w].pc = "claim" /\ job[w].spanner => job[w].node = SpannerNode

(* OvershootBounded does not say how the overshoot came about.  Counting   *)
(* the pending assignments as if they had been made does: a worker that    *)
(* picked the node saw room for itself, whatever the others do.            *)
LoadInv ==
    \A n \in NodeIds \ {SpannerNode} : Present(n) =>
        nodes[n].current_load + Cardinality(Pending(n))
           <= nodes[n].capacity + Cardinality(Workers) - 1

IInv == TypeOK /\ SpannerInv /\ LoadInv /\ FreeSlotsAreFree

-----------------------------------------------------------------------------
(* Arithmetic. *)

(* A quotient is at most k when the dividend is below (k + 1) divisors. *)
LEMMA QuotientBound ==
    ASSUME NEW x \in Nat, NEW d \in Nat \ {0}, NEW k \in Nat,
           x < d * (k + 1)
    PROVE  x \div d \in 0 .. k
<1> DEFINE q == x \div d
<1>1. q \in Int /\ d * q <= x /\ x < d * q + d
  BY SMT
<1>2. q >= 0
  BY <1>1, SMT
<1>3. q <= k
  BY <1>1, SMT
<1> QED
  BY <1>1, <1>2, <1>3

(* A column keeps an amount a natural number of units, and at most the     *)
(* whole slots it lies below.                                              *)
LEMMA StoredBound ==
    ASSUME NEW units \in Nat
    PROVE  /\ Stored(units) \in Nat
           /\ \A k \in Nat : units <= Unit * k => Stored(units) <= Unit * k
<1> DEFINE q == (2 * units + Unit) \div (2 * Unit)
<1>1. Unit \in Nat \ {0} /\ RoundsSlots \in BOOLEAN
  BY RateAssumption, SwitchesAssumption
<1>2. q \in Nat
  <2>1. 2 * units + Unit < (2 * Unit) * ((2 * units + Unit) + 1)
    BY <1>1, SMT
  <2>2. 2 * units + Unit \in Nat /\ 2 * Unit \in Nat \ {0}
    BY <1>1
  <2> QED
    BY <2>1, <2>2, QuotientBound
<1>3. ASSUME NEW k \in Nat, units <= Unit * k
      PROVE  Unit * q <= Unit * k
  <2>1. 2 * units + Unit < (2 * Unit) * (k + 1)
    BY <1>1, <1>3, SMT
  <2>2. 2 * units + Unit \in Nat /\ 2 * Unit \in Nat \ {0}
    BY <1>1
  <2>3. q <= k
    BY <2>1, <2>2, QuotientBound
  <2> QED
    BY <2>3, <1>1, <1>2, SMT
<1>4. Unit * q \in Nat
  BY <1>1, <1>2
<1> HIDE DEF q
<1>5. Stored(units) = IF RoundsSlots THEN Unit * q ELSE units
  BY DEF Stored, q
<1> QED
  BY <1>3, <1>4, <1>5

(* add_node offers no more slots than the node has. *)
LEMMA InitialSlotsBound ==
    ASSUME NEW capacity \in Capacities
    PROVE  /\ capacity \in Nat \ {0}
           /\ InitialSlots(capacity) \in Nat
           /\ InitialSlots(capacity) <= Unit * capacity
<1> DEFINE x == capacity * Rate + Unit - 1
           q == x \div Unit
<1>1. /\ Unit \in Nat \ {0} /\ Rate \in Nat /\ Rate <= Unit
      /\ capacity \in Nat \ {0}
  BY RateAssumption, CapacitiesAssumption
<1>2. capacity * Rate \in Nat /\ capacity * Rate <= capacity * Unit
  BY <1>1, SMT
<1>3. x \in Nat /\ x < Unit * (capacity + 1)
  BY <1>1, <1>2, SMT
<1>4. q \in 0 .. capacity
  BY <1>1, <1>3, QuotientBound
<1> HIDE DEF q
<1>5. Unit * q \in Nat /\ Unit * q <= Unit * capacity
  BY <1>1, <1>4, SMT
<1>6. InitialSlots(capacity) = Unit * q
  BY DEF InitialSlots, q
<1> QED
  BY <1>1, <1>5, <1>6

(* A release offers no more slots than a node has left. *)
LEMMA ReleasedSlotsBound ==
    ASSUME NEW node \in NodeRows, node.capacity > node.current_load
    PROVE  /\ ReleasedSlots(node) \in Nat
           /\ ReleasedSlots(node)
                 <= Unit * (node.capacity - node.current_load)
<1> DEFINE share == node.capacity * Rate
           room  == (node.capacity - node.current_load) * Unit
           units == IF share <= room THEN share ELSE room
<1>1. /\ Unit \in Nat \ {0} /\ Rate \in Nat
      /\ node.capacity \in Nat /\ node.current_load \in Int
  BY RateAssumption DEF NodeRows
<1>2. share \in Nat /\ room \in Nat
  BY <1>1, SMT
<1>3. units \in Nat /\ units <= room
  BY <1>2
<1>4. ReleasedSlots(node) = Stored(units)
  BY DEF ReleasedSlots
<1>5. /\ node.capacity - node.current_load \in Nat
      /\ room = Unit * (node.capacity - node.current_load)
  BY <1>1, SMT
<1> HIDE DEF units, room
<1> QED
  BY <1>3, <1>4, <1>5, StoredBound

-----------------------------------------------------------------------------
(* The pending assignments of a node are finitely many, at most one per    *)
(* worker.                                                                 *)
LEMMA PendingBound ==
    ASSUME NEW S \in SUBSET Workers
    PROVE  /\ IsFiniteSet(S)
           /\ Cardinality(S) \in Nat
           /\ Cardinality(S) <= Cardinality(Workers)
           /\ Cardinality(Workers) \in Nat \ {0}
<1>1. IsFiniteSet(S) /\ Cardinality(S) <= Cardinality(Workers)
  BY WorkersAssumption, FS_Subset
<1>2. Cardinality(S) \in Nat /\ Cardinality(Workers) \in Nat
  BY <1>1, WorkersAssumption, FS_CardinalityType
<1>3. Cardinality(Workers) # 0
  BY WorkersAssumption, FS_EmptySet
<1> QED
  BY <1>1, <1>2, <1>3

(* Steps that only move workers that are not about to claim a node, or     *)
(* make a worker give its claim up, preserve the invariant.                *)
LEMMA QuietStep ==
    ASSUME IInv, TypeOK', UNCHANGED nodes,
           \A w \in Workers : job'[w].pc = "claim" => job'[w] = job[w]
    PROVE  IInv'
<1>1. SpannerInv'
  BY DEF IInv, SpannerInv
<1>2. ASSUME NEW n \in NodeIds
      PROVE  /\ Cardinality(Pending(n)') <= Cardinality(Pending(n))
             /\ Cardinality(Pending(n)') \in Nat
             /\ Cardinality(Pending(n)) \in Nat
  <2>1. /\ Pending(n)' \in SUBSET Pending(n)
        /\ Pending(n) \in SUBSET Workers /\ Pending(n)' \in SUBSET Workers
    BY DEF Pending
  <2> QED
    BY <2>1, PendingBound, FS_Subset
<1>3. LoadInv'
  <2> SUFFICES ASSUME NEW n \in NodeIds \ {SpannerNode}, Present(n)'
               PROVE  (nodes[n].current_load + Cardinality(Pending(n))
                         <= nodes[n].capacity + Cardinality(Workers) - 1)'
    BY DEF LoadInv
  <2>1. nodes[n].current_load \in Int /\ nodes[n].capacity \in Int
    BY DEF IInv, TypeOK, NodeRows
  <2>2. Cardinality(Workers) \in Int
    BY WorkersAssumption, FS_CardinalityType
  <2>3. nodes[n].current_load + Cardinality(Pending(n))
           <= nodes[n].capacity + Cardinality(Workers) - 1
    BY DEF IInv, LoadInv, Present
  <2> QED
    BY <2>1, <2>2, <2>3, <1>2
<1>4. FreeSlotsAreFree'
  BY DEF IInv, FreeSlotsAreFree, Present
<1> QED
  BY <1>1, <1>3, <1>4 DEF IInv

(* Steps that change nodes but no claim preserve the invariant when each   *)
(* node present keeps or loses load, or is new, and offers no more than    *)
(* before, or than it has left.                                            *)
LEMMA NodeStep ==
    ASSUME IInv, TypeOK',
           \A w \in Workers : \/ job'[w] = job[w]
                              \/ job[w].pc # "claim" /\ job'[w].pc # "claim",
           \A n \in NodeIds \ {SpannerNode} : Present(n)' =>
              /\ \/ /\ Present(n)
                    /\ nodes'[n].capacity = nodes[n].capacity
                    /\ nodes'[n].current_load <= nodes[n].current_load
                 \/ nodes'[n].current_load = 0 /\ nodes'[n].capacity > 0
              /\ \/ /\ Present(n)
                    /\ nodes'[n].capacity = nodes[n].capacity
                    /\ nodes'[n].available + Unit * nodes'[n].current_load
                          <= nodes[n].available + Unit * nodes[n].current_load
                 \/ nodes'[n].available + Unit * nodes'[n].current_load
                       <= Unit * nodes'[n].capacity
    PROVE  IInv'
<1>1. SpannerInv'
  BY DEF IInv, SpannerInv
<1>2. /\ Cardinality(Workers) \in Nat \ {0} /\ Unit \in Nat \ {0}
      /\ \A n \in NodeIds : /\ Pending(n)' = Pending(n)
                            /\ Cardinality(Pending(n)) \in Nat
                            /\ Cardinality(Pending(n)) <= Cardinality(Workers)
  BY PendingBound, RateAssumption DEF Pending
<1>3. ASSUME NEW n \in NodeIds \ {SpannerNode}, Present(n)'
      PROVE  /\ (nodes[n].current_load + Cardinality(Pending(n))
                     <= nodes[n].capacity + Cardinality(Workers) - 1)'
             /\ (nodes[n].available + Unit * nodes[n].current_load
                     <= Unit * (nodes[n].capacity + Cardinality(Workers) - 1))'
  <2>1. /\ nodes[n].current_load \in Int /\ nodes[n].capacity \in Nat
        /\ nodes[n].available \in Nat
        /\ nodes'[n].current_load \in Int /\ nodes'[n].capacity \in Nat
        /\ nodes'[n].available \in Nat
    BY DEF IInv, TypeOK, NodeRows
  <2>2. Present(n) =>
          /\ nodes[n].current_load + Cardinality(Pending(n))
                <= nodes[n].capacity + Cardinality(Workers) - 1
          /\ nodes[n].available + Unit * nodes[n].current_load
                <= Unit * (nodes[n].capacity + Cardinality(Workers) - 1)
    BY DEF IInv, LoadInv, FreeSlotsAreFree
  <2>3. nodes'[n].current_load + Cardinality(Pending(n)')
           <= nodes'[n].capacity + Cardinality(Workers) - 1
    <3>1. CASE /\ Present(n)
               /\ nodes'[n].capacity = nodes[n].capacity
               /\ nodes'[n].current_load <= nodes[n].current_load
      BY <3>1, <1>2, <2>1, <2>2
    <3>2. CASE nodes'[n].current_load = 0 /\ nodes'[n].capacity > 0
      BY <3>2, <1>2, <2>1
    <3> QED
      BY <1>3, <3>1, <3>2
  <2>4. nodes'[n].available + Unit * nodes'[n].current_load
           <= Unit * (nodes'[n].capacity + Cardinality(Workers) - 1)
    <3> DEFINE limit == Unit * (nodes'[n].capacity + Cardinality(Workers) - 1)
               old == nodes[n].available + Unit * nodes[n].current_load
               new == nodes'[n].available + Unit * nodes'[n].current_load
               full == Unit * nodes'[n].capacity
    <3>1. limit \in Int /\ old \in Int /\ new \in Int /\ full \in Int
      BY <1>2, <2>1, SMT
    <3>2. full <= limit
      BY <1>2, <2>1, SMT
    <3>3. \/ Present(n) /\ nodes'[n].capacity = nodes[n].capacity /\ new <= old
          \/ new <= full
      BY <1>3
    <3>4. Present(n) /\ nodes'[n].capacity = nodes[n].capacity => old <= limit
      BY <2>2
    <3> HIDE DEF limit, old, new, full
    <3>5. new <= limit
      BY <3>1, <3>2, <3>3, <3>4
    <3> QED
      BY <3>5 DEF new, limit
  <2> QED
    BY <2>3, <2>4
<1>4. LoadInv' /\ FreeSlotsAreFree'
  BY <1>3 DEF LoadInv, FreeSlotsAreFree
<1> QED
  BY <1>1, <1>4 DEF IInv

-----------------------------------------------------------------------------
(* Type correctness. *)

LEMMA JobTypes ==
    /\ \A pc \in {"idle", "failed", "select"} : Rest(pc) \in Jobs
    /\ NoPurge \in Purges
    /\ UnknownNode \in NodeRows
<1>1. (CHOOSE n \in NodeIds : TRUE) \in NodeIds
  BY NodeIdsAssumption
<1> QED
  BY <1>1 DEF Rest, Jobs, MaxTries, NoPurge, Purges, UserRows, UnknownNode,
              NodeRows

LEMMA NewNodeBound ==
    ASSUME NEW c \in Capacities
    PROVE  /\ NewNode(c) \in NodeRows
           /\ NewNode(c).current_load = 0
           /\ NewNode(c).capacity = c /\ c > 0
           /\ NewNode(c).available <= Unit * c
<1>1. /\ c \in Nat \ {0} /\ InitialSlots(c) \in Nat
      /\ InitialSlots(c) <= Unit * c
  BY InitialSlotsBound
<1> QED
  BY <1>1 DEF NewNode, NodeRows

LEMMA TakeSlotBound ==
    ASSUME NEW units \in Nat
    PROVE  /\ TakeSlot(units) \in Nat
           /\ TakeSlot(units) = 0 \/ TakeSlot(units) = units - Unit
  BY RateAssumption DEF TakeSlot

LEMMA InitTypes == Init => TypeOK
<1> SUFFICES ASSUME Init PROVE TypeOK
  OBVIOUS
<1>1. {UnknownNode} \cup {NewNode(c) : c \in Capacities} \subseteq NodeRows
  BY JobTypes, NewNodeBound
<1>2. nodes \in [NodeIds -> NodeRows]
  BY <1>1 DEF Init
<1> QED
  BY <1>2, JobTypes DEF Init, TypeOK

-----------------------------------------------------------------------------
(* The steps. *)

LEMMA CallStep ==
    ASSUME IInv, NEW w \in Workers, Call(w)
    PROVE  IInv'
<1>1. PICK spanner \in Migrating :
         job' = [job EXCEPT ![w] = [Rest("select") EXCEPT !.spanner = spanner]]
  BY DEF Call
<1>2. [Rest("select") EXCEPT !.spanner = spanner] \in Jobs
  BY JobTypes, SwitchesAssumption DEF Jobs
<1>3. TypeOK'
  BY <1>1, <1>2 DEF Call, IInv, TypeOK
<1>4. [Rest("select") EXCEPT !.spanner = spanner].pc = "select"
  BY DEF Rest
<1> QED
  BY <1>1, <1>3, <1>4, QuietStep DEF Call, IInv, TypeOK

LEMMA EndStep ==
    ASSUME IInv, NEW w \in Workers, NEW pc \in {"idle", "failed"}, End(w, pc)
    PROVE  /\ job' \in [Workers -> Jobs]
           /\ \A v \in Workers : v = w \/ job'[v] = job[v]
           /\ job'[w].pc = pc
<1>1. Rest(pc) \in Jobs /\ Rest(pc).pc = pc
  BY JobTypes DEF Rest
<1> QED
  BY <1>1 DEF End, IInv, TypeOK

LEMMA InsertRowStep ==
    ASSUME IInv, NEW w \in Workers, InsertRow(w)
    PROVE  IInv'
<1>1. /\ job' \in [Workers -> Jobs]
      /\ \A v \in Workers : job'[v].pc = "claim" => job'[v] = job[v]
  BY EndStep DEF InsertRow
<1>2. rows' \subseteq UserRows /\ nextUid' \in Nat
  BY DEF InsertRow, IInv, TypeOK, UserRows, Jobs
<1>3. TypeOK'
  BY <1>1, <1>2 DEF InsertRow, IInv, TypeOK
<1> QED
  BY <1>1, <1>3, QuietStep DEF InsertRow

LEMMA CrashStep ==
    ASSUME IInv, NEW w \in Workers, Crash(w)
    PROVE  IInv'
<1>1. /\ job' \in [Workers -> Jobs]
      /\ \A v \in Workers : job'[v].pc = "claim" => job'[v] = job[v]
  BY EndStep DEF Crash
<1>2. TypeOK'
  BY <1>1 DEF Crash, IInv, TypeOK
<1> QED
  BY <1>1, <1>2, QuietStep DEF Crash

(* A worker that picks a node has seen room on it for itself.              *)
LEMMA SelectNodeStep ==
    ASSUME IInv, NEW w \in Workers, SelectNode(w)
    PROVE  IInv'
<1>1. CASE Move(w, "release")
  <2>1. job' \in [Workers -> Jobs]
    BY <1>1 DEF Move, IInv, TypeOK, Jobs
  <2>2. TypeOK'
    BY <2>1 DEF SelectNode, IInv, TypeOK
  <2>3. \A v \in Workers : job'[v].pc = "claim" => job'[v] = job[v]
    BY <1>1 DEF Move, IInv, TypeOK, Jobs
  <2> QED
    BY <2>2, <2>3, QuietStep DEF SelectNode
<1>2. CASE \E n \in BestNodes(job[w].spanner) :
              job' = [job EXCEPT ![w].pc = "claim", ![w].node = n]
  <2>1. PICK n \in BestNodes(job[w].spanner) :
           job' = [job EXCEPT ![w].pc = "claim", ![w].node = n]
    BY <1>2
  <2>2. n \in NodeIds
    BY <2>1 DEF BestNodes
  <2>3. /\ job' \in [Workers -> Jobs]
        /\ job'[w].node = n /\ job'[w].spanner = job[w].spanner
        /\ \A v \in Workers \ {w} : job'[v] = job[v]
    BY <2>1, <2>2 DEF IInv, TypeOK, Jobs
  <2>4. TypeOK'
    BY <2>3 DEF SelectNode, IInv, TypeOK
  <2>5. job[w].pc = "select" /\ UNCHANGED nodes
    BY DEF SelectNode
  <2>6. job[w].spanner => n = SpannerNode
    BY <2>1 DEF BestNodes
  <2>7. SpannerInv'
    BY <2>3, <2>6 DEF IInv, SpannerInv
  <2>8. LoadInv'
    <3> SUFFICES ASSUME NEW m \in NodeIds \ {SpannerNode}, Present(m)'
                 PROVE  (nodes[m].current_load + Cardinality(Pending(m))
                           <= nodes[m].capacity + Cardinality(Workers) - 1)'
      BY DEF LoadInv
    <3>1. /\ nodes'[m] = nodes[m] /\ Present(m)
          /\ nodes[m].current_load \in Int /\ nodes[m].capacity \in Nat
      BY <2>5 DEF IInv, TypeOK, NodeRows, Present
    <3>2. /\ Cardinality(Pending(m)') \in Nat
          /\ Cardinality(Pending(m)') <= Cardinality(Workers)
          /\ Cardinality(Workers) \in Nat
      BY PendingBound DEF Pending
    <3>3. CASE m = n
      <4>1. nodes[m].capacity > nodes[m].current_load
        BY <3>3, <2>1, <2>6 DEF BestNodes, Selectable
      <4> QED
        BY <3>1, <3>2, <4>1
    <3>4. CASE m # n
      <4>1. Pending(m)' = Pending(m)
        BY <3>4, <2>3, <2>5 DEF Pending
      <4>2. nodes[m].current_load + Cardinality(Pending(m))
               <= nodes[m].capacity + Cardinality(Workers) - 1
        BY <3>1 DEF IInv, LoadInv
      <4> QED
        BY <3>1, <4>1, <4>2
    <3> QED
      BY <3>3, <3>4
  <2>9. FreeSlotsAreFree'
    BY <2>5 DEF IInv, FreeSlotsAreFree, Present
  <2> QED
    BY <2>4, <2>7, <2>8, <2>9 DEF IInv
<1> QED
  BY <1>1, <1>2 DEF SelectNode

LEMMA ReleaseCapacityStep ==
    ASSUME IInv, NEW w \in Workers, ReleaseCapacity(w)
    PROVE  IInv'
<1>1. job[w].pc = "release" /\ UNCHANGED <<rows, nextUid, purge>>
  BY DEF ReleaseCapacity
<1>2. /\ job' \in [Workers -> Jobs]
      /\ \A v \in Workers : v = w \/ job'[v] = job[v]
      /\ job'[w].pc \in {"select", "failed"}
  <2> DEFINE tries == job[w].tries + 1
  <2>1. CASE End(w, "failed")
    BY <2>1, EndStep
  <2>2. CASE /\ tries < MaxTries
             /\ job' = [job EXCEPT ![w].pc = "select", ![w].tries = tries]
    BY <2>2 DEF IInv, TypeOK, Jobs, MaxTries
  <2> QED
    BY <2>1, <2>2 DEF ReleaseCapacity
<1>3. ASSUME NEW n \in NodeIds
      PROVE  nodes'[n] = IF Releasable(n)
                THEN [nodes[n] EXCEPT !.available = ReleasedSlots(nodes[n])]
                ELSE nodes[n]
  BY DEF ReleaseCapacity
<1>4. ASSUME NEW n \in NodeIds, Releasable(n)
      PROVE  /\ nodes'[n] \in NodeRows
             /\ Present(n)
             /\ nodes'[n].capacity = nodes[n].capacity
             /\ nodes'[n].current_load = nodes[n].current_load
             /\ nodes'[n].available
                   <= Unit * (nodes'[n].capacity - nodes'[n].current_load)
  <2>1. nodes[n] \in NodeRows /\ nodes[n].capacity > nodes[n].current_load
    BY <1>4 DEF Releasable, IInv, TypeOK
  <2>2. /\ ReleasedSlots(nodes[n]) \in Nat
        /\ ReleasedSlots(nodes[n])
              <= Unit * (nodes[n].capacity - nodes[n].current_load)
    BY <2>1, ReleasedSlotsBound
  <2> QED
    BY <1>3, <1>4, <2>1, <2>2 DEF NodeRows, Releasable
<1>5. nodes' \in [NodeIds -> NodeRows]
  BY <1>3, <1>4 DEF ReleaseCapacity, IInv, TypeOK
<1>6. TypeOK'
  BY <1>1, <1>2, <1>5 DEF IInv, TypeOK
<1>7. ASSUME NEW n \in NodeIds \ {SpannerNode}, Present(n)'
      PROVE  /\ Present(n)
             /\ nodes'[n].capacity = nodes[n].capacity
             /\ nodes'[n].current_load <= nodes[n].current_load
             /\ \/ nodes'[n].available + Unit * nodes'[n].current_load
                       <= nodes[n].available + Unit * nodes[n].current_load
                \/ nodes'[n].available + Unit * nodes'[n].current_load
                       <= Unit * nodes'[n].capacity
  <2>1. /\ Unit \in Nat /\ nodes[n].current_load \in Int
        /\ nodes[n].capacity \in Nat /\ nodes[n].available \in Nat
        /\ nodes'[n].available \in Nat
    BY <1>5, RateAssumption DEF IInv, TypeOK, NodeRows
  <2>2. CASE Releasable(n)
    BY <2>1, <2>2, <1>4, SMT
  <2>3. CASE ~Releasable(n)
    <3>1. nodes'[n] = nodes[n] /\ Present(n)
      BY <2>3, <1>3, <1>7 DEF Present
    <3> QED
      BY <2>1, <3>1
  <2> QED
    BY <2>2, <2>3
<1> QED
  BY <1>1, <1>2, <1>6, <1>7, NodeStep

(* The overshoot moves from pending to load; a slot is taken if there is   *)
(* one, and if there is none the bound on the load is the bound on slots.  *)
LEMMA ClaimNodeStep ==
    ASSUME IInv, NEW w \in Workers, ClaimNode(w)
    PROVE  IInv'
<1> DEFINE n == job[w].node
           slots == IF job[w].spanner THEN nodes[n].available
                    ELSE TakeSlot(nodes[n].available)
           loaded == [nodes[n] EXCEPT !.current_load = @ + 1]
           claimed == [loaded EXCEPT !.available = slots]
<1>1. /\ job[w].pc = "claim" /\ UNCHANGED <<rows, nextUid, purge>>
      /\ Move(w, "insert")
  BY DEF ClaimNode
<1>2. /\ job' \in [Workers -> Jobs] /\ job'[w].pc = "insert"
      /\ \A v \in Workers \ {w} : job'[v] = job[v]
  BY <1>1 DEF Move, IInv, TypeOK, Jobs
<1>3. n \in NodeIds /\ nodes[n] \in NodeRows /\ nodes[n].available \in Nat
  BY DEF IInv, TypeOK, Jobs, NodeRows
<1>4. slots \in Nat
  BY <1>3, TakeSlotBound
<1> HIDE DEF slots
<1>4a. /\ loaded \in NodeRows
      /\ loaded.status = nodes[n].status
      /\ loaded.capacity = nodes[n].capacity
      /\ loaded.current_load = nodes[n].current_load + 1
  BY <1>3 DEF NodeRows
<1> HIDE DEF loaded
<1>5. /\ claimed \in NodeRows
      /\ claimed.status = nodes[n].status
      /\ claimed.capacity = nodes[n].capacity
      /\ claimed.current_load = nodes[n].current_load + 1
      /\ claimed.available = slots
  BY <1>4, <1>4a DEF NodeRows
<1>6. nodes' = IF Present(n) THEN [nodes EXCEPT ![n] = claimed] ELSE nodes
  BY <1>3 DEF ClaimNode, slots, loaded, IInv, TypeOK
<1> HIDE DEF claimed
<1>7. /\ nodes' \in [NodeIds -> NodeRows]
      /\ \A m \in NodeIds : m # n \/ ~Present(n) => nodes'[m] = nodes[m]
      /\ Present(n) => nodes'[n] = claimed
  BY <1>3, <1>5, <1>6 DEF IInv, TypeOK
<1>8. TypeOK'
  BY <1>1, <1>2, <1>7 DEF IInv, TypeOK
<1>9. SpannerInv'
  BY <1>2 DEF IInv, SpannerInv
<1>10. ASSUME NEW m \in NodeIds \ {SpannerNode}, Present(m)'
       PROVE  /\ (nodes[m].current_load + Cardinality(Pending(m))
                     <= nodes[m].capacity + Cardinality(Workers) - 1)'
              /\ (nodes[m].available + Unit * nodes[m].current_load
                     <= Unit * (nodes[m].capacity + Cardinality(Workers) - 1))'
  <2>1. Present(m)
    BY <1>5, <1>7, <1>10 DEF Present
  <2>2. /\ nodes[m].current_load + Cardinality(Pending(m))
              <= nodes[m].capacity + Cardinality(Workers) - 1
        /\ nodes[m].available + Unit * nodes[m].current_load
              <= Unit * (nodes[m].capacity + Cardinality(Workers) - 1)
    BY <2>1 DEF IInv, LoadInv, FreeSlotsAreFree
  <2>3. CASE m # n
    <3>1. Pending(m)' = Pending(m)
      BY <1>1, <1>2, <2>3 DEF Pending
    <3> QED
      BY <1>7, <2>2, <2>3, <3>1
  <2>4. CASE m = n
    <3>1. nodes'[m] = claimed
      BY <1>7, <2>1, <2>4
    <3>2. /\ Pending(m)' = Pending(m) \ {w} /\ w \in Pending(m)
          /\ Pending(m) \in SUBSET Workers
      BY <1>1, <1>2, <2>4 DEF Pending
    <3>3. /\ Cardinality(Pending(m)') = Cardinality(Pending(m)) - 1
          /\ Cardinality(Pending(m)) \in Nat
          /\ Cardinality(Pending(m)') \in Nat
          /\ Cardinality(Workers) \in Nat
      BY <3>2, PendingBound, FS_RemoveElement
    <3>4. /\ nodes[m].current_load \in Int /\ nodes[m].capacity \in Nat
          /\ nodes[m].available \in Nat /\ Unit \in Nat
      BY RateAssumption DEF IInv, TypeOK, NodeRows
    <3>5. /\ nodes'[m].current_load = nodes[m].current_load + 1
          /\ nodes'[m].capacity = nodes[m].capacity
          /\ nodes'[m].available = slots
      BY <1>5, <2>4, <3>1
    <3>6. nodes'[m].current_load + Cardinality(Pending(m)')
             <= nodes'[m].capacity + Cardinality(Workers) - 1
      BY <2>2, <3>3, <3>4, <3>5
    <3>7. ~job[w].spanner
      BY <1>1, <2>4 DEF IInv, SpannerInv
    <3>8. slots = 0 \/ slots = nodes[m].available - Unit
      BY <3>4, <3>7, <2>4, TakeSlotBound DEF slots
    <3>9. CASE slots = nodes[m].available - Unit
      <4>1. Unit * nodes'[m].current_load
               = Unit * nodes[m].current_load + Unit
        BY <3>4, <3>5, SMT
      <4>2. Unit * nodes[m].current_load \in Int
        BY <3>4, SMT
      <4>3. slots + Unit * nodes'[m].current_load
               = nodes[m].available + Unit * nodes[m].current_load
        BY <3>4, <3>9, <4>1, <4>2
      <4> QED
        BY <2>2, <3>5, <3>6, <4>3
    <3>10. CASE slots = 0
      <4> DEFINE most == nodes[m].capacity + Cardinality(Workers) - 1
                 load == nodes'[m].current_load
      <4>1. load \in Int /\ most \in Int /\ load <= most
        BY <3>3, <3>4, <3>5, <3>6
      <4> HIDE DEF load, most
      <4>2. Unit * load \in Int /\ Unit * load <= Unit * most
        BY <3>4, <4>1, SMT
      <4>3. slots + Unit * load <= Unit * most
        BY <3>10, <4>2
      <4> QED
        BY <3>5, <3>6, <4>3 DEF load, most
    <3> QED
      BY <3>8, <3>9, <3>10
  <2> QED
    BY <2>3, <2>4
<1>11. LoadInv' /\ FreeSlotsAreFree'
  BY <1>10 DEF LoadInv, FreeSlotsAreFree
<1> QED
  BY <1>8, <1>9, <1>11 DEF IInv

LEMMA AddRowStep ==
    ASSUME IInv, AddRowOnSameNode
    PROVE  IInv'
<1>1. rows' \subseteq UserRows /\ nextUid' \in Nat
  BY DEF AddRowOnSameNode, IInv, TypeOK, UserRows
<1>2. TypeOK'
  BY <1>1 DEF AddRowOnSameNode, IInv, TypeOK
<1> QED
  BY <1>2, QuietStep DEF AddRowOnSameNode

LEMMA PurgerStepInv ==
    ASSUME IInv, NEW p \in Purgers, PurgerStep(p)
    PROVE  IInv'
<1>1. CASE FetchOldRow(p) \/ DeleteUserRecord(p) \/ PurgerCrash(p)
  <2>1. purge' \in [Purgers -> Purges] /\ rows' \subseteq UserRows
    BY <1>1, JobTypes DEF FetchOldRow, DeleteUserRecord, PurgerCrash, IInv,
                          TypeOK, Purges
  <2>2. UNCHANGED <<nodes, nextUid, job>>
    BY <1>1 DEF FetchOldRow, DeleteUserRecord, PurgerCrash
  <2>3. TypeOK'
    BY <2>1, <2>2 DEF IInv, TypeOK
  <2> QED
    BY <2>2, <2>3, QuietStep
<1>2. CASE FreeSlotOnNode(p)
  <2> DEFINE n == purge[p].row.nodeid
             freer == [nodes[n] EXCEPT !.available = @ + Unit]
             freed == [freer EXCEPT !.current_load = @ - 1]
  <2>1. n \in NodeIds /\ nodes[n] \in NodeRows /\ Unit \in Nat \ {0}
    BY RateAssumption DEF IInv, TypeOK, Purges, UserRows
  <2>1a. /\ freer \in NodeRows
        /\ freer.status = nodes[n].status
        /\ freer.capacity = nodes[n].capacity
        /\ freer.current_load = nodes[n].current_load
        /\ freer.available = nodes[n].available + Unit
    BY <2>1 DEF NodeRows
  <2> HIDE DEF freer
  <2>2. /\ freed \in NodeRows
        /\ freed.status = nodes[n].status
        /\ freed.capacity = nodes[n].capacity
        /\ freed.current_load = nodes[n].current_load - 1
        /\ freed.available = nodes[n].available + Unit
    BY <2>1, <2>1a DEF NodeRows
  <2>3. \/ UNCHANGED nodes
        \/ nodes' = [nodes EXCEPT ![n] = freed]
    <3>1. \/ UNCHANGED nodes
          \/ nodes' = [nodes EXCEPT ![n].available = @ + Unit,
                                    ![n].current_load = @ - 1]
      BY <1>2 DEF FreeSlotOnNode
    <3> QED
      BY <2>1, <3>1 DEF freer, IInv, TypeOK, NodeRows
  <2> HIDE DEF freed
  <2>4. /\ nodes' \in [NodeIds -> NodeRows]
        /\ \A m \in NodeIds :
              nodes'[m] = nodes[m] \/ (m = n /\ nodes'[m] = freed)
    BY <2>1, <2>2, <2>3 DEF IInv, TypeOK
  <2>5. /\ purge' \in [Purgers -> Purges]
        /\ UNCHANGED <<rows, nextUid, job>>
    BY <1>2 DEF FreeSlotOnNode, IInv, TypeOK, Purges
  <2>6. TypeOK'
    BY <2>4, <2>5 DEF IInv, TypeOK
  <2>7. ASSUME NEW m \in NodeIds \ {SpannerNode}, Present(m)'
        PROVE  /\ Present(m)
               /\ nodes'[m].capacity = nodes[m].capacity
               /\ nodes'[m].current_load <= nodes[m].current_load
               /\ nodes'[m].available + Unit * nodes'[m].current_load
                     <= nodes[m].available + Unit * nodes[m].current_load
    <3>1. /\ nodes[m].current_load \in Int /\ nodes[m].available \in Nat
      BY DEF IInv, TypeOK, NodeRows
    <3>2. CASE nodes'[m] = nodes[m]
      <4>1. Unit * nodes[m].current_load \in Int
        BY <2>1, <3>1, SMT
      <4> QED
        BY <2>7, <3>1, <3>2, <4>1 DEF Present
    <3>3. CASE m = n /\ nodes'[m] = freed
      <4>1. /\ Present(m)
            /\ nodes'[m].capacity = nodes[m].capacity
            /\ nodes'[m].current_load = nodes[m].current_load - 1
            /\ nodes'[m].available = nodes[m].available + Unit
        BY <2>2, <2>7, <3>3 DEF Present
      <4>2. /\ Unit * nodes[m].current_load \in Int
            /\ Unit * nodes'[m].current_load
                  = Unit * nodes[m].current_load - Unit
        BY <2>1, <3>1, <4>1, SMT
      <4> QED
        BY <2>1, <3>1, <4>1, <4>2
    <3> QED
      BY <2>4, <3>2, <3>3
  <2> QED
    BY <2>5, <2>6, <2>7, NodeStep
<1> QED
  BY <1>1, <1>2 DEF PurgerStep

LEMMA OperatorStepInv ==
    ASSUME IInv, NEW n \in NodeIds, OperatorStep(n)
    PROVE  IInv'
<1>1. UNCHANGED <<rows, nextUid, job, purge>>
  BY DEF OperatorStep, AddNode, UpdateDowned, UpdateBackoff, RemoveNode
<1>2. PICK row \in NodeRows :
        /\ nodes' = [nodes EXCEPT ![n] = row]
        /\ \/ row.status # "present"
           \/ /\ row.current_load = 0 /\ row.capacity > 0
              /\ row.available <= Unit * row.capacity
           \/ /\ Present(n)
              /\ row.capacity = nodes[n].capacity
              /\ row.current_load = nodes[n].current_load
              /\ row.available = nodes[n].available
  <2>1. CASE AddNode(n)
    <3>1. PICK c \in Capacities : nodes' = [nodes EXCEPT ![n] = NewNode(c)]
      BY <2>1 DEF AddNode
    <3> DEFINE new == NewNode(c)
    <3>2. /\ new \in NodeRows /\ new.current_load = 0 /\ new.capacity > 0
          /\ new.available <= Unit * new.capacity
      BY NewNodeBound
    <3> HIDE DEF new
    <3>3. nodes' = [nodes EXCEPT ![n] = new]
      BY <3>1 DEF new
    <3> QED
      BY <3>2, <3>3
  <2>2. CASE UpdateDowned(n)
    <3>1. PICK value \in BOOLEAN :
             nodes' = [nodes EXCEPT ![n] = [nodes[n] EXCEPT !.downed = value]]
      BY <2>2 DEF UpdateDowned
    <3>2. [nodes[n] EXCEPT !.downed = value] \in NodeRows
      BY DEF IInv, TypeOK, NodeRows
    <3> QED
      BY <2>2, <3>1, <3>2 DEF UpdateDowned, IInv, TypeOK, NodeRows
  <2>3. CASE UpdateBackoff(n)
    <3>1. PICK value \in BOOLEAN :
             nodes' = [nodes EXCEPT ![n] = [nodes[n] EXCEPT !.backoff = value]]
      BY <2>3 DEF UpdateBackoff
    <3>2. [nodes[n] EXCEPT !.backoff = value] \in NodeRows
      BY DEF IInv, TypeOK, NodeRows
    <3> QED
      BY <2>3, <3>1, <3>2 DEF UpdateBackoff, IInv, TypeOK, NodeRows
  <2>4. CASE RemoveNode(n)
    <3> DEFINE gone == [UnknownNode EXCEPT !.status = "removed"]
    <3>1. gone \in NodeRows /\ gone.status = "removed"
      BY JobTypes DEF NodeRows
    <3> HIDE DEF gone
    <3>2. nodes' = [nodes EXCEPT ![n] = gone]
      BY <2>4 DEF RemoveNode, gone
    <3> QED
      BY <3>1, <3>2
  <2> QED
    BY <2>1, <2>2, <2>3, <2>4 DEF OperatorStep
<1>3. /\ nodes' \in [NodeIds -> NodeRows]
      /\ \A m \in NodeIds : nodes'[m] = IF m = n THEN row ELSE nodes[m]
  BY <1>2 DEF IInv, TypeOK
<1>4. TypeOK'
  BY <1>1, <1>3 DEF IInv, TypeOK
<1>5. ASSUME NEW m \in NodeIds \ {SpannerNode}, Present(m)'
      PROVE  /\ \/ /\ Present(m)
                   /\ nodes'[m].capacity = nodes[m].capacity
                   /\ nodes'[m].current_load <= nodes[m].current_load
                \/ nodes'[m].current_load = 0 /\ nodes'[m].capacity > 0
             /\ \/ /\ Present(m)
                   /\ nodes'[m].capacity = nodes[m].capacity
                   /\ nodes'[m].available + Unit * nodes'[m].current_load
                         <= nodes[m].available + Unit * nodes[m].current_load
                \/ nodes'[m].available + Unit * nodes'[m].current_load
                      <= Unit * nodes'[m].capacity
  <2>1. /\ Unit \in Nat /\ nodes[m].current_load \in Int
        /\ nodes[m].available \in Nat /\ nodes'[m].available \in Nat
        /\ Unit * nodes[m].current_load \in Int
    BY <1>3, RateAssumption DEF IInv, TypeOK, NodeRows
  <2>2. CASE /\ Present(m)
             /\ nodes'[m].capacity = nodes[m].capacity
             /\ nodes'[m].current_load = nodes[m].current_load
             /\ nodes'[m].available = nodes[m].available
    BY <2>1, <2>2
  <2>3. CASE /\ nodes'[m].current_load = 0 /\ nodes'[m].capacity > 0
             /\ nodes'[m].available <= Unit * nodes'[m].capacity
    <3>1. Unit * nodes'[m].current_load = 0
      BY <2>1, <2>3
    <3> QED
      BY <2>1, <2>3, <3>1
  <2> QED
    BY <1>2, <1>3, <1>5, <2>2, <2>3 DEF Present
<1> QED
  BY <1>1, <1>4, <1>5, NodeStep

-----------------------------------------------------------------------------
(* The theorems. *)

LEMMA InitInv == Init => IInv
<1> SUFFICES ASSUME Init PROVE IInv
  OBVIOUS
<1>1. TypeOK
  BY InitTypes
<1>2. SpannerInv
  BY DEF Init, SpannerInv, Rest
<1>3. ASSUME NEW n \in NodeIds, Present(n)
      PROVE  /\ nodes[n].current_load + Cardinality(Pending(n))
                   <= nodes[n].capacity + Cardinality(Workers) - 1
             /\ nodes[n].available + Unit * nodes[n].current_load
                   <= Unit * (nodes[n].capacity + Cardinality(Workers) - 1)
  <2>1. PICK c \in Capacities : nodes[n] = NewNode(c)
    BY <1>3 DEF Init, Present, UnknownNode
  <2>2. /\ nodes[n].current_load = 0 /\ nodes[n].capacity = c /\ c > 0
        /\ nodes[n].available <= Unit * c /\ nodes[n].available \in Nat
        /\ c \in Nat /\ Unit \in Nat \ {0}
    BY <2>1, NewNodeBound, RateAssumption, CapacitiesAssumption DEF NodeRows
  <2>3. /\ Cardinality(Pending(n)) \in Nat
        /\ Cardinality(Pending(n)) <= Cardinality(Workers)
        /\ Cardinality(Workers) \in Nat \ {0}
    BY PendingBound DEF Pending
  <2>4. Unit * c \in Nat /\ Unit * c <= Unit * (c + Cardinality(Workers) - 1)
    BY <2>2, <2>3, SMT
  <2>5. Unit * (c + Cardinality(Workers) - 1) \in Int
    BY <2>2, <2>3, SMT
  <2> QED
    BY <2>2, <2>3, <2>4, <2>5
<1> QED
  BY <1>1, <1>2, <1>3 DEF IInv, LoadInv, FreeSlotsAreFree

LEMMA NextInv == IInv /\ [Next]_vars => IInv'
<1> SUFFICES ASSUME IInv, [Next]_vars PROVE IInv'
  OBVIOUS
<1>1. ASSUME NEW w \in Workers, WorkerStep(w) PROVE IInv'
  BY <1>1, CallStep, SelectNodeStep, ReleaseCapacityStep, ClaimNodeStep,
     InsertRowStep, CrashStep DEF WorkerStep
<1>2. CASE UNCHANGED vars
  <2>1. TypeOK'
    BY <1>2 DEF IInv, TypeOK, vars
  <2> QED
    BY <1>2, <2>1, QuietStep DEF vars
<1> QED
  BY <1>1, <1>2, PurgerStepInv, OperatorStepInv, AddRowStep DEF Next

LEMMA Invariance == Spec => []IInv
<1> QED
  BY InitInv, NextInv, PTL DEF Spec

(* Types: in particular no step ever makes a number of slots negative.     *)
THEOREM CapacityTypes == Spec => []TypeOK
<1>1. IInv => TypeOK
  BY DEF IInv
<1> QED
  BY <1>1, Invariance, PTL

(* However many workers race for a node's last slots, get_best_node lets   *)
(* at most all but one of them overfill it.                                *)
THEOREM OvershootIsBounded == Spec => []OvershootBounded
<1>1. IInv => OvershootBounded
  <2> SUFFICES ASSUME IInv, NEW n \in NodeIds \ {SpannerNode}, Present(n)
               PROVE  nodes[n].current_load
                         < nodes[n].capacity + Cardinality(Workers)
    BY DEF OvershootBounded
  <2>1. nodes[n].current_load \in Int /\ nodes[n].capacity \in Nat
    BY DEF IInv, TypeOK, NodeRows
  <2>2. Cardinality(Pending(n)) \in Nat /\ Cardinality(Workers) \in Nat
    BY PendingBound DEF Pending
  <2>3. nodes[n].current_load + Cardinality(Pending(n))
           <= nodes[n].capacity + Cardinality(Workers) - 1
    BY DEF IInv, LoadInv
  <2> QED
    BY <2>1, <2>2, <2>3
<1> QED
  BY <1>1, Invariance, PTL

(* Neither get_best_node's releases nor delete_user_record's give a node   *)
(* more slots than it has left, for any release rate and either rounding.  *)
THEOREM SlotsAreFree == Spec => []FreeSlotsAreFree
<1>1. IInv => FreeSlotsAreFree
  BY DEF IInv
<1> QED
  BY <1>1, Invariance, PTL

-----------------------------------------------------------------------------
(* Whom get_best_node turns away.                                          *)

(* Allocations run one at a time.                                          *)
OneAtATime == \A v, w \in Workers : v = w

(* No node comes up between the rounds of one call, or there are fewer     *)
(* nodes to come up than rounds.                                           *)
FewSurprises ==
    \/ "downed" \notin Operations
    \/ IsFiniteSet(NodeIds) /\ Cardinality(NodeIds) < MaxTries

(* The nodes that are not out of slots.                                    *)
Served == {n \in NodeIds : ~Present(n) \/ nodes[n].available > 0}

SomeCapacity == \A n \in NodeIds : Present(n) => nodes[n].capacity > 0

(* A call that is in its next round has left no node without slots that    *)
(* had room and was up: one that was down, and came up, for each round.    *)
RoundsInv(w) ==
    job[w].pc \in {"select", "release"} =>
        /\ IsFiniteSet(NodeIds) => job[w].tries <= Cardinality(Served)
        /\ "downed" \notin Operations /\ job[w].tries > 0 =>
              \A n \in NodeIds : ~Releasable(n)

RetryInv == SomeCapacity /\ \A w \in Workers : RoundsInv(w)

(* Where fractions of a slot are kept, a release offers some slots, of any *)
(* node that has room.                                                     *)
LEMMA ReleasedSome ==
    ASSUME ~RoundsSlots, NEW node \in NodeRows, node.capacity > 0,
           node.capacity > node.current_load
    PROVE  ReleasedSlots(node) > 0
<1> DEFINE share == node.capacity * Rate
           room  == (node.capacity - node.current_load) * Unit
<1>1. /\ Unit \in Nat \ {0} /\ Rate \in Nat \ {0}
      /\ node.capacity \in Nat \ {0} /\ node.current_load \in Int
  BY RateAssumption DEF NodeRows
<1>2. share \in Nat /\ share > 0
  BY <1>1, SMT
<1>3. room \in Nat /\ room > 0
  BY <1>1, SMT
<1>4. ReleasedSlots(node) = IF share <= room THEN share ELSE room
  BY DEF ReleasedSlots, Stored
<1> HIDE DEF share, room
<1> QED
  BY <1>2, <1>3, <1>4

LEMMA NewNodeSlots ==
    ASSUME NEW c \in Capacities
    PROVE  NewNode(c).available > 0 /\ NewNode(c).capacity > 0
<1> DEFINE x == c * Rate + Unit - 1
<1>1. /\ Unit \in Nat \ {0} /\ Rate \in Nat \ {0} /\ c \in Nat \ {0}
  BY RateAssumption, CapacitiesAssumption
<1>2. c * Rate \in Nat /\ c * Rate >= 1
  BY <1>1, SMT
<1>3. x \in Nat /\ x >= Unit
  BY <1>1, <1>2, SMT
<1> HIDE DEF x
<1>4. x \div Unit \in Int /\ x \div Unit >= 1
  BY <1>1, <1>3, SMT
<1>5. Unit * (x \div Unit) > 0
  BY <1>1, <1>4, SMT
<1> QED
  BY <1>1, <1>5 DEF NewNode, InitialSlots, x

(* What happens to a node while no row is counted in on it: it does not    *)
(* run out of slots, and nothing but coming up makes it a node with slots  *)
(* to release.                                                             *)
Untaken(n) ==
    /\ n \in Served => n \in Served'
    /\ "downed" \notin Operations => (Releasable(n)' => Releasable(n))
    /\ Present(n)' => nodes'[n].capacity > 0

LEMMA SameNode ==
    ASSUME SomeCapacity, NEW n \in NodeIds, nodes'[n] = nodes[n]
    PROVE  Untaken(n)
BY DEF SomeCapacity, Untaken, Served, Releasable, Present

LEMMA ReleaseUntaken ==
    ASSUME ~RoundsSlots, IInv, SomeCapacity, NEW w \in Workers,
           ReleaseCapacity(w), NEW n \in NodeIds
    PROVE  Untaken(n) /\ ~Releasable(n)' /\ (Releasable(n) => n \in Served')
<1>1. CASE Releasable(n)
  <2>1. nodes'[n] = [nodes[n] EXCEPT !.available = ReleasedSlots(nodes[n])]
    BY <1>1 DEF ReleaseCapacity
  <2>2. nodes[n] \in NodeRows
    BY DEF IInv, TypeOK
  <2>3. /\ nodes[n].capacity > 0
        /\ nodes[n].capacity > nodes[n].current_load
        /\ nodes[n].status = "present"
    BY <1>1 DEF Releasable, SomeCapacity, Present
  <2>4. ReleasedSlots(nodes[n]) > 0 /\ ReleasedSlots(nodes[n]) \in Nat
    BY <2>2, <2>3, ReleasedSome, ReleasedSlotsBound
  <2>5. /\ nodes'[n].available > 0 /\ ~(nodes'[n].available <= 0)
        /\ nodes'[n].capacity > 0
    BY <2>1, <2>2, <2>3, <2>4 DEF NodeRows
  <2> QED
    BY <1>1, <2>5 DEF Untaken, Served, Releasable
<1>2. CASE ~Releasable(n)
  <2>1. nodes'[n] = nodes[n]
    BY <1>2 DEF ReleaseCapacity
  <2> QED
    BY <1>2, <2>1, SameNode DEF Releasable, Present
<1> QED
  BY <1>1, <1>2

LEMMA PurgerUntaken ==
    ASSUME IInv, SomeCapacity, NEW p \in Purgers, PurgerStep(p),
           NEW n \in NodeIds
    PROVE  Untaken(n)
<1>1. CASE nodes'[n] = nodes[n]
  BY <1>1, SameNode
<1>2. CASE nodes'[n] # nodes[n]
  <2>1. FreeSlotOnNode(p)
    BY <1>2 DEF PurgerStep, FetchOldRow, DeleteUserRecord, PurgerCrash
  <2>2. /\ n = purge[p].row.nodeid /\ Present(n)
        /\ nodes' = [nodes EXCEPT ![n].available = @ + Unit,
                                  ![n].current_load = @ - 1]
    BY <1>2, <2>1 DEF FreeSlotOnNode, IInv, TypeOK
  <2>3. /\ nodes[n] \in NodeRows
        /\ nodes'[n] = [nodes[n] EXCEPT !.available = @ + Unit,
                                        !.current_load = @ - 1]
    BY <2>2 DEF IInv, TypeOK
  <2>4. /\ nodes'[n].available = nodes[n].available + Unit
        /\ nodes'[n].capacity = nodes[n].capacity
        /\ nodes[n].available \in Nat /\ Unit \in Nat \ {0}
    BY <2>3, RateAssumption DEF NodeRows
  <2>5. nodes'[n].available > 0 /\ ~(nodes'[n].available <= 0)
    BY <2>4
  <2> QED
    BY <2>2, <2>4, <2>5 DEF Untaken, Served, Releasable, SomeCapacity
<1> QED
  BY <1>1, <1>2

LEMMA OperatorUntaken ==
    ASSUME IInv, SomeCapacity, NEW m \in NodeIds, OperatorStep(m),
           NEW n \in NodeIds
    PROVE  Untaken(n)
<1>1. CASE nodes'[n] = nodes[n]
  BY <1>1, SameNode
<1>2. CASE nodes'[n] # nodes[n]
  <2>1. nodes[n] \in NodeRows /\ nodes \in [NodeIds -> NodeRows]
    BY DEF IInv, TypeOK
  <2>2. CASE AddNode(m)
    <3>1. PICK c \in Capacities : nodes' = [nodes EXCEPT ![m] = NewNode(c)]
      BY <2>2 DEF AddNode
    <3>2. nodes'[n] = NewNode(c)
      BY <1>2, <2>1, <3>1
    <3>3. nodes'[n].available > 0 /\ nodes'[n].capacity > 0
          /\ nodes'[n].available \in Nat
      BY <3>2, NewNodeSlots, NewNodeBound DEF NodeRows
    <3>4. ~(nodes'[n].available <= 0)
      BY <3>3
    <3> QED
      BY <3>3, <3>4 DEF Untaken, Served, Releasable
  <2>3. CASE UpdateDowned(m)
    <3>1. PICK value \in BOOLEAN : nodes' = [nodes EXCEPT ![m].downed = value]
      BY <2>3 DEF UpdateDowned
    <3>2. nodes'[n] = [nodes[n] EXCEPT !.downed = value]
      BY <1>2, <2>1, <3>1
    <3> QED
      BY <2>1, <2>3, <3>2
      DEF UpdateDowned, Untaken, Served, SomeCapacity, Present, NodeRows
  <2>4. CASE UpdateBackoff(m)
    <3>1. PICK value \in BOOLEAN : nodes' = [nodes EXCEPT ![m].backoff = value]
      BY <2>4 DEF UpdateBackoff
    <3>2. nodes'[n] = [nodes[n] EXCEPT !.backoff = value]
      BY <1>2, <2>1, <3>1
    <3> QED
      BY <2>1, <3>2
      DEF Untaken, Served, SomeCapacity, Present, NodeRows, Releasable
  <2>5. CASE RemoveNode(m)
    <3>1. nodes'[n].status = "removed"
      BY <1>2, <2>1, <2>5 DEF RemoveNode, UnknownNode
    <3> QED
      BY <3>1 DEF Untaken, Served, Releasable, Present
  <2> QED
    BY <2>2, <2>3, <2>4, <2>5 DEF OperatorStep
<1> QED
  BY <1>1, <1>2

(* Every node but the one that a row is counted in on.                     *)
LEMMA StepUntaken ==
    ASSUME ~RoundsSlots, IInv, SomeCapacity, [Next]_vars,
           \A w \in Workers : ~ClaimNode(w), NEW n \in NodeIds
    PROVE  Untaken(n)
<1>1. CASE nodes' = nodes
  BY <1>1, SameNode
<1>2. CASE nodes' # nodes
  <2>1. ASSUME NEW w \in Workers, WorkerStep(w)
        PROVE  ReleaseCapacity(w)
    BY <1>2, <2>1 DEF WorkerStep, Call, SelectNode, InsertRow, Crash
  <2>2. ~(UNCHANGED vars) /\ ~AddRowOnSameNode
    BY <1>2 DEF vars, AddRowOnSameNode
  <2> QED
    BY <2>1, <2>2, ReleaseUntaken, PurgerUntaken, OperatorUntaken DEF Next
<1> QED
  BY <1>1, <1>2

(* Served only grows, by one at least for a round that releases something. *)
LEMMA ServedGrows ==
    ASSUME IsFiniteSet(NodeIds), \A n \in NodeIds : Untaken(n)
    PROVE  /\ Cardinality(Served) \in Nat /\ Cardinality(Served') \in Nat
           /\ Cardinality(Served) <= Cardinality(Served')
           /\ \A n \in NodeIds : n \in Served' \ Served =>
                 Cardinality(Served) + 1 <= Cardinality(Served')
<1>1. Served \in SUBSET NodeIds /\ Served' \in SUBSET NodeIds
  BY DEF Served
<1>2. Served \subseteq Served'
  BY <1>1 DEF Untaken
<1>3. IsFiniteSet(Served') /\ IsFiniteSet(Served)
  BY <1>1, FS_Subset
<1>4. /\ Cardinality(Served) <= Cardinality(Served')
      /\ Cardinality(Served) \in Nat /\ Cardinality(Served') \in Nat
  BY <1>2, <1>3, FS_Subset, FS_CardinalityType
<1>5. ASSUME NEW n \in Served' \ Served
      PROVE  Cardinality(Served) + 1 <= Cardinality(Served')
  <2>1. Cardinality(Served) # Cardinality(Served')
    BY <1>2, <1>3, <1>5, FS_Subset
  <2> QED
    BY <1>4, <2>1
<1> QED
  BY <1>4, <1>5

LEMMA RetryInit ==
    ASSUME Init
    PROVE  RetryInv
<1>1. SomeCapacity
  BY NewNodeSlots DEF Init, SomeCapacity, Present, UnknownNode
<1>2. \A w \in Workers : job[w].pc = "idle"
  BY DEF Init, Rest
<1> QED
  BY <1>1, <1>2 DEF RetryInv, RoundsInv

LEMMA ClaimRounds ==
    ASSUME OneAtATime, IInv, RetryInv, NEW w \in Workers, ClaimNode(w)
    PROVE  RetryInv'
<1>1. job'[w].pc = "insert"
  BY DEF ClaimNode, Move, IInv, TypeOK
<1>2. \A v \in Workers : RoundsInv(v)'
  BY <1>1 DEF RoundsInv, OneAtATime
<1>3. ASSUME NEW n \in NodeIds, Present(n)'
      PROVE  nodes'[n].capacity > 0
  <2>1. nodes[n] \in NodeRows /\ nodes \in [NodeIds -> NodeRows]
    BY DEF IInv, TypeOK
  <2>2. /\ nodes'[n].capacity = nodes[n].capacity
        /\ nodes'[n].status = nodes[n].status
    BY <2>1 DEF ClaimNode, NodeRows
  <2> QED
    BY <1>3, <2>2 DEF RetryInv, SomeCapacity, Present
<1> QED
  BY <1>2, <1>3 DEF RetryInv, SomeCapacity

(* What a worker's step makes of its call, but for counting a row in.      *)
LEMMA NextRound ==
    ASSUME OneAtATime, IInv, [Next]_vars, NEW w \in Workers, ~ClaimNode(w),
           job'[w].pc \in {"select", "release"}
    PROVE  \/ /\ job[w].pc \in {"select", "release"}
              /\ job'[w].tries = job[w].tries
           \/ job'[w].tries = 0
           \/ /\ ReleaseCapacity(w)
              /\ job'[w].tries = job[w].tries + 1
              /\ \E n \in NodeIds : Releasable(n)
<1>1. job[w] \in Jobs /\ job \in [Workers -> Jobs]
  BY DEF IInv, TypeOK
<1>2. CASE job' = job
  BY <1>2
<1>3. CASE job' # job
  <2>1. PICK v \in Workers : WorkerStep(v)
    BY <1>3 DEF Next, vars, PurgerStep, FetchOldRow, FreeSlotOnNode,
                DeleteUserRecord, PurgerCrash, OperatorStep, AddNode,
                UpdateDowned, UpdateBackoff, RemoveNode, AddRowOnSameNode
  <2>2. WorkerStep(w)
    BY <2>1 DEF OneAtATime
  <2>3. CASE Call(w)
    <3>1. PICK spanner \in Migrating :
             job' = [job EXCEPT ![w] =
                        [Rest("select") EXCEPT !.spanner = spanner]]
      BY <2>3 DEF Call
    <3> QED
      BY <1>1, <3>1 DEF Rest
  <2>4. CASE SelectNode(w)
    <3>1. job'[w].pc = "claim" \/ job' = [job EXCEPT ![w].pc = "release"]
      BY <1>1, <2>4 DEF SelectNode, Move
    <3> QED
      BY <1>1, <2>4, <3>1 DEF SelectNode, Jobs
  <2>5. CASE ReleaseCapacity(w)
    <3>1. ~End(w, "failed")
      BY <1>1 DEF End, Rest
    <3>2. /\ \E n \in NodeIds : Releasable(n)
          /\ job' = [job EXCEPT ![w].pc = "select",
                                ![w].tries = job[w].tries + 1]
      BY <2>5, <3>1 DEF ReleaseCapacity
    <3> QED
      BY <1>1, <2>5, <3>2 DEF Jobs
  <2>6. CASE InsertRow(w) \/ Crash(w)
    BY <1>1, <2>6 DEF InsertRow, Crash, End, Rest
  <2> QED
    BY <2>2, <2>3, <2>4, <2>5, <2>6 DEF WorkerStep
<1> QED
  BY <1>2, <1>3

LEMMA RetryStep ==
    ASSUME OneAtATime, ~RoundsSlots, IInv, RetryInv, [Next]_vars
    PROVE  RetryInv'
<1>1. CASE \E w \in Workers : ClaimNode(w)
  BY <1>1, ClaimRounds
<1>2. CASE \A w \in Workers : ~ClaimNode(w)
  <2>1. \A n \in NodeIds : Untaken(n)
    BY <1>2, StepUntaken DEF RetryInv
  <2>2. SomeCapacity'
    BY <2>1 DEF Untaken, SomeCapacity
  <2>3. ASSUME NEW w \in Workers, job'[w].pc \in {"select", "release"}
        PROVE  /\ IsFiniteSet(NodeIds) => job'[w].tries <= Cardinality(Served')
               /\ "downed" \notin Operations /\ job'[w].tries > 0 =>
                     \A n \in NodeIds : ~Releasable(n)'
    <3>1. /\ job[w].tries \in Nat /\ job'[w].tries \in Nat
          /\ RoundsInv(w)
      BY NextInv DEF IInv, TypeOK, Jobs, RetryInv, MaxTries
    <3>2. CASE /\ job[w].pc \in {"select", "release"}
               /\ job'[w].tries = job[w].tries
      BY <2>1, <3>1, <3>2, ServedGrows DEF RoundsInv, Untaken
    <3>3. CASE job'[w].tries = 0
      BY <2>1, <3>3, ServedGrows
    <3>4. CASE /\ ReleaseCapacity(w)
               /\ job'[w].tries = job[w].tries + 1
               /\ \E n \in NodeIds : Releasable(n)
      <4>1. PICK n \in NodeIds : Releasable(n)
        BY <3>4
      <4>2. \A m \in NodeIds : ~Releasable(m)'
        BY <3>4, ReleaseUntaken DEF RetryInv
      <4>3. nodes[n].available \in Nat
        BY DEF IInv, TypeOK, NodeRows
      <4>4. n \in Served' \ Served
        BY <3>4, <4>1, <4>3, ReleaseUntaken DEF RetryInv, Served, Releasable
      <4>5. IsFiniteSet(NodeIds) =>
               /\ Cardinality(Served) + 1 <= Cardinality(Served')
               /\ Cardinality(Served) \in Nat /\ Cardinality(Served') \in Nat
        BY <2>1, <4>4, ServedGrows
      <4>6. job[w].pc = "release"
        BY <3>4 DEF ReleaseCapacity
      <4> QED
        BY <3>1, <3>4, <4>2, <4>5, <4>6 DEF RoundsInv
    <3> QED
      BY <1>2, <2>3, <3>2, <3>3, <3>4, NextRound
  <2> QED
    BY <2>2, <2>3 DEF RetryInv, RoundsInv
<1> QED
  BY <1>1, <1>2

(* A call that finds nothing to release, or has no round left.             *)
LEMMA TurnAway ==
    ASSUME OneAtATime, ~RoundsSlots, FewSurprises, IInv, RetryInv, [Next]_vars,
           NEW w \in Workers, job[w].pc = "release", job'[w].pc = "failed",
           NEW n \in NodeIds
    PROVE  ~Releasable(n)
<1>1. job[w] \in Jobs /\ job \in [Workers -> Jobs]
  BY DEF IInv, TypeOK
<1>2. PICK v \in Workers : WorkerStep(v)
  BY DEF Next, vars, PurgerStep, FetchOldRow, FreeSlotOnNode,
         DeleteUserRecord, PurgerCrash, OperatorStep, AddNode,
         UpdateDowned, UpdateBackoff, RemoveNode, AddRowOnSameNode
<1>3. WorkerStep(w)
  BY <1>2 DEF OneAtATime
<1>4. ReleaseCapacity(w)
  BY <1>1, <1>3 DEF WorkerStep, Call, SelectNode, ClaimNode, InsertRow, Crash,
                    End, Rest
<1>5. \/ \A m \in NodeIds : ~Releasable(m)
      \/ job[w].tries + 1 >= MaxTries
  <2>1. CASE job[w].tries + 1 < MaxTries /\ \E m \in NodeIds : Releasable(m)
    <3>1. job' = [job EXCEPT ![w].pc = "select",
                             ![w].tries = job[w].tries + 1]
      BY <1>4, <2>1 DEF ReleaseCapacity
    <3> QED
      BY <1>1, <3>1 DEF Jobs
  <2> QED
    BY <1>1, <2>1 DEF Jobs, MaxTries
<1>6. CASE job[w].tries + 1 >= MaxTries
  <2>1. job[w].tries \in Nat /\ job[w].tries >= 4
    BY <1>1, <1>6 DEF Jobs, MaxTries
  <2>2. RoundsInv(w)
    BY DEF RetryInv
  <2>3. CASE "downed" \notin Operations
    BY <2>1, <2>2, <2>3 DEF RoundsInv
  <2>4. CASE IsFiniteSet(NodeIds) /\ Cardinality(NodeIds) < MaxTries
    <3>1. /\ Served \subseteq NodeIds
          /\ Cardinality(Served) <= Cardinality(NodeIds)
          /\ Cardinality(Served) = Cardinality(NodeIds) => Served = NodeIds
      BY <2>4, FS_Subset DEF Served
    <3>2. Cardinality(Served) \in Nat /\ Cardinality(NodeIds) \in Nat
      BY <2>4, <3>1, FS_Subset, FS_CardinalityType
    <3>3. job[w].tries <= Cardinality(Served)
      BY <2>2, <2>4 DEF RoundsInv
    <3>4. Served = NodeIds
      BY <2>1, <2>4, <3>1, <3>2, <3>3 DEF MaxTries
    <3>5. nodes[n].available \in Nat
      BY DEF IInv, TypeOK, NodeRows
    <3> QED
      BY <3>4, <3>5 DEF Served, Releasable
  <2> QED
    BY <2>3, <2>4 DEF FewSurprises
<1> QED
  BY <1>5, <1>6

(* Where fractions of a slot are kept and allocations run one at a time, a *)
(* user is turned away only when there is nothing to release, for any      *)
(* capacities, rate and loads.  A round of get_best_node leaves no node    *)
(* with room without a slot, except one that comes up in between: so with  *)
(* as many nodes as rounds, all of them down at first, it may miss one.    *)
THEOREM TurnedAwayForWantOfRoom ==
    ASSUME OneAtATime, ~RoundsSlots, FewSurprises
    PROVE  Spec => TurnedAwayOnlyWhenFull
<1> DEFINE TurnedAway(w) == job[w].pc = "release" /\ job'[w].pc = "failed"
           Full == \A w \in Workers : TurnedAway(w) =>
                      \A n \in NodeIds : ~Releasable(n)
<1>1. Init => RetryInv
  BY RetryInit
<1>2. IInv /\ RetryInv /\ [Next]_vars => RetryInv'
  BY RetryStep
<1>3. IInv /\ RetryInv /\ [Next]_vars => [Full]_vars
  BY TurnAway
<1> QED
  BY <1>1, <1>2, <1>3, Invariance, PTL DEF Spec, TurnedAwayOnlyWhenFull

=============================================================================
