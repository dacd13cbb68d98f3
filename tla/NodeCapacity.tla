---------------------------- MODULE NodeCapacity ----------------------------
(***************************************************************************)
(* The counters of the nodes table of one service: get_best_node, which    *)
(* picks a node for a new row, releases more capacity when no slot is      *)
(* free and counts the row in; delete_user_record, which counts a row out; *)
(* and the operators' add_node, update_node and remove_node.  Web workers  *)
(* and purgers run concurrently, one SQL statement at a time; the users    *)
(* table is reduced to (uid, node id) pairs.                               *)
(*                                                                         *)
(* The column "available" may hold a fraction of a slot (SQLite keeps what *)
(* capacity * capacity_release_rate yields; MySQL rounds it to an integer  *)
(* column), so it is counted in units of 1/Unit slot.                      *)
(***************************************************************************)
EXTENDS Integers, FiniteSets

CONSTANTS
    NodeIds,         \* primary keys of the nodes table
    SpannerNode,     \* spanner_node_id
    Migrating,       \* outcomes of should_allocate_to_spanner
    Capacities,      \* capacities a node may be given
    Rate, Unit,      \* capacity_release_rate is Rate / Unit
    RoundsSlots,     \* whether the column "available" is rounded (MySQL)
    Workers,         \* web workers
    Purgers,         \* purge_old_records processes
    Operations,      \* operations of the service's operators that happen
    MaxUid,          \* bound on the rows ever inserted
    MaxLoad          \* bound on the load of the Spanner node, which has no
                     \* limit, and on what is counted out twice

ASSUME NodeIdsAssumption == NodeIds # {}
ASSUME WorkersAssumption == IsFiniteSet(Workers) /\ Workers # {}
ASSUME CapacitiesAssumption == Capacities \subseteq Nat \ {0}
ASSUME RateAssumption == Unit \in Nat \ {0} /\ Rate \in 1 .. Unit
ASSUME SwitchesAssumption ==
    RoundsSlots \in BOOLEAN /\ Migrating \subseteq BOOLEAN
ASSUME BoundsAssumption == MaxUid \in Nat /\ MaxLoad \in Nat

MaxTries == 5

VARIABLES
    nodes,     \* node id -> its row in the nodes table
    rows,      \* (uid, node id) of the rows of the users table
    nextUid,   \* the autoincrement counter of the users table
    job,       \* worker -> its call of get_best_node
    purge      \* purger -> the row it is deleting

vars == <<nodes, rows, nextUid, job, purge>>

(* A row of the nodes table, its presence there included. *)
NodeRows == [status : {"unknown", "present", "removed"},
             capacity : Nat, available : Nat, current_load : Int,
             downed : BOOLEAN, backoff : BOOLEAN]

UserRows == [uid : Nat, nodeid : NodeIds]

Jobs == [pc : {"idle", "failed", "select", "release", "claim", "insert"},
         tries : 0 .. MaxTries, spanner : BOOLEAN, node : NodeIds]

Purges == [pc : {"idle", "free", "delete"}, row : UserRows]

TypeOK ==
    /\ nodes \in [NodeIds -> NodeRows]
    /\ rows \subseteq UserRows
    /\ nextUid \in Nat
    /\ job \in [Workers -> Jobs]
    /\ purge \in [Purgers -> Purges]

-----------------------------------------------------------------------------
Present(n) == nodes[n].status = "present"

(* add_node: the slots, rounded up, that are free on a new node. *)
InitialSlots(capacity) ==
    Unit * ((capacity * Rate + Unit - 1) \div Unit)

(* Mutant of the next definition: the column loses the fraction.           *)
Truncated(units) == Unit * (units \div Unit)

(* What the column "available" stores of a number of units. *)
Stored(units) ==
    IF RoundsSlots THEN Unit * ((2 * units + Unit) \div (2 * Unit)) ELSE units

(* The slots that get_best_node releases on a node that has room left. *)
ReleasedSlots(node) ==
    LET share == node.capacity * Rate
        room  == (node.capacity - node.current_load) * Unit
    IN Stored(IF share <= room THEN share ELSE room)

(* Mutants of the next definition: no slot is taken; one is, though none   *)
(* is left.                                                                *)
NoSlotTaken(units) == units
OneSlotLess(units) == units - Unit

(* max(available - 1, 0) *)
TakeSlot(units) == IF units >= Unit THEN units - Unit ELSE 0

(* The nodes in service with a slot.  (As a mutant of the next definition: *)
(* their load is not looked at.)                                           *)
Offering(n) ==
    /\ Present(n)
    /\ nodes[n].available > 0
    /\ ~nodes[n].downed
    /\ ~nodes[n].backoff

(* The nodes that get_best_node's query selects. *)
Selectable(n) ==
    /\ Offering(n)
    /\ nodes[n].capacity > nodes[n].current_load

(* SQLite's ORDER BY: the load relative to the capacity.  MySQL orders by  *)
(* a quotient of logarithms; any selectable node may come first there.     *)
LessLoaded(n, m) ==
    \/ RoundsSlots
    \/ nodes[n].current_load * nodes[m].capacity
          <= nodes[m].current_load * nodes[n].capacity

BestNodes(spanner) ==
    IF spanner
    THEN {n \in {SpannerNode} \cap NodeIds : Present(n)}
    ELSE {n \in NodeIds : /\ Selectable(n)
                          /\ \A m \in NodeIds :
                                Selectable(m) => LessLoaded(n, m)}

(* The nodes whose capacity get_best_node's other statement releases. *)
Releasable(n) ==
    /\ Present(n)
    /\ nodes[n].available <= 0
    /\ nodes[n].capacity > nodes[n].current_load
    /\ ~nodes[n].downed

-----------------------------------------------------------------------------
NewNode(capacity) ==
    [status |-> "present", capacity |-> capacity,
     available |-> InitialSlots(capacity), current_load |-> 0,
     downed |-> FALSE, backoff |-> FALSE]

UnknownNode ==
    [status |-> "unknown", capacity |-> 0, available |-> 0,
     current_load |-> 0, downed |-> FALSE, backoff |-> FALSE]

Rest(pc) == [pc |-> pc, tries |-> 0, spanner |-> FALSE,
             node |-> CHOOSE n \in NodeIds : TRUE]

NoPurge == [pc |-> "idle",
            row |-> [uid |-> 0, nodeid |-> CHOOSE n \in NodeIds : TRUE]]

Init ==
    /\ nodes \in [NodeIds -> {UnknownNode} \cup
                             {NewNode(c) : c \in Capacities}]
    /\ rows = {}
    /\ nextUid = 1
    /\ job = [w \in Workers |-> Rest("idle")]
    /\ purge = [p \in Purgers |-> NoPurge]

Call(w) ==
    /\ job[w].pc \in {"idle", "failed"}
    /\ \E spanner \in Migrating :
          job' = [job EXCEPT ![w] = [Rest("select") EXCEPT !.spanner = spanner]]
    /\ UNCHANGED <<nodes, rows, nextUid, purge>>

Move(w, pc) == job' = [job EXCEPT ![w].pc = pc]

End(w, pc) == job' = [job EXCEPT ![w] = Rest(pc)]

(* The query of get_best_node. *)
SelectNode(w) ==
    /\ job[w].pc = "select"
    /\ \/ \E n \in BestNodes(job[w].spanner) :
             job' = [job EXCEPT ![w].pc = "claim", ![w].node = n]
       \/ BestNodes(job[w].spanner) = {} /\ Move(w, "release")
    /\ UNCHANGED <<nodes, rows, nextUid, purge>>

(* The release of more capacity; "unable to get a node" when there is none *)
(* to release, or after the last retry.                                    *)
ReleaseCapacity(w) ==
    /\ job[w].pc = "release"
    /\ nodes' = [n \in NodeIds |->
                    IF Releasable(n)
                    THEN [nodes[n] EXCEPT !.available = ReleasedSlots(nodes[n])]
                    ELSE nodes[n]]
    /\ LET tries == job[w].tries + 1 IN
       IF tries < MaxTries /\ \E n \in NodeIds : Releasable(n)
       THEN job' = [job EXCEPT ![w].pc = "select", ![w].tries = tries]
       ELSE End(w, "failed")
    /\ UNCHANGED <<rows, nextUid, purge>>

(* The update that counts the new row in.  It does not look again whether  *)
(* the node still has room, or is still there.                             *)
ClaimNode(w) ==
    /\ job[w].pc = "claim"
    /\ job[w].spanner => nodes[job[w].node].current_load < MaxLoad
    /\ LET n == job[w].node IN
       IF Present(n)
       THEN nodes' = [nodes EXCEPT
               ![n].current_load = @ + 1,
               ![n].available = IF job[w].spanner THEN @ ELSE TakeSlot(@)]
       ELSE UNCHANGED nodes
    /\ Move(w, "insert")
    /\ UNCHANGED <<rows, nextUid, purge>>

(* allocate_user inserts the row. *)
InsertRow(w) ==
    /\ job[w].pc = "insert"
    /\ nextUid <= MaxUid
    /\ rows' = rows \cup {[uid |-> nextUid, nodeid |-> job[w].node]}
    /\ nextUid' = nextUid + 1
    /\ End(w, "idle")
    /\ UNCHANGED <<nodes, purge>>

(* A worker dies, or the statement it is about to run fails. *)
Crash(w) ==
    /\ job[w].pc \notin {"idle", "failed"}
    /\ End(w, "idle")
    /\ UNCHANGED <<nodes, rows, nextUid, purge>>

(* update_user gives a user a further row on the node it has, which        *)
(* get_best_node never counted.                                            *)
AddRowOnSameNode ==
    /\ "update" \in Operations
    /\ nextUid <= MaxUid
    /\ \E r \in rows : /\ Present(r.nodeid)
                       /\ rows' = rows \cup
                             {[uid |-> nextUid, nodeid |-> r.nodeid]}
    /\ nextUid' = nextUid + 1
    /\ UNCHANGED <<nodes, job, purge>>

-----------------------------------------------------------------------------
(* A purger takes up a row; any row is replaced and purgeable eventually.  *)
FetchOldRow(p) ==
    /\ purge[p].pc = "idle"
    /\ \E r \in rows : purge' = [purge EXCEPT ![p] = [pc |-> "free", row |-> r]]
    /\ UNCHANGED <<nodes, rows, nextUid, job>>

(* delete_user_record, first statement: the row, if it is still there,     *)
(* gives its slot back to its node, if that is still there.                *)
FreeSlotOnNode(p) ==
    /\ purge[p].pc = "free"
    /\ nodes[purge[p].row.nodeid].current_load > -MaxLoad
    /\ nodes[purge[p].row.nodeid].available <= Unit * MaxLoad
    /\ LET r == purge[p].row IN
       IF r \in rows /\ Present(r.nodeid)
       THEN nodes' = [nodes EXCEPT ![r.nodeid].available = @ + Unit,
                                   ![r.nodeid].current_load = @ - 1]
       ELSE UNCHANGED nodes
    /\ purge' = [purge EXCEPT ![p].pc = "delete"]
    /\ UNCHANGED <<rows, nextUid, job>>

(* delete_user_record, second statement. *)
DeleteUserRecord(p) ==
    /\ purge[p].pc = "delete"
    /\ rows' = rows \ {purge[p].row}
    /\ purge' = [purge EXCEPT ![p] = NoPurge]
    /\ UNCHANGED <<nodes, nextUid, job>>

(* A purger dies between the two: the row will be counted out again. *)
PurgerCrash(p) ==
    /\ purge[p].pc # "idle"
    /\ purge' = [purge EXCEPT ![p] = NoPurge]
    /\ UNCHANGED <<nodes, rows, nextUid, job>>

-----------------------------------------------------------------------------
(* The operators' scripts. *)

AddNode(n) ==
    /\ "add" \in Operations
    /\ nodes[n].status = "unknown"
    /\ \E c \in Capacities : nodes' = [nodes EXCEPT ![n] = NewNode(c)]
    /\ UNCHANGED <<rows, nextUid, job, purge>>

UpdateDowned(n) ==
    /\ "downed" \in Operations
    /\ Present(n)
    /\ \E value \in BOOLEAN : nodes' = [nodes EXCEPT ![n].downed = value]
    /\ UNCHANGED <<rows, nextUid, job, purge>>

UpdateBackoff(n) ==
    /\ "backoff" \in Operations
    /\ Present(n)
    /\ \E value \in BOOLEAN : nodes' = [nodes EXCEPT ![n].backoff = value]
    /\ UNCHANGED <<rows, nextUid, job, purge>>

RemoveNode(n) ==
    /\ "remove" \in Operations
    /\ Present(n)
    /\ nodes' = [nodes EXCEPT ![n] = [UnknownNode EXCEPT !.status = "removed"]]
    /\ UNCHANGED <<rows, nextUid, job, purge>>

-----------------------------------------------------------------------------
WorkerStep(w) ==
    \/ Call(w)
    \/ SelectNode(w)
    \/ ReleaseCapacity(w)
    \/ ClaimNode(w)
    \/ InsertRow(w)
    \/ Crash(w)

PurgerStep(p) ==
    \/ FetchOldRow(p)
    \/ FreeSlotOnNode(p)
    \/ DeleteUserRecord(p)
    \/ PurgerCrash(p)

OperatorStep(n) ==
    \/ AddNode(n)
    \/ UpdateDowned(n)
    \/ UpdateBackoff(n)
    \/ RemoveNode(n)

Next ==
    \/ \E w \in Workers : WorkerStep(w)
    \/ \E p \in Purgers : PurgerStep(p)
    \/ \E n \in NodeIds : OperatorStep(n)
    \/ AddRowOnSameNode

Spec == Init /\ [][Next]_vars

-----------------------------------------------------------------------------
(* Properties. *)

(* A node is overfull by at most the number of assignments that raced for  *)
(* its last slot ("a little racy with concurrent assignments, but no big   *)
(* deal", a comment in get_best_node).  A Spanner assignment looks at no   *)
(* limit and takes no slot, so the Spanner node is not bounded.            *)
OvershootBounded ==
    \A n \in NodeIds \ {SpannerNode} : Present(n) =>
        nodes[n].current_load < nodes[n].capacity + Cardinality(Workers)

(* However assignments, releases and purges interleave, a node offers no   *)
(* more slots than it has left (schemas.py: "the number of free slots      *)
(* currently available on this node"), except for the slots of a race that *)
(* overfilled it, which come back when its rows are purged.                *)
FreeSlotsAreFree ==
    \A n \in NodeIds \ {SpannerNode} : Present(n) =>
        nodes[n].available + Unit * nodes[n].current_load
           <= Unit * (nodes[n].capacity + Cardinality(Workers) - 1)

(* Where no two allocations run at once, a user is turned away only when   *)
(* no node that is up has room left and no slot on offer: get_best_node    *)
(* would "try to release additional capacity from any nodes that are not   *)
(* fully occupied", its comment says, and its retries suffice for that.    *)
(* That is so where the column keeps fractions of a slot: where it is      *)
(* rounded, a tenth of a small capacity is no slot at all.                 *)
TurnedAwayOnlyWhenFull ==
    [][\A w \in Workers :
          job[w].pc = "release" /\ job'[w].pc = "failed" =>
             \A n \in NodeIds : ~Releasable(n)]_vars

(* The load of a node is a number of users (schemas.py: "the number of     *)
(* users current assigned to this node").                                  *)
LoadCountsUsers ==
    \A n \in NodeIds : Present(n) => nodes[n].current_load >= 0

=============================================================================
