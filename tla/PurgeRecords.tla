---------------------------- MODULE PurgeRecords ----------------------------
(***************************************************************************)
(* scripts/purge_old_records.py.  Every host runs a purger, which goes     *)
(* through the services one by one.  It fetches a batch of rows that were  *)
(* replaced longer ago than the grace period, the last replaced first; of  *)
(* each it has the storage node delete the data and then deletes the       *)
(* record; and so on until a batch is not full.  An exception ends the run *)
(* for this service and for those to come.  Meanwhile rows are replaced,   *)
(* nodes go down, come up and are removed, and other purgers work on the   *)
(* same rows.                                                              *)
(***************************************************************************)
EXTENDS UserRecords, Sequences

CONSTANTS
    Purgers,      \* processes that run the script
    Patterns,     \* the services that have an endpoint pattern, in a sequence
    ServiceOf,    \* node -> its service, and that of the rows on it
    Grace,        \* --grace-period
    PerLoop,      \* --max-per-loop
    MaxOffset,    \* --max-offset
    Settings,     \* the other options that a purger may be run with
    PurgeClock,   \* bound on the clock
    PurgeUids,    \* the uids of the rows there are
    Homes         \* where they may be: functions from uids to nodes

(* --force, --dryrun and --max-records, which is 0 when there is no limit. *)
SettingSet == [force : BOOLEAN, dryrun : BOOLEAN, max_records : Nat]

ASSUME PurgeAssumption ==
    /\ Grace \in Nat
    /\ PerLoop \in Nat \ {0}
    /\ MaxOffset \in Nat
    /\ Patterns \in Seq(STRING)
    /\ Patterns # <<>>
    /\ Settings \subseteq SettingSet
    /\ Settings # {}
    /\ PurgeClock \in Nat
    /\ PurgeUids \subseteq Nat
    /\ Homes \subseteq [PurgeUids -> NodeIds]

VARIABLES
    users,     \* the rows of the users table
    nodes,     \* ids in the nodes table
    downed,    \* nodes marked as downed
    clock,     \* time
    purge,     \* purger -> what it is doing
    cleared,   \* history: uids whose data a storage node has deleted
    dropped    \* history: rows whose record was deleted

purgeVars == <<purge, cleared, dropped>>
vars == <<users, nodes, downed, clock, purgeVars>>

(* A row with what the join with the nodes table said of its node. *)
Reads == [row : Rows, node : {"up", "down", "none"}]

(* service: the place of the one at work; batch: the rows still to do;     *)
(* previous: all those of the last fetch.                                  *)
Purges == [pc : {"idle", "fetch", "row", "record"}, settings : Settings,
           service : 0 .. Len(Patterns), counter : Nat,
           batch : SUBSET Reads, previous : SUBSET Reads]

TypeOK ==
    /\ users \subseteq Rows
    /\ nodes \subseteq NodeIds
    /\ downed \subseteq NodeIds
    /\ clock \in Nat
    /\ purge \in [Purgers -> Purges]
    /\ cleared \subseteq Nat
    /\ dropped \subseteq Rows

-----------------------------------------------------------------------------
(* _GET_OLD_USER_RECORDS_FOR_SERVICE *)

(* Mutant of the next definition: the grace period starts with the row.    *)
CreatedLongAgo(row) == ~Active(row) /\ row.created_at < clock - Grace

Old(row) == ~Active(row) /\ row.replaced_at < clock - Grace

(* Mutant of the next definition: the node, not its state.                 *)
RawRead(row) == [row |-> row, node |-> row.nodeid]

ReadOf(row) ==
    [row |-> row,
     node |-> IF row.nodeid \notin nodes THEN "none"
              ELSE IF row.nodeid \in downed THEN "down" ELSE "up"]

(* The ORDER BY. *)
ListedBefore(r, s) ==
    \/ r.replaced_at > s.replaced_at
    \/ r.replaced_at = s.replaced_at /\ r.uid > s.uid

GetOldUserRecords(service, offset) ==
    LET old == {r \in users : Old(r) /\ ServiceOf[r.nodeid] = service}
        place(r) == Cardinality({s \in old : ListedBefore(s, r)})
    IN {ReadOf(r) : r \in {s \in old : /\ offset <= place(s)
                                       /\ place(s) < offset + PerLoop}}

-----------------------------------------------------------------------------
(* purge_old_records *)

(* A process keeps the options that it was started with. *)
Idle(settings) ==
    [pc |-> "idle", settings |-> settings,
     service |-> 0, counter |-> 0, batch |-> {}, previous |-> {}]

At(p, pc) == purge[p].pc = pc

(* What it would fetch now. *)
Fetchable(p, offset) == GetOldUserRecords(Patterns[purge[p].service], offset)

(* The row a purger works on: the first that is left, in a set. *)
Current(p) ==
    {b \in purge[p].batch :
        \A c \in purge[p].batch \ {b} : ListedBefore(b.row, c.row)}

(* It has been read as on such a node. *)
OnRow(p, node) ==
    /\ At(p, "row")
    /\ \E b \in Current(p) : b.node = node

Rest(p) == purge' = [purge EXCEPT ![p] = Idle(purge[p].settings)]
Move(p, pc) == purge' = [purge EXCEPT ![p].pc = pc]

(* Mutant of the next definition: return in place of break. *)
EndRun(p) == Rest(p)

(* The loop over the services goes on, or is at its end. *)
NextService(p) ==
    IF purge[p].service = Len(Patterns)
    THEN Rest(p)
    ELSE purge' = [purge EXCEPT ![p].pc = "fetch", ![p].service = @ + 1,
                                ![p].batch = {}, ![p].previous = {}]

(* Rows whose node is gone, or down and not forced, do not count for       *)
(* --max-records.                                                          *)
Counted(p) ==
    \E b \in Current(p) :
        b.node = "up" \/ (b.node = "down" /\ purge[p].settings.force)

(* The loop over the rows goes on, or the run is at its limit. *)
NextRow(p) ==
    LET counter == purge[p].counter + (IF Counted(p) THEN 1 ELSE 0)
        limit == purge[p].settings.max_records
    IN
    IF limit # 0 /\ counter >= limit
    THEN Rest(p)
    ELSE purge' = [purge EXCEPT ![p].pc = "row", ![p].counter = counter,
                                ![p].batch = @ \ Current(p)]

StartPurge(p) ==
    /\ At(p, "idle")
    /\ purge' = [purge EXCEPT ![p].pc = "fetch", ![p].service = 1]
    /\ UNCHANGED <<users, nodes, downed, clock, cleared, dropped>>

(* The counter starts anew with each batch. *)
FetchRows(p) ==
    /\ At(p, "fetch")
    /\ \E offset \in 0 .. MaxOffset :
          LET rows == Fetchable(p, offset) IN
          \/ /\ rows \notin {{}, purge[p].previous}
             /\ purge' = [purge EXCEPT ![p] =
                             [@ EXCEPT !.pc = "row", !.counter = 0,
                                       !.batch = rows, !.previous = rows]]
          \/ /\ rows = {}
             /\ NextService(p)
    /\ UNCHANGED <<users, nodes, downed, clock, cleared, dropped>>

(* The same rows again: "Loop detected". *)
DetectLoop(p) ==
    /\ At(p, "fetch")
    /\ purge[p].previous # {}
    /\ \E offset \in 0 .. MaxOffset : Fetchable(p, offset) = purge[p].previous
    /\ Rest(p)
    /\ UNCHANGED <<users, nodes, downed, clock, cleared, dropped>>

(* After a full batch another one is fetched. *)
EndBatch(p) ==
    /\ At(p, "row")
    /\ purge[p].batch = {}
    /\ \/ Cardinality(purge[p].previous) < PerLoop /\ NextService(p)
       \/ Cardinality(purge[p].previous) >= PerLoop /\ Move(p, "fetch")
    /\ UNCHANGED <<users, nodes, downed, clock, cleared, dropped>>

(* A dry run counts the rows that it would delete. *)
PassRow(p) ==
    /\ At(p, "row")
    /\ Current(p) # {}
    /\ purge[p].settings.dryrun
    /\ NextRow(p)
    /\ UNCHANGED <<users, nodes, downed, clock, cleared, dropped>>

(* Its node is no more. *)
SkipData(p) ==
    /\ OnRow(p, "none")
    /\ ~purge[p].settings.dryrun
    /\ Move(p, "record")
    /\ UNCHANGED <<users, nodes, downed, clock, cleared, dropped>>

(* delete_service_data, when the node deletes the data. *)
DeleteServiceData(p) ==
    /\ OnRow(p, "up")
    /\ ~purge[p].settings.dryrun
    /\ cleared' = cleared \cup {b.row.uid : b \in Current(p)}
    /\ Move(p, "record")
    /\ UNCHANGED <<users, nodes, downed, clock, dropped>>

(* Mutant of the next definition: downed nodes are always forced.          *)
DropDowned(p) ==
    /\ OnRow(p, "down")
    /\ ~purge[p].settings.dryrun
    /\ Move(p, "record")
    /\ UNCHANGED <<users, nodes, downed, clock, cleared, dropped>>

(* Rows on downed nodes wait, unless forced. *)
SkipDowned(p) ==
    /\ OnRow(p, "down")
    /\ ~purge[p].settings.dryrun
    /\ IF purge[p].settings.force THEN Move(p, "record") ELSE NextRow(p)
    /\ UNCHANGED <<users, nodes, downed, clock, cleared, dropped>>

(* Mutant of the next definition: the data goes and the record stays.      *)
KeepRecord(p) ==
    /\ At(p, "record")
    /\ NextRow(p)
    /\ UNCHANGED <<users, nodes, downed, clock, cleared, dropped>>

(* delete_user_record; what it does to the node is in NodeCapacity. *)
DeleteUserRecord(p) ==
    /\ At(p, "record")
    /\ LET gone == {r \in users : \E b \in Current(p) : r.uid = b.row.uid} IN
       /\ users' = users \ gone
       /\ dropped' = dropped \cup gone
    /\ NextRow(p)
    /\ UNCHANGED <<nodes, downed, clock, cleared>>

(* An exception (the node answers with an error, has no secret, or cannot  *)
(* be reached; the database fails), or the end of the process, which shows *)
(* only at the next of these statements.                                   *)
StopPurge(p) ==
    /\ At(p, "fetch") \/ At(p, "record") \/ OnRow(p, "up")
    /\ Rest(p)
    /\ UNCHANGED <<users, nodes, downed, clock, cleared, dropped>>

PurgerStep(p) ==
    \/ StartPurge(p)
    \/ FetchRows(p)
    \/ DetectLoop(p)
    \/ EndBatch(p)
    \/ PassRow(p)
    \/ SkipData(p)
    \/ DeleteServiceData(p)
    \/ SkipDowned(p)
    \/ DeleteUserRecord(p)
    \/ StopPurge(p)

(* A purger is run again and again, and what may fail - the database, the  *)
(* request to the node - does not fail for ever.                           *)
Fetch(p, i) == purge[p].service = i /\ (FetchRows(p) \/ DetectLoop(p))

Persistence(p) ==
    /\ WF_vars(StartPurge(p) \/ EndBatch(p) \/ PassRow(p)
                  \/ SkipData(p) \/ SkipDowned(p))
    /\ \A i \in 1 .. Len(Patterns) : SF_vars(Fetch(p, i))
    /\ SF_vars(DeleteServiceData(p))
    /\ SF_vars(DeleteUserRecord(p))

-----------------------------------------------------------------------------
(* The script by itself: rows of different accounts, wherever they are.    *)

Init ==
    /\ \E home \in Homes, state \in ClientStates :
          users = {[uid |-> u, nodeid |-> home[u], client_state |-> state,
                    generation |-> 0, keys_changed_at |-> 0,
                    created_at |-> 0, replaced_at |-> NULL] : u \in PurgeUids}
    /\ nodes = NodeIds
    /\ downed = {}
    /\ clock = 0
    /\ \E settings \in [Purgers -> Settings] :
          purge = [p \in Purgers |-> Idle(settings[p])]
    /\ cleared = {}
    /\ dropped = {}

Tick ==
    /\ clock < PurgeClock
    /\ clock' = clock + 1
    /\ UNCHANGED <<users, nodes, downed, purgeVars>>

(* A request replaces a row. *)
ReplaceRow ==
    /\ \E r \in users : /\ Active(r)
                        /\ users' = ReplaceUserRecord(users, r.uid, clock)
    /\ UNCHANGED <<nodes, downed, clock, purgeVars>>

UnassignNode(n) ==
    /\ n \in nodes
    /\ users' = UnassignRows(users, n, clock)
    /\ UNCHANGED <<nodes, downed, clock, purgeVars>>

(* remove_node, its unassign_node included. *)
RemoveNode(n) ==
    /\ n \in nodes
    /\ nodes' = nodes \ {n}
    /\ users' = UnassignRows(users, n, clock)
    /\ UNCHANGED <<downed, clock, purgeVars>>

UpdateDowned(n) ==
    /\ n \in nodes
    /\ \/ downed' = downed \cup {n}
       \/ downed' = downed \ {n}
    /\ UNCHANGED <<users, nodes, clock, purgeVars>>

Next ==
    \/ \E p \in Purgers : PurgerStep(p)
    \/ Tick
    \/ ReplaceRow
    \/ \E n \in NodeIds : UnassignNode(n) \/ RemoveNode(n) \/ UpdateDowned(n)

Spec == Init /\ [][Next]_vars

FairSpec == Spec /\ \A p \in Purgers : Persistence(p)

-----------------------------------------------------------------------------
(* Properties. *)

(* The record of a row goes only after the row's data, unless the node has *)
(* been removed, or the row was forced: a node that is down keeps its rows *)
(* until it comes back up, whatever other purgers do and however long ago  *)
(* the batch was read (a comment in purge_old_records).                    *)
RecordOutlivesData ==
    (\A o \in Settings : ~o.force) =>
        \A r \in dropped : r.uid \in cleared \/ r.nodeid \notin nodes

(* A purger is about to see the same batch again only when it has skipped  *)
(* every row of it because the node was down, unless this is a dry run: it *)
(* never gives up with the exception "Loop detected", which ends its work  *)
(* on the services to come as well, before it has done what it could.      *)
LoopMeansDowned ==
    \A p \in Purgers :
        /\ At(p, "fetch")
        /\ purge[p].previous # {}
        /\ \E offset \in 0 .. MaxOffset :
              Fetchable(p, offset) = purge[p].previous
        => \/ purge[p].settings.dryrun
           \/ /\ ~purge[p].settings.force
              /\ \A b \in purge[p].previous : b.node = "down"

Waiting(row) == Old(row) /\ row.nodeid \in nodes \cap downed

Purgeable(u) == \E r \in users : r.uid = u /\ Old(r) /\ ~Waiting(r)

(* Rows on downed nodes fill a batch of service i. *)
Full(i) ==
    PerLoop <= Cardinality({r \in users : /\ Waiting(r)
                                          /\ ServiceOf[r.nodeid] = Patterns[i]})

(* One of these stands before row u. *)
Blocked(u) ==
    \E r \in users, i, j \in 1 .. Len(Patterns) :
        /\ r.uid = u
        /\ ServiceOf[r.nodeid] = Patterns[j]
        /\ i <= j
        /\ Full(i)

(* Nothing that can be purged stays for ever ("a gradual pruning of        *)
(* expired items from each database"): where a purger is run not dry, a    *)
(* row past its grace period and not on a downed node is purged, or its    *)
(* node goes down, or it is replaced anew, or rows on downed nodes fill    *)
(* the batch that it would be in, or one of an earlier service.            *)
OldRowsPurged ==
    \A p \in Purgers, u \in PurgeUids :
        ~purge[p].settings.dryrun /\ Purgeable(u) /\ ~Blocked(u)
            ~> ~Purgeable(u) \/ Blocked(u)

=============================================================================
