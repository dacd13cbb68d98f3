---------------------------- MODULE UserRecords ----------------------------
(***************************************************************************)
(* The rows that the users table of the SQL backend holds for ONE account  *)
(* (one email) of ONE service, and what each SQL statement of              *)
(* assignment/sqlnode/sql.py does to them.  Every statement commits on its *)
(* own, so a statement is a function from the old set of rows to the new   *)
(* one and the modules that use it take one step per statement.            *)
(*                                                                         *)
(* Timestamps are small numbers: only their order matters.  The columns    *)
(* replaced_at and the optional parameters of a statement may be NULL.     *)
(* A NULL keys_changed_at column is 0 here: every statement and every      *)
(* comparison of the code treats the two alike.                            *)
(***************************************************************************)
EXTENDS Integers, FiniteSets

CONSTANTS
    ClientStates,     \* the non-empty X-Client-State values
    NoState,          \* the empty client state, ''
    NodeIds,          \* primary keys of the nodes table
    MAX_GENERATION,   \* the generation of a retired user
    RowLimit          \* the LIMIT of _GET_USER_RECORDS

ASSUME MaxGenerationAssumption == MAX_GENERATION \in Nat
ASSUME RowLimitAssumption == RowLimit \in Nat \ {0}
ASSUME NoStateAssumption == NoState \notin ClientStates

NULL == -1

States == ClientStates \cup {NoState}

Generations == 0 .. MAX_GENERATION

(* A row of the users table. *)
Rows == [uid : Nat, nodeid : NodeIds, client_state : States,
         generation : Generations, keys_changed_at : Generations,
         created_at : Nat, replaced_at : Nat \cup {NULL}]

Active(row) == row.replaced_at = NULL

(* SQL's COALESCE of two values. *)
Coalesce(value, default) == IF value = NULL THEN default ELSE value

-----------------------------------------------------------------------------
(* Statements that change rows. *)

(* _CREATE_USER_RECORD: uid is the autoincremented key. *)
CreateUserRecord(rows, uid, nodeid, user, timestamp) ==
    rows \cup {[uid |-> uid, nodeid |-> nodeid,
                client_state |-> user.client_state,
                generation |-> user.generation,
                keys_changed_at |-> user.keys_changed_at,
                created_at |-> timestamp, replaced_at |-> NULL]}

(* Mutant of the next definition: an update that is not optimistic.        *)
UpdatedBlindly(row, generation, keys_changed_at) == Active(row)

(* The rows that _UPDATE_USER_RECORD_IN_PLACE reaches. *)
UpdatedInPlace(row, generation, keys_changed_at) ==
    /\ Active(row)
    /\ row.generation <= Coalesce(generation, row.generation)
    /\ row.keys_changed_at <= Coalesce(keys_changed_at, row.keys_changed_at)

(* _UPDATE_USER_RECORD_IN_PLACE *)
UpdateUserRecordInPlace(rows, generation, keys_changed_at) ==
    {IF UpdatedInPlace(row, generation, keys_changed_at)
     THEN [row EXCEPT !.generation = Coalesce(generation, @),
                      !.keys_changed_at = Coalesce(keys_changed_at, @)]
     ELSE row : row \in rows}

(* Mutant of the next definition: <= for <.                                *)
ReplaceUpTo(rows, timestamp) ==
    {IF Active(row) /\ row.created_at <= timestamp
     THEN [row EXCEPT !.replaced_at = timestamp]
     ELSE row : row \in rows}

(* _REPLACE_USER_RECORDS *)
ReplaceUserRecords(rows, timestamp) ==
    {IF Active(row) /\ row.created_at < timestamp
     THEN [row EXCEPT !.replaced_at = timestamp]
     ELSE row : row \in rows}

(* _REPLACE_USER_RECORD: also rewrites an earlier replaced_at. *)
ReplaceUserRecord(rows, uid, timestamp) ==
    {IF row.uid = uid THEN [row EXCEPT !.replaced_at = timestamp]
     ELSE row : row \in rows}

(* Mutant of the next definition: the generation is left alone.            *)
RetireInTimeOnly(rows, timestamp) ==
    {IF Active(row) THEN [row EXCEPT !.replaced_at = timestamp]
     ELSE row : row \in rows}

(* _RETIRE_USER_RECORDS *)
RetireUserRecords(rows, timestamp) ==
    {IF Active(row)
     THEN [row EXCEPT !.replaced_at = timestamp,
                      !.generation = MAX_GENERATION]
     ELSE row : row \in rows}

(* The update of unassign_node: it too rewrites an earlier replaced_at. *)
UnassignRows(rows, nodeid, timestamp) ==
    {IF row.nodeid = nodeid THEN [row EXCEPT !.replaced_at = timestamp]
     ELSE row : row \in rows}

-----------------------------------------------------------------------------
(* s is what row r may have become: the same row, no timestamp moved back, *)
(* and not active again once replaced.                                     *)
Advances(r, s) ==
    /\ s.uid = r.uid
    /\ s.nodeid = r.nodeid
    /\ s.client_state = r.client_state
    /\ s.created_at = r.created_at
    /\ s.generation >= r.generation
    /\ s.keys_changed_at >= r.keys_changed_at
    /\ Active(s) => Active(r)

-----------------------------------------------------------------------------
(* What get_user reads. *)

(* Mutant of the next definition: the uid breaks ties the other way.       *)
OldestUidFirst(r, s) ==
    \/ r.created_at > s.created_at
    \/ r.created_at = s.created_at /\ r.uid < s.uid

(* The ORDER BY of _GET_USER_RECORDS. *)
FetchedBefore(r, s) ==
    \/ r.created_at > s.created_at
    \/ r.created_at = s.created_at /\ r.uid > s.uid

(* _GET_USER_RECORDS: the RowLimit most recently created rows. *)
Fetched(rows) ==
    {r \in rows : Cardinality({s \in rows : FetchedBefore(s, r)}) < RowLimit}

(* Mutant of the next definition: the sort is not reversed.                *)
Ascending(r, s) ==
    \/ r.generation < s.generation
    \/ r.generation = s.generation /\ FetchedBefore(r, s)

(* The order in which get_user sorts them: stable, so ties keep the order  *)
(* they were fetched in.                                                   *)
Outranks(r, s) ==
    \/ r.generation > s.generation
    \/ r.generation = s.generation /\ FetchedBefore(r, s)

(* The first of a set of rows in that order. *)
TopRanked(rows) == CHOOSE r \in rows : \A s \in rows \ {r} : Outranks(r, s)

CurrentRow(rows) == TopRanked(Fetched(rows))

OldRows(rows) == Fetched(rows) \ {CurrentRow(rows)}

(* The rows get_user reads as belonging to a retired user. *)
Retired(row) == row.generation >= MAX_GENERATION

=============================================================================
