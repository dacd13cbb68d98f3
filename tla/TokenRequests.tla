--------------------------- MODULE TokenRequests ---------------------------
(***************************************************************************)
(* Token requests and account events of one account against the SQL        *)
(* backend.  Web workers run return_token (views.py) and queue consumers   *)
(* run update_generation_number (process_account_events.py), and operators *)
(* move users with scripts/allocate_user.py; each is a sequence of SQL     *)
(* statements that commit one by one, with local state (the "user" dict)   *)
(* read by the first and used by the later ones.  A step of this module is *)
(* one SQL statement with the Python code up to the next one.  Operators   *)
(* unassign and remove nodes and retire users at any moment, and a worker  *)
(* may die between two statements.                                         *)
(***************************************************************************)
EXTENDS UserRecords, Sequences

CONSTANTS
    NoNode,          \* a missing node, None
    Workers,         \* web workers, queue consumers and scripts
    Versions,        \* the account's successive states at the FxA server
    Clients,         \* kinds of client: how much of a version they claim
    Operations,      \* operations other than token requests that happen
    AllowNewUsers,   \* values of tokenserver.allow_new_users in the fleet
    ClockSkew,       \* how far a worker's clock may lag
    MaxClock,        \* bound on the clock
    MaxUid           \* bound on the rows ever inserted

(* FxA's own promises: generation and keys_changed_at never go back,       *)
(* keys_changed_at <= generation, and a change of keys changes both        *)
(* timestamps and the key fingerprint.                                     *)
VersionSet == [generation : 1 .. MAX_GENERATION - 1,
               keys_changed_at : 1 .. MAX_GENERATION - 1,
               client_state : ClientStates]

ASSUME VersionsAssumption ==
    /\ Versions \in Seq(VersionSet)
    /\ Len(Versions) > 0
    /\ \A v \in 1 .. Len(Versions) :
          Versions[v].keys_changed_at <= Versions[v].generation

ASSUME BoundsAssumption ==
    /\ ClockSkew \in Nat
    /\ MaxClock \in Nat
    /\ MaxUid \in Nat

ASSUME NoNodeAssumption == NoNode \notin NodeIds

ASSUME ClientsAssumption ==
    Clients \subseteq {"full", "oauth", "legacy", "bare"}

ASSUME AllowNewUsersAssumption == AllowNewUsers \subseteq BOOLEAN

VARIABLES
    users,     \* the rows of the users table for this account
    nextUid,   \* the autoincrement counter of the users table
    nodes,     \* ids in the nodes table
    removing,  \* nodes that remove_node has deleted and not yet unassigned
    clock,     \* time in milliseconds
    account,   \* index of the account's current version at FxA
    job,       \* worker -> what it is doing
    floor      \* history: the highest timestamps accepted so far

table == <<users, nextUid>>
nodeTable == <<nodes, removing>>
world == <<clock, account>>

vars == <<table, nodeTable, world, job, floor>>

Claims == [generation : Generations, keys_changed_at : Generations,
           client_state : States]

(* The user dict of get_user. uid 0: the row is not inserted yet. *)
Users == [uid : Nat, node : NodeIds \cup {NoNode},
          client_state : States, generation : Generations,
          keys_changed_at : Generations, old_client_states : SUBSET States]

Seen == [generation : Generations, keys_changed_at : Generations,
         nodes : SUBSET NodeIds]

(* Where a worker is: between requests (having issued a token, raised an   *)
(* exception, or neither), or before the named statement.                  *)
PCs == {"idle", "granted", "error",
        "select", "allocate", "insert", "mark", "check",
        "create", "older"}

Resting == {"idle", "granted", "error"}

(* A token request, an account event, or a run of allocate_user.py, which  *)
(* becomes "place" once it has found that there is no user to "move".      *)
Kinds == {"token", "event", "move", "place"}

Jobs == [pc : PCs, kind : Kinds, claims : Claims, seen : Seen,
         user : Users, stale : SUBSET Rows, since : Nat, stamp : Nat]

NoClaims == [generation |-> 0, keys_changed_at |-> 0,
             client_state |-> NoState]

NoUser == [uid |-> 0, node |-> NoNode, client_state |-> NoState,
           generation |-> 0, keys_changed_at |-> 0, old_client_states |-> {}]

Ended(pc) ==
    [pc |-> pc, kind |-> "token", claims |-> NoClaims,
     seen |-> [generation |-> 0, keys_changed_at |-> 0, nodes |-> {}],
     user |-> NoUser, stale |-> {}, since |-> 0, stamp |-> 0]

Max2(a, b) == IF a >= b THEN a ELSE b

TypeOK ==
    /\ users \subseteq Rows
    /\ nextUid \in Nat \ {0}
    /\ nodes \subseteq NodeIds
    /\ removing \subseteq NodeIds
    /\ clock \in Nat
    /\ account \in 1 .. Len(Versions)
    /\ job \in [Workers -> Jobs]
    /\ floor \in [generation : Generations, keys_changed_at : Generations]

-----------------------------------------------------------------------------
(* The consistency checks of return_token, on what get_user returned.      *)

KeysAdvance(user, claims) == claims.keys_changed_at > user.keys_changed_at

(* updates['generation'], NULL when it is not set *)
GenerationUpdate(user, claims) ==
    CASE claims.generation > user.generation -> claims.generation
      [] /\ claims.generation = 0
         /\ KeysAdvance(user, claims)
         /\ claims.keys_changed_at > user.generation -> claims.keys_changed_at
      [] OTHER -> NULL

(* updates['keys_changed_at'], NULL when it is not set *)
KeysUpdate(user, claims) ==
    IF KeysAdvance(user, claims) THEN claims.keys_changed_at ELSE NULL

StateChange(user, claims) == claims.client_state # user.client_state

Updates(user, claims) ==
    \/ GenerationUpdate(user, claims) # NULL
    \/ KeysUpdate(user, claims) # NULL
    \/ StateChange(user, claims)

(* The check of fxa-keysChangedAt against fxa-generation.  (As a mutant of *)
(* the next definition: nothing else is checked before the update.)        *)
Missequenced(user, claims) ==
    /\ KeysAdvance(user, claims)
    /\ 0 < claims.generation /\ claims.generation < claims.keys_changed_at

(* The checks before the update. *)
Refused(user, claims) ==
    \/ Missequenced(user, claims)
    \/ /\ StateChange(user, claims)
       /\ \/ claims.client_state = NoState
          \/ claims.client_state \in user.old_client_states
          \/ /\ claims.generation > 0
             /\ GenerationUpdate(user, claims) = NULL
          \/ /\ user.keys_changed_at > 0
             /\ KeysUpdate(user, claims) = NULL

(* Mutant of the next definition: only the keys are checked.               *)
BehindInKeys(user, claims) == user.keys_changed_at > claims.keys_changed_at

(* The checks after the update. *)
Behind(user, claims) ==
    \/ claims.generation > 0 /\ user.generation > claims.generation
    \/ user.keys_changed_at > claims.keys_changed_at

(* Mutant of the next definition: the parameters, set or not.              *)
MovedTo(user, generation, keys_changed_at) ==
    [user EXCEPT !.generation = generation,
                 !.keys_changed_at = keys_changed_at]

(* What update_user leaves in the timestamps of the user dict. *)
Advanced(user, generation, keys_changed_at) ==
    [user EXCEPT !.generation = Max2(@, generation),
                 !.keys_changed_at = Max2(@, keys_changed_at)]

(* The user dict that update_user makes for a new client state.            *)
NewStateUser(user, claims) ==
    [uid |-> user.uid, node |-> user.node,
     client_state |-> claims.client_state,
     generation |-> Max2(user.generation, GenerationUpdate(user, claims)),
     keys_changed_at |-> Max2(user.keys_changed_at, KeysUpdate(user, claims)),
     old_client_states |-> user.old_client_states \cup {user.client_state}]

-----------------------------------------------------------------------------
(* What get_user makes of the rows it fetched. *)

(* Mutant of the next definition: a JOIN that keeps rows without a node.   *)
RecordedNode(row) == row.nodeid

NodeOf(row) == IF row.nodeid \in nodes THEN row.nodeid ELSE NoNode

UserOf(row) ==
    [uid |-> row.uid, node |-> NodeOf(row), client_state |-> row.client_state,
     generation |-> row.generation, keys_changed_at |-> row.keys_changed_at,
     old_client_states |->
        {r.client_state : r \in OldRows(users)} \ {row.client_state}]

(* What get_user passes to allocate_user for a user who needs a node.      *)
NodelessUserOf(row) ==
    [uid |-> 0, node |-> NoNode, client_state |-> row.client_state,
     generation |-> row.generation, keys_changed_at |-> row.keys_changed_at,
     old_client_states |->
        {r.client_state : r \in OldRows(users)} \ {row.client_state}]

(* The current row's user must be assigned a node again. *)
NeedsNode(row) ==
    /\ ~Active(row) \/ NodeOf(row) = NoNode
    /\ ~Retired(row)

(* The user dict for somebody without any row: what allocate_user stores.  *)
NewUser(claims) ==
    [uid |-> 0, node |-> NoNode, client_state |-> claims.client_state,
     generation |-> claims.generation,
     keys_changed_at |-> claims.keys_changed_at, old_client_states |-> {}]

(* Mutant of the next definition: the user dict keeps its uid.             *)
SameUid(user, uid) == user

(* The user dict once its row is inserted. *)
Inserted(user, uid) == [user EXCEPT !.uid = uid]

(* get_user's loop comes next, and after it the caller's own code. *)
AfterRead(stale) == IF stale = {} THEN "check" ELSE "mark"

(* Timestamps a worker may have read since the clock showed t. *)
ReadSince(t) == t - ClockSkew .. clock

-----------------------------------------------------------------------------
Init ==
    /\ users = {}
    /\ nextUid = 1
    /\ nodes = NodeIds
    /\ removing = {}
    /\ clock = ClockSkew
    /\ account = 1
    /\ job = [w \in Workers |-> Ended("idle")]
    /\ floor = [generation |-> 0, keys_changed_at |-> 0]

(* The environment: time passes, the account changes at the FxA server. *)
Tick ==
    /\ clock < MaxClock
    /\ clock' = clock + 1
    /\ UNCHANGED <<table, nodeTable, account, job, floor>>

ChangeAccount ==
    /\ account < Len(Versions)
    /\ account' = account + 1
    /\ UNCHANGED <<table, nodeTable, clock, job, floor>>

(* What a client of a kind claims when it holds credentials of version v:  *)
(* everything; no generation (an OAuth token whose verification response   *)
(* has none); no keys_changed_at (an FxA server that does not send it);    *)
(* neither keys_changed_at nor a client state.                             *)
ClaimsOf(v, client) ==
    CASE client = "full" -> Versions[v]
      [] client = "oauth" -> [Versions[v] EXCEPT !.generation = 0]
      [] client = "legacy" -> [Versions[v] EXCEPT !.keys_changed_at = 0]
      [] client = "bare" -> [Versions[v] EXCEPT !.keys_changed_at = 0,
                                                !.client_state = NoState]

Start(w, kind, claims) ==
    job' = [job EXCEPT ![w] =
              [pc |-> "select", kind |-> kind, claims |-> claims,
               seen |-> [generation |-> floor.generation,
                         keys_changed_at |-> floor.keys_changed_at,
                         nodes |-> nodes],
               user |-> NoUser, stale |-> {}, since |-> 0, stamp |-> 0]]

(* A validated request arrives: any client, with credentials of any version *)
(* that exists by now.                                                     *)
Receive(w) ==
    /\ job[w].pc \in Resting
    /\ \E v \in 1 .. account, client \in Clients :
          Start(w, "token", ClaimsOf(v, client))
    /\ UNCHANGED <<table, nodeTable, world, floor>>

(* Mutant of the next definition: the generation as it is.                 *)
AnnouncedClaims(v) ==
    [NoClaims EXCEPT !.generation = Versions[v].generation]

(* What the event of version v is written as: one millisecond before it.   *)
EventClaims(v) ==
    [NoClaims EXCEPT !.generation = Versions[v].generation - 1]

StartEvent(w, v) ==
    /\ "event" \in Operations
    /\ job[w].pc \in Resting
    /\ Start(w, "event", EventClaims(v))
    /\ UNCHANGED <<table, nodeTable, world, floor>>

(* The queue delivers a "reset" or "passwordChange" event, late, again or  *)
(* out of order.                                                           *)
ReceiveEvent(w) == \E v \in 2 .. account : StartEvent(w, v)

(* An operator runs scripts/allocate_user.py for the account.              *)
ReceiveScript(w) ==
    /\ "allocate" \in Operations
    /\ job[w].pc \in Resting
    /\ Start(w, "move", NoClaims)
    /\ UNCHANGED <<table, nodeTable, world, floor>>

End(w, pc) == job' = [job EXCEPT ![w] = Ended(pc)]

(* The worker carries on with the same request.                            *)
Go(w, pc, user, stale, since, stamp) ==
    job' = [job EXCEPT ![w] =
              [pc |-> pc, kind |-> job[w].kind, claims |-> job[w].claims,
               seen |-> job[w].seen, user |-> user, stale |-> stale,
               since |-> since, stamp |-> stamp]]

-----------------------------------------------------------------------------
(* get_user and allocate_user. *)

(* get_user finds rows. *)
SelectRecords(w) ==
    /\ job[w].pc = "select"
    /\ users # {}
    /\ LET row == CurrentRow(users)
           stale == {r \in OldRows(users) : Active(r)}
           stamp == IF stale = {} THEN 0 ELSE row.created_at
       IN  \/ /\ NeedsNode(row)
              /\ Go(w, "allocate", NodelessUserOf(row), stale, clock, stamp)
           \/ /\ ~NeedsNode(row)
              /\ Go(w, AfterRead(stale), UserOf(row), stale, 0, stamp)
    /\ UNCHANGED <<table, nodeTable, world, floor>>

(* get_user finds no row: a token request allocates one where that is      *)
(* allowed, the script always does, an event is dropped.                   *)
SelectNothing(w) ==
    /\ job[w].pc = "select"
    /\ users = {}
    /\ \/ /\ job[w].kind = "event"
          /\ End(w, "idle")
       \/ /\ job[w].kind = "token"
          /\ FALSE \in AllowNewUsers
          /\ End(w, "idle")
       \/ /\ job[w].kind = "token"
          /\ TRUE \in AllowNewUsers
          /\ Go(w, "allocate", NewUser(job[w].claims), {}, clock, 0)
       \/ /\ job[w].kind = "move"
          /\ job' = [job EXCEPT ![w].pc = "allocate", ![w].kind = "place",
                                ![w].user = NewUser(NoClaims),
                                ![w].since = clock]
    /\ UNCHANGED <<table, nodeTable, world, floor>>

(* get_best_node, as far as this account sees it: some node, or an error.  *)
(* (The node that a script was told to use is some node, too.)             *)
BestNode(w) ==
    /\ job[w].pc = "allocate"
    /\ \/ \E n \in nodes :
             Go(w, "insert", [job[w].user EXCEPT !.node = n],
                job[w].stale, job[w].since, job[w].stamp)
       \/ nodes = {} /\ End(w, "error")
    /\ UNCHANGED <<table, nodeTable, world, floor>>

(* allocate_user inserts the row, with the timestamp it read before it     *)
(* chose the node.                                                         *)
InsertAllocated(w) ==
    /\ job[w].pc = "insert"
    /\ nextUid <= MaxUid
    /\ \E now \in ReadSince(job[w].since) :
          users' = CreateUserRecord(users, nextUid, job[w].user.node,
                                    job[w].user, now)
    /\ nextUid' = nextUid + 1
    /\ Go(w, AfterRead(job[w].stale), Inserted(job[w].user, nextUid),
          job[w].stale, 0, job[w].stamp)
    /\ UNCHANGED <<nodeTable, world, floor>>

(* get_user's loop: an old row it had read as active is marked as replaced *)
(* at the time the current row was created, whatever has become of either. *)
MarkOld(w) ==
    /\ job[w].pc = "mark"
    /\ LET row == TopRanked(job[w].stale)
           stale == job[w].stale \ {row}
       IN  /\ users' = ReplaceUserRecord(users, row.uid, job[w].stamp)
           /\ Go(w, AfterRead(stale), job[w].user, stale, 0,
                 IF stale = {} THEN 0 ELSE job[w].stamp)
    /\ UNCHANGED <<nextUid, nodeTable, world, floor>>

-----------------------------------------------------------------------------
(* return_token after get_user, and update_user.                           *)

(* The floor rises with what a request or an event has got accepted.       *)
RaiseFloor(generation, keys_changed_at) ==
    floor' = [generation |-> Max2(floor.generation, generation),
              keys_changed_at |-> Max2(floor.keys_changed_at, keys_changed_at)]

(* The last checks, the node's secret, and the token.                      *)
Answer(w, user) ==
    \/ /\ Behind(user, job[w].claims)
       /\ End(w, "idle")
       /\ UNCHANGED floor
    \/ /\ ~Behind(user, job[w].claims)
       /\ user.node = NoNode
       /\ End(w, "error")
       /\ UNCHANGED floor
    \/ /\ ~Behind(user, job[w].claims)
       /\ user.node # NoNode
       /\ Go(w, "granted", user, {}, 0, 0)
       /\ RaiseFloor(user.generation, user.keys_changed_at)

Checking(w, kind) == job[w].pc = "check" /\ job[w].kind = kind

(* The claims fail a check before any update.                              *)
Reject(w) ==
    /\ Checking(w, "token")
    /\ Refused(job[w].user, job[w].claims)
    /\ End(w, "idle")
    /\ UNCHANGED <<table, nodeTable, world, floor>>

(* Nothing to update.                                                      *)
NoUpdate(w) ==
    /\ Checking(w, "token")
    /\ ~Updates(job[w].user, job[w].claims)
    /\ Answer(w, job[w].user)
    /\ UNCHANGED <<table, nodeTable, world>>

(* Timestamps move, the client state stays: update_user's in-place branch, *)
(* which takes its own parameters for what the rows now hold.              *)
UpdateInPlace(w) ==
    /\ Checking(w, "token")
    /\ Updates(job[w].user, job[w].claims)
    /\ ~StateChange(job[w].user, job[w].claims)
    /\ ~Refused(job[w].user, job[w].claims)
    /\ LET generation == GenerationUpdate(job[w].user, job[w].claims)
           keys == KeysUpdate(job[w].user, job[w].claims)
       IN  /\ users' = UpdateUserRecordInPlace(users, generation, keys)
           /\ Answer(w, Advanced(job[w].user, generation, keys))
    /\ UNCHANGED <<nextUid, nodeTable, world>>

(* The same branch for an event, which raises the generation alone.        *)
BumpGeneration(w) ==
    /\ Checking(w, "event")
    /\ users' = UpdateUserRecordInPlace(users, job[w].claims.generation, NULL)
    /\ RaiseFloor(job[w].claims.generation, 0)
    /\ End(w, "idle")
    /\ UNCHANGED <<nextUid, nodeTable, world>>

(* A new client state: update_user looks for the user's node.  When it is  *)
(* gone the call get_best_node(service) lacks an argument and raises.      *)
LookupNode(w) ==
    /\ Checking(w, "token")
    /\ StateChange(job[w].user, job[w].claims)
    /\ ~Refused(job[w].user, job[w].claims)
    /\ \/ /\ job[w].user.node \in nodes
          /\ Go(w, "create", NewStateUser(job[w].user, job[w].claims), {},
                clock, 0)
       \/ /\ job[w].user.node \notin nodes
          /\ End(w, "error")
    /\ UNCHANGED <<table, nodeTable, world, floor>>

(* update_user inserts the row of the new client state.                    *)
CreateReplacement(w) ==
    /\ job[w].pc = "create"
    /\ nextUid <= MaxUid
    /\ \E now \in ReadSince(job[w].since) :
          /\ users' = CreateUserRecord(users, nextUid, job[w].user.node,
                                       job[w].user, now)
          /\ Go(w, "older", Inserted(job[w].user, nextUid), {}, 0, now)
    /\ nextUid' = nextUid + 1
    /\ UNCHANGED <<nodeTable, world, floor>>

(* update_user marks the older rows as replaced.                           *)
ReplaceOlder(w) ==
    /\ job[w].pc = "older"
    /\ job[w].kind = "token"
    /\ users' = ReplaceUserRecords(users, job[w].stamp)
    /\ Answer(w, job[w].user)
    /\ UNCHANGED <<nextUid, nodeTable, world>>

(* The user dict that update_user makes for a node it was told to use.     *)
MovedUser(user, n) ==
    [user EXCEPT !.node = n,
                 !.old_client_states = @ \cup {user.client_state}]

(* The script moves a user it found to the node it was told to use.        *)
MoveUser(w) ==
    /\ Checking(w, "move")
    /\ \E n \in nodes :
          Go(w, "create", MovedUser(job[w].user, n), {}, clock, 0)
    /\ UNCHANGED <<table, nodeTable, world, floor>>

(* Nothing more to do: the user has just been placed; no node was named,   *)
(* and update_user has nothing to write in place; or it is no node.        *)
StayPut(w) ==
    /\ Checking(w, "place") \/ Checking(w, "move")
    /\ End(w, "idle")
    /\ UNCHANGED <<table, nodeTable, world, floor>>

(* The script's update_user marks the older rows as replaced.              *)
FinishMove(w) ==
    /\ job[w].pc = "older"
    /\ job[w].kind = "move"
    /\ users' = ReplaceUserRecords(users, job[w].stamp)
    /\ End(w, "idle")
    /\ UNCHANGED <<nextUid, nodeTable, world, floor>>

(* A worker dies, or the statement it is about to run fails.               *)
Crash(w) ==
    /\ job[w].pc \notin Resting
    /\ End(w, "idle")
    /\ UNCHANGED <<table, nodeTable, world, floor>>

-----------------------------------------------------------------------------
(* What operators and the queue do to the rows meanwhile.                  *)

(* A "delete" event: retire_user.  (Without a row it is a step that        *)
(* changes nothing.)                                                       *)
RetireUser ==
    /\ "delete" \in Operations
    /\ users # {}
    /\ \E now \in ReadSince(clock) : users' = RetireUserRecords(users, now)
    /\ floor' = [floor EXCEPT !.generation = MAX_GENERATION]
    /\ UNCHANGED <<nextUid, nodeTable, world, job>>

(* unassign_node of a node that stays in service.                          *)
UnassignNode(n) ==
    /\ "unassign" \in Operations
    /\ n \in nodes
    /\ \E now \in ReadSince(clock) : users' = UnassignRows(users, n, now)
    /\ UNCHANGED <<nextUid, nodeTable, world, job, floor>>

(* remove_node: it deletes the node's row, and unassigns its users in a    *)
(* second statement that may come late or never.                           *)
DeleteNode(n) ==
    /\ "remove" \in Operations
    /\ n \in nodes
    /\ nodes' = nodes \ {n}
    /\ removing' = removing \cup {n}
    /\ UNCHANGED <<table, world, job, floor>>

UnassignRemoved(n) ==
    /\ n \in removing
    /\ removing' = removing \ {n}
    /\ \E now \in ReadSince(clock) : users' = UnassignRows(users, n, now)
    /\ UNCHANGED <<nextUid, nodes, world, job, floor>>

-----------------------------------------------------------------------------
Step(w) ==
    \/ Receive(w)
    \/ ReceiveEvent(w)
    \/ ReceiveScript(w)
    \/ SelectRecords(w)
    \/ SelectNothing(w)
    \/ BestNode(w)
    \/ InsertAllocated(w)
    \/ MarkOld(w)
    \/ Reject(w)
    \/ NoUpdate(w)
    \/ UpdateInPlace(w)
    \/ BumpGeneration(w)
    \/ LookupNode(w)
    \/ CreateReplacement(w)
    \/ ReplaceOlder(w)
    \/ MoveUser(w)
    \/ StayPut(w)
    \/ FinishMove(w)
    \/ Crash(w)

Environment ==
    \/ Tick
    \/ ChangeAccount
    \/ RetireUser
    \/ \E n \in NodeIds : UnassignNode(n) \/ DeleteNode(n) \/ UnassignRemoved(n)

Next == Environment \/ \E w \in Workers : Step(w)

Spec == Init /\ [][Next]_vars

-----------------------------------------------------------------------------
(* Properties. *)

(* A token names a row of the table and the very node and client state of  *)
(* that row, and no other row has its uid: the uid, the node and the kid   *)
(* of return_token's token_data come from a user dict that was read or     *)
(* built statements ago and that other workers may have overtaken.         *)
TokenNamesItsRow ==
    \A w \in Workers : job[w].pc = "granted" =>
        LET named == {r \in users : r.uid = job[w].user.uid} IN
        /\ Cardinality(named) = 1
        /\ \A r \in named : /\ r.nodeid = job[w].user.node
                            /\ r.client_state = job[w].user.client_state

(* No step moves a row's timestamps back, reactivates a replaced row or    *)
(* changes what a row identifies, however stale the worker that takes it   *)
(* (the comment on _UPDATE_USER_RECORD_IN_PLACE).                          *)
RowsOnlyAdvance ==
    [][\A r \in users, s \in users' : r.uid = s.uid => Advances(r, s)]_vars

(* A token is never issued for a generation or a keys_changed_at behind    *)
(* one that had been accepted before its request arrived (README.md: the   *)
(* server tracks the highest generation and rejects lower ones; the last   *)
(* checks of return_token).                                                *)
NoStaleToken ==
    \A w \in Workers : job[w].pc = "granted" =>
        /\ \/ job[w].claims.generation = 0
           \/ job[w].claims.generation >= job[w].seen.generation
        /\ job[w].claims.keys_changed_at >= job[w].seen.keys_changed_at

(* A token never names a node that was gone when its request arrived: such *)
(* a user is moved by get_user before anything else.                       *)
NoTokenForRemovedNode ==
    \A w \in Workers : job[w].pc = "granted" =>
        job[w].user.node \in job[w].seen.nodes

(* A deleted account stays locked out: no request that arrives after the   *)
(* account was retired gets a token, unless it reports no generation, as a *)
(* verifier may do (the comment on _RETIRE_USER_RECORDS: "set a large      *)
(* generation number to block future logins").                             *)
RetiredStaysLockedOut ==
    \A w \in Workers :
        job[w].pc = "granted" /\ job[w].claims.generation > 0 =>
            job[w].seen.generation < MAX_GENERATION

(* While workers take turns and no operator moves the user, get_user never *)
(* finds the row in use replaced or without a node, so it never assigns    *)
(* the user another node unasked: marking old rows never hits the active   *)
(* state (the comment at the end of update_user), not even after a crash   *)
(* or an event.                                                            *)
NoSpuriousReassignment ==
    users # {} => ~NeedsNode(CurrentRow(users))

(* A request that changes the client state is never answered with an       *)
(* exception because the user's node is gone, as long as there is another  *)
(* node ("if e.g. it no longer exists them allocate them to a new one", a  *)
(* comment in update_user).                                                *)
GoneNodeIsReplaced ==
    [][\A w \in Workers :
          job[w].pc = "check" /\ job[w].user.node # NoNode
             /\ job'[w].pc = "error" => nodes = {}]_vars

(* What return_token would answer to claims if nothing interfered.         *)
WouldAccept(claims) ==
    users # {} =>
        LET user == UserOf(CurrentRow(users)) IN
        /\ ~Refused(user, claims)
        /\ ~Behind(Advanced(user, GenerationUpdate(user, claims),
                            KeysUpdate(user, claims)), claims)

(* The account's newest credentials are good for a token, whatever was     *)
(* left half done by crashes and whatever operators did, unless the        *)
(* account was deleted (process_account_events.py: a bump of the           *)
(* generation avoids errors with X-Client-State).                          *)
NewestClientAccepted ==
    floor.generation < MAX_GENERATION => WouldAccept(Versions[account])

(* A user whom an operator moves is on the node he was moved to, once the  *)
(* script is done: of the rows of one generation, and of one millisecond,  *)
(* get_user takes the one that the script inserted, although it copies a   *)
(* user dict read statements ago (the help text of allocate_user.py; the   *)
(* comment on sorting in get_user).                                        *)
MoveTakesEffect ==
    [][\A w \in Workers :
          FinishMove(w) /\ floor.generation < MAX_GENERATION =>
             CurrentRow(users').uid = job[w].user.uid]_vars

(* The client state that get_user takes for current never goes back to     *)
(* that of an earlier version of the account (the comments in return_token *)
(* and at the end of update_user).                                         *)
VersionOf(state) ==
    CHOOSE v \in 1 .. Len(Versions) : /\ Versions[v].client_state = state
                                      /\ \A u \in v + 1 .. Len(Versions) :
                                            Versions[u].client_state # state

NoStateRevival ==
    [][users # {} /\ floor'.generation < MAX_GENERATION =>
          VersionOf(CurrentRow(users').client_state) >=
          VersionOf(CurrentRow(users).client_state)]_vars

-----------------------------------------------------------------------------
(* The row in use, as the abstract specification sees it.                  *)
M == INSTANCE Marks

MarkOf(row) ==
    IF Retired(row)
    THEN M!Tombstone
    ELSE [generation |-> row.generation,
          keys_changed_at |-> row.keys_changed_at,
          client_state |-> row.client_state]

Mark == IF users = {} THEN M!NoMark ELSE MarkOf(CurrentRow(users))

A == INSTANCE Account WITH mark <- Mark

(* Statement by statement, with crashes in between, the rows implement the *)
(* high-water mark that the README promises: no step leaves the row in use *)
(* with an older timestamp, a new client state without a newer timestamp,  *)
(* or a deleted account in use again.  (This is A!Spec: a step that leaves *)
(* the rows alone leaves the mark alone.)                                  *)
ImplementsAccount == A!Init /\ [][users' # users => [A!Next]_Mark]_users

=============================================================================
