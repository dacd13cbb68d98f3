---------------------------- MODULE AccountPurge ----------------------------
(***************************************************************************)
(* TokenRequests and PurgeRecords together: the rows of one account are    *)
(* purged while its clients ask for tokens.  The unit of time is longer    *)
(* than a request and no longer than tokenserver.token_duration (an hour). *)
(***************************************************************************)
EXTENDS TokenRequests

CONSTANTS Purgers, Grace, PerLoop, MaxOffset, Settings, \* of PurgeRecords
          TokenDuration   \* tokenserver.token_duration

ASSUME TokenDurationAssumption == TokenDuration \in Nat \ {0}
ASSUME GraceAssumption == Grace \in Nat

VARIABLES downed, purge, cleared, dropped,            \* of PurgeRecords
          expires   \* history: uid -> the time its last token expires

(* The rows of one service. *)
P == INSTANCE PurgeRecords
        WITH PurgeClock <- MaxClock, PurgeUids <- 1 .. MaxUid,
             Patterns <- <<"service">>,
             ServiceOf <- [n \in NodeIds |-> "service"],
             Homes <- [1 .. MaxUid -> NodeIds]

purgeVars == <<downed, purge, cleared, dropped>>
allVars == <<vars, purgeVars, expires>>

AccountInit ==
    /\ Init
    /\ downed = {}
    /\ \E settings \in [Purgers -> Settings] :
          purge = [p \in Purgers |-> P!Idle(settings[p])]
    /\ cleared = {}
    /\ dropped = {}
    /\ expires = [u \in 1 .. MaxUid |-> 0]

(* A step of TokenRequests.  A token expires TokenDuration after the step  *)
(* that issues it; time does not pass while a request is under way.        *)
RequestStep(w) ==
    /\ Step(w)
    /\ expires' = IF job[w].pc # "granted" /\ job'[w].pc = "granted"
                  THEN [expires EXCEPT ![job'[w].user.uid] =
                           clock + TokenDuration]
                  ELSE expires
    /\ UNCHANGED purgeVars

OtherStep ==
    /\ Environment
    /\ clock' # clock => \A w \in Workers : job[w].pc \in Resting
    /\ UNCHANGED <<purgeVars, expires>>

PurgeStep(p) ==
    /\ P!PurgerStep(p)
    /\ UNCHANGED <<nextUid, removing, account, job, floor, expires>>

UpdateDowned(n) ==
    /\ "downed" \in Operations
    /\ P!UpdateDowned(n)
    /\ UNCHANGED <<nextUid, removing, account, job, floor, expires>>

AccountNext ==
    \/ \E w \in Workers : RequestStep(w)
    \/ OtherStep
    \/ \E p \in Purgers : PurgeStep(p)
    \/ \E n \in NodeIds : UpdateDowned(n)

AccountSpec == AccountInit /\ [][AccountNext]_allVars

-----------------------------------------------------------------------------
(* No client loses data under a token that is still good: when a row's     *)
(* data or record goes, every token that names it has expired, although    *)
(* old rows are marked as replaced at the time their successor was         *)
(* created, which may be long past when it happens.                        *)
GraceOutlivesTokens ==
    \A u \in 1 .. MaxUid :
        u \in cleared \cup {r.uid : r \in dropped} => expires[u] < clock

(* The client state in use does not go back when purging forgets the old   *)
(* ones.                                                                   *)
NoRevivalByPurge ==
    [][users # {} /\ users' # {} /\ floor'.generation < MAX_GENERATION =>
          VersionOf(CurrentRow(users').client_state) >=
          VersionOf(CurrentRow(users).client_state)]_allVars

=============================================================================
