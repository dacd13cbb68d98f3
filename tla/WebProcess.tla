------------------------------ MODULE WebProcess ------------------------------
(***************************************************************************)
(* What the requests of one web process share: the endpoint patterns       *)
(* (LazyDict of __init__.py) and the percentage of new users that go to    *)
(* Spanner (get_migration_percent), both loaded from the database on the   *)
(* way of a request.  A request is validated (VALIDATORS of views.py) and  *)
(* then served.  Requests take turns where they wait for another server,   *)
(* as green threads do; with one thread this is a synchronous worker.      *)
(***************************************************************************)
EXTENDS Naturals

CONSTANTS
    Threads,           \* requests that a process serves at once
    Services,          \* service names, as application and version give them
    Supported,         \* tokenserver.applications
    Configured,        \* services with a pattern in the configuration file
    FirstServices,     \* rows of the services table when the process starts
    KeyStates,         \* client states, each the hash of a key
    Empty, Absent, Malformed,     \* other contents of a header
    Requests,          \* the requests that clients send
    FirstPercentage,   \* migrate_new_user_percentage of the configuration file
    Percentages,       \* values that the operators give the setting
    NoSetting,         \* no such setting, or no number
    Lifespan           \* MIGRATION_CACHE_LIFESPAN, in units of time

Headers == KeyStates \cup {Empty, Absent, Malformed}

RequestSet == [service : Services,
               scheme : {"browserid", "bearer", "other"},
               client_state : Headers,      \* X-Client-State
               key_id : Headers]            \* X-KeyID

ASSUME WebProcessAssumption ==
    /\ Supported \subseteq Services
    /\ Configured \subseteq Services
    /\ FirstServices \subseteq Services
    /\ Requests \subseteq RequestSet
    /\ Requests # {}
    /\ FirstPercentage \in Percentages
    /\ Percentages \subseteq Nat
    /\ NoSetting \notin Percentages
    /\ Lifespan \in Nat
    /\ KeyStates \cap {Empty, Absent, Malformed} = {}
    /\ Absent # Malformed /\ Empty \notin {Absent, Malformed}

VARIABLES
    services,      \* rows of the services table
    setting,       \* the row of dynamic_settings
    patterns,      \* services in the LazyDict
    loaded,        \* its _loaded
    percentage,    \* migrate_new_user_percentage of the backend
    fresh,         \* how long until its _migration_percentage_cache_ttl
    job            \* thread -> the request it serves, and how far it is

tables == <<services, setting>>
dict == <<patterns, loaded>>
cache == <<percentage, fresh>>

vars == <<tables, dict, cache, job>>

(* Where a request is: it waits for a verifier, for the patterns, for the  *)
(* statements on the user, for the setting; or it ended, without a pattern *)
(* for its service or in any other way.                                    *)
PCs == {"verify", "patterns", "user", "setting", "unknown", "ended"}

Resting == {"unknown", "ended"}

Jobs == [pc : PCs, request : Requests, client_state : KeyStates \cup {Empty},
         default : Percentages]

TypeOK ==
    /\ services \subseteq Services
    /\ setting \in Percentages \cup {NoSetting}
    /\ patterns \subseteq Services
    /\ loaded \in BOOLEAN
    /\ percentage \in Percentages
    /\ fresh \in 0 .. Lifespan
    /\ job \in [Threads -> Jobs]

-----------------------------------------------------------------------------
(* The validators' decisions. *)

(* valid_app; valid_client_state; a scheme that valid_authorization knows. *)
Plausible(r) ==
    /\ r.service \in Supported
    /\ r.client_state # Malformed
    /\ r.scheme # "other"

(* Mutant of the next definition: no default for a missing header.         *)
RawHeader(r) == r.client_state

(* What valid_client_state takes from the header.                          *)
Reported(r) == IF r.client_state \in KeyStates THEN r.client_state ELSE Empty

HasKeyId(r) == r.scheme = "bearer" /\ r.key_id \notin {Absent, Empty}

(* _validate_oauth_token on the headers, once the token is good.           *)
Consistent(r) ==
    HasKeyId(r) => /\ r.key_id # Malformed
                   /\ r.client_state \in {Absent, r.key_id}

(* Mutant of the next definition: valid_client_state comes last.           *)
HeaderWins(r) == Reported(r)

(* The validated client state.                                             *)
ClientState(r) == IF HasKeyId(r) THEN r.key_id ELSE Reported(r)

-----------------------------------------------------------------------------
Init ==
    /\ services = FirstServices
    /\ setting \in Percentages \cup {NoSetting}
    /\ patterns = {}
    /\ loaded = FALSE
    /\ percentage = FirstPercentage
    /\ fresh = 0
    /\ job = [t \in Threads |->
                 [pc |-> "ended", request |-> CHOOSE r \in Requests : TRUE,
                  client_state |-> Empty, default |-> FirstPercentage]]

(* Operators add a service, or change the setting or drop it.              *)
AddService(s) ==
    /\ services' = services \cup {s}
    /\ UNCHANGED <<setting, dict, cache, job>>

ChangeSetting(p) ==
    /\ setting' = p
    /\ UNCHANGED <<services, dict, cache, job>>

(* Time passes. *)
Tick ==
    /\ fresh > 0
    /\ fresh' = fresh - 1
    /\ UNCHANGED <<tables, dict, percentage, job>>

-----------------------------------------------------------------------------
Go(t, pc) == job' = [job EXCEPT ![t].pc = pc]

(* A request that gets as far as a verifier. *)
Receive(t, r) ==
    /\ job[t].pc \in Resting
    /\ Plausible(r)
    /\ job' = [job EXCEPT ![t].pc = "verify", ![t].request = r,
                          ![t].client_state = Reported(r)]
    /\ UNCHANGED <<tables, dict, cache>>

(* The verifier finds the credentials bad or is not reached, or the        *)
(* headers that come with a good token do not fit together.                *)
RejectCredentials(t) ==
    /\ job[t].pc = "verify"
    /\ Go(t, "ended")
    /\ UNCHANGED <<tables, dict, cache>>

(* The service is looked up in the patterns that now are there. *)
Found(t) == IF job[t].request.service \in patterns' THEN "user" ELSE "unknown"

(* Mutant of the next definition: the flag is set before the patterns are  *)
(* asked for.                                                              *)
FlagFirst(t) ==
    /\ job[t].pc = "verify"
    /\ Consistent(job[t].request)
    /\ patterns' = IF loaded THEN patterns ELSE patterns \cup Configured
    /\ loaded' = TRUE
    /\ job' = [job EXCEPT
                  ![t].client_state = ClientState(job[t].request),
                  ![t].pc = IF loaded \/ patterns' # {} THEN Found(t)
                                                        ELSE "patterns"]
    /\ UNCHANGED <<tables, cache>>

(* Good credentials.  pattern_exists then opens the LazyDict, which takes  *)
(* the configured patterns, if there are any.                              *)
Accept(t) ==
    /\ job[t].pc = "verify"
    /\ Consistent(job[t].request)
    /\ patterns' = IF loaded THEN patterns ELSE patterns \cup Configured
    /\ loaded' = (loaded \/ patterns' # {})
    /\ job' = [job EXCEPT
                  ![t].client_state = ClientState(job[t].request),
                  ![t].pc = IF loaded' THEN Found(t) ELSE "patterns"]
    /\ UNCHANGED <<tables, cache>>

(* get_patterns answers. *)
LoadPatterns(t) ==
    /\ job[t].pc = "patterns"
    /\ patterns' = patterns \cup services
    /\ loaded' = TRUE
    /\ Go(t, Found(t))
    /\ UNCHANGED <<tables, cache>>

(* get_patterns, or any statement on the user, fails: BackendError.        *)
Fail(t) ==
    /\ job[t].pc \in {"patterns", "user"}
    /\ Go(t, "ended")
    /\ UNCHANGED <<tables, dict, cache>>

(* The user is known, and has a node. *)
ServeKnownUser(t) ==
    /\ job[t].pc = "user"
    /\ Go(t, "ended")
    /\ UNCHANGED <<tables, dict, cache>>

(* The user is new, or lost his node: get_best_node asks for the           *)
(* percentage, which may be fresh.                                         *)
AllocateUser(t) ==
    /\ job[t].pc = "user"
    /\ job' = [job EXCEPT ![t].pc = IF fresh > 0 THEN "ended" ELSE "setting",
                          ![t].default = percentage]
    /\ UNCHANGED <<tables, dict, cache>>

(* Mutant of the next definition: the operands of "or" in the other order. *)
KeepDefault(value, default) == IF default # 0 THEN default ELSE value

(* int(value) or default *)
ValueOr(value, default) == IF value # 0 THEN value ELSE default

(* The setting is read: a number, *)
ReadSetting(t) ==
    /\ job[t].pc = "setting"
    /\ setting # NoSetting
    /\ percentage' = ValueOr(setting, job[t].default)
    /\ fresh' = Lifespan
    /\ Go(t, "ended")
    /\ UNCHANGED <<tables, dict>>

(* or anything else, and the percentage stays as it is. *)
SettingUnread(t) ==
    /\ job[t].pc = "setting"
    /\ Go(t, "ended")
    /\ UNCHANGED <<tables, dict, cache>>

-----------------------------------------------------------------------------
Operate ==
    \/ \E s \in Services : AddService(s)
    \/ \E p \in Percentages \cup {NoSetting} : ChangeSetting(p)

(* A request goes on. *)
Proceed(t) ==
    \/ RejectCredentials(t) \/ Accept(t)
    \/ LoadPatterns(t) \/ Fail(t)
    \/ ServeKnownUser(t) \/ AllocateUser(t)
    \/ ReadSetting(t) \/ SettingUnread(t)

Next ==
    \/ Operate
    \/ Tick
    \/ \E t \in Threads, r \in Requests : Receive(t, r)
    \/ \E t \in Threads : Proceed(t)

Spec == Init /\ [][Next]_vars

(* Other servers answer in time or are given up; time passes; a setting    *)
(* that can be read is not missed for ever.                                *)
FairSpec ==
    /\ Spec
    /\ WF_vars(Tick)
    /\ \A t \in Threads : WF_vars(Proceed(t)) /\ SF_vars(ReadSetting(t))

-----------------------------------------------------------------------------
(* Properties. *)

(* The services that a process has patterns for as long as it lives.       *)
AlwaysThere == IF Configured = {} THEN FirstServices ELSE Configured

(* No request for a service that was there when the process started is     *)
(* told that its pattern is not known (pattern_exists), however many       *)
(* requests load the patterns at once and whichever of them fail.          *)
KnownServiceFound ==
    \A t \in Threads :
        job[t].pc = "unknown" => job[t].request.service \notin AlwaysThere

(* The client state that a request is served under is the one of the key   *)
(* id, when an OAuth client sends one, and no header contradicts it (the   *)
(* comments of _validate_oauth_token).                                     *)
KeyIdCounts ==
    \A t \in Threads :
        LET r == job[t].request IN
        job[t].pc \in {"patterns", "user", "setting"} /\ HasKeyId(r) =>
            /\ job[t].client_state = r.key_id
            /\ r.client_state \in KeyStates => r.client_state = r.key_id

(* A new user is allocated. *)
Allocation == \E t \in Threads : job[t].pc = "user" /\ AllocateUser(t)

(* "Ops controllable": once the operators leave the setting at a value     *)
(* other than zero, a process to which new users come ends up with it,     *)
(* although reads fail and requests that have read an older value write it *)
(* late (get_migration_percent).                                           *)
SettingFollowed ==
    \A p \in Percentages \ {0} :
        <>[](setting = p) /\ []<><<Allocation>>_vars => <>[](percentage = p)

=============================================================================
