--------------------------- MODULE WebProcessProofs ---------------------------
(***************************************************************************)
(* For any number of requests at a time, any requests and any services: no *)
(* request is told that a service of old is unknown, and OAuth clients are *)
(* served under the client state of their key id.                          *)
(***************************************************************************)
EXTENDS WebProcess, TLAPS

(* Either nothing is loaded, or all that will stay.                        *)
PatternsInv ==
    /\ FirstServices \subseteq services
    /\ IF loaded THEN AlwaysThere \subseteq patterns ELSE patterns = {}

(* Only a process without configured patterns asks for them; who is told   *)
(* that a service is not known has looked.                                 *)
JobInv(t) ==
    /\ job[t].pc = "patterns" => Configured = {}
    /\ job[t].pc = "unknown" => job[t].request.service \notin AlwaysThere
    /\ job[t].pc \in {"patterns", "user", "setting"} =>
          /\ Consistent(job[t].request)
          /\ job[t].client_state = ClientState(job[t].request)

IInv ==
    /\ TypeOK
    /\ PatternsInv
    /\ \A t \in Threads : JobInv(t)

-----------------------------------------------------------------------------
(* The validated client state is a client state.                           *)
LEMMA ClientStateTypes ==
    ASSUME NEW r \in RequestSet
    PROVE  /\ Reported(r) \in KeyStates \cup {Empty}
           /\ Consistent(r) => ClientState(r) \in KeyStates \cup {Empty}
BY DEF Reported, Consistent, ClientState, HasKeyId, RequestSet, Headers

LEMMA InitInv == Init => IInv
<1> SUFFICES ASSUME Init PROVE IInv
  OBVIOUS
<1>1. (CHOOSE r \in Requests : TRUE) \in Requests
  BY WebProcessAssumption
<1>2. job \in [Threads -> Jobs]
  <2>1. \A r \in Requests :
           [pc |-> "ended", request |-> r, client_state |-> Empty,
            default |-> FirstPercentage] \in Jobs
    BY WebProcessAssumption DEF Jobs, PCs
  <2>2. QED
    BY <1>1, <2>1 DEF Init
<1>3. TypeOK
  <2>1. fresh \in 0 .. Lifespan
    BY WebProcessAssumption DEF Init
  <2>2. /\ services \subseteq Services /\ patterns \subseteq Services
        /\ setting \in Percentages \cup {NoSetting}
        /\ loaded \in BOOLEAN /\ percentage \in Percentages
    BY WebProcessAssumption DEF Init
  <2>3. QED
    BY <1>2, <2>1, <2>2 DEF TypeOK
<1>4. PatternsInv
  BY DEF Init, PatternsInv
<1>5. \A t \in Threads : JobInv(t)
  BY DEF Init, JobInv
<1>6. QED
  BY <1>3, <1>4, <1>5 DEF IInv

LEMMA TypeStep == IInv /\ [Next]_vars => TypeOK'
<1> SUFFICES ASSUME IInv, [Next]_vars PROVE TypeOK'
  OBVIOUS
<1> USE DEF tables, dict, cache
<1>1. TypeOK /\ job \in [Threads -> Jobs]
  BY DEF IInv, TypeOK
<1>2. \A t \in Threads :
         /\ job[t].pc \in PCs /\ job[t].request \in Requests
         /\ job[t].client_state \in KeyStates \cup {Empty}
         /\ job[t].default \in Percentages
         /\ job[t] \in Jobs
  BY <1>1 DEF Jobs
<1>3. ASSUME NEW t \in Threads, NEW pc \in PCs, Go(t, pc)
      PROVE  job' \in [Threads -> Jobs]
  <2>1. [job[t] EXCEPT !.pc = pc] \in Jobs
    BY <1>2 DEF Jobs
  <2>2. job' = [job EXCEPT ![t] = [job[t] EXCEPT !.pc = pc]]
    BY <1>1, <1>3 DEF Go
  <2>3. QED
    BY <1>1, <2>1, <2>2
<1>4. CASE Operate \/ Tick \/ UNCHANGED vars
  BY <1>1, <1>4, WebProcessAssumption
     DEF Operate, AddService, ChangeSetting, Tick, TypeOK, vars
<1>5. ASSUME NEW t \in Threads, NEW r \in Requests, Receive(t, r)
      PROVE  TypeOK'
  <2>1. Reported(r) \in KeyStates \cup {Empty}
    BY WebProcessAssumption, ClientStateTypes
  <2> DEFINE j == [job[t] EXCEPT !.pc = "verify", !.request = r,
                                 !.client_state = Reported(r)]
  <2>2. j \in Jobs
    BY <1>2, <2>1 DEF Jobs, PCs
  <2>3. job' \in [Threads -> Jobs]
    <3>1. job' = [job EXCEPT ![t] = j]
      BY <1>1, <1>5 DEF Receive
    <3>2. QED
      BY <1>1, <2>2, <3>1
  <2>4. QED
    BY <1>1, <1>5, <2>3 DEF Receive, TypeOK
<1>6. ASSUME NEW t \in Threads, Accept(t)
      PROVE  TypeOK'
  <2> DEFINE pc == IF loaded' THEN Found(t) ELSE "patterns"
             s == ClientState(job[t].request)
  <2>1. pc \in PCs
    BY DEF Found, PCs
  <2>2. s \in KeyStates \cup {Empty}
    BY <1>2, <1>6, WebProcessAssumption, ClientStateTypes DEF Accept
  <2>3. job' = [job EXCEPT ![t].client_state = s, ![t].pc = pc]
    BY <1>6 DEF Accept
  <2> HIDE DEF pc, s
  <2>4. [job[t] EXCEPT !.client_state = s, !.pc = pc] \in Jobs
    BY <1>2, <2>1, <2>2 DEF Jobs
  <2>5. job' \in [Threads -> Jobs]
    <3>1. job' = [job EXCEPT ![t] = [job[t] EXCEPT !.client_state = s,
                                                   !.pc = pc]]
      BY <1>1, <2>3
    <3>2. QED
      BY <1>1, <2>4, <3>1
  <2>6. QED
    BY <1>1, <1>6, <2>5, WebProcessAssumption DEF Accept, TypeOK
<1>7. ASSUME NEW t \in Threads, LoadPatterns(t)
      PROVE  TypeOK'
  <2>1. Found(t) \in PCs
    BY DEF Found, PCs
  <2>2. job' \in [Threads -> Jobs]
    <3>1. PICK pc \in PCs : Go(t, pc)
      BY <1>7, <2>1 DEF LoadPatterns, Go
    <3>2. QED
      BY <1>3, <3>1
  <2>3. QED
    BY <1>1, <1>7, <2>2 DEF LoadPatterns, TypeOK
<1>8. ASSUME NEW t \in Threads, AllocateUser(t)
      PROVE  TypeOK'
  <2> DEFINE pc == IF fresh > 0 THEN "ended" ELSE "setting"
  <2>1. pc \in PCs /\ percentage \in Percentages
    BY <1>1 DEF PCs, TypeOK
  <2>2. job' = [job EXCEPT ![t].pc = pc, ![t].default = percentage]
    BY <1>8 DEF AllocateUser
  <2> HIDE DEF pc
  <2>3. [job[t] EXCEPT !.pc = pc, !.default = percentage] \in Jobs
    BY <1>2, <2>1 DEF Jobs
  <2>4. job' \in [Threads -> Jobs]
    <3>1. job' = [job EXCEPT ![t] = [job[t] EXCEPT !.pc = pc,
                                                   !.default = percentage]]
      BY <1>1, <2>2
    <3>2. QED
      BY <1>1, <2>3, <3>1
  <2>5. QED
    BY <1>1, <1>8, <2>4 DEF AllocateUser, TypeOK
<1>9. ASSUME NEW t \in Threads, ReadSetting(t)
      PROVE  TypeOK'
  <2>1. job' \in [Threads -> Jobs]
    BY <1>3, <1>9 DEF ReadSetting, PCs
  <2>2. percentage' \in Percentages
    BY <1>1, <1>2, <1>9 DEF ReadSetting, ValueOr, TypeOK
  <2>3. QED
    BY <1>1, <1>9, <2>1, <2>2, WebProcessAssumption DEF ReadSetting, TypeOK
<1>10. ASSUME NEW t \in Threads,
              RejectCredentials(t) \/ Fail(t) \/ ServeKnownUser(t)
                 \/ SettingUnread(t)
       PROVE  TypeOK'
  <2>1. Go(t, "ended") /\ UNCHANGED <<tables, dict, cache>>
    BY <1>10 DEF RejectCredentials, Fail, ServeKnownUser, SettingUnread
  <2>2. QED
    BY <1>1, <1>3, <2>1 DEF PCs, TypeOK
<1>11. QED
  BY <1>4, <1>5, <1>6, <1>7, <1>8, <1>9, <1>10 DEF Next, Proceed

LEMMA PatternsStep == IInv /\ [Next]_vars => PatternsInv'
<1> SUFFICES ASSUME IInv, [Next]_vars PROVE PatternsInv'
  OBVIOUS
<1> USE DEF tables, dict, cache
<1>1. PatternsInv /\ TypeOK
  BY DEF IInv
<1>2. ASSUME NEW t \in Threads, Accept(t)
      PROVE  PatternsInv'
  BY <1>1, <1>2 DEF Accept, PatternsInv, AlwaysThere
<1>3. ASSUME NEW t \in Threads, LoadPatterns(t)
      PROVE  PatternsInv'
  <2>1. Configured = {}
    BY <1>3 DEF LoadPatterns, IInv, JobInv
  <2>2. QED
    BY <1>1, <1>3, <2>1 DEF LoadPatterns, PatternsInv, AlwaysThere
<1>4. CASE UNCHANGED dict /\ services \subseteq services'
  BY <1>1, <1>4 DEF PatternsInv
<1>5. QED
  BY <1>2, <1>3, <1>4
     DEF Next, Operate, AddService, ChangeSetting, Tick, Receive, Proceed,
         RejectCredentials, Fail, ServeKnownUser, AllocateUser, ReadSetting,
         SettingUnread, vars

LEMMA JobStep ==
    ASSUME IInv, [Next]_vars, NEW t \in Threads
    PROVE  JobInv(t)'
<1>1. job \in [Threads -> Jobs] /\ JobInv(t)
  BY DEF IInv, TypeOK
<1>2. PatternsInv'
  BY PatternsStep
<1>3. CASE job'[t] = job[t]
  BY <1>1, <1>3 DEF JobInv
<1>4. ASSUME NEW r \in Requests, Receive(t, r)
      PROVE  JobInv(t)'
  <2>1. job'[t].pc = "verify"
    BY <1>1, <1>4 DEF Receive, Jobs
  <2>2. QED
    BY <2>1 DEF JobInv
<1>5. ASSUME Accept(t) PROVE JobInv(t)'
  <2>1. /\ job'[t].request = job[t].request
        /\ job'[t].client_state = ClientState(job[t].request)
        /\ job'[t].pc = IF loaded' THEN Found(t) ELSE "patterns"
    BY <1>1, <1>5 DEF Accept, Jobs
  <2>2. Consistent(job[t].request)
    BY <1>5 DEF Accept
  <2>3. ~loaded' => Configured = {}
    BY <1>5 DEF Accept
  <2>4. loaded' => AlwaysThere \subseteq patterns'
    BY <1>2 DEF PatternsInv, AlwaysThere
  <2>5. QED
    BY <2>1, <2>2, <2>3, <2>4 DEF JobInv, Found
<1>6. ASSUME LoadPatterns(t) PROVE JobInv(t)'
  <2>1. /\ job'[t].request = job[t].request
        /\ job'[t].client_state = job[t].client_state
        /\ job'[t].pc = Found(t)
    BY <1>1, <1>6 DEF LoadPatterns, Go, Jobs
  <2>2. AlwaysThere \subseteq patterns'
    BY <1>2, <1>6 DEF PatternsInv, AlwaysThere, LoadPatterns
  <2>3. QED
    BY <1>1, <1>6, <2>1, <2>2 DEF JobInv, Found, LoadPatterns
<1>7. ASSUME AllocateUser(t) PROVE JobInv(t)'
  <2>1. /\ job'[t].request = job[t].request
        /\ job'[t].client_state = job[t].client_state
        /\ job'[t].pc \in {"ended", "setting"}
    BY <1>1, <1>7 DEF AllocateUser, Jobs
  <2>2. QED
    BY <1>1, <1>7, <2>1 DEF JobInv, AllocateUser
<1>8. ASSUME Go(t, "ended") PROVE JobInv(t)'
  <2>1. job'[t].pc = "ended"
    BY <1>1, <1>8 DEF Go, Jobs
  <2>2. QED
    BY <2>1 DEF JobInv
<1>9. ASSUME Proceed(t) PROVE JobInv(t)'
  BY <1>5, <1>6, <1>7, <1>8, <1>9
     DEF Proceed, RejectCredentials, Fail, ServeKnownUser, ReadSetting,
         SettingUnread
<1>10. ASSUME NEW u \in Threads, u # t,
              Proceed(u) \/ \E r \in Requests : Receive(u, r)
       PROVE  job'[t] = job[t]
  BY <1>1, <1>10
     DEF Proceed, Receive, RejectCredentials, Accept, LoadPatterns, Fail,
         ServeKnownUser, AllocateUser, ReadSetting, SettingUnread, Go
<1>11. CASE Operate \/ Tick \/ UNCHANGED vars
  BY <1>3, <1>11 DEF Operate, AddService, ChangeSetting, Tick, vars
<1>12. QED
  BY <1>3, <1>4, <1>9, <1>10, <1>11 DEF Next

LEMMA Invariance == Spec => []IInv
<1>1. IInv /\ [Next]_vars => IInv'
  <2>1. ASSUME IInv, [Next]_vars PROVE \A t \in Threads : JobInv(t)'
    BY <2>1, JobStep
  <2>2. QED
    BY <2>1, TypeStep, PatternsStep DEF IInv
<1>2. QED
  BY <1>1, InitInv, PTL DEF Spec

-----------------------------------------------------------------------------
(* The shared patterns and percentage and every request's state keep their *)
(* types.                                                                  *)
THEOREM TypeCorrect == Spec => []TypeOK
<1>1. IInv => TypeOK
  BY DEF IInv
<1>2. QED
  BY <1>1, Invariance, PTL

(* pattern_exists knows every service that was there when the process      *)
(* started, for any number of requests that load the patterns at once.     *)
THEOREM OldServicesFound == Spec => []KnownServiceFound
<1>1. IInv => KnownServiceFound
  BY DEF IInv, JobInv, KnownServiceFound
<1>2. QED
  BY <1>1, Invariance, PTL

(* _validate_oauth_token lets the key id decide what keys a client has.    *)
THEOREM KeyIdsCount == Spec => []KeyIdCounts
<1>1. ASSUME IInv, NEW t \in Threads,
             job[t].pc \in {"patterns", "user", "setting"},
             HasKeyId(job[t].request)
      PROVE  /\ job[t].client_state = job[t].request.key_id
             /\ job[t].request.client_state \in KeyStates =>
                   job[t].request.client_state = job[t].request.key_id
  <2>1. Consistent(job[t].request)
        /\ job[t].client_state = ClientState(job[t].request)
    BY <1>1 DEF IInv, JobInv
  <2>2. QED
    BY <1>1, <2>1, WebProcessAssumption DEF Consistent, ClientState
<1>2. IInv => KeyIdCounts
  BY <1>1 DEF KeyIdCounts
<1>3. QED
  BY <1>2, Invariance, PTL

=============================================================================
