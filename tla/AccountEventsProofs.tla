------------------------ MODULE AccountEventsProofs ------------------------
(***************************************************************************)
(* For any number of consumers and services, any versions, any crashes and *)
(* any order of delivery, while the statements of requests and events on   *)
(* the account's rows take turns: a message that is gone from the queue    *)
(* has had its effect on the service that it was due to reach.             *)
(***************************************************************************)
EXTENDS AccountEvents, OneWorkerProofs

-----------------------------------------------------------------------------
(* The inductive invariant, next to that of the rows (OneWorkerProofs).    *)
(* First what holds however many workers there are.                        *)

(* The account has got to the point where the message is sent.             *)
Sent(m) == IF m = Delete THEN deleted ELSE m.version <= account

(* The consumer has a message that it has not deleted.                     *)
Busy(c) == task[c].pc \notin {"down", "idle"}

SentInv ==
    /\ \A m \in queue : Sent(m)
    /\ \A c \in Consumers : Busy(c) => Sent(task[c].msg)

(* No two consumers have the same worker.                                  *)
TurnInv ==
    \A c, d \in Consumers :
        task[c].worker \cap task[d].worker # {} => c = d

(* What a consumer is at goes with its message, and the worker at its      *)
(* statements runs those for that message.                                 *)
ServeInv(c) ==
    /\ task[c].pc = "retire" => task[c].msg = Delete
    /\ task[c].pc \in {"load", "loop"} => task[c].msg # Delete
    /\ task[c].pc # "serve" => task[c].worker = {}
    /\ task[c].pc = "serve" =>
          \E w \in Workers, v \in 2 .. Len(Versions) :
             /\ task[c].worker = {w}
             /\ task[c].msg = Change(v)
             /\ job[w].pc \notin Resting
             /\ job[w].kind = "event"
             /\ job[w].claims = EventClaims(v)

PipeInv ==
    /\ QueueTypeOK
    /\ SentInv
    /\ TurnInv
    /\ \A c \in Consumers : ServeInv(c)

(* Then what the messages have done, while statements take turns.          *)

(* A message is due only if there is a user, and if every consumer that    *)
(* has loaded its patterns comes to the service.                           *)
DueInv ==
    /\ due # {} => users # {}
    /\ \A m \in due : m = Delete \/ Known

(* The consumer has been at the service, or had no need to.                *)
Passed(c) ==
    \/ task[c].pc = "loop" /\ Service \notin task[c].todo
    \/ task[c].pc = "ack"

(* Then its message has had the effect that it was due to have.            *)
DoneInv(c) ==
    Passed(c) => \A m \in due : m = task[c].msg => Effective(m)

EffectInv ==
    /\ DueInv
    /\ HandledTookEffect
    /\ \A c \in Consumers : DoneInv(c)

-----------------------------------------------------------------------------
(* Messages and tasks. *)
LEMMA MessageTypes ==
    /\ Delete \in Messages
    /\ \A v \in 2 .. Len(Versions) : /\ Change(v) \in Messages
                                     /\ Change(v) # Delete
                                     /\ Change(v).version = v
    /\ \A m \in Messages \ {Delete} : /\ m.version \in 2 .. Len(Versions)
                                      /\ m = Change(m.version)
BY DEF Messages, Change, Delete

LEMMA AtTypes ==
    ASSUME NEW pc \in TaskPCs, NEW m \in Messages
    PROVE  /\ At(pc, m) \in Tasks
           /\ At(pc, m).pc = pc /\ At(pc, m).msg = m
           /\ At(pc, m).todo = {} /\ At(pc, m).worker = {}
BY DEF At, Tasks

LEMMA TaskTypes ==
    ASSUME PipeInv, NEW c \in Consumers
    PROVE  /\ task \in [Consumers -> Tasks] /\ task[c] \in Tasks
           /\ task[c].pc \in TaskPCs /\ task[c].msg \in Messages
           /\ task[c].todo \in SUBSET Services
           /\ task[c].worker \in SUBSET Workers
           /\ patterns \in [Consumers -> SUBSET Services]
           /\ loaded \in [Consumers -> BOOLEAN]
           /\ ServeInv(c)
BY DEF PipeInv, QueueTypeOK, Tasks

-----------------------------------------------------------------------------
(* What a step of a consumer does to its task, and to nobody else's.       *)
ConsumerStep(c) ==
    /\ \E t \in Tasks : task' = [task EXCEPT ![c] = t]
    /\ patterns' \in [Consumers -> SUBSET Services]
    /\ loaded' \in [Consumers -> BOOLEAN]
    /\ crashes' \in 0 .. MaxCrashes
    /\ queue' \subseteq queue
    /\ UNCHANGED <<services, deleted, due, account>>
    /\ \A d \in Consumers \ {c} :
          /\ \A w \in task[d].worker : job'[w] = job[w]
          /\ task'[c].worker \cap task[d].worker = {}
    /\ ServeInv(c)'
    /\ Busy(c)' => Sent(task[c].msg)'

(* A worker that a consumer has is at work on an event.                    *)
LEMMA TakenWorkers ==
    ASSUME PipeInv, NEW c \in Consumers, NEW w \in task[c].worker
    PROVE  /\ w \in Workers
           /\ job[w].kind = "event" /\ job[w].pc \notin Resting
           /\ task[c].pc = "serve" /\ task[c].worker = {w}
           /\ \A d \in Consumers \ {c} : w \notin task[d].worker
BY TaskTypes DEF ServeInv, PipeInv, TurnInv

(* A step that gives the consumer no worker, and disturbs no other.        *)
LEMMA FreeStep ==
    ASSUME IInv, PipeInv, NEW c \in Consumers, NEW t \in Tasks,
           task' = [task EXCEPT ![c] = t],
           patterns' \in [Consumers -> SUBSET Services],
           loaded' \in [Consumers -> BOOLEAN],
           crashes' \in 0 .. MaxCrashes, queue' \subseteq queue,
           UNCHANGED <<services, deleted, due, account>>,
           t.worker = {}, t.pc # "serve",
           t.pc = "retire" => t.msg = Delete,
           t.pc \in {"load", "loop"} => t.msg # Delete,
           t.pc \in {"down", "idle"} \/ Sent(t.msg),
           \A d \in Consumers \ {c} : \A w \in task[d].worker : job'[w] = job[w]
    PROVE  ConsumerStep(c)
<1>1. task'[c] = t
  BY TaskTypes
<1>2. ServeInv(c)'
  BY <1>1 DEF ServeInv
<1>3. Busy(c)' => Sent(task[c].msg)'
  BY <1>1 DEF Busy, Sent
<1>4. QED
  BY <1>1, <1>2, <1>3 DEF ConsumerStep

LEMMA RestFreeStep ==
    ASSUME IInv, PipeInv, NEW c \in Consumers,
           \/ Retire(c) \/ LoadPatterns(c) \/ DeleteMessage(c)
           \/ \E m \in Messages : Poll(c, m)
           \/ PollJunk(c) \/ Restart(c)
           \/ \E s \in Services : PassService(c, s)
    PROVE  ConsumerStep(c)
<1>1. crashes \in 0 .. MaxCrashes /\ services \in SUBSET Services
  BY DEF PipeInv, QueueTypeOK
<1>2. Busy(c) => Sent(task[c].msg)
  BY DEF PipeInv, SentInv
<1>3. ServeInv(c)
  BY TaskTypes
<1>4. CASE Retire(c)
  <2>1. /\ task[c].pc = "retire" /\ Turn(c, "ack")
        /\ UNCHANGED <<services, sender, memory, crashes>>
        /\ RetireUser \/ UNCHANGED vars
    BY <1>4 DEF Retire
  <2>2. job' = job /\ account' = account
    BY <2>1 DEF RetireUser, vars, world
  <2> DEFINE t == [task[c] EXCEPT !.pc = "ack"]
  <2>3. /\ t \in Tasks /\ t.pc = "ack" /\ t.worker = {} /\ t.msg = task[c].msg
        /\ task' = [task EXCEPT ![c] = t]
    BY <1>3, <2>1, TaskTypes DEF Turn, Tasks, TaskPCs, ServeInv
  <2> HIDE DEF t
  <2>4. QED
    BY <1>1, <1>2, <2>1, <2>2, <2>3, TaskTypes, FreeStep
       DEF sender, memory, Busy
<1>5. CASE LoadPatterns(c)
  <2>1. /\ task[c].pc = "load"
        /\ patterns' = [patterns EXCEPT ![c] = IF loaded[c] THEN @ ELSE services]
        /\ loaded' = [loaded EXCEPT ![c] = TRUE]
        /\ task' = [task EXCEPT ![c].pc = "loop", ![c].todo = patterns'[c]]
        /\ UNCHANGED <<vars, services, sender, crashes>>
    BY <1>5 DEF LoadPatterns
  <2>2. /\ patterns' \in [Consumers -> SUBSET Services]
        /\ loaded' \in [Consumers -> BOOLEAN]
        /\ job' = job /\ account' = account
    BY <1>1, <2>1, TaskTypes DEF vars, world
  <2> DEFINE t == [task[c] EXCEPT !.pc = "loop", !.todo = patterns'[c]]
  <2>3. /\ t \in Tasks /\ t.pc = "loop" /\ t.worker = {} /\ t.msg = task[c].msg
        /\ task' = [task EXCEPT ![c] = t]
    BY <1>3, <2>1, <2>2, TaskTypes DEF Tasks, TaskPCs, ServeInv
  <2> HIDE DEF t
  <2>4. QED
    BY <1>1, <1>2, <1>3, <2>1, <2>2, <2>3, FreeStep
       DEF sender, Busy, ServeInv
<1>6. ASSUME NEW s \in Services, PassService(c, s)
      PROVE  ConsumerStep(c)
  <2>1. /\ task[c].pc = "loop"
        /\ task' = [task EXCEPT ![c].todo = @ \ {s}]
        /\ UNCHANGED <<vars, services, sender, memory, crashes>>
    BY <1>6 DEF PassService
  <2> DEFINE t == [task[c] EXCEPT !.todo = @ \ {s}]
  <2>2. /\ t \in Tasks /\ t.pc = "loop" /\ t.worker = {} /\ t.msg = task[c].msg
        /\ task' = [task EXCEPT ![c] = t]
    BY <1>3, <2>1, TaskTypes DEF Tasks, TaskPCs, ServeInv
  <2> HIDE DEF t
  <2>3. QED
    BY <1>1, <1>2, <1>3, <2>1, <2>2, TaskTypes, FreeStep
       DEF sender, memory, vars, world, Busy, ServeInv
<1>7. CASE DeleteMessage(c)
  BY <1>1, <1>7, TaskTypes, MessageTypes, AtTypes, FreeStep
     DEF DeleteMessage, memory, vars, world, TaskPCs
<1>8. ASSUME NEW m \in Messages, Poll(c, m)
      PROVE  ConsumerStep(c)
  <2>1. m \in queue /\ Sent(m)
    BY <1>8 DEF Poll, PipeInv, SentInv
  <2>2. PICK pc \in {"retire", "load"} :
           /\ task' = [task EXCEPT ![c] = At(pc, m)]
           /\ pc = "load" => m # Delete
           /\ pc = "retire" => m = Delete
    <3>1. Begin(c, m)
      BY <1>8 DEF Poll
    <3>2. CASE m = Delete
      BY <3>1, <3>2 DEF Begin
    <3>3. CASE m # Delete
      BY <3>1, <3>3 DEF Begin
    <3>4. QED
      BY <3>2, <3>3
  <2>3. /\ At(pc, m) \in Tasks /\ At(pc, m).pc = pc /\ At(pc, m).msg = m
        /\ At(pc, m).worker = {}
    BY AtTypes DEF TaskPCs
  <2>4. UNCHANGED <<vars, services, sender, memory, crashes>>
    BY <1>8 DEF Poll
  <2> QED
    BY <1>1, <2>1, <2>2, <2>3, <2>4, TaskTypes, FreeStep
       DEF sender, memory, vars, world
<1>9. CASE PollJunk(c)
  BY <1>1, <1>9, TaskTypes, MessageTypes, AtTypes, FreeStep
     DEF PollJunk, Die, sender, vars, world, TaskPCs
<1>10. CASE Restart(c)
  <2>1. /\ task[c].pc = "down"
        /\ task' = [task EXCEPT ![c].pc = "idle"]
        /\ UNCHANGED <<vars, services, sender, memory, crashes>>
    BY <1>10 DEF Restart, Turn
  <2> DEFINE t == [task[c] EXCEPT !.pc = "idle"]
  <2>2. /\ t \in Tasks /\ t.pc = "idle" /\ t.worker = {}
        /\ task' = [task EXCEPT ![c] = t]
    BY <1>3, <2>1, TaskTypes DEF Tasks, TaskPCs, ServeInv
  <2> HIDE DEF t
  <2>3. QED
    BY <1>1, <2>1, <2>2, TaskTypes, FreeStep DEF sender, memory, vars, world
<1>11. QED
  BY <1>4, <1>5, <1>6, <1>7, <1>8, <1>9, <1>10

(* The consumer hands the service to a worker. *)
LEMMA EnterStep ==
    ASSUME IInv, PipeInv, NEW c \in Consumers, NEW w \in Workers,
           EnterService(c, w)
    PROVE  ConsumerStep(c) /\ ReceiveEvent(w) /\ ~Passed(c)'
<1>1. /\ task[c].pc = "loop"
      /\ StartEvent(w, task[c].msg.version)
      /\ task' = [task EXCEPT ![c].pc = "serve", ![c].todo = @ \ {Service},
                              ![c].worker = {w}]
      /\ UNCHANGED <<services, sender, memory, crashes>>
  BY DEF EnterService
<1>2. PICK v \in 2 .. Len(Versions) :
         task[c].msg = Change(v) /\ task[c].msg.version = v /\ v <= account
  <2>1. task[c].msg \in Messages \ {Delete} /\ Sent(task[c].msg)
    BY <1>1, TaskTypes DEF ServeInv, PipeInv, SentInv, Busy
  <2>2. QED
    BY <2>1, MessageTypes DEF Sent
<1>3. ReceiveEvent(w)
  BY <1>1, <1>2 DEF ReceiveEvent, IInv, TypeOK
<1>4. /\ job[w].pc \in Resting /\ Start(w, "event", EventClaims(v))
      /\ UNCHANGED <<table, nodeTable, world, floor>>
  BY <1>1, <1>2 DEF StartEvent
<1>5. /\ \A u \in Workers \ {w} : job'[u] = job[u]
      /\ job'[w].pc = "select" /\ job'[w].kind = "event"
      /\ job'[w].claims = EventClaims(v)
  BY <1>4 DEF Start, IInv, TypeOK
<1>6. \A d \in Consumers : w \notin task[d].worker
  BY <1>4, TakenWorkers
<1> DEFINE t == [task[c] EXCEPT !.pc = "serve", !.todo = @ \ {Service},
                                !.worker = {w}]
<1>7. /\ t \in Tasks /\ t.pc = "serve" /\ t.worker = {w} /\ t.msg = Change(v)
      /\ task' = [task EXCEPT ![c] = t]
  BY <1>1, <1>2, TaskTypes DEF Tasks, TaskPCs
<1> HIDE DEF t
<1>8. task'[c] = t
  BY <1>7, TaskTypes
<1>9. ServeInv(c)'
  BY <1>5, <1>7, <1>8 DEF ServeInv, Resting
<1>10. Busy(c)' => Sent(task[c].msg)'
  BY <1>2, <1>4, <1>7, <1>8, MessageTypes DEF Sent, world
<1>11. /\ \A d \in Consumers : task[d].worker \in SUBSET Workers
       /\ crashes \in 0 .. MaxCrashes
  BY TaskTypes DEF PipeInv, QueueTypeOK
<1>12. ConsumerStep(c)
  <2>1. \A d \in Consumers \ {c} :
           /\ \A u \in task[d].worker : job'[u] = job[u]
           /\ task'[c].worker \cap task[d].worker = {}
    BY <1>5, <1>6, <1>7, <1>8, <1>11
  <2>2. /\ patterns' = patterns /\ loaded' = loaded /\ crashes' = crashes
        /\ queue' = queue
        /\ UNCHANGED <<services, deleted, due, account>>
    BY <1>1, <1>4 DEF sender, memory, world
  <2>3. QED
    BY <1>7, <1>9, <1>10, <1>11, <2>1, <2>2, TaskTypes DEF ConsumerStep
<1>13. ~Passed(c)'
  BY <1>7, <1>8 DEF Passed
<1>14. QED
  BY <1>3, <1>12, <1>13

(* A statement of a worker on an event, or its death.                      *)
LEMMA ServedJob ==
    ASSUME IInv, NEW w \in Workers, job[w].kind = "event",
           EventStatement(w) \/ Crash(w)
    PROVE  /\ Step(w)
           /\ \A u \in Workers \ {w} : job'[u] = job[u]
           /\ UNCHANGED account
           /\ \/ job'[w].pc \in {"idle", "error"}
              \/ /\ job'[w].pc \notin Resting
                 /\ job'[w].kind = "event"
                 /\ job'[w].claims = job[w].claims
<1>1. Step(w)
  BY DEF EventStatement, Step
<1>2. PICK j \in Jobs : job' = [job EXCEPT ![w] = j] /\ UNCHANGED account
  BY <1>1, WorkerStep DEF GoodStep, world
<1>3. \A u \in Workers \ {w} : job'[u] = job[u]
  BY <1>2 DEF IInv, TypeOK
<1>4. ASSUME NEW pc, pc \notin Resting, NEW user, NEW stale, NEW since,
             NEW stamp, Go(w, pc, user, stale, since, stamp)
      PROVE  /\ job'[w].pc \notin Resting
             /\ job'[w].kind = "event"
             /\ job'[w].claims = job[w].claims
  BY <1>4, GoIs
<1>5. ASSUME NEW pc \in {"idle", "error"}, End(w, pc)
      PROVE  job'[w].pc \in {"idle", "error"}
  BY <1>5 DEF End, Ended, IInv, TypeOK
<1>6. \A stale : AfterRead(stale) \notin Resting
  BY DEF AfterRead, Resting
<1>7. CASE SelectRecords(w)
  BY <1>1, <1>2, <1>3, <1>4, <1>6, <1>7 DEF SelectRecords, Resting
<1>8. CASE SelectNothing(w)
  BY <1>1, <1>2, <1>3, <1>5, <1>8 DEF SelectNothing
<1>9. CASE MarkOld(w)
  BY <1>1, <1>2, <1>3, <1>4, <1>6, <1>9 DEF MarkOld
<1>10. CASE BestNode(w)
  BY <1>1, <1>2, <1>3, <1>4, <1>5, <1>10 DEF BestNode, Resting
<1>11. CASE InsertAllocated(w)
  BY <1>1, <1>2, <1>3, <1>4, <1>6, <1>11 DEF InsertAllocated
<1>12. CASE BumpGeneration(w) \/ Crash(w)
  BY <1>1, <1>2, <1>3, <1>5, <1>12 DEF BumpGeneration, Crash
<1>13. QED
  BY <1>7, <1>8, <1>9, <1>10, <1>11, <1>12 DEF EventStatement

LEMMA ServeStep ==
    ASSUME IInv, PipeInv, NEW c \in Consumers, ServeEvent(c)
    PROVE  /\ ConsumerStep(c)
           /\ \E w \in task[c].worker :
                 /\ EventStatement(w)
                 /\ Step(w)
                 /\ job[w].kind = "event"
                 /\ Passed(c)' => /\ job'[w].pc = "idle"
                                  /\ task'[c].msg = task[c].msg
<1>1. PICK w \in task[c].worker :
         /\ EventStatement(w)
         /\ CASE job'[w].pc = "idle" ->
                    /\ task' = [task EXCEPT ![c].pc = "loop", ![c].worker = {}]
                    /\ UNCHANGED memory
              [] job'[w].pc = "error" -> Die(c)
              [] OTHER -> UNCHANGED <<task, memory>>
  BY DEF ServeEvent
<1>2. /\ w \in Workers /\ job[w].kind = "event"
      /\ task[c].pc = "serve" /\ task[c].worker = {w}
      /\ \A d \in Consumers \ {c} : w \notin task[d].worker
  BY TakenWorkers
<1>3. PICK v \in 2 .. Len(Versions) :
         task[c].msg = Change(v) /\ job[w].claims = EventClaims(v)
  BY <1>2, TaskTypes DEF ServeInv
<1>4. /\ Step(w)
      /\ \A u \in Workers \ {w} : job'[u] = job[u]
      /\ UNCHANGED account
      /\ \/ job'[w].pc \in {"idle", "error"}
         \/ /\ job'[w].pc \notin Resting
            /\ job'[w].kind = "event"
            /\ job'[w].claims = job[w].claims
  BY <1>1, <1>2, ServedJob
<1>5. \A d \in Consumers \ {c} : /\ task[d].worker \in SUBSET Workers
                                 /\ \A u \in task[d].worker : job'[u] = job[u]
  BY <1>2, <1>4, TaskTypes
<1>6. /\ UNCHANGED <<services, deleted, due>> /\ queue' \subseteq queue
      /\ crashes' \in 0 .. MaxCrashes
  BY DEF ServeEvent, sender, PipeInv, QueueTypeOK
<1>7. Sent(task[c].msg) /\ task[c].msg # Delete
  BY <1>2, <1>3, MessageTypes DEF PipeInv, SentInv, Busy
<1>8. CASE job'[w].pc = "idle"
  <2>1. /\ task' = [task EXCEPT ![c].pc = "loop", ![c].worker = {}]
        /\ UNCHANGED memory
    BY <1>1, <1>8
  <2> DEFINE t == [task[c] EXCEPT !.pc = "loop", !.worker = {}]
  <2>2. /\ t \in Tasks /\ t.pc = "loop" /\ t.worker = {} /\ t.msg = task[c].msg
        /\ task' = [task EXCEPT ![c] = t]
    BY <2>1, TaskTypes DEF Tasks, TaskPCs
  <2> HIDE DEF t
  <2>3. task'[c].msg = task[c].msg
    BY <2>2, TaskTypes
  <2>4. ConsumerStep(c)
    BY <1>4, <1>5, <1>6, <1>7, <2>1, <2>2, TaskTypes, FreeStep DEF memory
  <2>5. QED
    BY <1>1, <1>2, <1>4, <1>8, <2>3, <2>4
<1>9. CASE job'[w].pc = "error"
  <2>1. Die(c)
    BY <1>1, <1>9
  <2>2. ConsumerStep(c)
    <3>1. /\ task' = [task EXCEPT ![c] = At("down", Delete)]
          /\ patterns' \in [Consumers -> SUBSET Services]
          /\ loaded' \in [Consumers -> BOOLEAN]
      BY <2>1, TaskTypes DEF Die
    <3>2. /\ At("down", Delete) \in Tasks /\ At("down", Delete).pc = "down"
          /\ At("down", Delete).worker = {}
      BY MessageTypes, AtTypes DEF TaskPCs
    <3>3. QED
      BY <1>4, <1>5, <1>6, <3>1, <3>2, FreeStep
  <2>3. ~Passed(c)'
    BY <2>1, TaskTypes, MessageTypes, AtTypes DEF Die, TaskPCs, Passed
  <2>4. QED
    BY <1>1, <1>2, <1>4, <2>2, <2>3
<1>10. CASE job'[w].pc \notin {"idle", "error"}
  <2>1. UNCHANGED <<task, memory>>
    BY <1>1, <1>10
  <2>2. /\ job'[w].pc \notin Resting /\ job'[w].kind = "event"
        /\ job'[w].claims = EventClaims(v)
    BY <1>3, <1>4, <1>10
  <2>3. ServeInv(c)'
    BY <1>2, <1>3, <2>1, <2>2 DEF ServeInv
  <2>4. Busy(c)' => Sent(task[c].msg)'
    BY <1>4, <1>6, <1>7, <2>1 DEF Sent
  <2>5. task' = [task EXCEPT ![c] = task[c]]
    BY <2>1, TaskTypes
  <2>6. \A d \in Consumers \ {c} : task'[c].worker \cap task[d].worker = {}
    BY <1>2, <2>1
  <2>7. ConsumerStep(c)
    BY <1>4, <1>5, <1>6, <2>1, <2>3, <2>4, <2>5, <2>6, TaskTypes
       DEF ConsumerStep, memory
  <2>8. ~Passed(c)'
    BY <1>2, <2>1 DEF Passed
  <2>9. QED
    BY <1>1, <1>2, <1>4, <2>7, <2>8
<1>11. QED
  BY <1>8, <1>9, <1>10

LEMMA FailStep ==
    ASSUME IInv, PipeInv, NEW c \in Consumers, Fail(c)
    PROVE  /\ ConsumerStep(c)
           /\ ~Passed(c)'
           /\ UNCHANGED vars \/ \E w \in Workers : Step(w)
<1>1. /\ crashes < MaxCrashes /\ crashes' = crashes + 1
      /\ Abandon(c) /\ Die(c)
      /\ UNCHANGED <<services, sender>>
  BY DEF Fail
<1>2. crashes' \in 0 .. MaxCrashes
  BY <1>1, QueueAssumption DEF PipeInv, QueueTypeOK
<1>3. ~Passed(c)'
  BY <1>1, TaskTypes, MessageTypes, AtTypes DEF Die, TaskPCs, Passed
<1>4. CASE UNCHANGED vars
  <2>1. ConsumerStep(c)
    BY <1>1, <1>2, <1>4, TaskTypes, MessageTypes, AtTypes, FreeStep
       DEF Die, TaskPCs, sender, vars, world
  <2>2. QED
    BY <1>3, <1>4, <2>1
<1>5. ASSUME NEW w \in task[c].worker, Crash(w)
      PROVE  ConsumerStep(c) /\ w \in Workers /\ Step(w)
  <2>1. /\ w \in Workers /\ job[w].kind = "event"
        /\ \A d \in Consumers \ {c} : w \notin task[d].worker
    BY TakenWorkers
  <2>2. /\ Step(w) /\ UNCHANGED account
        /\ \A u \in Workers \ {w} : job'[u] = job[u]
    BY <1>5, <2>1, ServedJob
  <2>3. \A d \in Consumers \ {c} : \A u \in task[d].worker : job'[u] = job[u]
    BY <2>1, <2>2, TaskTypes
  <2>4. ConsumerStep(c)
    BY <1>1, <1>2, <2>2, <2>3, TaskTypes, MessageTypes, AtTypes, FreeStep
       DEF Die, TaskPCs, sender
  <2>5. QED
    BY <2>1, <2>2, <2>4
<1>6. QED
  BY <1>1, <1>3, <1>4, <1>5 DEF Abandon

(* Every step of a consumer is a step on the rows, or leaves them alone.   *)
LEMMA ConsumeStep ==
    ASSUME IInv, PipeInv, NEW c \in Consumers, Consume(c)
    PROVE  ConsumerStep(c) /\ [Next]_vars
<1>1. CASE \/ Retire(c) \/ LoadPatterns(c) \/ DeleteMessage(c)
           \/ \E m \in Messages : Poll(c, m)
           \/ PollJunk(c) \/ Restart(c)
           \/ \E s \in Services : PassService(c, s)
  <2>1. RetireUser \/ UNCHANGED vars
    BY <1>1 DEF Retire, LoadPatterns, DeleteMessage, Poll, PollJunk, Restart,
                PassService
  <2>2. QED
    BY <1>1, <2>1, RestFreeStep DEF Next, Environment
<1>2. ASSUME NEW w \in Workers, EnterService(c, w)
      PROVE  ConsumerStep(c) /\ [Next]_vars
  BY <1>2, EnterStep DEF Next, Step
<1>3. CASE ServeEvent(c)
  <2>1. ConsumerStep(c) /\ \E w \in task[c].worker : Step(w)
    BY <1>3, ServeStep
  <2>2. QED
    BY <2>1, TaskTypes DEF Next
<1>4. CASE Fail(c)
  BY <1>4, FailStep DEF Next
<1>5. QED
  BY <1>1, <1>2, <1>3, <1>4 DEF Consume, Process

(* The others change no task, take no worker from a consumer, and send     *)
(* only messages that have not been sent.                                  *)
OutsideStep ==
    /\ UNCHANGED <<consumers>>
    /\ services \subseteq services' /\ services' \in SUBSET Services
    /\ account <= account' /\ (deleted => deleted') /\ deleted' \in BOOLEAN
    /\ \A c \in Consumers : \A w \in task[c].worker : job'[w] = job[w]
    /\ \/ UNCHANGED <<queue, due>>
       \/ \E m \in Messages : /\ Send(m)
                              /\ ~Sent(m) /\ Sent(m)'

LEMMA OutsideSteps ==
    ASSUME IInv, PipeInv, Outside
    PROVE  OutsideStep /\ [Next]_vars
<1>1. /\ services \in SUBSET Services /\ deleted \in BOOLEAN
      /\ account \in 1 .. Len(Versions) /\ account <= account
      /\ Versions \in Seq(VersionSet)
  BY VersionsAssumption DEF PipeInv, QueueTypeOK, IInv, TypeOK
<1>2. ASSUME NEW s \in Services, AddService(s)
      PROVE  OutsideStep /\ [Next]_vars
  BY <1>1, <1>2 DEF AddService, OutsideStep, vars, world, sender, consumers
<1>3. ASSUME NEW w \in Workers, RequestStep(w)
      PROVE  OutsideStep /\ [Next]_vars
  <2>1. /\ Step(w) /\ job[w].kind # "event"
        /\ UNCHANGED <<services, sender, consumers>>
    BY <1>3 DEF RequestStep
  <2>2. PICK j \in Jobs : job' = [job EXCEPT ![w] = j] /\ UNCHANGED account
    BY <2>1, WorkerStep DEF GoodStep, world
  <2>3. \A c \in Consumers : \A u \in task[c].worker : job'[u] = job[u]
    <3>1. \A c \in Consumers : \A u \in task[c].worker : u \in Workers /\ u # w
      BY <2>1, TakenWorkers
    <3>2. QED
      BY <2>2, <3>1 DEF IInv, TypeOK
  <2>4. QED
    BY <1>1, <2>1, <2>2, <2>3 DEF OutsideStep, sender, Next
<1>4. CASE OtherStep
  <2>1. /\ Environment /\ job' = job /\ account' = account
        /\ UNCHANGED <<services, sender, consumers>>
    BY <1>4 DEF OtherStep, Environment, Tick, UnassignNode, DeleteNode,
                UnassignRemoved, world
  <2>2. QED
    BY <1>1, <2>1 DEF OutsideStep, sender, Next
<1>5. CASE ChangeAndTell
  <2>1. /\ account < Len(Versions) /\ account' = account + 1 /\ job' = job
        /\ Send(Change(account + 1)) /\ ChangeAccount
        /\ UNCHANGED <<services, deleted, consumers>>
    BY <1>5 DEF ChangeAndTell, ChangeAccount
  <2>2. PICK v \in 2 .. Len(Versions) : v = account + 1
    BY <1>1, <2>1
  <2>3. ~Sent(Change(v)) /\ Sent(Change(v))' /\ Change(v) \in Messages
    BY <1>1, <2>1, <2>2, MessageTypes DEF Sent
  <2>4. QED
    BY <1>1, <2>1, <2>2, <2>3 DEF OutsideStep, Next, Environment
<1>6. CASE DeleteAccount
  <2>1. /\ ~deleted /\ deleted' /\ deleted' \in BOOLEAN /\ Send(Delete)
        /\ UNCHANGED <<vars, services, consumers>>
    BY <1>6 DEF DeleteAccount
  <2>2. ~Sent(Delete) /\ Sent(Delete)' /\ Delete \in Messages
    BY <2>1, MessageTypes DEF Sent
  <2>3. QED
    BY <1>1, <2>1, <2>2 DEF OutsideStep, vars, world
<1>7. QED
  BY <1>2, <1>3, <1>4, <1>5, <1>6 DEF Outside

LEMMA ConsumerKeepsPipe ==
    ASSUME IInv, PipeInv, NEW c \in Consumers, ConsumerStep(c)
    PROVE  PipeInv'
<1>1. PICK t \in Tasks : task' = [task EXCEPT ![c] = t]
  BY DEF ConsumerStep
<1>2. /\ task' \in [Consumers -> Tasks]
      /\ \A d \in Consumers \ {c} : task'[d] = task[d]
  BY <1>1, TaskTypes
<1>3. /\ UNCHANGED <<services, deleted, due, account>> /\ queue' \subseteq queue
      /\ ServeInv(c)' /\ (Busy(c)' => Sent(task[c].msg)')
      /\ \A d \in Consumers \ {c} :
            /\ \A w \in task[d].worker : job'[w] = job[w]
            /\ task'[c].worker \cap task[d].worker = {}
  BY DEF ConsumerStep
<1>4. QueueTypeOK'
  BY <1>2, <1>3 DEF ConsumerStep, PipeInv, QueueTypeOK
<1>5. SentInv'
  <2>1. ASSUME NEW d \in Consumers \ {c}
        PROVE  Busy(d)' => Sent(task[d].msg)'
    BY <1>2, <1>3 DEF PipeInv, SentInv, Busy, Sent
  <2>2. \A m \in queue' : Sent(m)'
    BY <1>3 DEF PipeInv, SentInv, Sent
  <2>3. QED
    BY <1>3, <2>1, <2>2 DEF SentInv
<1>6. TurnInv'
  BY <1>2, <1>3 DEF PipeInv, TurnInv
<1>7. ASSUME NEW d \in Consumers \ {c}
      PROVE  ServeInv(d)'
  BY <1>2, <1>3, TaskTypes DEF ServeInv
<1>8. QED
  BY <1>3, <1>4, <1>5, <1>6, <1>7 DEF PipeInv

LEMMA OutsideKeepsPipe ==
    ASSUME IInv, IInv', PipeInv, OutsideStep
    PROVE  PipeInv'
<1>1. /\ task' = task /\ patterns' = patterns /\ loaded' = loaded
      /\ crashes' = crashes
      /\ services' \in SUBSET Services /\ deleted' \in BOOLEAN
      /\ account <= account' /\ (deleted => deleted')
      /\ \A c \in Consumers : \A w \in task[c].worker : job'[w] = job[w]
  BY DEF OutsideStep, consumers, memory
<1>2. \/ UNCHANGED <<queue, due>>
      \/ \E m \in Messages : /\ queue' = queue \cup {m}
                             /\ due' \subseteq due \cup {m}
                             /\ Sent(m)'
  BY DEF OutsideStep, Send
<1>3. QueueTypeOK'
  BY <1>1, <1>2 DEF PipeInv, QueueTypeOK
<1>4. ASSUME NEW m \in Messages, Sent(m)
      PROVE  Sent(m)'
  <2>1. account \in Int /\ account' \in Int
    BY VersionsAssumption DEF IInv, TypeOK
  <2>2. CASE m = Delete
    BY <1>1, <1>4, <2>2 DEF Sent
  <2>3. CASE m # Delete
    <3>1. m.version \in Int
      BY <2>3, MessageTypes
    <3>2. QED
      BY <1>1, <1>4, <2>1, <2>3, <3>1 DEF Sent
  <2>4. QED
    BY <2>2, <2>3
<1>5. SentInv'
  BY <1>1, <1>2, <1>4, TaskTypes DEF PipeInv, SentInv, QueueTypeOK, Busy
<1>6. TurnInv'
  BY <1>1 DEF PipeInv, TurnInv
<1>7. ASSUME NEW c \in Consumers
      PROVE  ServeInv(c)'
  BY <1>1, TaskTypes DEF ServeInv
<1>8. QED
  BY <1>3, <1>5, <1>6, <1>7 DEF PipeInv

LEMMA PipeInit == EventsInit => PipeInv
<1> SUFFICES ASSUME EventsInit PROVE PipeInv
  OBVIOUS
<1>1. /\ services = FirstServices /\ deleted = FALSE
      /\ queue = {} /\ due = {} /\ crashes = 0
      /\ patterns = [c \in Consumers |-> {}]
      /\ loaded = [c \in Consumers |-> FALSE]
      /\ task = [c \in Consumers |-> At("idle", Delete)]
  BY DEF EventsInit
<1>2. /\ At("idle", Delete) \in Tasks /\ At("idle", Delete).pc = "idle"
      /\ At("idle", Delete).worker = {}
  BY MessageTypes, AtTypes DEF TaskPCs
<1>3. QueueTypeOK
  <2>1. task \in [Consumers -> Tasks] /\ crashes \in 0 .. MaxCrashes
    BY <1>1, <1>2, QueueAssumption
  <2>2. QED
    BY <1>1, <2>1, QueueAssumption DEF QueueTypeOK
<1>4. SentInv /\ TurnInv /\ \A c \in Consumers : ServeInv(c)
  BY <1>1, <1>2 DEF SentInv, TurnInv, ServeInv, Busy
<1>5. QED
  BY <1>3, <1>4 DEF PipeInv

(* A consumer's statements, like everybody's, are those of TokenRequests,  *)
(* and it announces no version that the account has not got to.            *)
LEMMA PipeNext ==
    ASSUME IInv, PipeInv, [EventsNext]_allVars
    PROVE  IInv' /\ PipeInv' /\ [Next]_vars
<1>1. CASE Outside
  BY <1>1, OutsideSteps, OutsideKeepsPipe, NextInv
<1>2. ASSUME NEW c \in Consumers, Consume(c)
      PROVE  IInv' /\ PipeInv' /\ [Next]_vars
  BY <1>2, ConsumeStep, ConsumerKeepsPipe, NextInv
<1>3. CASE UNCHANGED allVars
  <2>1. /\ UNCHANGED vars
        /\ UNCHANGED <<services, deleted, queue, due, patterns, loaded, task,
                       crashes, account, job>>
    BY <1>3 DEF allVars, sender, consumers, memory, vars, world
  <2>2. PipeInv'
    BY <2>1 DEF PipeInv, QueueTypeOK, SentInv, Busy, Sent, TurnInv, ServeInv
  <2>3. QED
    BY <2>1, <2>2, NextInv
<1>4. QED
  BY <1>1, <1>2, <1>3 DEF EventsNext

LEMMA PipeInvariance == EventsSpec => [](IInv /\ PipeInv)
<1>1. EventsInit => IInv /\ PipeInv
  BY PipeInit, InitInv DEF EventsInit
<1>2. IInv /\ PipeInv /\ [EventsNext]_allVars => (IInv /\ PipeInv)'
  BY PipeNext
<1>3. QED
  BY <1>1, <1>2, PTL DEF EventsSpec

(* What the theorems about TokenRequests say of every history of the rows  *)
(* they say of one in which a queue delivers the events: its consumers add *)
(* no step to those of workers and operators, whichever messages they      *)
(* deliver again, late, out of order, or to several of them.               *)
THEOREM QueueDeliversEvents == EventsSpec => Spec
<1>1. EventsInit => Init
  BY DEF EventsInit
<1>2. IInv /\ PipeInv /\ [EventsNext]_allVars => [Next]_vars
  BY PipeNext
<1>3. QED
  BY <1>1, <1>2, PipeInvariance, PTL DEF EventsSpec, Spec

(* Every variable of the queue and its consumers keeps its type.           *)
THEOREM QueueTypes == EventsSpec => []QueueTypeOK
<1>1. PipeInv => QueueTypeOK
  BY DEF PipeInv
<1>2. QED
  BY <1>1, PipeInvariance, PTL

-----------------------------------------------------------------------------
(* The effect of a message on the rows, while statements take turns.       *)

(* The current row of a table that is not empty, as CurrentFacts has it.   *)
TombstoneFirst ==
    users # {} => /\ Current.generation \in Nat
                  /\ Deleted => Retired(Current)

LEMMA LaterFacts ==
    ASSUME Serial
    PROVE  (IInv /\ SerialInv)' => TombstoneFirst'
<1>1. IInv /\ SerialInv => TombstoneFirst
  BY CurrentFacts DEF SerialInv, TombstoneFirst
<1>2. QED
  BY <1>1, PTL

(* What an event is written as is below a tombstone.                       *)
LEMMA EventGeneration ==
    ASSUME NEW m \in Messages \ {Delete}
    PROVE  /\ EventClaims(m.version).generation \in Nat
           /\ EventClaims(m.version).generation < MAX_GENERATION
<1>1. m.version \in 2 .. Len(Versions)
  BY MessageTypes
<1>2. Versions[m.version] \in VersionSet
  BY <1>1, VersionsAssumption
<1>3. QED
  BY <1>2, SomeGenerations DEF EventClaims, NoClaims, VersionSet

(* The current generation never goes back, and a tombstone stays, so that  *)
(* an effect lasts.                                                        *)
LEMMA EffectLasts ==
    ASSUME Serial, IInv, SerialInv, IInv', SerialInv', TableKept, TableStep,
           NEW m \in Messages, Effective(m)
    PROVE  Effective(m)'
<1>1. users # {} /\ users' # {} /\ (Deleted => Deleted')
  BY DeletedStays DEF Effective
<1>2. /\ Current \in users /\ Current.generation \in Nat
      /\ Current'.generation \in Nat /\ (Deleted' => Retired(Current'))
  BY <1>1, CurrentFacts, LaterFacts DEF SerialInv, TombstoneFirst
<1>3. CASE Deleted'
  <2>1. Retired(Current')
    BY <1>2, <1>3
  <2>2. CASE m = Delete
    BY <1>1, <2>1, <2>2 DEF Effective, Current
  <2>3. CASE m # Delete
    <3>1. Current'.generation >= EventClaims(m.version).generation
      BY <1>2, <2>1, <2>3, EventGeneration, SomeGenerations DEF Retired
    <3>2. QED
      BY <1>1, <2>3, <3>1 DEF Effective, Current
  <2>4. QED
    BY <2>2, <2>3
<1>4. CASE ~Deleted'
  <2>1. m # Delete
    BY <1>1, <1>2, <1>4 DEF Effective, Current, Deleted
  <2>2. Current'.generation >= Current.generation
    BY <1>1, <1>4 DEF TableKept, CurrentMoves, Live
  <2>3. Current.generation >= EventClaims(m.version).generation
    BY <2>1 DEF Effective, Current
  <2>4. Current'.generation >= EventClaims(m.version).generation
    BY <1>2, <2>1, <2>2, <2>3, EventGeneration
  <2>5. QED
    BY <1>1, <2>1, <2>4 DEF Effective, Current
<1>5. QED
  BY <1>3, <1>4

(* The optimistic statement reaches the current row, if the account is in  *)
(* use: it is the only active one when a worker has got to its check.      *)
LEMMA BumpHasEffect ==
    ASSUME Serial, IInv, SerialInv, IInv', SerialInv', TableStep,
           NEW w \in Workers, BumpGeneration(w), NEW v \in 2 .. Len(Versions),
           job[w].claims = EventClaims(v)
    PROVE  Effective(Change(v))'
<1> DEFINE generation == job[w].claims.generation
<1>1. /\ job[w].pc = "check" /\ nextUid' = nextUid
      /\ users' = UpdateUserRecordInPlace(users, generation, NULL)
  BY DEF BumpGeneration, Checking
<1>2. /\ generation \in Generations /\ generation \in Nat
      /\ generation < MAX_GENERATION
      /\ generation = EventClaims(v).generation
  BY JobTypes, WorkerFacts DEF Claims, ClaimsInv
<1> HIDE DEF generation
<1>3. users # {} /\ users' # {} /\ (Deleted => Deleted')
  BY <1>1, CheckingSerial, DeletedStays
<1>4. Current'.generation >= generation
  <2>1. Current'.generation \in Nat /\ (Deleted' => Retired(Current'))
    BY <1>3, LaterFacts DEF TombstoneFirst
  <2>2. CASE Deleted
    BY <1>2, <1>3, <2>1, <2>2, SomeGenerations DEF Retired
  <2>3. CASE ~Deleted
    <3>1. PICK none \in Generations \cup {NULL} : none = NULL
      OBVIOUS
    <3>2. users' = UpdateUserRecordInPlace(users, generation, none)
      BY <1>1, <3>1
    <3>3. Current'.generation = Max2(Current.generation, generation)
      BY <1>1, <1>2, <2>3, <3>1, <3>2, InPlaceMoves
    <3>4. Current.generation \in Nat
      BY <1>3, CurrentFacts DEF SerialInv
    <3>5. QED
      BY <1>2, <3>3, <3>4 DEF Max2
  <2>4. QED
    BY <2>2, <2>3
<1>5. Change(v) # Delete /\ Change(v).version = v
  BY MessageTypes
<1>6. QED
  BY <1>2, <1>3, <1>4, <1>5 DEF Effective, Current

LEMMA RetireHasEffect ==
    ASSUME Serial, IInv, IInv', SerialInv', TableStep, RetireUser
    PROVE  Effective(Delete)'
<1>1. users' # {} /\ floor'.generation = MAX_GENERATION
  BY DeletedStays DEF RetireUser, IInv, TypeOK
<1>2. Deleted'
  BY <1>1, SomeGenerations DEF SerialInv, FloorInv
<1>3. Retired(Current')
  BY <1>1, <1>2, LaterFacts DEF TombstoneFirst
<1>4. QED
  BY <1>1, <1>3 DEF Effective, Current

-----------------------------------------------------------------------------
(* Each kind of step keeps what the messages have done.                    *)

Lasting == \A m \in Messages : Effective(m) => Effective(m)'

LEMMA OutsideKeepsEffects ==
    ASSUME PipeInv, EffectInv, Lasting, users # {} => users' # {}, OutsideStep
    PROVE  EffectInv'
<1>1. /\ task' = task /\ patterns' = patterns /\ loaded' = loaded
      /\ services \subseteq services'
  BY DEF OutsideStep, consumers, memory
<1>2. PICK new \in SUBSET Messages :
         /\ queue' = queue \cup new /\ due' \subseteq due \cup new
         /\ \A m \in new : ~Sent(m)
         /\ \A m \in due' \ due : Reaches(m)
  <2>1. CASE UNCHANGED <<queue, due>>
    <3>1. /\ {} \in SUBSET Messages
          /\ queue' = queue \cup {} /\ due' \subseteq due \cup {}
      BY <2>1
    <3>2. QED
      BY <2>1, <3>1
  <2>2. ASSUME NEW m \in Messages, Send(m), ~Sent(m)
        PROVE  \E new \in SUBSET Messages :
                  /\ queue' = queue \cup new /\ due' \subseteq due \cup new
                  /\ \A n \in new : ~Sent(n)
                  /\ \A n \in due' \ due : Reaches(n)
    <3>1. /\ {m} \in SUBSET Messages
          /\ queue' = queue \cup {m} /\ due' \subseteq due \cup {m}
          /\ \A n \in due' \ due : Reaches(n)
      BY <2>2 DEF Send
    <3>2. QED
      BY <2>2, <3>1
  <2>3. QED
    BY <2>1, <2>2 DEF OutsideStep
<1>3. Known => Known'
  BY <1>1 DEF Known
<1>4. DueInv'
  BY <1>2, <1>3 DEF EffectInv, DueInv, Reaches
<1>5. HandledTookEffect'
  <2>1. \A m \in due' \ queue' : m \in due \ queue
    BY <1>2
  <2>2. QED
    BY <2>1 DEF EffectInv, HandledTookEffect, Lasting, PipeInv, QueueTypeOK
<1>6. ASSUME NEW c \in Consumers
      PROVE  DoneInv(c)'
  <2> SUFFICES ASSUME Passed(c), NEW m \in due', m = task[c].msg
               PROVE  Effective(m)'
    BY <1>1 DEF DoneInv, Passed
  <2>1. Sent(m)
    BY DEF Passed, PipeInv, SentInv, Busy
  <2>2. m \in due
    BY <1>2, <2>1
  <2>3. QED
    BY <2>2 DEF EffectInv, DoneInv, Lasting, PipeInv, QueueTypeOK
<1>7. QED
  BY <1>4, <1>5, <1>6 DEF EffectInv

(* What a consumer knows of the services it knows for as long as it lives. *)
LEMMA KnownStays ==
    ASSUME PipeInv, NEW c \in Consumers, Consume(c), Known
    PROVE  Known'
<1>1. CASE UNCHANGED <<services, memory>>
  BY <1>1 DEF Known, memory
<1>2. CASE Die(c) /\ services' = services
  BY <1>2, TaskTypes DEF Die, Known
<1>3. CASE LoadPatterns(c)
  BY <1>3, TaskTypes DEF LoadPatterns, Known
<1>4. CASE ServeEvent(c)
  <2>1. /\ services' = services
        /\ UNCHANGED memory \/ Die(c)
    BY <1>4 DEF ServeEvent
  <2>2. QED
    BY <1>1, <1>2, <2>1
<1>5. CASE PollJunk(c) \/ Fail(c)
  BY <1>2, <1>5 DEF PollJunk, Fail
<1>6. CASE \/ Retire(c) \/ DeleteMessage(c) \/ Restart(c)
           \/ \E m \in Messages : Poll(c, m)
           \/ \E s \in Services : PassService(c, s)
           \/ \E w \in Workers : EnterService(c, w)
  BY <1>1, <1>6 DEF Retire, DeleteMessage, Restart, Poll, PassService,
                    EnterService
<1>7. QED
  BY <1>3, <1>4, <1>5, <1>6 DEF Consume, Process

(* A message that is deleted had its effect before.                        *)
LEMMA DeletedHadEffect ==
    ASSUME PipeInv, EffectInv, NEW c \in Consumers, Consume(c)
    PROVE  \A m \in due : m \in queue \ queue' => Effective(m)
<1>1. CASE DeleteMessage(c)
  <2>1. Passed(c) /\ queue' = queue \ {task[c].msg}
    BY <1>1 DEF DeleteMessage, Passed
  <2>2. QED
    BY <2>1 DEF EffectInv, DoneInv
<1>2. CASE queue' = queue
  BY <1>2
<1>3. CASE ~DeleteMessage(c)
  BY <1>2, <1>3 DEF Consume, Process, Retire, LoadPatterns, PassService,
                    EnterService, ServeEvent, Poll, PollJunk, Fail, Restart,
                    sender
<1>4. QED
  BY <1>1, <1>3

(* The last statement for an event is the optimistic one, unless there is  *)
(* no user to be found.                                                    *)
LEMMA LastStatement ==
    ASSUME IInv, NEW w \in Workers, EventStatement(w), job[w].kind = "event",
           job'[w].pc = "idle"
    PROVE  BumpGeneration(w) \/ users = {}
<1>1. \A stale : AfterRead(stale) # "idle"
  BY DEF AfterRead
<1>2. ASSUME NEW pc, pc # "idle", NEW user, NEW stale, NEW since, NEW stamp
      PROVE  ~Go(w, pc, user, stale, since, stamp)
  BY <1>2, GoIs
<1>3. ~SelectRecords(w)
  BY <1>1, <1>2 DEF SelectRecords
<1>4. ~MarkOld(w) /\ ~InsertAllocated(w)
  BY <1>1, <1>2 DEF MarkOld, InsertAllocated
<1>5. ~BestNode(w)
  <2>1. ~End(w, "error")
    BY DEF End, Ended, IInv, TypeOK
  <2>2. QED
    BY <1>2, <2>1 DEF BestNode
<1>6. QED
  BY <1>3, <1>4, <1>5 DEF EventStatement, SelectNothing

LEMMA ConsumerDone ==
    ASSUME Serial, IInv, PipeInv, SerialInv, EffectInv,
           IInv', SerialInv', TableStep, Lasting,
           NEW c \in Consumers, Consume(c)
    PROVE  DoneInv(c)'
<1> USE DEF DoneInv
<1>1. /\ DoneInv(c) /\ DueInv /\ due \subseteq Messages
      /\ ServeInv(c)
  BY TaskTypes DEF EffectInv, PipeInv, QueueTypeOK
<1>2. due' = due
  BY ConsumeStep DEF ConsumerStep
<1>3. CASE Retire(c)
  <2>1. /\ task[c].msg = Delete /\ task'[c].msg = task[c].msg
        /\ RetireUser \/ users = {}
    BY <1>1, <1>3, TaskTypes DEF Retire, Turn, ServeInv, Tasks
  <2>2. users = {} => due = {}
    BY <1>1 DEF DueInv
  <2>3. QED
    BY <1>2, <2>1, <2>2, RetireHasEffect
<1>4. CASE LoadPatterns(c)
  <2>1. /\ task'[c].msg = task[c].msg /\ task'[c].pc = "loop"
        /\ task'[c].todo = IF loaded[c] THEN patterns[c] ELSE services
        /\ task[c].msg # Delete
    BY <1>1, <1>4, TaskTypes DEF LoadPatterns, ServeInv, Tasks
  <2>2. Passed(c)' => ~Known
    BY <2>1 DEF Passed, Known
  <2>3. QED
    BY <1>1, <1>2, <2>1, <2>2 DEF DueInv
<1>5. ASSUME NEW s \in Services, PassService(c, s)
      PROVE  DoneInv(c)'
  <2>1. /\ task'[c].msg = task[c].msg /\ task'[c].pc = task[c].pc
        /\ task'[c].todo = task[c].todo \ {s} /\ s # Service
    BY <1>5, TaskTypes DEF PassService, Tasks
  <2>2. Passed(c)' => Passed(c)
    BY <2>1 DEF Passed
  <2>3. QED
    BY <1>1, <1>2, <2>1, <2>2 DEF Lasting
<1>6. ASSUME NEW w \in Workers, EnterService(c, w)
      PROVE  ~Passed(c)'
  BY <1>6, EnterStep
<1>7. CASE ServeEvent(c)
  <2>1. PICK w \in task[c].worker :
           /\ EventStatement(w) /\ Step(w) /\ job[w].kind = "event"
           /\ Passed(c)' => /\ job'[w].pc = "idle"
                            /\ task'[c].msg = task[c].msg
    BY <1>7, ServeStep
  <2>2. PICK v \in 2 .. Len(Versions) :
           task[c].msg = Change(v) /\ job[w].claims = EventClaims(v)
    BY <1>1, <2>1, TakenWorkers DEF ServeInv
  <2>3. w \in Workers
    BY TakenWorkers
  <2>4. ASSUME Passed(c)', NEW m \in due', m = task'[c].msg
        PROVE  Effective(m)'
    <3>1. BumpGeneration(w) \/ users = {}
      BY <2>1, <2>3, <2>4, LastStatement
    <3>2. users # {}
      BY <1>1, <1>2, <2>4 DEF DueInv
    <3>3. m = Change(v)
      BY <2>1, <2>2, <2>4
    <3>4. QED
      BY <2>2, <2>3, <3>1, <3>2, <3>3, BumpHasEffect
  <2>5. QED
    BY <2>4
<1>8. CASE Fail(c)
  BY <1>8, FailStep
<1>9. ASSUME task'[c].pc \notin {"loop", "ack"}
      PROVE  ~Passed(c)'
  BY <1>9 DEF Passed
<1>10. CASE DeleteMessage(c) \/ PollJunk(c) \/ Restart(c)
  <2>1. task'[c].pc \in {"down", "idle"}
    BY <1>10, TaskTypes, MessageTypes, AtTypes
       DEF DeleteMessage, PollJunk, Restart, Die, Turn, TaskPCs, Tasks
  <2>2. QED
    BY <1>9, <2>1
<1>11. ASSUME NEW m \in Messages, Poll(c, m)
       PROVE  ~Passed(c)'
  <2>1. task'[c].pc \in {"retire", "load"}
    BY <1>11, TaskTypes DEF Poll, Begin, At
  <2>2. QED
    BY <1>9, <2>1
<1>12. QED
  BY <1>3, <1>4, <1>5, <1>6, <1>7, <1>8, <1>10, <1>11 DEF Consume, Process

LEMMA ConsumerKeepsEffects ==
    ASSUME Serial, IInv, PipeInv, SerialInv, EffectInv,
           IInv', SerialInv', TableStep, Lasting,
           users # {} => users' # {}, NEW c \in Consumers, Consume(c)
    PROVE  EffectInv'
<1>1. ConsumerStep(c)
  BY ConsumeStep
<1>2. /\ due' = due /\ queue' \subseteq queue /\ due \subseteq Messages
      /\ \A d \in Consumers \ {c} : task'[d] = task[d]
  BY <1>1, TaskTypes DEF ConsumerStep, PipeInv, QueueTypeOK
<1>3. DueInv'
  BY <1>2, KnownStays DEF EffectInv, DueInv
<1>4. HandledTookEffect'
  <2>1. ASSUME NEW m \in due' \ queue'
        PROVE  Effective(m)
    BY <1>2, <2>1, DeletedHadEffect DEF EffectInv, HandledTookEffect
  <2>2. QED
    BY <1>2, <2>1 DEF HandledTookEffect, Lasting
<1>5. ASSUME NEW d \in Consumers \ {c}
      PROVE  DoneInv(d)'
  BY <1>2 DEF EffectInv, DoneInv, Passed, Lasting
<1>6. DoneInv(c)'
  BY ConsumerDone
<1>7. QED
  BY <1>3, <1>4, <1>5, <1>6 DEF EffectInv

LEMMA EffectInit == EventsInit => EffectInv
<1> SUFFICES ASSUME EventsInit PROVE EffectInv
  OBVIOUS
<1>1. /\ due = {}
      /\ task = [c \in Consumers |-> At("idle", Delete)]
  BY DEF EventsInit
<1>2. QED
  BY <1>1 DEF EffectInv, DueInv, HandledTookEffect, DoneInv

LEMMA EffectNext ==
    ASSUME Serial, IInv, PipeInv, SerialInv, EffectInv, [EventsNext]_allVars
    PROVE  IInv' /\ PipeInv' /\ SerialInv' /\ EffectInv'
<1>1. IInv' /\ PipeInv' /\ [Next]_vars
  BY PipeNext
<1>2. SerialInv' /\ TableKept /\ TableStep
  BY <1>1, SerialNext, SteppedTable
<1>3. Lasting
  BY <1>1, <1>2, EffectLasts DEF Lasting
<1>4. users # {} => users' # {}
  BY <1>2, DeletedStays
<1>5. CASE Outside
  BY <1>1, <1>2, <1>3, <1>4, <1>5, OutsideSteps, OutsideKeepsEffects
<1>6. ASSUME NEW c \in Consumers, Consume(c)
      PROVE  EffectInv'
  BY <1>1, <1>2, <1>3, <1>4, <1>6, ConsumerKeepsEffects
<1>7. CASE UNCHANGED allVars
  <2>1. UNCHANGED <<users, services, queue, due, patterns, loaded, task>>
    BY <1>7 DEF allVars, sender, consumers, memory, vars, table
  <2>2. \A m \in Messages : Effective(m)' <=> Effective(m)
    BY <2>1 DEF Effective
  <2>3. due \subseteq Messages
    BY DEF PipeInv, QueueTypeOK
  <2>4. DueInv'
    BY <2>1 DEF EffectInv, DueInv, Known
  <2>5. HandledTookEffect' /\ \A c \in Consumers : DoneInv(c)'
    BY <2>1, <2>2, <2>3
       DEF EffectInv, HandledTookEffect, DoneInv, Passed
  <2>6. QED
    BY <1>1, <1>2, <2>4, <2>5 DEF EffectInv
<1>8. QED
  BY <1>1, <1>2, <1>5, <1>6, <1>7 DEF EventsNext

(* A message that is gone from the queue has had its effect on the service *)
(* that it was due to reach, whichever consumers died on it halfway and    *)
(* whatever requests and scripts did to the rows between its statements    *)
(* and since, as long as the statements of one worker at a time are on the *)
(* account.                                                                *)
THEOREM HandledMessagesTookEffect ==
    ASSUME Serial
    PROVE  EventsSpec => []HandledTookEffect
<1>1. EventsInit => IInv /\ PipeInv /\ SerialInv /\ EffectInv
  BY InitInv, PipeInit, SerialInit, EffectInit DEF EventsInit
<1>2. /\ IInv /\ PipeInv /\ SerialInv /\ EffectInv
      /\ [EventsNext]_allVars
      => (IInv /\ PipeInv /\ SerialInv /\ EffectInv)'
  BY EffectNext
<1>3. IInv /\ PipeInv /\ SerialInv /\ EffectInv => HandledTookEffect
  BY DEF EffectInv
<1>4. QED
  BY <1>1, <1>2, <1>3, PTL DEF EventsSpec

(* With the queue, too, the newest device of an account in use gets in.    *)
THEOREM NewestClientGetsInDespiteEvents ==
    ASSUME Serial, Comparable, VersionsAdvance, KeysReported
    PROVE  EventsSpec => []NewestClientAccepted
BY QueueDeliversEvents, NewestClientGetsIn, PTL

=============================================================================
