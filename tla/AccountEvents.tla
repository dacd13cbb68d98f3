---------------------------- MODULE AccountEvents ----------------------------
(***************************************************************************)
(* The consumers of the queue of account events                            *)
(* (scripts/process_account_events.py).  A consumer loops over the         *)
(* services; the rows of one of them, Service, are those of TokenRequests, *)
(* where its statements take turns with those of token requests.  The      *)
(* queue delivers a message late, out of order and to several consumers,   *)
(* and keeps it until a consumer deletes it; a consumer may die between    *)
(* any two statements.                                                     *)
(***************************************************************************)
EXTENDS TokenRequests

CONSTANTS
    Services,        \* services there may ever be
    FirstServices,   \* services in the database from the start
    Service,         \* the one that the users table is about
    Consumers,       \* processes that run process_account_events
    MaxCrashes       \* bound on the number of their crashes

ASSUME QueueAssumption ==
    /\ Service \in Services
    /\ FirstServices \subseteq Services
    /\ MaxCrashes \in Nat
    /\ "event" \in Operations

VARIABLES
    services,   \* rows of the services table
    deleted,    \* whether the account was deleted at FxA
    queue,      \* messages not yet deleted from the queue
    due,        \* history: messages that were due to reach Service when sent
    patterns,   \* consumer -> services in its LazyDict of endpoint patterns
    loaded,     \* consumer -> the _loaded of that LazyDict
    task,       \* consumer -> the message it is processing, and how far
    crashes     \* how many of them crashed

sender == <<deleted, queue, due>>
memory == <<patterns, loaded>>
consumers == <<memory, task, crashes>>

allVars == <<vars, services, sender, consumers>>

(* A change of the account ("reset", "passwordChange"), named by the       *)
(* version it led to, and a deletion.                                      *)
Change(v) == [kind |-> "change", version |-> v]
Delete == [kind |-> "delete", version |-> 0]

Messages == {Change(v) : v \in 2 .. Len(Versions)} \cup {Delete}

(* Where a consumer is: dead, between messages, or before the named step   *)
(* on its message; in its loop over the services, todo are those to come.  *)
(* At Service ("serve") one of the workers of TokenRequests runs its       *)
(* statements.                                                             *)
TaskPCs == {"down", "idle", "retire", "load", "loop", "serve", "ack"}

Tasks == [pc : TaskPCs, msg : Messages, todo : SUBSET Services,
          worker : SUBSET Workers]

At(pc, m) == [pc |-> pc, msg |-> m, todo |-> {}, worker |-> {}]

QueueTypeOK ==
    /\ services \subseteq Services
    /\ deleted \in BOOLEAN
    /\ queue \subseteq Messages
    /\ due \subseteq Messages
    /\ patterns \in [Consumers -> SUBSET Services]
    /\ loaded \in [Consumers -> BOOLEAN]
    /\ task \in [Consumers -> Tasks]
    /\ crashes \in 0 .. MaxCrashes

-----------------------------------------------------------------------------
EventsInit ==
    /\ Init
    /\ services = FirstServices
    /\ deleted = FALSE
    /\ queue = {}
    /\ due = {}
    /\ patterns = [c \in Consumers |-> {}]
    /\ loaded = [c \in Consumers |-> FALSE]
    /\ task = [c \in Consumers |-> At("idle", Delete)]
    /\ crashes = 0

(* An operator adds a service. *)
AddService(s) ==
    /\ s \notin services
    /\ services' = services \cup {s}
    /\ UNCHANGED <<vars, sender, consumers>>

(* A step of a worker that is not on an event: a token request or a script.*)
RequestStep(w) ==
    /\ Service \in services
    /\ job[w].kind # "event"
    /\ Step(w)
    /\ job'[w].kind # "event"
    /\ UNCHANGED <<services, sender, consumers>>

(* Time passes, or an operator edits nodes. *)
OtherStep ==
    /\ \/ Tick
       \/ \E n \in NodeIds :
             UnassignNode(n) \/ DeleteNode(n) \/ UnassignRemoved(n)
    /\ UNCHANGED <<services, sender, consumers>>

(* Every consumer knows the service by now, or will know it once it loads  *)
(* the patterns.                                                           *)
Known ==
    /\ Service \in services
    /\ \A c \in Consumers : loaded[c] => Service \in patterns[c]

(* The user is there to be reached; a deletion is for all services alike.  *)
Reaches(m) == users # {} /\ (m = Delete \/ Known)

Send(m) ==
    /\ queue' = queue \cup {m}
    /\ due' = due \cup {n \in {m} : Reaches(n)}

(* The account changes at the FxA server, which sends an event.            *)
ChangeAndTell ==
    /\ ~deleted
    /\ ChangeAccount
    /\ Send(Change(account + 1))
    /\ UNCHANGED <<services, deleted, consumers>>

(* The account is deleted there, after which it changes no more.           *)
DeleteAccount ==
    /\ "delete" \in Operations
    /\ ~deleted
    /\ deleted' = TRUE
    /\ Send(Delete)
    /\ UNCHANGED <<vars, services, consumers>>

-----------------------------------------------------------------------------
(* A consumer. *)
Turn(c, pc) == task' = [task EXCEPT ![c].pc = pc]

(* The process ends, and what it had loaded is gone. *)
Die(c) ==
    /\ task' = [task EXCEPT ![c] = At("down", Delete)]
    /\ patterns' = [patterns EXCEPT ![c] = {}]
    /\ loaded' = [loaded EXCEPT ![c] = FALSE]

(* process_account_event up to its first statement. *)
Begin(c, m) ==
    task' = [task EXCEPT ![c] = At(IF m = Delete THEN "retire" ELSE "load", m)]

(* Mutant of the next definition: the message is deleted first.            *)
TakeOut(c, m) ==
    /\ task[c].pc = "idle"
    /\ m \in queue
    /\ Begin(c, m)
    /\ queue' = queue \ {m}
    /\ UNCHANGED <<vars, services, deleted, due, memory, crashes>>

(* queue.read: a message that nobody has deleted, whether or not another   *)
(* consumer is at work on it.                                              *)
Poll(c, m) ==
    /\ task[c].pc = "idle"
    /\ m \in queue
    /\ Begin(c, m)
    /\ UNCHANGED <<vars, services, sender, memory, crashes>>

(* Mutant of the next definition: whatever the type, the user is updated.  *)
UpdateAnyway(c) ==
    /\ task[c].pc = "idle"
    /\ task' = [task EXCEPT ![c] = At("load", [kind |-> "junk", version |-> 0])]
    /\ UNCHANGED <<vars, services, sender, memory, crashes>>

(* Some other message is in the queue, all the time.  One that the parser  *)
(* cannot make sense of, or of an unknown type, is dropped; one that it    *)
(* trips over (JSON that is not the object it is taken for raises          *)
(* TypeError) ends the process and stays in the queue.                     *)
PollJunk(c) ==
    /\ task[c].pc = "idle"
    /\ Die(c)
    /\ UNCHANGED <<vars, services, sender, crashes>>

(* retire_user: one statement over the rows of all services.  (Where there *)
(* is no row it changes nothing.)                                          *)
Retire(c) ==
    /\ task[c].pc = "retire"
    /\ \/ RetireUser
       \/ users = {} /\ UNCHANGED vars
    /\ Turn(c, "ack")
    /\ UNCHANGED <<services, sender, memory, crashes>>

(* LazyDict.__iter__: the patterns are loaded once in the consumer's life. *)
LoadPatterns(c) ==
    /\ task[c].pc = "load"
    /\ patterns' = [patterns EXCEPT ![c] = IF loaded[c] THEN @ ELSE services]
    /\ loaded' = [loaded EXCEPT ![c] = TRUE]
    /\ task' = [task EXCEPT ![c].pc = "loop", ![c].todo = patterns'[c]]
    /\ UNCHANGED <<vars, services, sender, crashes>>

(* The loop comes to another service, where all goes well (or else Fail).  *)
PassService(c, s) ==
    /\ task[c].pc = "loop"
    /\ s \in task[c].todo \ {Service}
    /\ task' = [task EXCEPT ![c].todo = @ \ {s}]
    /\ UNCHANGED <<vars, services, sender, memory, crashes>>

(* The loop comes to this one.                                             *)
EnterService(c, w) ==
    /\ task[c].pc = "loop"
    /\ Service \in task[c].todo
    /\ StartEvent(w, task[c].msg.version)
    /\ task' = [task EXCEPT ![c].pc = "serve", ![c].todo = @ \ {Service},
                            ![c].worker = {w}]
    /\ UNCHANGED <<services, sender, memory, crashes>>

(* The statements of get_user and update_user.                             *)
EventStatement(w) ==
    \/ SelectRecords(w) \/ SelectNothing(w) \/ MarkOld(w)
    \/ BestNode(w) \/ InsertAllocated(w)
    \/ BumpGeneration(w)

(* One of them: the last one ends the loop's turn, and an exception, which *)
(* nothing catches, the process.                                           *)
ServeEvent(c) ==
    /\ task[c].pc = "serve"
    /\ \E w \in task[c].worker :
          /\ EventStatement(w)
          /\ CASE job'[w].pc = "idle" ->
                     /\ task' = [task EXCEPT ![c].pc = "loop",
                                             ![c].worker = {}]
                     /\ UNCHANGED memory
               [] job'[w].pc = "error" -> Die(c)
               [] OTHER -> UNCHANGED <<task, memory>>
    /\ UNCHANGED <<services, sender, crashes>>

(* queue.delete_message, once the event is processed. *)
DeleteMessage(c) ==
    /\ \/ task[c].pc = "ack"
       \/ task[c].pc = "loop" /\ task[c].todo = {}
    /\ queue' = queue \ {task[c].msg}
    /\ task' = [task EXCEPT ![c] = At("idle", Delete)]
    /\ UNCHANGED <<vars, services, deleted, due, memory, crashes>>

(* The worker that runs the consumer's statements, if any, stops with it.  *)
Abandon(c) ==
    \/ task[c].worker = {} /\ UNCHANGED vars
    \/ \E w \in task[c].worker : Crash(w)

(* Mutant of the next definition: exceptions are caught and logged.        *)
LogError(c) ==
    /\ task[c].pc \notin {"down", "idle"}
    /\ crashes < MaxCrashes
    /\ crashes' = crashes + 1
    /\ Abandon(c)
    /\ task' = [task EXCEPT ![c] = At("ack", task[c].msg)]
    /\ UNCHANGED <<services, sender, memory>>

(* An exception ends the consumer, or a signal does, while it is at work   *)
(* on a message.                                                           *)
Fail(c) ==
    /\ task[c].pc \notin {"down", "idle"}
    /\ crashes < MaxCrashes
    /\ crashes' = crashes + 1
    /\ Abandon(c)
    /\ Die(c)
    /\ UNCHANGED <<services, sender>>

(* A new process. *)
Restart(c) ==
    /\ task[c].pc = "down"
    /\ Turn(c, "idle")
    /\ UNCHANGED <<vars, services, sender, memory, crashes>>

-----------------------------------------------------------------------------
(* Whatever is not a consumer.                                             *)
Outside ==
    \/ \E s \in Services : AddService(s)
    \/ \E w \in Workers : RequestStep(w)
    \/ OtherStep
    \/ ChangeAndTell
    \/ DeleteAccount

(* What a consumer does with the message it has. *)
Process(c) ==
    \/ Retire(c)
    \/ LoadPatterns(c)
    \/ \E s \in Services : PassService(c, s)
    \/ \E w \in Workers : EnterService(c, w)
    \/ ServeEvent(c)
    \/ DeleteMessage(c)

Consume(c) ==
    \/ \E m \in Messages : Poll(c, m)
    \/ PollJunk(c)
    \/ Process(c)
    \/ Fail(c)
    \/ Restart(c)

EventsNext == Outside \/ \E c \in Consumers : Consume(c)

EventsSpec == EventsInit /\ [][EventsNext]_allVars

(* A consumer goes on with what it has started, though it may have to wait *)
(* for its turn on the account's rows, and is started again when it has    *)
(* died; a request that is under way ends; and the queue delivers again    *)
(* what was not deleted.                                                   *)
FairEventsSpec ==
    /\ EventsSpec
    /\ \A c \in Consumers : SF_allVars(Process(c)) /\ WF_allVars(Restart(c))
    /\ \A w \in Workers : WF_allVars(job[w].pc \notin Resting /\ RequestStep(w))
    /\ \A m \in Messages : SF_allVars(\E c \in Consumers : Poll(c, m))

-----------------------------------------------------------------------------
(* Properties. *)

(* The message has had its effect: the row that get_user takes for current *)
(* has the generation that locks older devices out, or is retired.         *)
Effective(m) ==
    /\ users # {}
    /\ IF m = Delete
       THEN Retired(CurrentRow(users))
       ELSE CurrentRow(users).generation >= EventClaims(m.version).generation

(* A message that is gone from the queue has had its effect where it was   *)
(* due, whichever consumers died on it halfway, and although requests      *)
(* change the rows meanwhile (process_account_events deletes a message     *)
(* after processing it; update_generation_number: "immediately lock out    *)
(* disconnected devices").                                                 *)
HandledTookEffect ==
    \A m \in due \ queue : Effective(m)

(* Every message has its effect in the end, although consumers die, other  *)
(* messages kill them, and messages come late and out of order.            *)
EventsTakeEffect ==
    \A m \in Messages : m \in due ~> Effective(m)

=============================================================================
