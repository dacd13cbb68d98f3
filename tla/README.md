# Token server: a TLA+ model of its SQL backend

The token server hands out short-lived tokens for Sync storage nodes. A client
proves who it is (a BrowserID assertion or an OAuth token of Firefox Accounts,
FxA), the server finds or assigns the node of that user, and answers with a
token that names a row of the `users` table (`uid`), the node and a key id. What
processes share is in SQL tables, `users` and `nodes` above all. Every SQL statement commits by itself, so a
request is a sequence of small transactions with Python state in between, and
several web workers, queue consumers and operators' scripts run at once. This is
what the models are about.

The modules are translated from `src/tokenserver/views.py`,
`src/tokenserver/assignment/sqlnode/sql.py`, `schemas.py`, `__init__.py`,
`verifiers.py` and the scripts under `src/tokenserver/scripts/`; `PROJECT.json` maps each definition to its lines.

## The system

| component | state | operations | interacts with |
|---|---|---|---|
| `users` table (`schemas.py`, statements of `sql.py`) | rows: uid, node id, client state, generation, keys_changed_at, created_at, replaced_at | insert, optimistic in-place update, replace older rows, replace one row, retire, unassign, delete | every other component |
| token requests (`return_token`, `get_user`, `allocate_user`, `update_user`) | none between requests; within one, the `user` dict read by the first statement | read or allocate the user, check the claims, update in place or insert a row, issue a token | `users`, `nodes` |
| account events (`process_account_events.py`) | an SQS queue, at-least-once; in each consumer the loaded endpoint patterns | `reset`, `passwordChange`: raise the generation, service by service; `delete`: retire the account | `users` of every service |
| node assignment (`get_best_node`, `nodes` table) | per node: capacity, available, current_load, downed, backoff | select, release capacity, count a user in | requests, purge, scripts |
| `allocate_user` script | none | allocate a user, or move one to a node | `users`, `nodes` |
| operators' scripts (`add_node`, `update_node`, `remove_node`, `unassign_node`, `count_users`) | none | edit `nodes`, replace the rows of a node | `nodes`, `users` |
| purge (`purge_old_records.py`) | none; a batch of rows in memory | delete a replaced row's data on its storage node, give its slot back, delete the row | `users`, `nodes`, storage nodes |
| Spanner migration switch (`get_migration_percent`) | a value cached for five minutes per process | decide whether a new user goes to the Spanner node | node assignment |
| validators and verifiers (`views.py`, `verifiers.py`) | `request.validated` | turn headers and credentials into claims or an error | FxA, endpoint patterns, token requests |
| memory backend (`memorynode.py`) | Python dicts | a test double of the SQL backend | tests |
| endpoint patterns (`LazyDict` of `__init__.py`) | the patterns, once loaded, per process | load from the configuration or the database at first use | validators, events, purge |
| start-up, classifier (`__init__.py`, `tweens.py`, `run.py`) | configuration | read configuration | all |

What makes each of them correct, and what is hard about it:

* *Rows.* A row's timestamps never go back and a replaced row stays replaced,
  although every update is computed from data read statements earlier.
* *Token requests.* A token names a row that exists, with its node and client
  state; a stale claim is refused; the newest credentials are accepted after any
  crash between two statements; a deleted account stays out; the client state
  in use never reverts. Hard: two workers on one account, rows created in the
  same millisecond, a node that vanishes midway, the timestamp of a row being
  read before its node is chosen.
* *Events.* They arrive late, twice or out of order; none may undo anything or
  lock out the device that caused it, and one that was deleted from the queue has
  had its effect, whichever consumer died halfway and whatever requests did to the
  rows between its statements.
* *Web process.* Requests that take turns share two small caches that are filled
  on the way; none may be sent away because another was just filling one.
* *Node assignment.* The counters are read, decided on and updated in separate
  statements: races may overfill a node by a bounded amount only, and nobody is
  turned away while a node has room.
* *Purge.* A record goes after its data and neither while a token is good; what
  can be purged is, in the end; a row is counted out once. Hard: batches are
  read long before they are worked off, rows on downed nodes must wait, any
  statement may fail, and every host runs the script.

`PROJECT.json` lists the hazards one by one, at their lines, with the properties
that look for them.

## Modules

| module | what it is |
|---|---|
| `UserRecords` | the rows of one account as a set, one operator per SQL statement, and the order in which `get_user` reads them |
| `UserRecordsProofs` | lemmas about those operators: each statement only advances rows; a non-empty table has a current row; which statements leave it where it is |
| `TokenRequests` | state machine of requests, events and the `allocate_user` script on the rows of one account |
| `TokenRequestsProofs` | its theorems for any number of workers |
| `OneWorkerProofs` | its theorems for workers that take turns, and the refinement of `Account` |
| `MCTokenRequests` | histories of an account and symmetry for TLC |
| `Marks` | what the server remembers of an account - the high-water mark of its README - and what may become of it |
| `Account` | abstract specification: the mark moves forward in one step; `TokenRequests` implements it |
| `AccountEvents` | state machine of the queue and its consumers, on top of `TokenRequests` |
| `AccountEventsProofs` | its theorems |
| `MCAccountEvents` | histories of the account and symmetry for TLC |
| `WebProcess` | the validators of one web process, its endpoint patterns and its migration percentage |
| `WebProcessProofs` | its theorems |
| `MCWebProcess` | the requests that TLC's clients send |
| `NodeCapacity` | state machine of the counters of the `nodes` table |
| `NodeCapacityProofs` | its theorems |
| `MCNodeCapacity` | symmetry for TLC |
| `PurgeRecords` | state machine of the purge script on rows of several accounts and services |
| `PurgeRecordsProofs` | its theorems |
| `MCPurgeRecords` | services, their nodes and the script's options for TLC |
| `AccountPurge` | `TokenRequests` and `PurgeRecords` composed: the rows of one account are purged while its clients ask for tokens |
| `AccountPurgeProofs` | its theorems |
| `MCAccountPurge` | histories of the account, options and symmetry for TLC |

`TokenRequests` and `NodeCapacity` meet in `get_best_node`. To one account it is
"some node, or an error" (`BestNode` in `TokenRequests`); which nodes can come
out, and what the call does to the counters, is `NodeCapacity`, whose users are
anonymous (uid, node) pairs. `AccountEvents` and `AccountPurge` both extend
`TokenRequests`: the first adds the queue, whose consumers run the event's
statements as workers of `TokenRequests`, the second the purgers. `WebProcess` is what
happens to a request before `return_token`, and next to it.

### UserRecords

A row is a record with the columns of `_UsersBase` except email and service (one
account, one service) and node (a join away). `NULL` is -1, which orders below
every number as `None` does in Python 2's `max`. A NULL `keys_changed_at` is 0:
the statements coalesce it and the Python code uses `or 0`. Client states are
model values plus the empty one.

`ReplaceUserRecord` and `UnassignRows` overwrite an earlier `replaced_at`, as the
statements do, and `UpdateUserRecordInPlace` reaches *every* active row of the
account, because its `WHERE` has no uid. `Outranks` is the stable sort of
`get_user` (generation descending; ties keep the fetched order, newest first).

### TokenRequests

A worker's `job` is the program counter of a request or event, its claims, and
the Python locals that survive between statements: the `user` dict, the old rows
`get_user` still has to mark, the time read before a node is chosen (`since`) and
the timestamp to mark old rows with (`stamp`). A step is one SQL statement with
the Python code up to the next one.

| `pc` | the worker is about to | actions |
|---|---|---|
| `select` | run `_GET_USER_RECORDS` | `SelectRecords`, `SelectNothing` |
| `allocate` | call `get_best_node` from `allocate_user` | `BestNode` |
| `insert` | insert the row | `InsertAllocated` |
| `mark` | mark an old row as replaced | `MarkOld` |
| `check` | check the claims in `return_token`, and run the first statement of `update_user` | `Reject`, `NoUpdate`, `UpdateInPlace`, `LookupNode`; `BumpGeneration` for an event; `MoveUser`, `StayPut` for the script |
| `create` | insert the row of a new client state | `CreateReplacement` |
| `older` | replace the older rows | `ReplaceOlder`; `FinishMove` for the script |
| `granted`, `error`, `idle` | take the next request: the last one issued a token, raised, was refused | `Receive`, `ReceiveEvent`, `ReceiveScript` |

`Crash` stops a worker before any statement; what has been committed stays.
Retrying is a new `Receive`. `RetireUser` (a `delete` event is one statement),
`UnassignNode` and the two statements of `remove_node` (`DeleteNode`,
`UnassignRemoved`) run at any moment, when the constant `Operations` has them.

`scripts/allocate_user.py` calls the same backend functions and is a kind of job:
`move` when the user is there, `place` when he is not. To move him, `update_user`
gets a node and no client state, inserts a row that copies the user dict, and
replaces the older ones. When no node is named, and the user has one, nothing
happens (`StayPut`), although the help text says "omit to use the best available
node".

FxA is the environment. `Versions` is the sequence of states the account goes
through there (generation, keys_changed_at, client state), and any client may
hold credentials of any version that exists so far, so late and repeated
requests are all there. `Clients` says how much of a version a client claims:
all of it (`full`), no generation (`oauth`, a verification response without
one), no keys_changed_at (`legacy`), neither keys nor client state (`bare`).

`floor` and the `seen` field of a job are history: the highest timestamps
accepted so far, and what had been accepted and which nodes existed when the
request arrived. They guard nothing.

Time is a counter that may stand still between two rows, so that rows of the
same millisecond occur. A timestamp may be anything between the moment the code
read the clock and now, less `ClockSkew` (`ReadSince`).

`Mark` is the refinement mapping to `Account`: the timestamps and the client state
of the row that `get_user` would take, with a retired row as `Tombstone` and no
row as `NoMark`. A user without a node keeps his mark.

### AccountEvents

The rows of one service (`Service`) are those of `TokenRequests`; the consumers
are added to its workers.

| `pc` of a consumer | it is about to | actions |
|---|---|---|
| `idle` | read a message | `Poll`; `PollJunk` |
| `retire` | retire the user's rows, one statement | `Retire` (`RetireUser` of `TokenRequests`) |
| `load` | iterate over the endpoint patterns, which loads them the first time | `LoadPatterns` |
| `loop` | go on to the next service | `PassService`, `EnterService`; `DeleteMessage` when none is left |
| `serve` | run the next statement of `get_user` or `update_user` at `Service` | `ServeEvent` |
| `ack` | delete the message | `DeleteMessage` |
| `down` | be started again | `Restart` |

At `Service` a consumer takes one of the `Workers` (`EnterService`), which runs the
statements of `TokenRequests` for the event (`EventStatement`: all of `get_user`,
with the rows it marks and the row it may allocate, and `BumpGeneration`), so that
the statements of requests, of other consumers and of operators come between them.
An in-place update, or a retirement, reaches the active rows only
(`sql.py:84, 107-109`): where there is none the message is deleted all the same.
At any other service the loop goes by (`PassService`), or the consumer dies there.
With one worker, statements of requests and events on the account take turns, while
several consumers can be at work on messages, the same one included.

The queue is a set: a message stays in it until a consumer deletes it, and until
then any consumer may read it, at any time and again, while another is at work on
it. `Fail` ends a consumer anywhere, and so does an exception of one of its
statements (`ServeEvent`). Other messages are in the queue all the time
(`PollJunk`): most are dropped, but one that is JSON and not the expected object
raises `TypeError`, which `process_account_event` does not catch. The consumer dies
before it deletes it, and whoever comes next reads it again. Next to the consumers,
an operator adds a service, and the account changes or is deleted at FxA, which
sends an event. `due` is history: the messages that were due to have an effect on
the rows when they were sent - there was a user and, except for a deletion, which
needs no patterns, no running consumer had loaded its patterns before the service
was added.

### WebProcess

A request goes from `verify` (the header checks are done, the verifier is asked)
to `patterns` (a service's pattern is looked up, and the database is asked for
all of them when none are there), to `user` (the statements of `TokenRequests`),
and, when a node has to be found and the percentage is not fresh, to `setting`.
Any other request of the same process may run in between, as with green threads:
gevent is among the requirements, and the code does nothing to keep requests
apart. `docker-entrypoint.sh` uses gunicorn's `sync` workers, one request at a
time, which is the special case of one thread. Headers are abstract: a key state,
empty, absent, malformed. `Consistent` and `ClientState` are what
`valid_client_state` and `_validate_oauth_token` make of the two headers that may
carry a client state, in the order the validators run in.

### NodeCapacity

A row of `nodes` with its presence, a worker's call of `get_best_node` (`select`,
`release`, `claim`, and the `insert` of its caller) and a purger's
`delete_user_record` (`free`, `delete`). Both die between any two statements.
`available` may be a fraction of a slot, in units of 1/`Unit`: the release is a
product with `capacity_release_rate`. SQLite keeps the fraction, MySQL rounds it
to the integer column (`RoundsSlots`). SQLite's `ORDER BY` is modelled as it is;
MySQL's quotient of logarithms is left open (any selectable node may come
first). `should_allocate_to_spanner` may answer anything in `Migrating`.

### PurgeRecords

A purger goes through the services one by one (`Patterns`; `ServiceOf` says which
service a node, and so a row, belongs to). It is idle, about to `fetch` a batch,
at a `row`, or about to delete a `record`. A batch is the set of rows that
`_GET_OLD_USER_RECORDS_FOR_SERVICE` returned, each with what its join said of the
node (up, down, none); the order of the list is `ListedBefore`, and `Current` is
the row the loop is at. `DeleteServiceData` is the request to the storage node,
whose data is `cleared`; `DeleteUserRecord` deletes the row (the slot it frees is
in `NodeCapacity`). `DetectLoop` is the exception "Loop detected", `StopPurge` any
other one, or the death of the process; either ends the run, for the services to
come as well. A process has its options for life (`settings`: `--force`,
`--dryrun`, `--max-records`); `PassRow` is a row in a dry run. `NextRow` counts as
the code does: rows deleted or passed on a node that is up or forced, anew in
each batch. Around the purgers, rows are replaced, by one of the statements of
`UserRecords`, and nodes are unassigned, removed, go down and come up. `cleared`
and `dropped` (the rows whose record was deleted) are history.

`AccountPurge` extends `TokenRequests` and takes its purgers from an `INSTANCE`
of `PurgeRecords` that shares the table, the nodes and the clock. Here time is
coarse: a unit is at most the life of a token (an hour) and longer than a
request, so the clock stands still while one is under way. `expires` is history:
when the last token for a uid ends.

## Runs

A run is `tlc -config <run>.cfg <module>`. Passing runs:

| run | instance | checks |
|---|---|---|
| `one_worker` | 1 worker with a lagging clock, a password change then a reset, events, deletion at any moment, new users allowed or refused, clients with and without a generation | `TypeOK`; `NoStateRevival`: the client state in use never reverts; `RetiredStaysLockedOut`: nothing for a client that reports a generation after a deletion; `NoSpuriousReassignment`: the row in use is never found replaced; `ImplementsAccount` |
| `reassigned` | 1 worker, two nodes unassigned or removed and the user moved by the script at any moment; of three rows `get_user` fetches two | `NewestClientAccepted`: whatever was left half done; `NoTokenForRemovedNode`; `MoveTakesEffect`: a user moved by an operator is where he was moved to |
| `racing_events` | 2 workers, first allocations, requests and events over one reset | `NoStaleToken`; `TokenNamesItsRow`: a token names the row it was issued for, whoever overtakes; `RowsOnlyAdvance`; `NewestClientAccepted`; `ImplementsAccount` |
| `event_queue` (of `AccountEvents`) | a consumer, a crash, junk that kills it, 2 services of which this one is added later, a reset and a deletion, requests that take turns with the events and may die | `QueueTypeOK`; `HandledTookEffect`: a message that was deleted has had its effect on the row in use, and keeps it; the liveness property `EventsTakeEffect`: every message that was due has its effect in the end |
| `web_process` | 2 requests at a time, 2 services of which one is added later, loads that fail, a setting that changes | `TypeOK`; `KnownServiceFound`; `KeyIdCounts`; the liveness property `SettingFollowed` |
| `capacity_one` | 1 worker, fractional slots, nodes down and backing off, a purger | `TypeOK`; `TurnedAwayOnlyWhenFull` |
| `capacity_race` | 2 workers, 2 nodes (one Spanner), nodes come and go, a purger, rows added by `update_user` | `OvershootBounded`; `FreeSlotsAreFree` |
| `purge_loop` (of `PurgeRecords`) | a purger, limited, unlimited or dry, on three rows of two services; nodes go down, come up and are removed; any statement may fail | `TypeOK`; `RecordOutlivesData`; `LoopMeansDowned`; the liveness property `OldRowsPurged` |
| `account_purge` | a worker and a purger on one account over a reset, late events, crashes, a node that goes down; a grace period of a token's life, random offsets, any of the options | `GraceOutlivesTokens`; `NoStaleToken`; `NewestClientAccepted`; `NoRevivalByPurge`: forgetting old rows brings no old client state back |

Each property also has a mutant in `PROJECT.json`: a plausible slip in one
definition (a sort not reversed, `<=` for `<`, an update that is not optimistic,
a slot not taken) that makes TLC report the property violated in that run. The
mutants' bodies stand before the definitions they would replace and are used
nowhere else.

Runs that TLC finds violated, each a place where the code does not do what a
comment or document says:

| run | what happens |
|---|---|
| `retired_after_unassign` | All rows of the account are replaced already, so retiring it matches none, and the deleted account gets a node and a token again. |
| `node_gone` | The node vanishes between `get_user` and `update_user`. The fallback calls `get_best_node(service)` without `email`: a `TypeError` in place of a new node. |
| `load_drift` | `update_user` adds a row without counting it in; purging counts it out; `current_load` goes below zero. |

The properties of the passing runs are also sharp. These changes of an instance
make TLC find them violated, and each says something about the code:

* `NoStaleToken`, with `"unassign"` in `Operations`: the node is unassigned
  between a request's read and its in-place update; the update reaches no row,
  `update_user` sets the dict anyway, and the generation the request proved is
  forgotten (`README.md:133-134` of the repository promises a high-water mark).
  With `"delete"`, `"event"` and two workers: two `get_user` calls that disagree
  about the current row mark both rows replaced, after which a deletion leaves
  no tombstone. With two workers and three changes of the password (four versions
  with the same keys), without any event or deletion: two first requests race and
  the row of the older generation is the newer one; an in-place update raises both
  rows to one generation; two `get_user` calls now disagree which of them is the
  old one and mark both; the next in-place update reaches no row, and the
  generation it was accepted with is forgotten. In `racing_events` there is one
  reset, for which this cannot happen.
* `NoSpuriousReassignment`, with two workers and two changes of the password, after
  the first steps of the same race: the row in use is found replaced and the user
  is assigned a node again. With one worker it holds, events, crashes and
  deletions included. `NewestClientAccepted` and `ImplementsAccount` survive the race.
* `RetiredStaysLockedOut` is about requests that report a generation. An OAuth
  client without one passes the comparison with the tombstone (`views.py:441`)
  and gets a token for a deleted account.
* `NoStateRevival`, with `"legacy"` and `"oauth"` clients together: the newest client
  state arrives with a generation only, so keys_changed_at stays 0, and an old
  credential without a generation replaces it with the older client state, since
  *its* keys_changed_at is newer. With `"full"` and one of the two it holds.
* `ImplementsAccount`, with `RowLimit = 1`: the LIMIT of `get_user` is by
  `created_at` while the ranking is by generation, so the row of the highest
  generation, or the tombstone, can be out of sight. The code's limit is 20.
* `HandledTookEffect`, with `TRUE` for `Known`: a consumer that loaded its
  patterns before a service was added passes over it, until it is started again.
  With `"unassign"`: nodes are unassigned between the statements of an event, its
  update or retirement reaches no row, and the message is deleted. With two workers,
  `OneChange` and both a change and a deletion: two first requests race and insert two
  rows, the one of the older generation with the later `created_at`; an in-place
  update raises both to one generation; a `get_user` from before and one from after
  it disagree which row is old, and mark both (`sql.py:328`). `retire_user` matches no
  row, and the `delete` message is deleted without effect, although
  `process_account_events.py:15` says "we mark their records as retired".
  Over one reset, without a deletion, it holds for two workers.
* `EventsTakeEffect`, without `Restart`: one message that is not the expected
  object kills every consumer that reads it, in turn.
* `SettingFollowed`, for a setting of zero: `int(...) or default` takes it for no
  setting, and the old percentage stays. The migration cannot be switched off.
* `NewestClientAccepted`, with `"bare"` clients, or `"legacy"` and `"oauth"` ones
  mixed: what one does not report the other cannot be compared with. With two
  workers and `ResetThenChange`: a password change under the old keys races with a
  reset, the old row ends up with the highest generation, and the up-to-date
  client is refused. With two workers and `"oauth"` clients: two first allocations
  with generation 0 can leave an old client state current.
* `TurnedAwayOnlyWhenFull`, with `RoundsSlots = TRUE` and capacity 2: a tenth of
  a small capacity rounds to no slot, five releases release nothing, and the
  user is turned away from a node with room. With two workers, one can starve
  the other through all five rounds. With five nodes, of capacity 2, that come up
  one after the other between the rounds of one call, the last is missed.
* `MoveTakesEffect`, with `ClockSkew = 1`: the row that the script inserts on a clock
  that lags ranks below the row of the same generation that it copies. With two
  workers, the other may insert a row in between.
* `GraceOutlivesTokens`, with `Grace` below `TokenDuration`, and also with
  `"delete"`: a deletion between the reads and the writes of a reset leaves the
  tombstone as the current row and the new one as an old row, which `get_user`
  marks as replaced at the time the *tombstone* was created (`sql.py:327`). Its
  grace period is over at once. Two workers can do the same without a deletion.
* `NoRevivalByPurge`, with `"unassign"`: all rows are replaced, the last one is
  purged first, and the older one is the current one until its turn comes.
* `OldRowsPurged`, without `Blocked`: a batch full of rows on a downed node is
  fetched again, "Loop detected", and the older rows on nodes that are up, of this
  service and of those to come, are never reached.

Two more facts that the model of the purge shows, and that no property is about:
a dry run whose batch is full ends with "Loop detected", because the rows it
would have deleted are still there; and `--max-records` above `--max-per-loop` is
never reached, because its counter starts anew with each batch (`purge_old_records.py:76`).

### Bounds

* `MAX_GENERATION = 7` leaves room for three versions, the values one below them
  that events write, and the tombstone. The proofs take any value.
* `Versions` has two or three entries: with a reset and a password change in
  either order, each check of `return_token` has a version that passes it and
  one that fails it.
* `MaxUid` (2 to 4) rows: a first row, its replacement, and a racing or
  reassigned one. A worker that would insert more is stuck there, and may crash.
* `MaxClock` 1: rows of the same millisecond and of different ones. Only the
  order of timestamps matters.
* `ClockSkew` 1 in `one_worker`, 0 elsewhere, any number in the proofs.
* `RowLimit` 20 is the code's; no instance has that many rows. In `one_worker` it
  is 3, the number of rows, as the theorems about it assume; in `reassigned` it is 2,
  with 3 rows, so that rows do fall out of sight.
* `AccountEvents`: one reset and one deletion are two events of different kinds,
  each of which may be processed twice; `MaxCrashes` 1 besides the deaths by junk and
  of requests, which are not bounded. Two services: one there from the start, which
  the loop passes before or after this one, and this one, which the consumer may or
  may not know. One consumer, for the sake of the liveness property; with two (and
  symmetry) `HandledTookEffect` holds as well, in two million states, and the theorem
  about it is for any number.
* `WebProcess`: two requests of four kinds, with agreeing, missing and
  contradicting headers; percentages zero, and two others; `Lifespan` 1 time unit,
  fresh or not. The configuration file has no patterns, so that they are loaded.
* `NodeCapacity`: capacities 1 and 2 are the smallest that tell a last slot from
  an earlier one; `Rate`/`Unit` is 1/10 as configured where rounding is the
  question, and 1/2 where races are, so that a release yields one slot;
  `MaxUid` rows; `MaxTries` 5 is the code's; `MaxLoad` bounds the load of the
  Spanner node and the slots a crash-looping purger gives back twice.
* `PurgeUids`: three rows, two of one service and one of the other, and batches of
  two (`PerLoop`), so that full and short batches occur in either service, and a
  service with work after one that fails. `Grace` is 0 in `purge_loop`, where only the order of
  rows and steps matters, and `TokenDuration` in `account_purge`.
* `PurgeClock` 1 in `purge_loop`; `MaxClock` 3 in `account_purge`: time for a row to be
  replaced, to pass its grace period and to be replaced anew.
* Symmetry (none with liveness): workers and purgers, and nodes in
  `TokenRequests`, where they are interchangeable. In `NodeCapacity` they are not (one may be the
  Spanner node).

### Fairness

The specifications of requests and of capacity assume none: their properties are
safety properties, and a worker may stop anywhere. A request has no loop but
`get_best_node`'s, which is bounded by `MaxTries`, so a worker that keeps running
ends.

`OldRowsPurged` is a liveness property, under `Persistence` of each purger. The
script's `main` runs the purge again and again, unless `--oneshot`, and catches
what one run raises, so its own steps are weakly fair; that the process is
started again should it die is an assumption about the deployment. Those that may fail -
the query, the request to the storage node, the deletion of the record - are
strongly fair: attempted again and again, they do not fail for ever. Operators
may do what they like: a node need not come up, and a row may be replaced anew.
The fairness is per service: a run that reaches a service again and again gets
through to it in the end.

`EventsTakeEffect`: `process_account_events` polls "indefinitely", so a consumer
goes on with what it has started. Its statements take turns with those of requests,
which the model may have it wait for (with one worker, from one request to the
next), so `Process` is strongly fair: a consumer that gets its turn again and again
takes it; and a request that is under way ends (weak fairness of `RequestStep` while
it does), because it has no loop. That a consumer is started again when it has died
(`Restart`) is an assumption about the deployment, for the script does not restart
itself. A queue delivers a message again until it is deleted, and junk does not come
first for ever: strong fairness of each message's delivery, to any consumer. Crashes
are not fair, and a message may be processed any number of times.

`SettingFollowed`: verifiers and statements have timeouts, so a request goes on
(`Proceed`); time passes (`Tick`); a read of the setting that is tried again and
again succeeds at some time (strong fairness of `ReadSetting`). The premise of the
property, that new users keep coming, is part of it and not assumed.

## Proofs

Proved with TLAPS for any number of workers, nodes, versions and rows and, but for
`MoveTakesEffect` and where `Comparable` asks for it, any skew of the clocks. The
lemmas of `UserRecordsProofs` say that each statement maps a row to one that it may
have become (`Advances`), that a non-empty set of rows has a top-ranked one, so
`CHOOSE` in `CurrentRow` has something to choose (the rows need not be finite: the
argument takes the greatest generation, then the newest row), and that marking rows
leaves the current row where it is, whatever the LIMIT hides
(`SamePlacesKeepCurrent`). `RowLimit` is any positive number.

Several of the account's properties fail when workers race, when operators
unassign nodes, or when rows fall out of sight, as the list above shows. The
hypotheses of their theorems are named for that, and each is one that TLC finds a
property violated without:

| hypothesis | says | why |
|---|---|---|
| `OneAtATime` | one worker at a time is on the account; it may crash anywhere, any number of times | races of two `get_user` calls |
| `NoneReassigned` | no node is unassigned or removed | unassigning replaces the row in use |
| `AllInSight` | `MaxUid <= RowLimit`: the account has at most as many rows as `get_user` fetches (20) | with fewer in sight a tombstone can be missed |
| `Serial` | these three | |
| `Comparable` | every client reports a generation, or there is neither clock skew nor deletion | without a generation only `keys_changed_at` can be compared, which a tombstone does not have and a row on a lagging clock may have lost |
| `VersionsAdvance` | of two versions of the account the later one has the same keys, or other keys and both timestamps higher | FxA's promise, without which old keys cannot be told from new ones |
| `KeysReported` | clients report when their keys were changed (`"full"` and `"oauth"`) | the `"legacy"` and `"bare"` items above |
| `NoneDeleted` | no `"delete"` event | a deletion that races with a reset cuts a grace period short |
| `GraceSuffices` | `Grace >= TokenDuration + ClockSkew` | data would go under a good token |

Events, late and out of order, are allowed in all of them, and so are deletions
unless a row of the table says otherwise. The instances `one_worker` (but for
`Comparable`) and `account_purge` (all of them) satisfy the hypotheses.

`TokenRequestsProofs`:

* `TypeCorrect`: `Spec => []TypeOK`.
* `TokensNameTheirRows`: `Spec => []TokenNamesItsRow`, under any interleaving,
  crash and operation - that includes deletion, events and unassignment with any
  number of workers.
* `TokensNameLiveNodes`: `Spec => []NoTokenForRemovedNode`.
* `RowsAdvance`: `Spec => RowsOnlyAdvance`.

The inductive invariant is `TypeOK /\ TableInv /\ \A w : JobInv(w)`. `TableInv`
says that uids are unique and below the counter and that no row was created in
the future; without it an insertion could hit an existing uid. `JobInv` says what
a worker's locals are worth at each `pc`: from the insertion on its user dict
names a row of the table, with the client state of that row and its node or
none; a node once looked up is a node; and every node the worker knows existed
when its request arrived. It is preserved by the *other* workers' steps because
they only advance rows and no statement changes a row's uid, node or client
state.

`OneWorkerProofs`, about the same specification `Spec`:

* `DeletedAccountsStayOut`: `Serial` implies `Spec => []RetiredStaysLockedOut`.
* `NobodyIsMovedUnasked`: `Serial` implies `Spec => []NoSpuriousReassignment`.
* `RowsImplementAccount`: `Serial` implies `Spec => ImplementsAccount`, the
  refinement: each statement on the rows is a step of the high-water mark `Account`
  or leaves the mark alone (`MarkMoves`).
* `NoTokenIsStale`: with `Comparable`, `Spec => []NoStaleToken`.
* `NoStateComesBack`: with `VersionsAdvance` and `KeysReported`, and without the
  `allocate_user` script, `Spec => NoStateRevival`: the script places users
  without a client state, which is that of no version.
* `NewestClientGetsIn`: with `Comparable`, `VersionsAdvance` and `KeysReported`,
  `Spec => []NewestClientAccepted`.
* `MovesTakeEffect`: with `OneAtATime` and `ClockSkew = 0` alone, `Spec =>
  MoveTakesEffect`; nodes may be unassigned and removed and rows be out of sight.

The first invariant, `SerialInv`, is about the current row. None of the properties
is inductive: a crash may leave an older row active at any time, and what keeps
that from doing harm is where the row in use stands. `CurrentInv`: an account in
use has an active current row, and a deleted one stays deleted. `FloorInv`: what
was accepted is recorded there, or in a tombstone. `PlaceInv` follows a worker: the
row it has read is still the current one and is not among those it is about to
mark (marking those leaves one active row at most, which an in-place update then
reaches, and no other); a user dict about to be inserted succeeds the current row;
a row just inserted is the current one or, on a clock that lags, was created before
it and will not be marked by mistake. `ClaimsInv` and `SeenInv` say what the checks
already passed are worth.

The second, `VersionsInv`, ties rows to the account's history: the keys of each row
and user dict are those of a version, the newest generation comes with the newest
keys only, and no row has newer keys than the current one. So a request that
brings old keys is refused or finds them current, and the newest version passes
each check of `return_token` against the current row, which may itself be of an
older version. The third, `MovesInv`, follows the script: the dict it copies has
the generation of the current row until its own row is inserted, which then ranks
first by `created_at` and uid.

`AccountPurgeProofs`, about `AccountSpec`, with `Serial` and `NoneDeleted`:

* `DataOutlivesTokens`: with `GraceSuffices`, `AccountSpec => []GraceOutlivesTokens`.
* `PurgingRevivesNoState`: with the hypotheses of `NoStateComesBack`, `AccountSpec =>
  NoRevivalByPurge`.
* `NoTokenIsStaleWithPurging` and `NewestClientGetsInWithPurging`: with the
  hypotheses of the theorems without purging, `NoStaleToken` and
  `NewestClientAccepted` hold under `AccountSpec`.

The invariant is that of the requests with `PurgeInv`. `SerialInv` and `VersionsInv`
survive because a purge only takes rows that are replaced, and the current row
never is. `ExpiryInv`: the tokens of any row but the current one end by
`TokenDuration` (and the skew) after the time at which it was, or will be, marked
as replaced, which is when the current row was created. `PurgedInv`: a purger has in
its batch only rows all of whose tokens have expired, and keeps that while the
batch is worked off, because no token is issued for a replaced row (`HeldInv`).

`AccountEventsProofs`, about `EventsSpec`, for any number of consumers, services,
crashes and versions:

* `QueueDeliversEvents`: `EventsSpec => Spec`. Whatever the queue and its consumers
  do, the rows see a behaviour of `TokenRequests`; so each of its theorems holds
  under `EventsSpec` (`NewestClientGetsInDespiteEvents` is one of them).
* `QueueTypes`: `EventsSpec => []QueueTypeOK`.
* `HandledMessagesTookEffect`: `Serial` implies `EventsSpec => []HandledTookEffect`.

The first two need no hypothesis. Their invariant `PipeInv` says that no event is
processed before its version exists (`SentInv`), that no two consumers share a
worker (`TurnInv`) and that the worker a consumer has is at the statements of that
consumer's event (`ServeInv`). The third adds `EffectInv`: what is due stays known
and keeps its user (`DueInv`), a consumer that has been at the service has had the
effect that was due (`DoneInv`), and an effect, once there, stays (`EffectLasts`).
The effect comes from `BumpGeneration` and `RetireUser` only where an active row is
there for them to reach, and that is what `Serial` is for: the invariant of
`OneWorkerProofs` says that the current row of an account in use is active, and that
the row an event has read is still the current one when its update runs. Without it
the theorem is false: see the list of sharp properties above.

`WebProcessProofs`:

* `TypeCorrect`, `OldServicesFound` (`Spec => []KnownServiceFound`) and `KeyIdsCount`
  (`Spec => []KeyIdCounts`), for any number of requests and services.

The invariant adds that a `LazyDict` is either empty or has every service that was
there from the start (`PatternsInv`), and what a request's validated client state
is at each `pc` (`JobInv`).

`NodeCapacityProofs`:

* `CapacityTypes`: no number of slots is ever negative.
* `OvershootIsBounded`: a node is overfull by less than the number of workers.
* `SlotsAreFree`: a node offers no more slots than it has left, up to that
  overshoot.

The inductive invariant adds to these that only the Spanner node is claimed
without a limit (`SpannerInv`) and that a node's load *plus the claims on it that
are pending* is at most its capacity and the number of workers less one
(`LoadInv`). The load alone is not inductive: a worker that has selected a node
will count itself in without looking again.

* `TurnedAwayForWantOfRoom`: `Spec => TurnedAwayOnlyWhenFull`, for allocations one
  at a time, where fractions of a slot are kept, and if no node comes up from being
  down or there are fewer nodes than rounds (`FewSurprises`; with five nodes it
  fails, see above). Its invariant `RetryInv` counts: each round that a call has
  gone through left one node more that is not out of slots (`Served`), and with one
  allocation at a time no node runs out of slots meanwhile.

`PurgeRecordsProofs`:

* `PurgeTypes`: `Spec => []TypeOK`.
* `RecordsOutliveData`: `Spec => []RecordOutlivesData`, for any number of purgers
  on any rows and nodes, whatever fails.
* `LoopsMeanDowned`: `Spec => []LoopMeansDowned`. Its invariant `LoopInv` says that
  the rows of a batch which the loop has passed are gone or were on downed nodes,
  unless the run is dry.

The inductive invariant adds that a purger about to delete a record has had its
data deleted or its node is gone (`ClearedInv`), and what makes a batch read long
ago still worth something (`BatchInv`): a row never changes its node, and a node
that was gone stays away. Between them stands that the loop is at one row at a
time, because no two rows of a table are in the same place of the order.

Assumptions: the named `ASSUME`s on the constants (finite workers, positive
capacities, a rate of at most one, a grace period that is a number, account
versions that satisfy FxA's promises); TLC evaluates them in every run.

Model-checked only:

* The liveness properties `OldRowsPurged`, `EventsTakeEffect` and `SettingFollowed`:
  liveness under fairness and `ENABLED` are out of the prover's reach, like induction
  over data. No module uses a `RECURSIVE` operator.
* What the theorems on `Serial` leave out and a run has: `NoStaleToken`,
  `NewestClientAccepted` and `ImplementsAccount` for two workers over one reset
  (`racing_events`), and `NewestClientAccepted` while nodes are unassigned and removed
  (`reassigned`).

## Not modelled

* `update_node` with `capacity`, `available` or `current_load`: the operator sets
  the counters to anything, and nothing about them survives that.
* The key id in the request to the storage node, and what a storage node keeps: in
  the model it is data by uid. That two rows with one key may share data
  (`purge_old_records.py:88`), or that the key id of a tombstone may not be the
  one the data was stored under (line 137), depends on code that is not here.
* The rows of several services next to each other. They never meet: each statement
  but that of a deletion names one service, and that one treats all rows alike. What
  loops over services is in `AccountEvents` (the rows of one, the others passed) and
  `PurgeRecords`.
* The bytes of credentials, tokens and headers, and which error a bad one gets.
  BrowserID and OAuth verification is external; what it lets through is `ClaimsOf`.
* Which users a migration percentage picks (a hash of the address).
* The memory backend (a test double), `count_users` (read-only), reading the
  configuration, the node type classifier and the tweens (functions of a file or
  of one request), the database migrations (run by hand) and the load test (a
  client).

## Plan

Done: `UserRecords`, `TokenRequests` with the `allocate_user` script, `Account`,
`AccountEvents`, `WebProcess`, `NodeCapacity`, `PurgeRecords`, `AccountPurge` and
their proofs. Left, in this order:

1. Proofs: `NewestClientAccepted` for one worker while nodes are unassigned and
   removed, and `ImplementsAccount` for workers that race.
2. `HandledTookEffect` for workers that race over one reset, which TLC finds to hold.
3. Liveness in `TokenRequests`: under fair workers, after the last change of the
   account a client that keeps asking gets a token and the older rows end up
   replaced.
4. The counters that `update_node` sets, against what `get_best_node` still
   guarantees afterwards.
