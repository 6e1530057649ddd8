# TLA+ models of the elevator API

A verification development for the NestJS elevator service in `src/`: TLA+ modules for its
domain object, its command side and its movement pipeline, TLC runs on small instances, and
theorems checked by TLAPS for every instance. Paths below are relative to
`src/src/modules/elevator/`.

## The system

| Part | State it keeps | Operations | Talks to |
|---|---|---|---|
| Elevator aggregate (`domain/`) | floor, state, target, direction, request queue, uncommitted events | `call`, `moveOneFloor`, door timer, `markEventsAsCommitted` | nobody; built anew for each request |
| Repository (`infrastructure/repositories`) | rows and event log in PostgreSQL, `elevator:<id>:state` in Redis | `findById`, `save`, `createElevator` | PostgreSQL, Redis |
| Assignment (`application/services/elevator-assignment.service.ts`) | none | `assignElevator` | Redis |
| Commands (`application/commands`) | locals of the requests in flight | call, initialize | assignment, repository, event bus |
| Bus handlers (`application/events/handlers`) | none | on Called, Moving, Arrived | Redis, queue adapter, realtime service, Kafka, WebSocket |
| Queue adapter (`infrastructure/adapters/elevator.queue.ts`) | Bull jobs, `elevator:<id>:active-job` | `addMovementJob`, `removeExistingJobs`, listeners | Bull, Redis |
| Movement processor (`infrastructure/queues/processors`) | locals of running jobs, door timers | `move`, `emergency-stop` | Redis, event bus |
| Realtime service (`application/services/realtime-status.service.ts`) | tracking key, movement history, interval | broadcasts, tracking, history | Redis, WebSocket |
| WebSocket adapter, gateway (`infrastructure/adapters/websocket.adapter.ts`, `interfaces/websocket`) | connected clients, rooms | connect, disconnect, subscribe, broadcast | Redis, clients |
| Browser client (`src/client/index.html`) | rows of the page | merge of events | gateway |
| HTTP controller, queries, event store reads | none | GET and POST routes | commands, queries |
| Kafka, query logging, debug service, configuration | none that is read back | output | |

A call goes controller -> `CallElevatorHandler` -> assignment (Redis) -> repository (PostgreSQL,
then Redis) -> `aggregate.call` -> `save` (row, hash, events one by one) -> event bus. On the
bus an `ElevatorMovingEvent` becomes a Bull job; a worker writes the hash floor by floor,
publishes `ElevatorArrivedEvent` and sets two door timers. The Redis hash is shared by the
repository, both bus handlers, the processor and its timers, and nothing locks it.

What is hard here:

- **Requests interleave at every await.** Row, hash and log are separate commands, each
  decision is taken on data read earlier, and sequence numbers are read and then used.
- **Commands fail half-way.** A failed hash write is swallowed, a failed assignment makes a
  new elevator, a failed insert leaves a prefix of the events; a crash leaves any prefix.
- **Many writers of one hash.** Overlapping departures, two worker loops, retries from the
  first floor, door timers that do not look at what they overwrite, emergency stops.
- **Snapshots race with updates.** A list is two round trips to Redis; writes fall between them,
  broadcasts overlap, and an event overtakes the snapshot that was read before it.
- **A decision that leaves work behind.** The queue of the aggregate is served by whoever
  triggers the next request, and some paths trigger nothing.

The full list, at its lines and with the properties that answer it, is under `hazards` in
`PROJECT.json`.

## Modules

| Module | Models |
|---|---|
| `ElevatorCab` | The abstract promise: a position, a destination, doors. A cab passes every floor on its way, opens at its destination and nowhere else, closes, and gets there. |
| `ElevatorDomain` | `ElevatorAggregate` as a value: each synchronous method is a function from the object before to the object after. |
| `ElevatorAggregate` | One object that lives through any order of `call`, `moveOneFloor`, timer and commit. Refines `ElevatorCab`. |
| `CallElevator` | The command side: concurrent POST call and POST initialize over PostgreSQL and Redis. Uses the methods of `ElevatorDomain`. |
| `MovementPipeline` | Bus handlers, Bull, two worker loops, door timers, retries, stalls and crashes over the Redis hashes. In a serial regime it refines `ElevatorCab`. |
| `StatusBoard` | The abstract display: viewers are shown states of the fleet, never an older one after a newer one, and catch up. |
| `StatusFeed` | Gateway, WebSocket adapter, periodic broadcast, `GET /elevators` and the page, over one connection to Redis. Refines `StatusBoard`. |
| `ElevatorSystem` | `CallElevator` and the emergency stops of `MovementPipeline` over the same hashes. |
| `ElevatorDomainProofs`, `ElevatorAggregateProofs`, `CallElevatorProofs`, `MovementPipelineProofs`, `StatusFeedProofs` | Lemmas and theorems of the modules they are named for. |
| `FleetProofs` | Of `CallElevator`: what its two stores hold together in spite of races, and what nothing but a race breaks. |
| `DepartureProofs` | Of `MovementPipeline`: what becomes of a departure, how an elevator comes to rest, and the cab of the serial regime. |
| `ListLemmas` | What adding, taking and removing does to a list; in particular to one in which nothing stands twice, as Bull keeps its waiting jobs. |
| `MCElevatorAggregate`, `MCCallElevator`, `MCMovementPipeline` | Instances and symmetry for TLC. |

Operators named `Fault...` are faulty variants of the definition below them: each property is
shown to notice such a fault. No specification uses them.

### How state and actions correspond

`ElevatorAggregate`: `elevator` is the object, `doorTimers` counts the pending timeouts of
line 97, `committed` collects the events taken by the repository. `Init` allows what the
repository can rebuild (floor and state of a row, no target, no queue) and what `create` makes.
`StoredStates` are the states a row may hold.

`CallElevator`: `db`, `log`, `cache` are the two tables and the hashes; `req[r]` is a request
with its handler's locals. **One action is one awaited command, together with the code that
runs on its result up to the next await**; JavaScript runs that code without interruption, so
requests interleave exactly where the code can. `ListKeys`, `ReadHashes`, `WriteNewHash` are
`assignElevator`; `FindRow`, `CreateRow`, `SeedHash` and `LoadHistory` are `findById` (with
`call` on its result); `Upsert`, `WriteHash`, `NextSequence`, `InsertEvent` are `save`, with the
answer at its end. `DatabaseFault` and `AssignmentFault` are rejected commands; `WriteHash` and
`SeedHash` may fail silently. `Crash` ends all requests in flight. A command that was applied
although its reply was lost is a command followed by a fault or crash.

- `uuidv4` draws an unused id. The parallel `hgetall`s go out together on one connection and
  are one snapshot.
- `met` and `cached` are history variables: which requests each request was in flight with, and
  whether its save has written the hash. No action reads them; they let a property say "only where
  requests raced".
- No floor is ever written to a row but the one it had, so rows stay at floor 0; and no code
  writes MAINTENANCE to a row, so the refusal of `call` is reached in `ElevatorAggregate` only.

`MovementPipeline`: `hash` is the Redis hash, `job` and `wait` are what Bull keeps, `moving` and
`arrived` say where the two bus handlers of a trip are, `loop` holds the worker loops with
`currentFloor`. Commands are one action each; what is issued without an await in between is one
action, e.g. `Complete`: publish, the start of the arrival handler with its write, two timers.

- The environment publishes departures (`Publish`, any that the aggregate can make) and adds stops
  (`AddStop`): in the code at hand nothing publishes Moving events (`call_not_published`) and
  nothing adds emergency stops. The module says what the pipeline does once something does.
- Bull starts one loop for each `@Process`, and each takes jobs of either name: two `Loops`.
- Timers have no clock. The three-second timer of an arrival fires before its six-second one;
  otherwise anything may happen in between. This allows more orders than the code.
- **What Bull does when its own commands fail** is modelled, since the handler's effects depend on
  it. Bull is not in `src/`; this follows Bull 4. It runs
  `handler(job).then(handleCompleted).catch(handleFailed)`: a `moveToCompleted` that fails makes the
  attempt a failed one (`WorkerFault`, from `done` to `rejected`), to be tried again from the first
  floor although its arrival was published. A `moveToFailed` that fails too leaves the job active
  without a loop; its lock runs out (`LockExpires`). The lock of a running job is renewed by a
  command; if that fails there are no more renewals (`RenewalFault`) and the job becomes `unlocked`
  while its loop runs on. An unlocked job is given to another worker once (`Stalled`), and the loop
  that lost it can neither complete (`NotCompleted`) nor fail it (`NotRejected`). `made` is the
  loop's copy of `attemptsMade`, written back when the attempt fails, so a loop that lost its job
  may overwrite a higher count. The loops of one process use one lock token: a job that the other
  loop has locked again is completed by either.
- `active-job` and `tracking` are written and never read; they are modelled, and no property speaks
  of them.
- A job's id is its elevator and the millisecond. A job of the same elevator that was added just
  before may have the same id (`Namesakes`): Bull then keeps the old job and drops the new one
  (`Dropped`), and the caller is told nothing.
- Kafka and job progress change no state and are left out; what is broadcast is in `StatusFeed`.

`StatusFeed`: `past` is the list of the fleet's states, one for each write of a hash, so the
contents of a hash are the number of the write it stems from: what the viewers' properties are about
is only which write they see. `line` is the connection to Redis that all readers share. A command
takes effect when it is issued and is answered in order, so issuing and reading are one action
(`AskKeys`, the second half of `ReadHashes`, `Subscribe`), and the reply waits in `line`. Code that
runs on a reply may be overtaken by code that runs on a later one from the same packet, when fewer
promises lie between (`Depth`, `Answerable`): one for a command awaited in place, two where the
await is in a helper, three behind a `Promise.all`.

- The `hgetall`s of one `Promise.all`, and those of the pipeline of GET, go out back to back: one
  command, one snapshot.
- `Write` is any of the writers of `MovementPipeline` and `CallElevator` with the event it sends
  when its write is answered. `movement` and `arrived` are the worker's two; `handler` is the
  arrival handler, which writes tracking and history before its own announcement; `update` stands
  for every event that the page does not show (`elevator-update`, `elevator-idle`, ...) or for none.
- `table` is a page's rows: `elevator-states`, `elevator-state`, `elevator-movement` and
  `elevator-arrived` go into it. `status` is the last list a viewer got, from `elevators-status` or
  from GET: the page only logs it, other clients may not.
- Rooms are joined and left, and nothing is ever sent to one, so they are not modelled.
- What is pending for a client that disconnects is still answered, to `Nobody`: a socket that is
  gone takes no message, and if the same client connects again it does so on a new one.
- A failed command is logged by whoever issued it, and nothing is sent (`CommandFault`).

`ElevatorSystem` takes both modules by INSTANCE with `cache` for `hash`. Its steps are those of
`CallElevator`, unchanged, and of the worker with stops. Departures are absent because the command
side publishes none.

## Runs

| Run | Bounds | Shows |
|---|---|---|
| `aggregate` | floors 0..2, 2 calls, stored states IDLE, MOVING, MAINTENANCE | Types, heading for the target, timer and queue discipline, journal, order of service, the safety of the cab. |
| `aggregate_stranded` | floors 0..2, 1 call | *Violation.* A floor asked for is not always reached. |
| `call_race` | 3 requests, 2 in flight at once, 2 ids, 1 failure or crash | What survives races and failures: no gaps in the log, order of one's own events, departures and answers on record, same elevators in both stores. And that only races break the rest: repeated numbers, stores that differ after a save, several default elevators, lost departures. |
| `call_not_published` | 1 request | *Violation.* Moving events are committed away before they are published. |
| `pipeline` | 2 trips of one elevator, 3 floors, no failures | One loop per job, jobs removed only for another departure, history bounded, hash comes to rest. |
| `pipeline_faults` | 1 trip, 2 loops, 2 floors, 2 failures or crashes | With a lost lock the second loop runs the job beside the first, and no third does; a completed move was reported, and not more often than its attempts allow. |
| `pipeline_retry` | 1 trip, 1 loop, 2 floors, 3 failures | All three attempts and the stall limit: the job ends, and its arrivals stay within its attempts. |
| `pipeline_serial` | 2 trips, 2 elevators, 3 floors | With departures only from IDLE hashes, the hash is a cab. |
| `pipeline_stop` | 2 trips, 3 floors | *Violation.* A stopped elevator does not stay stopped. |
| `feed` | 2 elevators, 1 client, 1 poller, 3 writes, 2 pending commands, 1 failure or crash | The lists of `elevators-status` and GET are a status board: of one moment, in order (`ImplementsBoard`) and caught up with after failures (`ListsCatchUp`). |
| `feed_page` | 1 page, 2 writes, 2 pending commands, no failures | *Violation.* A page that stays connected may show an old state for good. |
| `system_stop` | 2 requests one at a time, 1 stop | *Violation.* An elevator under maintenance accepts a call. |

Why the bounds are enough to be interesting: three floors give a journey with an intermediate
floor in both directions; two calls fill the queue (up to four floors) while the elevator moves;
two requests in flight produce every pairwise race, and the third finds what they left; two trips
of one elevator produce overlapping handlers, a job removed while waiting, one locked while it is
removed, and two loops on one elevator. Two failures are a lost lock and a result that cannot be
recorded, or a crash between them; three are as many as the attempts of a job. Two pending
commands are two overlapping broadcasts, or a broadcast and a write or a snapshot between its
round trips; three writes of two elevators give snapshots that differ in either or both.
`MaxHistory = 1` makes every second record exceed it. The bounds are `MaxCalls`, `MaxConcurrent`,
`MaxFaults`, `MaxWrites`, `MaxPending` and the sizes of the sets.

`CHECK_DEADLOCK FALSE` everywhere: when the calls, requests or trips of an instance are used up
and everything is at rest, the system stops.

Properties that start with `faults = 0 =>` hold only without failures: a crash loses the timers or
a half of a save, and the code has nothing that would repair it.

### Fairness

- `ElevatorAggregate`: none, for what holds. Nothing in `src/` calls `moveOneFloor`, so no step of
  it can be relied on, and no liveness is claimed. The one run with fairness is a violation,
  `aggregate_stranded`: it *grants* the object a caller of `moveOneFloor`, and the floor is not
  reached all the same.
- `CallElevator`: none. That a request ends would follow from the assumption that every command is
  answered, and say no more than that.
- `MovementPipeline`: handlers, loops, timers, Bull's promotion of delayed jobs, the end of a lock
  that nobody renews, and Bull's check for stalled jobs. Departures, stops, failures and expiries
  are never forced.
- `StatusFeed`: weak fairness of the first reply (a command is answered or rejected), strong
  fairness of `Tick` and `Poll`. `setInterval` ticks whatever is pending; only the model's bound
  `MaxPending` disables it now and then, which weak fairness would take as an excuse. That a poller
  keeps asking is an assumption on the environment. Writes, connections and failures are never
  forced.

### Violations

Each of these runs checks one sentence of `src/README.md` or of the code; `findings` in
`PROJECT.json` quotes it.

1. `QueuedFloorIsReached` (line 39): a call from the elevator's own floor takes that floor off
   the queue and stops there; the destination waits for somebody else's call.
2. `DepartureIsPublished` (line 294): events are read for publishing after `save` has emptied them.
3. `StopHolds` (line 491): the movement under way, or a door timer, overwrites MAINTENANCE.
4. `PageCatchesUp` (line 418): the page has no listener for `elevator-update` (closing doors, IDLE,
   stops) or `elevators-status`, so a state that only these tell of never reaches the screen.
5. `StoppedIsNotCalled` (`domain/elevator.aggregate.ts:28`): the refusal is decided on the state of
   the row, and an emergency stop writes the hash only. In TLC's trace the stop comes while the
   first request is under way, after the hash was made and before the call: the row says IDLE, the
   call is accepted, and `save` overwrites MAINTENANCE.

Other disagreements met on the way, without a run, since a reading settles them: `initialFloor` is
accepted and ignored (README 352); `MAX_ELEVATORS` is not enforced (369); an unknown elevator is
answered with defaults, not with 404 (340); the gateway's "Methods called by the WebSocketAdapter"
(`elevator.gateway.ts:127`) are called by nobody; no code emits `elevator-doors`.

## Proofs

For every height of building, number of calls, requests, trips, worker loops, elevators, viewers,
writes and failures:

- `TypeCorrect`, `TargetSafe`, `TimerSafe`, `QueueSafe`, `QueueDistinct`: **the floor never leaves
  the building.** `moveOneFloor` adds or subtracts one without looking. TypeOK is therefore not
  inductive: it needs that a travelling elevator heads for its target, which is a floor
  (`HeadsForTarget`); that needs that no timer sets a moving elevator IDLE (`TimerGuardsDoors`: a
  timer is pending only while the doors open, and never two), and that the queue holds floors once
  each. The conjunction is `IInv`. `ElevatorDomainProofs` has a lemma for each method, stated on the
  value; a step of the module then cites the lemma of its method.
- `CourseHeld`, `ServedInOrder`: action properties from the same invariant; the second rests on
  lemmas on `Append` and `Tail`.
- `JournalTold`: **the events tell the journey**, however many are committed away in between. The
  theorem's own invariant is the property itself (`Tells`: each leg follows the one before, the last
  one says what the elevator does now); what carries it is `IInv`. A new departure is raised when
  nothing is under way, so the last leg was an arrival on the present floor and the departure leaves
  from there; an arrival is raised at the target, where the last leg, a departure, goes.
  `NextRequestTakes` says which events a method raises, `LegsAppend` which legs a longer log has.
- `AggregateIsACab`: initial states map to initial states, and each action maps to a step of
  `ElevatorCab` or a stutter; this is the whole of `ImplementsCab`.
- `CommandTypes`, `NoGaps`, `OwnEventsOrdered`, `AnswersRecorded`: **whatever the interleaving,
  failures and crashes**, the log has numbers 1..n without a gap (with repetitions), one save's
  events stand in order, and an answer is given only for a call whose row and Called event are
  stored. The hash is stored as well, with one exception that the code makes: `updateRedisState`
  swallows its errors, so an initialized elevator may be answered without one. Here the invariant
  must say what a request *knows* between two awaits: `LocalsOk` (how many events it has to store
  and has stored), `RowsOk` (which of its events are in the log; and that a number it has read is
  above those of its own events and one above numbers that are all taken, which stays true because
  nothing deletes from the log) and `StoresOk` (the row and the hash it has written are there,
  because others only overwrite).
- `OneFleet`, `DeparturesRecorded`: **without failures, what one store says the other will say
  too**, although several requests may create or save the same elevator. A store may lack something
  only while an elevator is busy, and then a request holds it in its locals: the row still to be
  made for a hash, the hash still to be written for a row, the Moving event still to be stored for a
  row that is MOVING (`FleetInv`: `HashHasRow`, `RowHasHash`, `RowExplained`, `HeldExplained`).
  Another request may overwrite a row meanwhile, but only with what it has read or raised itself,
  which `HeldExplained` explains as well.
- `RepeatsAreRaces`, `DefaultsAreRaces`, `LoneRequestsSync`, `DeparturesLostInRaces`: **nothing but
  a race breaks the log, the stores and the departures.** Nothing in the code locks an elevator or
  keeps requests apart, so events do get the same number, stores do differ, and departures are
  overwritten. The theorems hold for any number of requests in flight and say exactly where this
  comes from: two requests that were in flight together (`met`), for one elevator (`Rivals`). A
  request without a rival is safe, whatever others did before it, failed commands and crashes
  included (only the default elevators are claimed without failures: a failed assignment makes
  another one). The invariant `RaceInv` says that what a request has read of its elevator still
  holds or it has a rival (`OwnInv`: `Raced` or `Own`); that a number taken since it read the last
  one is a rival's (`NumberInv`); that two elevators which calls made for want of any are of calls
  that met (`BornInv`); and that `met` is what its name says (`MetInv`: mutual, and complete for
  requests in flight). A request gets a rival by meeting it, never by choosing an elevator that
  somebody holds unnoticed: whoever still holds it is in flight.
- `PipelineTypes`, `OneWorker`, `ArrivalsReported`: **no order of attempts, lost locks, stalls,
  crashes and overlapping departures drives an elevator out of the building, gives a job to more
  loops than it stalled, or reports an arrival beyond the attempts.** TypeOK alone is not inductive:
  `Travel` adds or subtracts one without looking, so the invariant of `MovementPipelineProofs` says
  that a travelling loop is still between the first and the last floor of its job (`LoopOk`), which
  needs that a job's data and direction fit (`JobOk`). `RunsOk` says that a second loop has a job
  only after it was given away for a lost lock, and never a third. For the arrivals it counts what
  is *still to come* (`WithinBudget`): what a loop may publish, with the retries its failure may
  lead to (`Left`), and what a queued job may (`Ahead`), fit into `Attempts` for each worker given.
  A bound on what was published would not be inductive, since a loop that lost its job writes back
  its own, lower count of attempts. Without failures a move is reported once.
- `HistoryTrimmed`: without failures a job that is active has its loop and its arrival is handled
  once (`InOrder`), so every record that exceeds the bound has its own cut still to come. Here the
  set of trips must be finite (`TripsAssumption`), so that handlers can be counted.
- `LostToAnother`: a handler removes jobs of its own elevator only (`HandlerOk`, with failures too);
  a departure whose job is removed or has a taken id then has a *holder*, and whatever takes the
  holder's place is one again.
- `RestInTheEnd`: whoever writes a movement into a hash has a trip that is not finished
  (`Unfinished`) and will write over it, and open doors have a timer that will write IDLE
  (`TimersOk`: no three-second timer without its six-second one). The last writer wins, whoever it
  is.
- `SerialIsACab`: **if departures are published only for an elevator seen IDLE, its hash is a cab**,
  for any number of trips, elevators, loops and floors, as in `pipeline_serial`. What must be
  excluded is a second writer. The invariant `CInv` says of each elevator (`Course`) that at most
  one unfinished trip drives it, and then no timer is pending and the hash is what that trip last
  wrote (`Shown`); or else the hash has no target, and its state is the one that the pending timers
  leave (`TimedState`). So an IDLE hash means that nobody drives, and the departure published then
  is the only one. The steps of `SerialSpec` are steps of `Next` without failures and stops
  (`SerialIsNext`), so the earlier invariants hold of it too.
- `FeedTypes`, `FeedIsABoard`: **no list mixes moments, and no viewer goes back in time**, though
  broadcasts, polls and snapshots overlap and each is two round trips. The keys are read at one
  moment and the hashes at another, yet all elevators on a list are as they were at one moment,
  because keys are never deleted and the hashes are one snapshot; an elevator made in between is
  missing, and no more than that. The invariant: `past` only grows newer (`Growing`); along `line`,
  keys that come later list no fewer elevators and hashes that come later are no older (`InTurn`),
  and both are states the fleet was in (`PendingOk`); what a viewer has seen precedes all that is
  pending (`SeenOk`). That replies come in order and the list that waits behind a `Promise.all`
  cannot be overtaken by another list (`FirstComeFirstServed`) keeps it; `ShownMonotone` turns "no
  older" into "no earlier state" of the board. The handlers of one Node process on one connection
  are what makes this true: `FaultAnswerable` breaks it.

The assumptions are the named ASSUMEs: floors are naturals, the model values for "nothing" are
not values, there are finitely many trips, bounds are naturals, and clients and pollers are not the
same. Proved are every safety property
of every passing run, and the safety part of three refinements. **Only model-checked**: liveness,
which the prover does not reach (`JobEnds`, `ListsCatchUp`, and the
fairness in `pipeline_serial`'s cab).

## Not modelled

Rooms and acknowledgements of the gateway; the GET routes other than the list (one read each);
Kafka, which is only written; query logging; the debug service; the BullMQ variant of the queue,
which is dead code. The components in `PROJECT.json` give the reason for each.

## Plan

Done, in this order: `ElevatorDomain`, `ElevatorCab`, `ElevatorAggregate` with proofs;
`CallElevator` with proofs; `MovementPipeline`; `StatusBoard` and `StatusFeed`; `ElevatorSystem`;
`MovementPipelineProofs`, `DepartureProofs`, `StatusFeedProofs` and `FleetProofs`.

Next:

1. Properties for the hazards that have none, with their proofs where they are safety: what a
   reloaded aggregate has forgotten, and the keys that are written and never read.
2. `ElevatorSystem` with a command side that publishes its departures, once the code does: calls
   to a moving elevator, row against hash after an arrival.
