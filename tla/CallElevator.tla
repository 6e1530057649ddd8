---------------------------- MODULE CallElevator ----------------------------
(***************************************************************************)
(* The command side: POST call and POST initialize, from the controller to *)
(* the answer.  A handler runs alone between two awaits; each action is    *)
(* one awaited command to PostgreSQL or Redis with the code that runs on   *)
(* its result, so requests interleave exactly at the awaits.               *)
(* CallElevatorHandler, InitializeElevatorHandler,                         *)
(* ElevatorAssignmentService, ElevatorRepository.                          *)
(***************************************************************************)
EXTENDS ElevatorDomain, FiniteSets

CONSTANTS
    Requests,       \* the HTTP requests
    Elevators,      \* the uuids that can be drawn
    NoElevator,     \* a request that has no elevator yet
    Nothing,        \* an absent row or hash
    MaxConcurrent,  \* how many requests are in flight at once
    MaxFaults       \* bound: failed commands and process crashes

ASSUME NoElevatorAssumption == NoElevator \notin Elevators

VARIABLES
    db,         \* the elevators table: a row or Nothing
    cache,      \* the hashes elevator:<id>:state in Redis: a hash or Nothing
    log,        \* the elevator_events table: the event rows of each elevator
    published,  \* the events that reached the event bus
    req,        \* the requests and the locals of their handlers
    met,        \* history: the requests in flight together with each request
    faults      \* failures so far, against MaxFaults

vars == <<db, cache, log, published, req, met, faults>>

(* The columns of a row and the fields of a hash.                           *)
Row == [ floor : Floor, state : State, direction : Direction, target : Floor \cup {NoFloor} ]

ASSUME NothingAssumption == Nothing \notin Row

LogRow == [ seq : Nat \ {0}, type : {"Called", "Moving", "Arrived"}, by : Requests ]

Resting == {"absent", "answered", "failed", "lost"}

Phase == Resting \cup
    {"keys", "hashes", "default", "fallback", "find", "create", "seed", "history",
     "upsert", "hash", "sequence", "insert"}

Request == [ kind   : {"call", "initialize"},
             from   : Floor, to : Floor,             \* initialize: the floor asked for, twice
             phase  : Phase,                         \* what the handler awaits
             elev   : Elevators \cup {NoElevator},   \* elevatorId
             keys   : SUBSET Elevators,              \* elevatorKeys
             agg    : Aggregate,                     \* the aggregate in memory
             cached : BOOLEAN,                       \* history: save has written the hash
             seq    : Nat,                           \* sequenceNumber
             stored : Nat ]                          \* i of the loop in save

NewRequest == [ kind |-> "call", from |-> 0, to |-> 0, phase |-> "absent", elev |-> NoElevator,
                keys |-> {}, agg |-> Created(0), cached |-> FALSE, seq |-> 0, stored |-> 0 ]

Init ==
    /\ db    = [e \in Elevators |-> Nothing]
    /\ cache = [e \in Elevators |-> Nothing]
    /\ log   = [e \in Elevators |-> {}]
    /\ published = {}
    /\ req   = [r \in Requests |-> NewRequest]
    /\ met   = [r \in Requests |-> {}]
    /\ faults = 0

-----------------------------------------------------------------------------
InFlight == {r \in Requests : req[r].phase \notin Resting}

Keys == {e \in Elevators : cache[e] # Nothing}

(* uuidv4: an id nobody has seen.                                           *)
FreshId == {e \in Elevators : /\ db[e] = Nothing /\ cache[e] = Nothing
                              /\ \A r \in Requests : req[r].elev # e}

FreshRow == [floor |-> 0, state |-> "IDLE", direction |-> "IDLE", target |-> NoFloor]

(* The getter targetFloor is value || null: a target of 0 is stored as none. *)
StoredTarget(f) == IF f = 0 THEN NoFloor ELSE f

RowOf(a) == [floor |-> a.floor, state |-> a.state, direction |-> a.direction,
             target |-> StoredTarget(a.target)]

At(r, p) == req[r].phase = p

Fault == faults < MaxFaults /\ faults' = faults + 1

(* The handler of r goes on with these locals; the others wait.             *)
Becomes(r, v) == req' = [req EXCEPT ![r] = v]

(* The promise of the handler rejects: the client gets an error.            *)
Fails(r) == Becomes(r, [req[r] EXCEPT !.phase = "failed"])

(* A request meets those in flight when it comes, and they meet it.         *)
Meets(r) ==
    met' = [s \in Requests |-> IF s = r THEN InFlight
                               ELSE IF s \in InFlight THEN met[s] \cup {r} ELSE met[s]]

(* Controller: the request is dispatched to its handler.                    *)
ReceiveCall(r) ==
    /\ At(r, "absent") /\ Cardinality(InFlight) < MaxConcurrent
    /\ \E from, to \in Floor :
         Becomes(r, [req[r] EXCEPT !.from = from, !.to = to, !.phase = "keys"])
    /\ Meets(r)
    /\ UNCHANGED <<db, cache, log, published, faults>>

ReceiveInitialize(r) ==
    /\ At(r, "absent") /\ Cardinality(InFlight) < MaxConcurrent
    /\ \E f \in Floor, e \in FreshId :
         Becomes(r, [req[r] EXCEPT !.kind = "initialize", !.from = f, !.to = f,
                                   !.elev = e, !.phase = "find"])
    /\ Meets(r)
    /\ UNCHANGED <<db, cache, log, published, faults>>

-----------------------------------------------------------------------------
(* ElevatorAssignmentService.assignElevator.  Actions named FaultX, here    *)
(* and below, vary the one they precede; the model never takes them.        *)

IdleAmong(ks) == {e \in ks : cache[e].state = "IDLE"}

FaultListKeys(r) ==              \* a new elevator whenever none is IDLE
    /\ At(r, "keys")
    /\ \/ /\ IdleAmong(Keys) # {}
          /\ Becomes(r, [req[r] EXCEPT !.keys = Keys, !.phase = "hashes"])
       \/ /\ IdleAmong(Keys) = {}
          /\ \E e \in FreshId : Becomes(r, [req[r] EXCEPT !.elev = e, !.phase = "default"])
    /\ UNCHANGED <<db, cache, log, published, faults>>

ListKeys(r) ==
    /\ At(r, "keys")
    /\ \/ /\ Keys # {}
          /\ Becomes(r, [req[r] EXCEPT !.keys = Keys, !.phase = "hashes"])
       \/ /\ Keys = {}
          /\ \E e \in FreshId : Becomes(r, [req[r] EXCEPT !.elev = e, !.phase = "default"])
    /\ UNCHANGED <<db, cache, log, published, faults>>

Apart(f, g) == IF f > g THEN f - g ELSE g - f

(* The elevators the service may answer with.  KEYS has no order, so the    *)
(* first key, and the first of several nearest, is any of them.             *)
Candidates(ks, from) ==
    IF IdleAmong(ks) = {} THEN ks
    ELSE {e \in IdleAmong(ks) : \A d \in IdleAmong(ks) :
             Apart(cache[e].floor, from) <= Apart(cache[d].floor, from)}

(* The hgetall of one map leave together on the one connection and are      *)
(* answered together: one snapshot, of the keys seen one await earlier.     *)
ReadHashes(r) ==
    /\ At(r, "hashes")
    /\ \E e \in Candidates(req[r].keys, req[r].from) :
         Becomes(r, [req[r] EXCEPT !.elev = e, !.phase = "find"])
    /\ UNCHANGED <<db, cache, log, published, faults>>

(* hset of the default or of the fallback elevator.                         *)
WriteNewHash(r) ==
    /\ At(r, "default") \/ At(r, "fallback")
    /\ cache' = [cache EXCEPT ![req[r].elev] = FreshRow]
    /\ Becomes(r, [req[r] EXCEPT !.phase = "find"])
    /\ UNCHANGED <<db, log, published, faults>>

(* Any error above is caught once, and answered with another new elevator;  *)
(* an error of that hset is not caught.                                     *)
AssignmentFault(r) ==
    /\ Fault
    /\ \/ /\ At(r, "keys") \/ At(r, "hashes") \/ At(r, "default")
          /\ \E e \in FreshId : Becomes(r, [req[r] EXCEPT !.elev = e, !.phase = "fallback"])
       \/ At(r, "fallback") /\ Fails(r)
    /\ UNCHANGED <<db, cache, log, published>>

-----------------------------------------------------------------------------
(* ElevatorRepository.findById, then the synchronous part of the handler.   *)

FaultFindRowRejects(r) ==        \* a missing row is an error
    /\ At(r, "find")
    /\ LET row == db[req[r].elev] IN
       \/ row = Nothing /\ Fails(r)
       \/ /\ row # Nothing
          /\ Becomes(r, [req[r] EXCEPT !.agg = Rehydrated(row.floor, row.state),
                                       !.phase = "history"])
    /\ UNCHANGED <<db, cache, log, published, faults>>

FaultFindRowForgets(r) ==        \* the stored state is not passed on
    /\ At(r, "find")
    /\ LET row == db[req[r].elev] IN
       \/ row = Nothing /\ Becomes(r, [req[r] EXCEPT !.phase = "create"])
       \/ /\ row # Nothing
          /\ Becomes(r, [req[r] EXCEPT !.agg = Created(row.floor), !.phase = "history"])
    /\ UNCHANGED <<db, cache, log, published, faults>>

FindRow(r) ==
    /\ At(r, "find")
    /\ LET row == db[req[r].elev] IN
       \/ row = Nothing /\ Becomes(r, [req[r] EXCEPT !.phase = "create"])
       \/ /\ row # Nothing
          /\ Becomes(r, [req[r] EXCEPT !.agg = Rehydrated(row.floor, row.state),
                                       !.phase = "history"])
    /\ UNCHANGED <<db, cache, log, published, faults>>

(* TypeORM's save selects the row, then inserts or updates it.  Where two   *)
(* requests create the same row, the later one resets what the first has    *)
(* written, or, if it selected too early, fails on the primary key.         *)
CreateRow(r) ==
    /\ At(r, "create")
    /\ LET e == req[r].elev
           ok == [req[r] EXCEPT !.agg = Created(0), !.phase = "seed"] IN
       \/ db[e] = Nothing /\ db' = [db EXCEPT ![e] = FreshRow] /\ Becomes(r, ok)
       \/ /\ db[e] # Nothing
          /\ db' = [db EXCEPT ![e] = [FreshRow EXCEPT !.target = db[e].target]]
          /\ Becomes(r, ok)
       \/ db[e] # Nothing /\ Fails(r) /\ UNCHANGED db
    /\ UNCHANGED <<cache, log, published, faults>>

(* updateRedisState after the creation; it swallows every error.            *)
SeedHash(r) ==
    /\ At(r, "seed")
    /\ \/ cache' = [cache EXCEPT ![req[r].elev] = FreshRow] /\ UNCHANGED faults
       \/ Fault /\ UNCHANGED cache
    /\ Becomes(r, [req[r] EXCEPT !.phase = "history"])
    /\ UNCHANGED <<db, log, published>>

(* The stored events are fetched, and dropped; the call is made on what     *)
(* was read from the row one or more awaits ago.                            *)
LoadHistory(r) ==
    /\ At(r, "history")
    /\ \/ /\ req[r].kind = "initialize"
          /\ Becomes(r, [req[r] EXCEPT !.phase = "upsert"])
       \/ /\ req[r].kind = "call" /\ Accepts(req[r].agg)
          /\ Becomes(r, [req[r] EXCEPT !.agg = WithCall(@, req[r].from, req[r].to),
                                       !.phase = "upsert"])
       \/ req[r].kind = "call" /\ ~Accepts(req[r].agg) /\ Fails(r)
    /\ UNCHANGED <<db, cache, log, published, faults>>

-----------------------------------------------------------------------------
(* ElevatorRepository.save                                                  *)

Upsert(r) ==
    /\ At(r, "upsert")
    /\ db' = [db EXCEPT ![req[r].elev] = RowOf(req[r].agg)]
    /\ Becomes(r, [req[r] EXCEPT !.phase = "hash"])
    /\ UNCHANGED <<cache, log, published, faults>>

FaultAfterHash(r) == "answered"  \* committed before the events are saved

AfterHash(r) == IF req[r].agg.events = <<>> THEN "answered" ELSE "sequence"

FaultWriteHash(r) ==             \* the direction field is left out
    /\ At(r, "hash")
    /\ cache' = [cache EXCEPT ![req[r].elev] = [RowOf(req[r].agg) EXCEPT !.direction = "IDLE"]]
    /\ Becomes(r, [req[r] EXCEPT !.cached = TRUE, !.phase = AfterHash(r)])
    /\ UNCHANGED <<db, log, published, faults>>

WriteHash(r) ==
    /\ At(r, "hash")
    /\ \/ /\ cache' = [cache EXCEPT ![req[r].elev] = RowOf(req[r].agg)]
          /\ Becomes(r, [req[r] EXCEPT !.cached = TRUE, !.phase = AfterHash(r)])
          /\ UNCHANGED faults
       \/ /\ Fault                \* swallowed
          /\ Becomes(r, [req[r] EXCEPT !.phase = AfterHash(r)])
          /\ UNCHANGED cache
    /\ UNCHANGED <<db, log, published>>

(* s is the highest sequence number of the rows, 0 if there is none.        *)
IsLastSequence(rows, s) ==
    \/ rows = {} /\ s = 0
    \/ (\E x \in rows : x.seq = s) /\ (\A x \in rows : x.seq <= s)

FaultNextIsLast(r) ==            \* the last number, not the next
    /\ At(r, "sequence")
    /\ \E s \in {0} \cup {x.seq : x \in log[req[r].elev]} :
         /\ IsLastSequence(log[req[r].elev], s)
         /\ Becomes(r, [req[r] EXCEPT !.seq = s, !.phase = "insert"])
    /\ UNCHANGED <<db, cache, log, published, faults>>

FaultNextByCount(r) ==           \* count() + 1
    /\ At(r, "sequence")
    /\ Becomes(r, [req[r] EXCEPT !.seq = Cardinality(log[req[r].elev]) + 1, !.phase = "insert"])
    /\ UNCHANGED <<db, cache, log, published, faults>>

(* getNextSequenceNumber: read the last row, add one; nothing is locked.    *)
NextSequence(r) ==
    /\ At(r, "sequence")
    /\ \E s \in {0} \cup {x.seq : x \in log[req[r].elev]} :
         /\ IsLastSequence(log[req[r].elev], s)
         /\ Becomes(r, [req[r] EXCEPT !.seq = s + 1, !.phase = "insert"])
    /\ UNCHANGED <<db, cache, log, published, faults>>

FaultInsertEvent(r) ==           \* one number read for all the events
    /\ At(r, "insert")
    /\ LET a == req[r].agg  i == req[r].stored + 1 IN
       /\ log' = [log EXCEPT ![req[r].elev] =
                    @ \cup {[seq |-> req[r].seq, type |-> a.events[i].type, by |-> r]}]
       /\ Becomes(r, [req[r] EXCEPT !.stored = i,
                                    !.phase = IF i < Len(a.events) THEN "insert" ELSE "answered"])
    /\ UNCHANGED <<db, cache, published, faults>>

(* One event is inserted.  After the last one save commits the aggregate,   *)
(* and the handler publishes what the aggregate still holds.                *)
InsertEvent(r) ==
    /\ At(r, "insert")
    /\ LET a == req[r].agg
           i == req[r].stored + 1
           done == WithEventsCommitted(a) IN
       /\ log' = [log EXCEPT ![req[r].elev] =
                    @ \cup {[seq |-> req[r].seq, type |-> a.events[i].type, by |-> r]}]
       /\ \/ /\ i < Len(a.events)
             /\ Becomes(r, [req[r] EXCEPT !.stored = i, !.phase = "sequence"])
             /\ UNCHANGED published
          \/ /\ i = Len(a.events)
             /\ Becomes(r, [req[r] EXCEPT !.stored = i, !.agg = done, !.phase = "answered"])
             /\ published' = published
                  \cup {[type |-> done.events[j].type, by |-> r] : j \in DOMAIN done.events}
    /\ UNCHANGED <<db, cache, faults>>

(* A command to PostgreSQL fails: nothing before it is undone.              *)
DatabaseFault(r) ==
    /\ Fault
    /\ req[r].phase \in {"find", "create", "history", "upsert", "sequence", "insert"}
    /\ Fails(r)
    /\ UNCHANGED <<db, cache, log, published>>

(* The process dies and comes back: the handlers and their locals are gone. *)
Crash ==
    /\ Fault
    /\ InFlight # {}
    /\ req' = [r \in Requests |->
                 IF r \in InFlight THEN [req[r] EXCEPT !.phase = "lost"] ELSE req[r]]
    /\ UNCHANGED <<db, cache, log, published, met>>

-----------------------------------------------------------------------------
Step(r) ==
    /\ \/ ListKeys(r) \/ ReadHashes(r) \/ WriteNewHash(r) \/ AssignmentFault(r)
       \/ FindRow(r) \/ CreateRow(r) \/ SeedHash(r) \/ LoadHistory(r)
       \/ Upsert(r) \/ WriteHash(r) \/ NextSequence(r) \/ InsertEvent(r)
       \/ DatabaseFault(r)
    /\ UNCHANGED met

Receive(r) == ReceiveCall(r) \/ ReceiveInitialize(r)

Next == Crash \/ \E r \in Requests : Receive(r) \/ Step(r)

Spec == Init /\ [][Next]_vars

-----------------------------------------------------------------------------
(* The stores and the locals hold what their columns and types declare.     *)
TypeOK ==
    /\ db    \in [Elevators -> Row \cup {Nothing}]
    /\ cache \in [Elevators -> Row \cup {Nothing}]
    /\ log   \in [Elevators -> SUBSET LogRow]
    /\ published \subseteq [type : {"Called", "Moving", "Arrived"}, by : Requests]
    /\ req   \in [Requests -> Request]
    /\ met   \in [Requests -> SUBSET Requests]
    /\ faults \in Nat

(* However saves interleave, fail or are cut short by a crash, the sequence *)
(* numbers of an elevator's events run from 1 without a gap: a reader that  *)
(* pages by number misses nothing.  (They may repeat: see RepeatsOnlyInRaces.) *)
LogHasNoGaps ==
    \A e \in Elevators : \A x \in log[e] : \A s \in 1 .. x.seq :
        \E y \in log[e] : y.seq = s

(* The events of one call are numbered in the order they happened, though   *)
(* other requests number theirs in between.                                 *)
OwnEventsInOrder ==
    \A e \in Elevators : \A x, y \in log[e] :
        x.by = y.by /\ x.type = "Called" /\ y.type = "Moving" => x.seq < y.seq

Answered(r) == req[r].phase = "answered"

(* A client that gets an answer has its call on record, whatever failed or  *)
(* crashed around it: the Called event and a row for the elevator named.    *)
(* The elevator has a hash too, unless it was initialized and the write of  *)
(* its hash failed, which the repository swallows.                          *)
AnswerIsOnRecord ==
    \A r \in Requests : Answered(r) =>
        /\ db[req[r].elev] # Nothing
        /\ req[r].kind = "call" \/ req[r].cached => cache[req[r].elev] # Nothing
        /\ req[r].kind = "call" => \E x \in log[req[r].elev] : x.type = "Called" /\ x.by = r

Busy(e) == \E r \in InFlight : req[r].elev = e

(* Without failures the log explains the table: an elevator whose row is    *)
(* left MOVING has a Moving event.                                          *)
DepartureIsOnRecord ==
    faults = 0 => \A e \in Elevators :
        db[e] # Nothing /\ ~Busy(e) =>
            (db[e].state = "MOVING" => \E x \in log[e] : x.type = "Moving")

(* Without failures Redis and PostgreSQL end up with the same elevators: no *)
(* elevator that only assignment sees, none that it can never assign.       *)
SameFleet ==
    faults = 0 => \A e \in Elevators :
        ~Busy(e) => (db[e] = Nothing <=> cache[e] = Nothing)

-----------------------------------------------------------------------------
(* Nothing is locked, and requests for one elevator that are in flight      *)
(* together do break the log, the stores and the departures.  These say     *)
(* that nothing else does: requests that do not overlap never do, and       *)
(* neither do failures or crashes, except where faults is mentioned.        *)

(* Two events of an elevator share a number only if they are of two         *)
(* requests that were in flight together.                                   *)
RepeatsOnlyInRaces ==
    \A e \in Elevators : \A x, y \in log[e] : x # y /\ x.seq = y.seq => y.by \in met[x.by]

(* The requests for the elevator of r that r was in flight with.            *)
Rivals(r) == {s \in met[r] : req[s].elev = req[r].elev}

(* Between requests hash and row may differ, for ever.  But an answered     *)
(* request that had no rival and whose hash write was not swallowed leaves  *)
(* them equal, whatever others, failures and crashes have left behind.      *)
LoneRequestLeavesSync ==
    [][\A r \in Requests :
         ~Answered(r) /\ Answered(r)' /\ req'[r].cached /\ Rivals(r)' = {}
         => db'[req'[r].elev] = cache'[req'[r].elev]]_vars

(* Without failures calls make one elevator of their own, the default one.  *)
(* Two that nobody initialized are of calls that were in flight together.   *)
DefaultsOnlyInRaces ==
    faults = 0 => \A e, f \in Keys :
        \/ e = f
        \/ \E r \in Requests : req[r].kind = "initialize" /\ req[r].elev \in {e, f}
        \/ \E r, s \in Requests : req[r].elev = e /\ req[s].elev = f /\ s \in met[r]

(* A stored departure is taken back only by a request that had a rival: the *)
(* row it had read, or not found, was older than the departure.             *)
DepartureNotLost ==
    [][\A e \in Elevators :
         /\ db[e] # Nothing /\ db[e].state = "MOVING" /\ db'[e].state # "MOVING"
         => \E r \in Requests : req'[r] # req[r] /\ req[r].elev = e /\ Rivals(r) # {}]_vars

-----------------------------------------------------------------------------
(* What the documentation says, and the code does not do.                   *)

(* README, of POST call: "Triggers asynchronous movement processed by       *)
(* `MovementProcessor`".  The processor's jobs are added by the handler of  *)
(* ElevatorMovingEvent on the event bus, so an answered call that set its   *)
(* elevator in motion has published that event.                             *)
DepartureIsPublished ==
    \A r \in Requests :
        Answered(r) /\ (\E x \in log[req[r].elev] : x.by = r /\ x.type = "Moving")
            => [type |-> "Moving", by |-> r] \in published
=============================================================================
