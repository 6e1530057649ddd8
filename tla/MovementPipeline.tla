-------------------------- MODULE MovementPipeline --------------------------
(***************************************************************************)
(* The movement side: an ElevatorMovingEvent on the event bus becomes a    *)
(* job of the Bull queue, a worker loop drives the elevator's Redis hash   *)
(* floor by floor, and timers run the doors.                               *)
(* ElevatorMovingHandler, ElevatorArrivedHandler, ElevatorMovementQueue,   *)
(* MovementProcessor, RealtimeStatusService.                               *)
(*                                                                         *)
(* As in CallElevator, an action is one awaited command with the code up   *)
(* to the next one.  Commands leave on one connection in the order they    *)
(* are issued, so what is issued without an await between is one action.   *)
(***************************************************************************)
EXTENDS ElevatorDomain, SequencesExt, FiniteSetsExt

CONSTANTS
    Trips,       \* the jobs, and the departures they come from
    Elevators,
    Loops,       \* the worker loops: one for each @Process of the processor
    NoTrip,      \* no job
    MaxHistory,  \* how many records of movement-history are kept (100)
    MaxFaults    \* bound: failed commands and process crashes

ASSUME NoTripAssumption     == NoTrip \notin Trips
ASSUME TripsAssumption      == IsFiniteSet(Trips)
ASSUME ElevatorsAssumption  == Elevators # {}
ASSUME MaxHistoryAssumption == MaxHistory \in Nat

Attempts   == 3   \* opts.attempts of a move job
MaxStalled == 1   \* Bull's default: a job may lose its lock once

VARIABLES
    hash,       \* elevator:<id>:state
    tracking,   \* the elevators that have a key elevator:<id>:tracking
    history,    \* the length of elevator:<id>:movement-history
    activeJob,  \* elevator:<id>:active-job
    data,       \* the event, and then the job data, of each trip
    job,        \* what Bull keeps of each job
    wait,       \* Bull's list of waiting jobs
    moving,     \* where the ElevatorMovingHandler of each trip is
    doomed,     \* its waitingJobs, those still to be removed
    arrived,    \* where the ElevatorArrivedHandler of each trip is
    loop,       \* the worker loops and the locals of handleMovement
    closing,    \* three-second timers pending, per elevator
    idling,     \* six-second timers pending, per elevator
    reports,    \* history: how often each job published its arrival
    faults      \* failures so far, against MaxFaults

records  == <<tracking, history>>
bull     == <<job, wait>>
handlers == <<moving, doomed, arrived>>
timers   == <<closing, idling>>
vars     == <<hash, records, activeJob, data, bull, handlers, loop, timers, reports, faults>>

Hash == [ floor : Floor, state : State, direction : Direction, target : Floor \cup {NoFloor} ]

JobData == [ name : {"none", "move", "emergency-stop"}, elev : Elevators,
             from : Floor, to : Floor, direction : Direction ]

(* An active job is locked; it is unlocked when its lock is gone.           *)
Live == {"waiting", "active", "unlocked", "delayed"}

Job == [ status : Live \cup {"none", "completed", "failed", "removed"},
         attemptsMade : Nat, stalled : Nat ]

Loop == [ job : Trips \cup {NoTrip}, pc : {"idle", "run", "arrived", "done", "rejected"},
          at   : Floor,     \* currentFloor of handleMovement
          made : Nat ]      \* attemptsMade of the job as the loop took it

IdleLoop == [job |-> NoTrip, pc |-> "idle", at |-> 0, made |-> 0]

DoorsClosedAt(f) == [floor |-> f, state |-> "IDLE", direction |-> "IDLE", target |-> NoFloor]

NoData == [name |-> "none", elev |-> CHOOSE e \in Elevators : TRUE, from |-> 0, to |-> 0,
           direction |-> "IDLE"]

(* Elevators as the command side creates them: see FreshRow there.          *)
Init ==
    /\ hash      = [e \in Elevators |-> DoorsClosedAt(0)]
    /\ tracking  = {}
    /\ history   = [e \in Elevators |-> 0]
    /\ activeJob = [e \in Elevators |-> NoTrip]
    /\ data = [t \in Trips |-> NoData]
    /\ job  = [t \in Trips |-> [status |-> "none", attemptsMade |-> 0, stalled |-> 0]]
    /\ wait = <<>>
    /\ moving  = [t \in Trips |-> "none"]
    /\ doomed  = [t \in Trips |-> {}]
    /\ arrived = [t \in Trips |-> "none"]
    /\ loop = [l \in Loops |-> IdleLoop]
    /\ closing = [e \in Elevators |-> 0]
    /\ idling  = [e \in Elevators |-> 0]
    /\ reports = [t \in Trips |-> 0]
    /\ faults = 0

-----------------------------------------------------------------------------
Elev(t) == data[t].elev

WriteHash(e, h) == hash' = [hash EXCEPT ![e] = h]

MovingTo(f, t) == [floor |-> f, state |-> "MOVING", direction |-> data[t].direction,
                   target |-> data[t].to]

DoorsOpenAt(f) == [DoorsClosedAt(f) EXCEPT !.state = "DOORS_OPENING"]

Halted(h, s) == [h EXCEPT !.state = s, !.direction = "IDLE", !.target = NoFloor]

WriteKey(e, t) == activeJob' = [activeJob EXCEPT ![e] = t]

SetStatus(t, s) == job' = [job EXCEPT ![t].status = s]

(* Added, or promoted: the job goes to the end of the list.                 *)
Enqueue(t) == SetStatus(t, "waiting") /\ wait' = Append(wait, t)

Fault == faults < MaxFaults /\ faults' = faults + 1

(* startMovementTracking, stopMovementTracking.                             *)
Tracked(e)   == tracking' = tracking \cup {e} /\ UNCHANGED history
Untracked(e) == tracking' = tracking \ {e} /\ UNCHANGED history

(* recordMovement: lpush, then ltrim.                                       *)
Pushed(e) == history' = [history EXCEPT ![e] = @ + 1] /\ UNCHANGED tracking

FaultTrimmed(e) == UNCHANGED records     \* nothing is cut off

Trimmed(e) == history' = [history EXCEPT ![e] = Min({@, MaxHistory})] /\ UNCHANGED tracking

-----------------------------------------------------------------------------
(* ElevatorMovingHandler, with what it calls in the queue adapter.          *)

(* The event, one that the aggregate can make, is published; the handler    *)
(* starts at once and writes the hash.                                      *)
Publish(t, e, from, to) ==
    /\ data[t].name = "none" /\ from # to
    /\ LET dir == DirectionTo(from, to) IN
       /\ data' = [data EXCEPT ![t] = [name |-> "move", elev |-> e, from |-> from, to |-> to,
                                       direction |-> dir]]
       /\ WriteHash(e, [floor |-> from, state |-> "MOVING", direction |-> dir, target |-> to])
    /\ moving' = [moving EXCEPT ![t] = "track"]
    /\ UNCHANGED <<records, activeJob, bull, doomed, arrived, loop, timers, reports, faults>>

HandlerStep(t, pc, next) == moving[t] = pc /\ moving' = [moving EXCEPT ![t] = next]

(* startMovementTracking and recordMovement.                                *)
RecordStart(t) ==
    /\ \/ HandlerStep(t, "track", "push") /\ Tracked(Elev(t))
       \/ HandlerStep(t, "push", "trim") /\ Pushed(Elev(t))
       \/ HandlerStep(t, "trim", "waiting") /\ Trimmed(Elev(t))
    /\ UNCHANGED <<activeJob, bull, doomed>>

WaitingFor(e) == {u \in Trips : job[u].status = "waiting" /\ Elev(u) = e}

(* removeExistingJobs: the waiting jobs of this elevator, whatever their    *)
(* name, as of now.                                                         *)
GetWaiting(t) ==
    /\ HandlerStep(t, "waiting", "remove")
    /\ doomed' = [doomed EXCEPT ![t] = WaitingFor(Elev(t))]
    /\ UNCHANGED <<records, activeJob, bull>>

(* They are removed one by one.                                             *)
RemoveOne(t) ==
    \E u \in doomed[t] :
        /\ HandlerStep(t, "remove", "remove")
        /\ job[u].status # "active"
        /\ doomed' = [doomed EXCEPT ![t] = @ \ {u}]
        /\ IF job[u].status \in Live THEN SetStatus(u, "removed") /\ wait' = RemoveFirst(wait, u)
                                     ELSE UNCHANGED bull
        /\ UNCHANGED <<records, activeJob>>

(* A job that has started meanwhile is locked: remove throws, and the rest  *)
(* of removeExistingJobs is skipped.                                        *)
RemoveThrows(t) ==
    \E u \in doomed[t] :
        /\ HandlerStep(t, "remove", "add")
        /\ job[u].status = "active"
        /\ doomed' = [doomed EXCEPT ![t] = {}]
        /\ UNCHANGED <<records, activeJob, bull>>

FaultDeleteKey(t) ==             \* no job is added
    /\ HandlerStep(t, "remove", "done") /\ doomed[t] = {}
    /\ WriteKey(Elev(t), NoTrip)
    /\ UNCHANGED <<records, bull, doomed>>

DeleteKey(t) ==
    /\ HandlerStep(t, "remove", "add") /\ doomed[t] = {}
    /\ WriteKey(Elev(t), NoTrip)
    /\ UNCHANGED <<records, bull, doomed>>

(* The id of a job is its elevator and the millisecond.  A job of the same  *)
(* elevator that is as recent as that (no worker has taken it, and its      *)
(* handler still awaits the next command) may have the same id.             *)
Namesakes(t) == {u \in WaitingFor(Elev(t)) : moving[u] = "set"}

(* Bull does not add a job whose id it has: it returns the one it has.      *)
AddJob(t) ==
    /\ HandlerStep(t, "add", "set")
    /\ \/ Enqueue(t)
       \/ Namesakes(t) # {} /\ UNCHANGED bull
    /\ UNCHANGED <<records, activeJob, doomed>>

Dropped(t) == data[t].name = "move" /\ moving[t] \in {"set", "done"} /\ job[t].status = "none"

(* The key is set when the job may already have run.                        *)
SetKey(t) ==
    /\ HandlerStep(t, "set", "done")
    /\ \/ ~Dropped(t) /\ WriteKey(Elev(t), t)
       \/ /\ Dropped(t)
          /\ \E u \in Trips \ {t} : Elev(u) = Elev(t) /\ job[u].status # "none"
                                   /\ WriteKey(Elev(t), u)
    /\ UNCHANGED <<records, bull, doomed>>

MovingHandler(t) ==
    /\ \/ RecordStart(t) \/ GetWaiting(t) \/ RemoveOne(t) \/ RemoveThrows(t)
       \/ DeleteKey(t) \/ AddJob(t) \/ SetKey(t)
    /\ UNCHANGED <<hash, data, arrived, loop, timers, reports, faults>>

(* A command fails.  removeExistingJobs swallows the error and the job is   *)
(* added all the same; anywhere else the handler ends.                      *)
MovingHandlerFault(t) ==
    /\ Fault
    /\ \/ \E pc \in {"track", "push", "trim", "add", "set"} : HandlerStep(t, pc, "done")
       \/ \E pc \in {"waiting", "remove"} : HandlerStep(t, pc, "add")
    /\ doomed' = [doomed EXCEPT ![t] = {}]
    /\ UNCHANGED <<hash, records, activeJob, data, bull, arrived, loop, timers, reports>>

(* Emergency stops are added to the queue from outside.                     *)
AddStop(t, e) ==
    /\ data[t].name = "none"
    /\ data' = [data EXCEPT ![t].name = "emergency-stop", ![t].elev = e]
    /\ Enqueue(t)
    /\ UNCHANGED <<hash, records, activeJob, handlers, loop, timers, reports, faults>>

-----------------------------------------------------------------------------
(* ElevatorArrivedHandler, after its hmset: see Complete.                   *)

ArrivalStep(t, pc, next) == arrived[t] = pc /\ arrived' = [arrived EXCEPT ![t] = next]

ArrivedHandler(t) ==
    /\ \/ ArrivalStep(t, "untrack", "push") /\ Untracked(Elev(t))
       \/ ArrivalStep(t, "push", "trim") /\ Pushed(Elev(t))
       \/ ArrivalStep(t, "trim", "done") /\ Trimmed(Elev(t))
    /\ UNCHANGED <<hash, activeJob, data, bull, moving, doomed, loop, timers, reports, faults>>

ArrivedHandlerFault(t) ==
    /\ Fault
    /\ \E pc \in {"untrack", "push", "trim"} : ArrivalStep(t, pc, "done")
    /\ UNCHANGED <<hash, records, activeJob, data, bull, moving, doomed, loop, timers, reports>>

-----------------------------------------------------------------------------
(* A Bull worker loop: it takes the next job, whatever its name, runs the   *)
(* handler of that name, and reports the result.                            *)

LoopStep(l, pc, next) == loop[l].pc = pc /\ loop' = [loop EXCEPT ![l].pc = next]

Named(l, name) == data[loop[l].job].name = name

TakeJob(l) ==
    /\ loop[l].pc = "idle" /\ wait # <<>>
    /\ LET t == Head(wait) IN
       /\ SetStatus(t, "active")
       /\ loop' = [loop EXCEPT ![l] = [job |-> t, pc |-> "run", at |-> data[t].from,
                                       made |-> job[t].attemptsMade]]
    /\ wait' = Tail(wait)
    /\ UNCHANGED <<hash, activeJob, arrived, timers, reports>>

FaultOnward(l) ==                \* the increments are swapped
    IF data[loop[l].job].direction = "UP" THEN loop[l].at - 1 ELSE loop[l].at + 1

(* The floor that the next round of the while loop comes to.                *)
Onward(l) == IF data[loop[l].job].direction = "UP" THEN loop[l].at + 1 ELSE loop[l].at - 1

(* An intermediate floor: updateFloorPosition, and the delay after it.      *)
Travel(l) ==
    /\ loop[l].pc = "run" /\ Named(l, "move")
    /\ LET t == loop[l].job IN
       /\ Onward(l) # data[t].to
       /\ loop' = [loop EXCEPT ![l].at = Onward(l)]
       /\ WriteHash(Elev(t), MovingTo(Onward(l), t))
    /\ UNCHANGED <<activeJob, bull, arrived, timers, reports>>

(* The last floor: the hmset of completeMovement.                           *)
Arrive(l) ==
    /\ LoopStep(l, "run", "arrived") /\ Named(l, "move")
    /\ LET t == loop[l].job IN
       /\ Onward(l) = data[t].to
       /\ WriteHash(Elev(t), DoorsOpenAt(data[t].to))
    /\ UNCHANGED <<activeJob, bull, arrived, timers, reports>>

FaultComplete(l) ==              \* the attempt fails after the arrival was published
    /\ LoopStep(l, "arrived", "rejected")
    /\ LET t == loop[l].job IN
       /\ reports' = [reports EXCEPT ![t] = @ + 1]
       /\ arrived' = [arrived EXCEPT ![t] = "untrack"]
    /\ UNCHANGED <<hash, activeJob, bull, timers>>

(* The rest of completeMovement: the arrival is published, its handler      *)
(* starts and writes the hash again, and the two door timers are set.       *)
Complete(l) ==
    /\ LoopStep(l, "arrived", "done")
    /\ LET t == loop[l].job  e == Elev(t) IN
       /\ reports' = [reports EXCEPT ![t] = @ + 1]
       /\ arrived' = [arrived EXCEPT ![t] = "untrack"]
       /\ WriteHash(e, DoorsOpenAt(data[t].to))
       /\ closing' = [closing EXCEPT ![e] = @ + 1]
       /\ idling'  = [idling EXCEPT ![e] = @ + 1]
    /\ UNCHANGED <<activeJob, bull>>

EmergencyStop(l) ==
    /\ LoopStep(l, "run", "done") /\ Named(l, "emergency-stop")
    /\ LET e == Elev(loop[l].job) IN WriteHash(e, Halted(hash[e], "MAINTENANCE"))
    /\ UNCHANGED <<activeJob, bull, arrived, timers, reports>>

(* The completed listener deletes the elevator's key, whichever job it      *)
(* names.                                                                   *)
Completed(l) ==
    /\ loop[l].pc = "done"
    /\ job[loop[l].job].status = "active"
    /\ SetStatus(loop[l].job, "completed")
    /\ WriteKey(Elev(loop[l].job), NoTrip)
    /\ loop' = [loop EXCEPT ![l] = IdleLoop]
    /\ UNCHANGED <<hash, wait, arrived, timers, reports>>

FaultNotCompleted(l) ==          \* the loop waits for the lock
    /\ loop[l].pc = "done"
    /\ job[loop[l].job].status # "active"
    /\ UNCHANGED <<hash, activeJob, bull, arrived, timers, reports, loop>>

(* Bull completes no job that is not locked: the attempt has failed.  (The  *)
(* loops of a process lock with one token: a job that the other loop has    *)
(* locked again is completed.)                                              *)
NotCompleted(l) ==
    /\ LoopStep(l, "done", "rejected")
    /\ job[loop[l].job].status # "active"
    /\ UNCHANGED <<hash, activeJob, bull, arrived, timers, reports>>

FaultRejected(l) ==              \* one attempt too many
    /\ loop[l].pc = "rejected" /\ job[loop[l].job].status = "active"
    /\ LET t == loop[l].job
           made == loop[l].made + 1 IN
       /\ job' = [job EXCEPT ![t].attemptsMade = made,
                    ![t].status = IF Named(l, "move") /\ made <= Attempts THEN "delayed" ELSE "failed"]
       /\ WriteKey(Elev(t), NoTrip)
    /\ loop' = [loop EXCEPT ![l] = IdleLoop]
    /\ UNCHANGED <<hash, wait, arrived, timers, reports>>

(* An attempt has failed: the job is delayed, to be tried again from its    *)
(* first floor, or has failed for good.  The failed listener deletes the    *)
(* key either way.                                                          *)
Rejected(l) ==
    /\ loop[l].pc = "rejected" /\ job[loop[l].job].status = "active"
    /\ LET t == loop[l].job
           made == loop[l].made + 1 IN
       /\ job' = [job EXCEPT ![t].attemptsMade = made,
                    ![t].status = IF Named(l, "move") /\ made < Attempts THEN "delayed" ELSE "failed"]
       /\ WriteKey(Elev(t), NoTrip)
    /\ loop' = [loop EXCEPT ![l] = IdleLoop]
    /\ UNCHANGED <<hash, wait, arrived, timers, reports>>

(* Bull moves no job that is not locked; its count of attempts is written   *)
(* in the same transaction, whether or not the job is moved.                *)
NotRejected(l) ==
    /\ loop[l].pc = "rejected" /\ job[loop[l].job].status # "active"
    /\ job' = [job EXCEPT ![loop[l].job].attemptsMade = loop[l].made + 1]
    /\ loop' = [loop EXCEPT ![l] = IdleLoop]
    /\ UNCHANGED <<hash, activeJob, wait, arrived, timers, reports>>

Worker(l) ==
    /\ \/ TakeJob(l) \/ Travel(l) \/ Arrive(l) \/ Complete(l)
       \/ EmergencyStop(l) \/ Completed(l) \/ NotCompleted(l) \/ Rejected(l) \/ NotRejected(l)
    /\ UNCHANGED <<records, data, moving, doomed, faults>>

(* A hmset of the handler fails.  The catch of handleMovement sets the hash *)
(* to IDLE, unless that fails too.  Or Bull cannot record that the job is   *)
(* completed, and takes the attempt for failed; or it cannot record that    *)
(* either, and the job stays active with no worker.                         *)
WorkerFault(l) ==
    /\ Fault
    /\ \/ /\ LoopStep(l, "run", "rejected") \/ LoopStep(l, "arrived", "rejected")
          /\ \/ Named(l, "move") /\ LET e == Elev(loop[l].job) IN
                                    WriteHash(e, Halted(hash[e], "IDLE"))
             \/ UNCHANGED hash
       \/ LoopStep(l, "done", "rejected") /\ UNCHANGED hash
       \/ /\ loop[l].pc = "rejected"
          /\ loop' = [loop EXCEPT ![l] = IdleLoop]
          /\ UNCHANGED hash
    /\ UNCHANGED <<records, activeJob, data, bull, handlers, timers, reports>>

-----------------------------------------------------------------------------
(* The timers of completeMovement write the state, whatever it is.          *)

DoorsClose(e) ==
    /\ closing[e] > 0
    /\ closing' = [closing EXCEPT ![e] = @ - 1]
    /\ WriteHash(e, [hash[e] EXCEPT !.state = "DOORS_CLOSING"])
    /\ UNCHANGED <<records, activeJob, data, bull, handlers, loop, idling, reports, faults>>

FaultDoorsIdle(e) ==             \* the two delays are swapped
    /\ idling[e] > 0
    /\ idling' = [idling EXCEPT ![e] = @ - 1]
    /\ WriteHash(e, [hash[e] EXCEPT !.state = "IDLE"])
    /\ UNCHANGED <<records, activeJob, data, bull, handlers, loop, closing, reports, faults>>

(* The six-second timer of an arrival fires after its three-second one.     *)
DoorsIdle(e) ==
    /\ idling[e] > closing[e]
    /\ idling' = [idling EXCEPT ![e] = @ - 1]
    /\ WriteHash(e, [hash[e] EXCEPT !.state = "IDLE"])
    /\ UNCHANGED <<records, activeJob, data, bull, handlers, loop, closing, reports, faults>>

-----------------------------------------------------------------------------
(* What Bull and Redis do on their own.                                     *)

(* The backoff of a failed attempt is over.                                 *)
Promote(t) ==
    /\ job[t].status = "delayed"
    /\ Enqueue(t)
    /\ UNCHANGED <<hash, records, activeJob, data, handlers, loop, timers, reports, faults>>

InNoLoop(t) == \A l \in Loops : loop[l].job # t

(* The lock of a job whose worker is gone runs out.                         *)
LockExpires(t) ==
    /\ job[t].status = "active" /\ InNoLoop(t)
    /\ SetStatus(t, "unlocked")
    /\ UNCHANGED <<hash, records, activeJob, data, wait, handlers, loop, timers, reports, faults>>

(* A renewal fails, Bull renews no more, and the lock runs out though a     *)
(* loop still runs the job.                                                 *)
RenewalFault(t) ==
    /\ Fault
    /\ job[t].status = "active" /\ ~InNoLoop(t)
    /\ SetStatus(t, "unlocked")
    /\ UNCHANGED <<hash, records, activeJob, data, wait, handlers, loop, timers, reports>>

FaultStalled(t) ==               \* taken for stalled while it is locked
    /\ job[t].status = "active" /\ job[t].stalled < MaxStalled
    /\ job' = [job EXCEPT ![t].status = "waiting", ![t].stalled = @ + 1]
    /\ wait' = <<t>> \o wait
    /\ UNCHANGED <<hash, records, activeJob, data, handlers, loop, timers, reports, faults>>

(* An unlocked job is given to another worker, once, whether or not the     *)
(* first one still runs it; the second time it has failed.                  *)
Stalled(t) ==
    /\ job[t].status = "unlocked"
    /\ \/ /\ job[t].stalled < MaxStalled
          /\ job' = [job EXCEPT ![t].status = "waiting", ![t].stalled = @ + 1]
          /\ wait' = <<t>> \o wait
          /\ UNCHANGED activeJob
       \/ /\ job[t].stalled = MaxStalled
          /\ SetStatus(t, "failed")
          /\ WriteKey(Elev(t), NoTrip)
          /\ UNCHANGED wait
    /\ UNCHANGED <<hash, records, data, handlers, loop, timers, reports, faults>>

(* The key lives for 300 seconds.                                           *)
ExpireKey(e) ==
    /\ activeJob[e] # NoTrip
    /\ WriteKey(e, NoTrip)
    /\ UNCHANGED <<hash, records, data, bull, handlers, loop, timers, reports, faults>>

Over(pc) == IF pc = "none" THEN pc ELSE "done"

(* The process dies and comes back.  What Redis holds, Bull's jobs with it, *)
(* stays; the handlers, the locals of the loops and the timers are gone.    *)
Crash ==
    /\ Fault
    /\ moving'  = [t \in Trips |-> Over(moving[t])]
    /\ doomed'  = [t \in Trips |-> {}]
    /\ arrived' = [t \in Trips |-> Over(arrived[t])]
    /\ loop'    = [l \in Loops |-> IdleLoop]
    /\ closing' = [e \in Elevators |-> 0]
    /\ idling'  = [e \in Elevators |-> 0]
    /\ UNCHANGED <<hash, records, activeJob, data, bull, reports>>

-----------------------------------------------------------------------------
Step ==
    \/ \E t \in Trips : MovingHandler(t) \/ ArrivedHandler(t)
    \/ \E t \in Trips : Promote(t) \/ LockExpires(t) \/ Stalled(t)
    \/ \E l \in Loops : Worker(l)
    \/ \E e \in Elevators : DoorsClose(e) \/ DoorsIdle(e)

Failure ==
    \/ \E t \in Trips : MovingHandlerFault(t) \/ ArrivedHandlerFault(t) \/ RenewalFault(t)
    \/ \E l \in Loops : WorkerFault(l)
    \/ Crash

Next ==
    \/ \E t \in Trips, e \in Elevators, from, to \in Floor : Publish(t, e, from, to)
    \/ \E t \in Trips, e \in Elevators : AddStop(t, e)
    \/ \E e \in Elevators : ExpireKey(e)
    \/ Step
    \/ Failure

Spec == Init /\ [][Next]_vars

(* Commands are answered, timers fire, Bull promotes delayed jobs and finds *)
(* stalled ones, locks run out, and the loops take what waits.              *)
Fairness ==
    /\ \A t \in Trips : /\ WF_vars(MovingHandler(t)) /\ WF_vars(ArrivedHandler(t))
                        /\ WF_vars(Promote(t)) /\ WF_vars(LockExpires(t)) /\ WF_vars(Stalled(t))
    /\ \A l \in Loops : WF_vars(Worker(l))
    /\ \A e \in Elevators : WF_vars(DoorsClose(e)) /\ WF_vars(DoorsIdle(e))

FairSpec == Spec /\ Fairness

(* Nothing fails, nobody stops an elevator, and a departure is published    *)
(* only for an elevator whose hash says IDLE, from the floor it shows.      *)
SerialNext ==
    \/ \E t \in Trips, e \in Elevators, to \in Floor :
         hash[e].state = "IDLE" /\ Publish(t, e, hash[e].floor, to)
    \/ Step

SerialSpec == Init /\ [][SerialNext]_vars /\ Fairness

-----------------------------------------------------------------------------
(* Hash, queue, handlers and loops keep their types; that the floor stays   *)
(* in the building rests on the direction of the job.                       *)
TypeOK ==
    /\ hash \in [Elevators -> Hash]
    /\ tracking \subseteq Elevators
    /\ history \in [Elevators -> Nat]
    /\ activeJob \in [Elevators -> Trips \cup {NoTrip}]
    /\ data \in [Trips -> JobData]
    /\ job \in [Trips -> Job]
    /\ wait \in Seq(Trips)
    /\ moving \in [Trips -> {"none", "track", "push", "trim", "waiting", "remove", "add", "set",
                             "done"}]
    /\ doomed \in [Trips -> SUBSET Trips]
    /\ arrived \in [Trips -> {"none", "untrack", "push", "trim", "done"}]
    /\ loop \in [Loops -> Loop]
    /\ closing \in [Elevators -> Nat] /\ idling \in [Elevators -> Nat]
    /\ reports \in [Trips -> Nat]
    /\ faults \in Nat

UnderWay(e) ==
    \/ idling[e] > 0
    \/ \E t \in Trips : /\ data[t].name # "none" /\ Elev(t) = e
                        /\ \/ moving[t] \notin {"none", "done"}
                           \/ job[t].status \in Live
                           \/ arrived[t] \notin {"none", "done"}

(* However departures, stops and door timers of an elevator overlap, it     *)
(* comes to rest: when nothing is under way its hash shows no movement and  *)
(* no open doors.  (Without failures; a crash loses the timers.)            *)
ComesToRest ==
    faults = 0 => \A e \in Elevators :
        UnderWay(e) \/ \E f \in Floor :
                          hash[e] \in {DoorsClosedAt(f), Halted(DoorsClosedAt(f), "MAINTENANCE")}

(* A departure loses its job, removed while it waits or never added, only   *)
(* to another departure of its elevator: there is one whose handler is      *)
(* about to add its job, or has added it.                                   *)
RemovedForAnother ==
    faults = 0 => \A t \in Trips : job[t].status = "removed" \/ Dropped(t) =>
        \E u \in Trips : /\ Elev(u) = Elev(t) /\ data[u].name = "move"
                         /\ moving[u] \in {"remove", "add"} \/ job[u].status \in Live \cup {"completed"}

(* A job completes only after its arrival was published.  Without failures  *)
(* an arrival is published once; with them at most once for every attempt   *)
(* of every worker the job was given to.                                    *)
ArrivalIsReported ==
    \A t \in Trips :
        /\ job[t].status = "completed" /\ data[t].name = "move" => reports[t] > 0
        /\ reports[t] <= Attempts * (1 + job[t].stalled)
        /\ faults = 0 => reports[t] <= 1

(* The history is cut after every record: without failures it exceeds its   *)
(* bound at most by the records whose cut is still to come, however many    *)
(* handlers write to it.                                                    *)
HistoryIsTrimmed ==
    faults = 0 => \A e \in Elevators :
        history[e] <= MaxHistory
            + Cardinality({t \in Trips : Elev(t) = e /\ moving[t] = "trim"})
            + Cardinality({t \in Trips : Elev(t) = e /\ arrived[t] = "trim"})

Running(t) == {l \in Loops : loop[l].job = t}

(* A job waits in one place, and runs in one loop at a time as long as      *)
(* nothing fails.  A lost lock lets a second loop run it beside the first,  *)
(* never a third.                                                           *)
OneWorkerPerJob ==
    /\ IsInjective(wait) /\ ToSet(wait) = {t \in Trips : job[t].status = "waiting"}
    /\ \A t \in Trips : /\ Cardinality(Running(t)) <= 1 + job[t].stalled
                        /\ faults = 0 => Cardinality(Running(t)) <= 1

(* Whatever fails, a job ends: it completes, fails or is removed.           *)
JobEnds == \A t \in Trips : job[t].status \in Live ~> job[t].status \notin Live

(* Any elevator: they differ in name only.                                  *)
Watched == CHOOSE e \in Elevators : TRUE

Cab == INSTANCE ElevatorCab WITH
           position    <- hash[Watched].floor,
           destination <- hash[Watched].target,
           doors <- IF hash[Watched].state \in {"DOORS_OPENING", "DOORS_CLOSING"} THEN "open"
                    ELSE "closed"

(* If departures are published only for an elevator seen IDLE, from the     *)
(* floor seen, then whatever the handlers, loops and timers of all          *)
(* elevators do, the hash shows a cab: it passes every floor on its way,    *)
(* opens its doors at the destination and nowhere else, and closes them.    *)
ImplementsCab == Cab!Spec

(* README, of elevator-emergency-stop: "Broadcasts when an elevator is      *)
(* stopped for maintenance".  A stopped elevator stays stopped, as long as  *)
(* no new departure or stop is asked for.                                   *)
StopHolds ==
    [][\A e \in Elevators :
         hash[e].state = "MAINTENANCE" /\ UNCHANGED data => hash'[e].state = "MAINTENANCE"]_vars
=============================================================================
