--------------------------- MODULE ElevatorSystem ---------------------------
(***************************************************************************)
(* The command side and the movement side of one module over the one Redis *)
(* that both write: the hashes are the cache of CallElevator and the hash  *)
(* of MovementPipeline.  The command side publishes no departure (see      *)
(* DepartureIsPublished), so of the movement side the emergency stops are  *)
(* left, and the worker loops that run them.                               *)
(***************************************************************************)
EXTENDS ElevatorDomain, SequencesExt, FiniteSetsExt

CONSTANTS
    Requests, Elevators, NoElevator, Nothing, MaxConcurrent,    \* of CallElevator
    Trips, Loops, NoTrip,                                       \* of MovementPipeline
    MaxFaults

VARIABLES
    cache,                          \* elevator:<id>:state, shared
    db, log, published, req, met,   \* of CallElevator
    tracking, history, activeJob, data, job, wait, moving, doomed, arrived, loop, closing,
    idling, reports,                \* of MovementPipeline
    faults

commandVars  == <<db, log, published, req, met>>
movementVars == <<tracking, history, activeJob, data, job, wait, moving, doomed, arrived, loop,
                  closing, idling, reports>>
vars == <<cache, commandVars, movementVars, faults>>

Command == INSTANCE CallElevator

Movement == INSTANCE MovementPipeline WITH hash <- cache, MaxHistory <- 100

(* Both sides start empty; there is no hash until the command side makes it. *)
Init ==
    /\ Command!Init
    /\ tracking = {} /\ history = [e \in Elevators |-> 0]
    /\ activeJob = [e \in Elevators |-> NoTrip]
    /\ data = [t \in Trips |-> Movement!NoData]
    /\ job  = [t \in Trips |-> [status |-> "none", attemptsMade |-> 0, stalled |-> 0]]
    /\ wait = <<>>
    /\ moving = [t \in Trips |-> "none"] /\ doomed = [t \in Trips |-> {}]
    /\ arrived = [t \in Trips |-> "none"]
    /\ loop = [l \in Loops |-> Movement!IdleLoop]
    /\ closing = [e \in Elevators |-> 0] /\ idling = [e \in Elevators |-> 0]
    /\ reports = [t \in Trips |-> 0]

(* An elevator that has a hash is stopped.                                  *)
Stop ==
    /\ \/ \E t \in Trips, e \in Elevators : cache[e] # Nothing /\ Movement!AddStop(t, e)
       \/ \E l \in Loops : Movement!Worker(l)
    /\ UNCHANGED commandVars

Next == Stop \/ (Command!Next /\ UNCHANGED movementVars)

Spec == Init /\ [][Next]_vars

(* The aggregate's refusal of a call: throw new ElevatorBusyException(      *)
(* 'Elevator is under maintenance').  When the call is made on the          *)
(* aggregate of an elevator that an emergency stop has put under            *)
(* maintenance, the request fails.                                          *)
StoppedIsNotCalled ==
    [][\A r \in Requests :
         /\ req[r].kind = "call" /\ req[r].phase = "history" /\ req'[r].phase # "history"
         /\ cache[req[r].elev] # Nothing /\ cache[req[r].elev].state = "MAINTENANCE"
         => req'[r].phase = "failed"]_vars
=============================================================================
