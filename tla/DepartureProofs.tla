-------------------------- MODULE DepartureProofs --------------------------
(***************************************************************************)
(* What becomes of the jobs that a new departure of the same elevator      *)
(* removes, or whose id it has (RemovedForAnother), how an elevator comes  *)
(* to rest (ComesToRest), and what its hash shows when departures are      *)
(* published only for an elevator seen IDLE (the cab).                     *)
(* For any number of overlapping departures, arrivals and stops.           *)
(***************************************************************************)
EXTENDS MovementPipelineProofs

(* Only departures have a handler, and it removes jobs of its own elevator. *)
HandlerOk(t) ==
    /\ moving[t] # "none" => data[t].name = "move"
    /\ \A u \in doomed[t] : moving[t] # "none" /\ data[u].name # "none" /\ Elev(u) = Elev(t)

HandlersOk == \A t \in Trips : HandlerOk(t)

(* The departure's job was removed or never added.                          *)
Lost(t) == job[t].status = "removed" \/ Dropped(t)

(* The departure is about to have a job, or has one that will complete.     *)
Holds(u) ==
    /\ data[u].name = "move"
    /\ moving[u] \in {"remove", "add"} \/ job[u].status \in Live \cup {"completed"}

Holder(e) == \E u \in Trips : Elev(u) = e /\ Holds(u)

Kept == \A t \in Trips : Lost(t) => Holder(Elev(t))

KInv == HandlersOk /\ (faults = 0 => Kept)

-----------------------------------------------------------------------------
(* A step that changes no job data and starts no handler.                   *)
LEMMA QuietHandlers ==
    ASSUME HandlersOk, UNCHANGED data,
           \A t \in Trips : moving'[t] # "none" <=> moving[t] # "none",
           \A t \in Trips : doomed'[t] \subseteq doomed[t]
    PROVE  HandlersOk'
<1> SUFFICES ASSUME NEW t \in Trips PROVE HandlerOk(t)'
  BY DEF HandlersOk
<1>1. HandlerOk(t)
  BY DEF HandlersOk
<1>2. QED BY <1>1 DEF HandlerOk, Elev

LEMMA StartHandlers ==
    ASSUME IInv, HandlersOk, NEW t \in Trips, data[t].name = "none",
           UNCHANGED doomed,
           \A u \in Trips \ {t} : data'[u] = data[u] /\ moving'[u] = moving[u],
           moving'[t] # "none" => data'[t].name = "move"
    PROVE  HandlersOk'
<1>1. moving[t] = "none" /\ doomed \in [Trips -> SUBSET Trips]
  BY TypeParts DEF IInv, TripOk, JobOk
<1>2. HandlerOk(t)'
  BY <1>1 DEF HandlersOk, HandlerOk
<1>3. ASSUME NEW u \in Trips \ {t} PROVE HandlerOk(u)'
  <2>1. HandlerOk(u) /\ data'[u] = data[u] /\ moving'[u] = moving[u]
    BY DEF HandlersOk
  <2>2. ASSUME NEW w \in doomed[u] PROVE data'[w] = data[w]
    BY <1>1, <2>1 DEF HandlerOk
  <2>3. QED BY <2>1, <2>2 DEF HandlerOk, Elev
<1>4. QED BY <1>2, <1>3 DEF HandlersOk

LEMMA MovingHandlers ==
    ASSUME IInv, HandlersOk, NEW t \in Trips, MovingHandler(t)
    PROVE  HandlersOk'
<1> USE TypeParts DEF IInv, TripOk
<1>1. /\ UNCHANGED data
      /\ \A u \in Trips : moving'[u] # "none" <=> moving[u] # "none"
  BY DEF MovingHandler, RecordStart, GetWaiting, RemoveOne, RemoveThrows, DeleteKey, AddJob, SetKey,
     HandlerStep
<1>2. CASE GetWaiting(t)
  <2>1. doomed' = [doomed EXCEPT ![t] = WaitingFor(Elev(t))] /\ moving[t] = "waiting"
    BY <1>2 DEF GetWaiting, HandlerStep
  <2>2. ASSUME NEW u \in WaitingFor(Elev(t)) PROVE data[u].name # "none" /\ Elev(u) = Elev(t)
    BY DEF WaitingFor, JobOk
  <2>3. HandlerOk(t)'
    BY <1>1, <2>1, <2>2 DEF HandlersOk, HandlerOk, Elev
  <2>4. ASSUME NEW u \in Trips \ {t} PROVE HandlerOk(u)'
    <3>1. HandlerOk(u) /\ doomed'[u] = doomed[u]
      BY <2>1 DEF HandlersOk
    <3>2. QED BY <1>1, <3>1 DEF HandlerOk, Elev
  <2>5. QED BY <2>3, <2>4 DEF HandlersOk
<1>3. CASE ~GetWaiting(t)
  <2>1. \A u \in Trips : doomed'[u] \subseteq doomed[u]
    BY <1>3 DEF MovingHandler, RecordStart, RemoveOne, RemoveThrows, DeleteKey, AddJob, SetKey
  <2>2. QED BY <1>1, <2>1, QuietHandlers
<1>4. QED BY <1>2, <1>3

LEMMA HandlersStep ==
    ASSUME IInv, HandlersOk, [Next]_vars
    PROVE  HandlersOk'
<1> USE TypeParts DEF IInv, TripOk
<1>1. ASSUME NEW t \in Trips, NEW e \in Elevators, NEW from \in Floor, NEW to \in Floor,
             Publish(t, e, from, to)
      PROVE  HandlersOk'
  <2>1. /\ data[t].name = "none" /\ UNCHANGED doomed
        /\ \A u \in Trips \ {t} : data'[u] = data[u] /\ moving'[u] = moving[u]
        /\ data'[t].name = "move"
    BY <1>1 DEF Publish
  <2>2. QED BY <2>1, StartHandlers
<1>2. ASSUME NEW t \in Trips, NEW e \in Elevators, AddStop(t, e) PROVE HandlersOk'
  <2>1. /\ data[t].name = "none" /\ UNCHANGED <<doomed, moving>>
        /\ \A u \in Trips \ {t} : data'[u] = data[u]
    BY <1>2 DEF AddStop, handlers
  <2>2. moving[t] = "none"
    BY <2>1 DEF JobOk
  <2>3. QED BY <2>1, <2>2, StartHandlers
<1>3. ASSUME NEW t \in Trips, MovingHandler(t) PROVE HandlersOk'
  BY <1>3, MovingHandlers
<1>4. ASSUME NEW t \in Trips, MovingHandlerFault(t) PROVE HandlersOk'
  <2>1. /\ UNCHANGED data
        /\ \A u \in Trips : moving'[u] # "none" <=> moving[u] # "none"
        /\ \A u \in Trips : doomed'[u] \subseteq doomed[u]
    BY <1>4 DEF MovingHandlerFault, HandlerStep
  <2>2. QED BY <2>1, QuietHandlers
<1>5. CASE Crash
  <2>1. /\ UNCHANGED data
        /\ \A u \in Trips : moving'[u] # "none" <=> moving[u] # "none"
        /\ \A u \in Trips : doomed'[u] \subseteq doomed[u]
    BY <1>5 DEF Crash, Over
  <2>2. QED BY <2>1, QuietHandlers
<1>6. CASE UNCHANGED <<data, moving, doomed>>
  BY <1>6, QuietHandlers
<1>7. ASSUME NEW t \in Trips,
             \/ ArrivedHandler(t) \/ ArrivedHandlerFault(t) \/ Promote(t)
             \/ LockExpires(t) \/ RenewalFault(t) \/ Stalled(t)
      PROVE  HandlersOk'
  BY <1>6, <1>7 DEF ArrivedHandler, ArrivedHandlerFault, Promote, LockExpires, RenewalFault,
     Stalled, handlers
<1>8. ASSUME NEW l \in Loops, Worker(l) \/ WorkerFault(l) PROVE HandlersOk'
  BY <1>6, <1>8 DEF Worker, WorkerFault, handlers
<1>9. ASSUME NEW e \in Elevators, DoorsClose(e) \/ DoorsIdle(e) \/ ExpireKey(e)
      PROVE  HandlersOk'
  BY <1>6, <1>9 DEF DoorsClose, DoorsIdle, ExpireKey, handlers
<1>10. CASE UNCHANGED vars
  BY <1>6, <1>10 DEF vars, handlers
<1>11. CASE Next
  BY <1>11, <1>1, <1>2, <1>3, <1>4, <1>5, <1>7, <1>8, <1>9 DEF Next, Step, Failure
<1>12. QED BY <1>10, <1>11

-----------------------------------------------------------------------------
(* Without failures no attempt fails, and no lock runs out.                 *)
LEMMA NoneRejected ==
    ASSUME IInv, Regular, NEW l \in Loops
    PROVE  ~NotCompleted(l) /\ ~Rejected(l) /\ ~NotRejected(l)
<1>1. ~Rejected(l) /\ ~NotRejected(l)
  BY DEF Rejected, NotRejected, Regular
<1>2. ~NotCompleted(l)
  BY AloneAtWork DEF NotCompleted, LoopStep
<1>3. QED BY <1>1, <1>2

LEMMA NoneUnlocked ==
    ASSUME Regular, NEW t \in Trips
    PROVE  ~Promote(t) /\ ~LockExpires(t) /\ ~Stalled(t)
BY DEF Promote, LockExpires, InNoLoop, Stalled, Regular, InOrder

(* Lost departures have a holder after a step if those that are lost before *)
(* it keep their elevator and its holder, and those lost by it get one.     *)
LEMMA KeptStep ==
    ASSUME Kept,
           \A t \in Trips : Lost(t)' => \/ Lost(t) /\ Elev(t)' = Elev(t)
                                        \/ \E u \in Trips : Elev(u)' = Elev(t)' /\ Holds(u)',
           \A u \in Trips : Holds(u) => \E w \in Trips : Elev(w)' = Elev(u) /\ Holds(w)'
    PROVE  Kept'
<1> SUFFICES ASSUME NEW t \in Trips, Lost(t)'
             PROVE  \E u \in Trips : Elev(u)' = Elev(t)' /\ Holds(u)'
  BY DEF Kept, Holder
<1>1. CASE Lost(t) /\ Elev(t)' = Elev(t)
  <2>1. PICK u \in Trips : Elev(u) = Elev(t) /\ Holds(u)
    BY <1>1 DEF Kept, Holder
  <2>2. QED BY <1>1, <2>1
<1>2. QED BY <1>1

(* A trip begins.                                                           *)
LEMMA BeginKept ==
    ASSUME Kept, NEW t \in Trips, data[t].name = "none", ~Lost(t)',
           \A u \in Trips \ {t} : /\ data'[u] = data[u] /\ moving'[u] = moving[u]
                                  /\ job'[u] = job[u]
    PROVE  Kept'
<1>1. ASSUME NEW u \in Trips \ {t}
      PROVE  Elev(u)' = Elev(u) /\ Lost(u)' = Lost(u) /\ Holds(u)' = Holds(u)
  BY DEF Elev, Lost, Dropped, Holds
<1>2. ~Holds(t)
  BY DEF Holds
<1>3. \A u \in Trips : Lost(u)' => Lost(u) /\ Elev(u)' = Elev(u)
  BY <1>1
<1>4. \A u \in Trips : Holds(u) => Elev(u)' = Elev(u) /\ Holds(u)'
  BY <1>1, <1>2
<1>5. QED BY <1>3, <1>4, KeptStep

(* Jobs that hold go on to hold, and no other job changes.                  *)
LEMMA JobsKept ==
    ASSUME Kept, UNCHANGED <<data, moving>>,
           \A u \in Trips : \/ job'[u].status = job[u].status
                            \/ job'[u].status \in Live \cup {"completed"}
    PROVE  Kept'
<1>1. \A u \in Trips : Elev(u)' = Elev(u)
  BY DEF Elev
<1>2. \A u \in Trips : Lost(u)' => Lost(u)
  BY DEF Lost, Dropped, Live
<1>3. \A u \in Trips : Holds(u) => Holds(u)'
  BY DEF Holds
<1>4. QED BY <1>1, <1>2, <1>3, KeptStep

(* A handler takes a step, and its elevator has a holder after it.          *)
LEMMA HolderKept ==
    ASSUME Kept, UNCHANGED data, NEW t \in Trips,
           \A u \in Trips : Elev(u) # Elev(t) => moving'[u] = moving[u] /\ job'[u] = job[u],
           \E w \in Trips : Elev(w) = Elev(t) /\ Holds(w)'
    PROVE  Kept'
<1>1. \A u \in Trips : Elev(u)' = Elev(u)
  BY DEF Elev
<1>2. \A u \in Trips : Elev(u) # Elev(t) => Lost(u)' = Lost(u) /\ Holds(u)' = Holds(u)
  BY DEF Lost, Dropped, Holds
<1>3. \A u \in Trips : Elev(u) = Elev(t) => \E w \in Trips : Elev(w)' = Elev(u) /\ Holds(w)'
  BY <1>1
<1>4. QED BY <1>1, <1>2, <1>3, KeptStep

LEMMA MovingHandlerKept ==
    ASSUME IInv, HandlersOk, Kept, NEW t \in Trips, MovingHandler(t)
    PROVE  Kept'
<1> USE TypeParts DEF IInv, TripOk
<1>1. UNCHANGED data /\ moving[t] # "none" /\ data[t].name = "move"
  <2>1. UNCHANGED data /\ moving[t] # "none"
    BY DEF MovingHandler, RecordStart, GetWaiting, RemoveOne, RemoveThrows, DeleteKey, AddJob,
       SetKey, HandlerStep
  <2>2. QED BY <2>1 DEF HandlersOk, HandlerOk
<1>2. \A u \in Trips \ {t} : moving'[u] = moving[u]
  BY DEF MovingHandler, RecordStart, GetWaiting, RemoveOne, RemoveThrows, DeleteKey, AddJob, SetKey,
     HandlerStep
<1>3. CASE /\ moving'[t] \in {"remove", "add"}
           /\ \A u \in Trips : Elev(u) # Elev(t) => job'[u] = job[u]
  <2>1. Holds(t)'
    BY <1>1, <1>3 DEF Holds
  <2>2. \A u \in Trips : Elev(u) # Elev(t) => moving'[u] = moving[u] /\ job'[u] = job[u]
    BY <1>2, <1>3
  <2>3. QED BY <1>1, <2>1, <2>2, HolderKept
<1>4. CASE RecordStart(t)
  <2>1. /\ UNCHANGED job /\ moving[t] \in {"track", "push", "trim"}
        /\ moving'[t] \in {"push", "trim", "waiting"}
    BY <1>4 DEF RecordStart, HandlerStep, bull
  <2>2. \A u \in Trips : Elev(u)' = Elev(u) /\ (Lost(u)' => Lost(u)) /\ (Holds(u) => Holds(u)')
    BY <1>1, <1>2, <2>1 DEF Elev, Lost, Dropped, Holds
  <2>3. QED BY <2>2, KeptStep
<1>5. CASE GetWaiting(t) \/ RemoveThrows(t) \/ DeleteKey(t)
  BY <1>3, <1>5 DEF GetWaiting, RemoveThrows, DeleteKey, HandlerStep, bull
<1>6. CASE RemoveOne(t)
  <2>1. PICK v \in doomed[t] : UNCHANGED job \/ SetStatus(v, "removed")
    BY <1>6 DEF RemoveOne, bull
  <2>2. v \in Trips /\ Elev(v) = Elev(t)
    BY <2>1 DEF HandlersOk, HandlerOk
  <2>3. \A u \in Trips \ {v} : job'[u] = job[u]
    BY <2>1 DEF SetStatus
  <2>4. moving'[t] = "remove"
    BY <1>6 DEF RemoveOne, HandlerStep
  <2>5. QED BY <1>3, <2>2, <2>3, <2>4
<1>7. CASE AddJob(t)
  <2>1. moving'[t] = "set" /\ moving[t] = "add"
    BY <1>7 DEF AddJob, HandlerStep
  <2>2. /\ \A u \in Trips \ {t} : job'[u] = job[u]
        /\ \E w \in Trips : Elev(w) = Elev(t) /\ Holds(w)'
    <3>1. CASE Enqueue(t)
      <4>1. job'[t].status = "waiting" /\ \A u \in Trips \ {t} : job'[u] = job[u]
        BY <3>1 DEF Enqueue, SetStatus, Job
      <4>2. Holds(t)'
        BY <1>1, <4>1 DEF Holds, Live
      <4>3. QED BY <4>1, <4>2
    <3>2. CASE Namesakes(t) # {} /\ UNCHANGED bull
      <4>1. PICK w \in Trips : job[w].status = "waiting" /\ Elev(w) = Elev(t) /\ moving[w] = "set"
        BY <3>2 DEF Namesakes, WaitingFor
      <4>2. data[w].name = "move" /\ UNCHANGED job
        BY <3>2, <4>1 DEF HandlersOk, HandlerOk, bull
      <4>3. Holds(w)'
        BY <1>1, <4>1, <4>2 DEF Holds, Live
      <4>4. QED BY <4>1, <4>2, <4>3
    <3>3. QED BY <1>7, <3>1, <3>2 DEF AddJob
  <2>3. \A u \in Trips : Elev(u) # Elev(t) => moving'[u] = moving[u] /\ job'[u] = job[u]
    BY <1>2, <2>2
  <2>4. QED BY <1>1, <2>2, <2>3, HolderKept
<1>8. CASE SetKey(t)
  <2>1. UNCHANGED job /\ moving[t] = "set" /\ moving'[t] = "done"
    BY <1>8 DEF SetKey, HandlerStep, bull
  <2>2. \A u \in Trips : Elev(u)' = Elev(u) /\ (Lost(u)' => Lost(u)) /\ (Holds(u) => Holds(u)')
    BY <1>1, <1>2, <2>1 DEF Elev, Lost, Dropped, Holds
  <2>3. QED BY <2>2, KeptStep
<1>9. QED BY <1>4, <1>5, <1>6, <1>7, <1>8 DEF MovingHandler

LEMMA WorkerKept ==
    ASSUME IInv, Regular, Kept, NEW l \in Loops, Worker(l)
    PROVE  Kept'
<1> USE TypeParts DEF IInv, TripOk
<1>1. UNCHANGED <<data, moving>>
  BY DEF Worker
<1>2. ASSUME NEW u \in Trips, job'[u].status # job[u].status
      PROVE  job'[u].status \in {"active", "completed"}
  <2>1. CASE TakeJob(l)
    BY <1>2, <2>1 DEF TakeJob, SetStatus, Job
  <2>2. CASE Completed(l)
    BY <1>2, <2>2 DEF Completed, SetStatus, Job
  <2>3. CASE UNCHANGED job
    BY <1>2, <2>3
  <2>4. QED
    BY <2>1, <2>2, <2>3, NoneRejected DEF Worker, Travel, Arrive, Complete, EmergencyStop, bull
<1>3. QED BY <1>1, <1>2, JobsKept DEF Live

LEMMA KeptNext ==
    ASSUME IInv, HandlersOk, Regular, Kept, faults' = 0, [Next]_vars
    PROVE  Kept'
<1> USE TypeParts DEF IInv, TripOk
<1>1. ASSUME NEW t \in Trips, NEW e \in Elevators, NEW from \in Floor, NEW to \in Floor,
             Publish(t, e, from, to)
      PROVE  Kept'
  <2>1. /\ data[t].name = "none" /\ UNCHANGED job /\ moving'[t] = "track"
        /\ \A u \in Trips \ {t} : data'[u] = data[u] /\ moving'[u] = moving[u]
    BY <1>1 DEF Publish, bull
  <2>2. job[t].status = "none"
    BY <2>1 DEF JobOk
  <2>3. ~Lost(t)'
    BY <2>1, <2>2 DEF Lost, Dropped
  <2>4. QED BY <2>1, <2>3, BeginKept
<1>2. ASSUME NEW t \in Trips, NEW e \in Elevators, AddStop(t, e) PROVE Kept'
  <2>1. /\ data[t].name = "none" /\ Enqueue(t) /\ UNCHANGED moving
        /\ \A u \in Trips \ {t} : data'[u] = data[u]
    BY <1>2 DEF AddStop, handlers
  <2>2. job'[t].status = "waiting" /\ \A u \in Trips \ {t} : job'[u] = job[u]
    BY <2>1 DEF Enqueue, SetStatus, Job
  <2>3. ~Lost(t)'
    BY <2>2 DEF Lost, Dropped
  <2>4. QED BY <2>1, <2>2, <2>3, BeginKept
<1>3. ASSUME NEW t \in Trips, MovingHandler(t) PROVE Kept'
  BY <1>3, MovingHandlerKept
<1>4. ASSUME NEW t \in Trips PROVE ~Promote(t) /\ ~LockExpires(t) /\ ~Stalled(t)
  BY NoneUnlocked
<1>5. ASSUME NEW l \in Loops, Worker(l) PROVE Kept'
  BY <1>5, WorkerKept
<1>6. ~Failure
  BY DEF Failure, MovingHandlerFault, ArrivedHandlerFault, RenewalFault, WorkerFault, Crash, Fault
<1>7. CASE UNCHANGED <<data, moving, job>>
  BY <1>7, JobsKept
<1>8. ASSUME NEW t \in Trips, ArrivedHandler(t) PROVE Kept'
  BY <1>7, <1>8 DEF ArrivedHandler, bull
<1>9. ASSUME NEW e \in Elevators, DoorsClose(e) \/ DoorsIdle(e) \/ ExpireKey(e) PROVE Kept'
  BY <1>7, <1>9 DEF DoorsClose, DoorsIdle, ExpireKey, bull, handlers
<1>10. CASE UNCHANGED vars
  BY <1>7, <1>10 DEF vars, bull, handlers
<1>11. CASE Next
  BY <1>11, <1>1, <1>2, <1>3, <1>4, <1>5, <1>6, <1>8, <1>9 DEF Next, Step
<1>12. QED BY <1>10, <1>11

LEMMA InitKInv == Init => KInv
<1> SUFFICES ASSUME Init PROVE KInv
  OBVIOUS
<1>1. HandlersOk
  BY DEF Init, HandlersOk, HandlerOk
<1>2. Kept
  BY DEF Init, Kept, Lost, Dropped
<1>3. QED BY <1>1, <1>2 DEF KInv

LEMMA KStep == IInv /\ HInv /\ KInv /\ [Next]_vars => KInv'
<1> SUFFICES ASSUME IInv, HInv, KInv, [Next]_vars PROVE KInv'
  OBVIOUS
<1>1. HandlersOk'
  BY HandlersStep DEF KInv
<1>2. ASSUME faults' = 0 PROVE Kept'
  <2>1. faults = 0
    BY <1>2, FaultsGrow DEF IInv
  <2>2. QED BY <1>2, <2>1, KeptNext DEF HInv, KInv
<1>3. QED BY <1>1, <1>2 DEF KInv

(* removeExistingJobs and the ids of addMovementJob: without failures, a    *)
(* departure loses its job only to another departure of its elevator, which *)
(* is about to add its own or whose job is there or has run, however many   *)
(* departures overlap.                                                      *)
THEOREM LostToAnother == Spec => []RemovedForAnother
<1>1. KInv => RemovedForAnother
  BY DEF KInv, Kept, Lost, Holder, Holds, RemovedForAnother
<1>2. QED BY <1>1, Invariance, InitHInv, HStep, InitKInv, KStep, PTL DEF Spec

-----------------------------------------------------------------------------
(* When an elevator comes to rest.  Whoever writes a movement into the hash *)
(* has a trip that is not finished, which will write over it; and open      *)
(* doors have a timer pending that will close them.                         *)

Unfinished(t) ==
    \/ moving[t] \in Before
    \/ job[t].status \in Live /\ \A l \in Loops : loop[l].job = t => loop[l].pc # "done"

Restless(e) == \E t \in Trips : Elev(t) = e /\ Unfinished(t)

Settled(e) ==
    \/ Restless(e)
    \/ /\ hash[e].direction = "IDLE" /\ hash[e].target = NoFloor
       /\ idling[e] > 0 \/ hash[e].state \in {"IDLE", "MAINTENANCE"}

(* A six-second timer is pending as long as the three-second one of its     *)
(* arrival.                                                                 *)
TimersOk == \A e \in Elevators : closing[e] <= idling[e]

RInv == TimersOk /\ (faults = 0 => \A e \in Elevators : Settled(e))

-----------------------------------------------------------------------------
LEMMA TimersStep ==
    ASSUME IInv, TimersOk, [Next]_vars
    PROVE  TimersOk'
<1> SUFFICES ASSUME NEW e \in Elevators PROVE closing'[e] <= idling'[e]
  BY DEF TimersOk
<1> USE TypeParts DEF IInv, TripOk
<1>0. closing[e] \in Nat /\ idling[e] \in Nat /\ closing[e] <= idling[e]
  BY DEF TimersOk
<1>1. CASE UNCHANGED timers
  BY <1>0, <1>1 DEF timers
<1>2. ASSUME NEW f \in Elevators, DoorsClose(f) PROVE closing'[e] <= idling'[e]
  BY <1>0, <1>2 DEF DoorsClose
<1>3. ASSUME NEW f \in Elevators, DoorsIdle(f) PROVE closing'[e] <= idling'[e]
  BY <1>0, <1>3 DEF DoorsIdle
<1>4. ASSUME NEW l \in Loops, Worker(l) PROVE closing'[e] <= idling'[e]
  <2>1. CASE Complete(l)
    <3> DEFINE f == Elev(loop[l].job)
    <3>1. closing' = [closing EXCEPT ![f] = @ + 1] /\ idling' = [idling EXCEPT ![f] = @ + 1]
      BY <2>1 DEF Complete
    <3> HIDE DEF f
    <3>2. QED BY <1>0, <3>1
  <2>2. CASE ~Complete(l)
    BY <1>1, <1>4, <2>2 DEF Worker, TakeJob, Travel, Arrive, EmergencyStop, Completed,
       NotCompleted, Rejected, NotRejected
  <2>3. QED BY <2>1, <2>2
<1>5. CASE Crash
  BY <1>5 DEF Crash
<1>6. ASSUME NEW t \in Trips, NEW f \in Elevators, NEW from \in Floor, NEW to \in Floor,
             Publish(t, f, from, to)
      PROVE  closing'[e] <= idling'[e]
  BY <1>1, <1>6 DEF Publish
<1>7. ASSUME NEW t \in Trips, NEW f \in Elevators, AddStop(t, f) PROVE closing'[e] <= idling'[e]
  BY <1>1, <1>7 DEF AddStop
<1>8. ASSUME NEW t \in Trips, \/ MovingHandler(t) \/ MovingHandlerFault(t) \/ ArrivedHandler(t)
                              \/ ArrivedHandlerFault(t) \/ Promote(t) \/ LockExpires(t)
                              \/ RenewalFault(t) \/ Stalled(t)
      PROVE  closing'[e] <= idling'[e]
  BY <1>1, <1>8 DEF MovingHandler, MovingHandlerFault, ArrivedHandler, ArrivedHandlerFault, Promote,
     LockExpires, RenewalFault, Stalled
<1>9. ASSUME NEW l \in Loops, WorkerFault(l) PROVE closing'[e] <= idling'[e]
  BY <1>1, <1>9 DEF WorkerFault
<1>10. ASSUME NEW f \in Elevators, ExpireKey(f) PROVE closing'[e] <= idling'[e]
  BY <1>1, <1>10 DEF ExpireKey
<1>11. CASE UNCHANGED vars
  BY <1>1, <1>11 DEF vars
<1>12. CASE Next
  BY <1>12, <1>2, <1>3, <1>4, <1>5, <1>6, <1>7, <1>8, <1>9, <1>10 DEF Next, Step, Failure
<1>13. QED BY <1>11, <1>12

(* An elevator stays settled if its hash and timers are left alone and it   *)
(* is restless after the step if it was before.                             *)
LEMMA SettledSame ==
    ASSUME NEW e \in Elevators, Settled(e), hash'[e] = hash[e], idling'[e] = idling[e],
           Restless(e) => Restless(e)'
    PROVE  Settled(e)'
BY DEF Settled

(* A trip that a step does not touch stays as it is.                        *)
LEMMA UnfinishedSame ==
    ASSUME NEW u \in Trips, Unfinished(u), data'[u] = data[u], moving'[u] = moving[u],
           job'[u] = job[u], \A l \in Loops : loop'[l].job = u => loop'[l] = loop[l]
    PROVE  Unfinished(u)' /\ Elev(u)' = Elev(u)
<1>1. Unfinished(u)'
  BY DEF Unfinished
<1>2. QED BY <1>1 DEF Elev

LEMMA MovingHandlerSettled ==
    ASSUME IInv, Regular, HandlersOk, NEW t \in Trips, MovingHandler(t),
           \A e \in Elevators : Settled(e)
    PROVE  \A e \in Elevators : Settled(e)'
<1> USE TypeParts DEF IInv, TripOk
<1>1. /\ UNCHANGED <<hash, data, loop, idling>>
      /\ \A u \in Trips \ {t} : moving'[u] = moving[u]
  BY DEF MovingHandler, timers, RecordStart, GetWaiting, RemoveOne, RemoveThrows, DeleteKey, AddJob,
     SetKey, HandlerStep
<1>2. \A u \in Trips : Elev(u)' = Elev(u)
  BY <1>1 DEF Elev
<1>3. ASSUME NEW v \in Trips, Elev(v) = Elev(t), NEW w \in Trips, Elev(w) = Elev(t),
             Unfinished(w)', \A u \in Trips \ {v} : job'[u] = job[u]
      PROVE  \A e \in Elevators : Settled(e)'
  <2> SUFFICES ASSUME NEW e \in Elevators PROVE Settled(e)'
    OBVIOUS
  <2>1. CASE e = Elev(t)
    BY <1>2, <1>3, <2>1 DEF Settled, Restless
  <2>2. CASE e # Elev(t)
    <3>1. ASSUME NEW u \in Trips, Elev(u) = e, Unfinished(u) PROVE Unfinished(u)'
      BY <1>1, <1>3, <2>2, <3>1, UnfinishedSame
    <3>2. Restless(e) => Restless(e)'
      BY <1>2, <3>1 DEF Restless
    <3>3. QED BY <1>1, <3>2, SettledSame
  <2>3. QED BY <2>1, <2>2
<1>4. CASE RecordStart(t) \/ GetWaiting(t) \/ RemoveThrows(t) \/ DeleteKey(t)
  <2>1. UNCHANGED job /\ moving'[t] \in Before
    BY <1>4 DEF RecordStart, GetWaiting, RemoveThrows, DeleteKey, HandlerStep, bull, Before
  <2>2. Unfinished(t)'
    BY <2>1 DEF Unfinished
  <2>3. QED BY <1>3, <2>1, <2>2
<1>5. CASE RemoveOne(t)
  <2>1. PICK v \in doomed[t] : UNCHANGED job \/ SetStatus(v, "removed")
    BY <1>5 DEF RemoveOne, bull
  <2>2. v \in Trips /\ Elev(v) = Elev(t)
    BY <2>1 DEF HandlersOk, HandlerOk
  <2>3. \A u \in Trips \ {v} : job'[u] = job[u]
    BY <2>1 DEF SetStatus
  <2>4. Unfinished(t)'
    BY <1>5 DEF RemoveOne, HandlerStep, Unfinished, Before
  <2>5. QED BY <1>3, <2>2, <2>3, <2>4
<1>6. CASE AddJob(t)
  <2>1. CASE Enqueue(t)
    <3>1. job'[t].status = "waiting" /\ \A u \in Trips \ {t} : job'[u] = job[u]
      BY <2>1 DEF Enqueue, SetStatus, Job
    <3>2. job[t].status = "none"
      BY <1>6 DEF AddJob, HandlerStep, JobOk, Before
    <3>3. \A l \in Loops : loop[l].job # t
      BY <3>2, NoLoopRuns
    <3>4. Unfinished(t)'
      BY <1>1, <3>1, <3>3 DEF Unfinished, Live
    <3>5. QED BY <1>3, <3>1, <3>4
  <2>2. CASE Namesakes(t) # {} /\ UNCHANGED bull
    <3>1. PICK w \in Trips : job[w].status = "waiting" /\ Elev(w) = Elev(t)
      BY <2>2 DEF Namesakes, WaitingFor
    <3>2. \A l \in Loops : loop[l].job # w
      BY <3>1, NoLoopRuns
    <3>3. UNCHANGED job /\ Unfinished(w)'
      BY <1>1, <2>2, <3>1, <3>2 DEF Unfinished, Live, bull
    <3>4. QED BY <1>3, <3>1, <3>3
  <2>3. QED BY <1>6, <2>1, <2>2 DEF AddJob
<1>7. CASE SetKey(t)
  <2>1. UNCHANGED job /\ moving[t] = "set"
    BY <1>7 DEF SetKey, HandlerStep, bull
  <2>2. \A u \in Trips : Unfinished(u) => Unfinished(u)'
    BY <1>1, <2>1 DEF Unfinished, Before
  <2>3. \A e \in Elevators : Restless(e) => Restless(e)'
    BY <1>2, <2>2 DEF Restless
  <2>4. QED BY <1>1, <2>3, SettledSame
<1>8. QED BY <1>4, <1>5, <1>6, <1>7 DEF MovingHandler

(* A step of a loop leaves every trip but its own as it is.                 *)
LEMMA OthersUnfinished ==
    ASSUME IInv, NEW l \in Loops, Worker(l), NEW u \in Trips, Unfinished(u),
           loop[l].job # u, job'[u] = job[u], loop'[l].job # u
    PROVE  Unfinished(u)' /\ Elev(u)' = Elev(u)
<1>1. data'[u] = data[u] /\ moving'[u] = moving[u]
  BY DEF Worker
<1>2. \A m \in Loops : m # l => loop'[m] = loop[m]
  BY TypeParts DEF IInv, Worker, TakeJob, Travel, Arrive, Complete, EmergencyStop, Completed,
     NotCompleted, Rejected, NotRejected, LoopStep
<1>3. QED BY <1>1, <1>2, UnfinishedSame

LEMMA TakeJobSettled ==
    ASSUME IInv, Regular, NEW l \in Loops, Worker(l), TakeJob(l), \A e \in Elevators : Settled(e)
    PROVE  \A e \in Elevators : Settled(e)'
<1> USE TypeParts DEF IInv, TripOk
<1>0. PICK t : t = Head(wait)
  OBVIOUS
<1>1. /\ loop[l].pc = "idle" /\ wait # <<>> /\ job' = [job EXCEPT ![t].status = "active"]
      /\ loop' = [loop EXCEPT ![l] = [job |-> t, pc |-> "run", at |-> data[t].from,
                                      made |-> job[t].attemptsMade]]
      /\ UNCHANGED <<hash, idling, data>>
  BY <1>0 DEF Worker, TakeJob, SetStatus, timers
<1>2. t \in Trips /\ t \in ToSet(wait)
  BY <1>0, <1>1, TailType DEF ListOk
<1>3. job[t].status = "waiting" /\ loop[l].job = NoTrip
  BY <1>1, <1>2 DEF ListOk, LoopOk
<1>4. \A m \in Loops : loop[m].job # t
  BY <1>2, <1>3, NoLoopRuns
<1>5. loop'[l].job = t /\ loop'[l].pc = "run" /\ \A m \in Loops \ {l} : loop'[m] = loop[m]
  BY <1>1
<1>6. job'[t].status = "active" /\ \A u \in Trips \ {t} : job'[u] = job[u]
  BY <1>1, <1>2 DEF Job
<1>7. Unfinished(t)' /\ Elev(t)' = Elev(t)
  BY <1>1, <1>2, <1>4, <1>5, <1>6 DEF Unfinished, Elev, Live
<1>8. \A u \in Trips \ {t} : Unfinished(u) => Unfinished(u)' /\ Elev(u)' = Elev(u)
  BY <1>3, <1>5, <1>6, OthersUnfinished, NoTripAssumption
<1>9. \A e \in Elevators : Restless(e) => Restless(e)'
  BY <1>2, <1>7, <1>8 DEF Restless
<1>10. QED BY <1>1, <1>9, SettledSame

(* A loop runs its handler: the hash and the timers of its elevator alone.  *)
LEMMA DriveSettled ==
    ASSUME IInv, IInv', Regular, NEW l \in Loops, Worker(l),
           Travel(l) \/ Arrive(l) \/ EmergencyStop(l) \/ Complete(l),
           \A e \in Elevators : Settled(e)
    PROVE  \A e \in Elevators : Settled(e)'
<1> USE TypeParts DEF IInv, TripOk
<1>0. PICK t : t = loop[l].job
  OBVIOUS
<1>1. /\ loop[l].pc \in {"run", "arrived"} /\ UNCHANGED <<job, data>> /\ loop'[l].job = loop[l].job
  BY DEF Worker, Travel, Arrive, EmergencyStop, Complete, LoopStep, bull, Loop
<1>2. t \in Trips /\ job[t].status = "active" /\ \A m \in Loops \ {l} : loop[m].job # t
  BY <1>0, <1>1, AloneAtWork
<1>3. \A u \in Trips : Elev(u)' = Elev(u) /\ Elev(u) \in Elevators
  BY <1>1, TripFields DEF Elev
<1>4. \A e \in Elevators : e # Elev(t) => hash'[e] = hash[e] /\ idling'[e] = idling[e]
  BY <1>0, <1>2, <1>3 DEF Travel, Arrive, EmergencyStop, Complete, WriteHash, timers
<1>5. \A u \in Trips \ {t} : Unfinished(u) => Unfinished(u)'
  BY <1>0, <1>1, OthersUnfinished
<1>6. ASSUME NEW e \in Elevators, e # Elev(t) PROVE Settled(e)'
  <2>1. Restless(e) => Restless(e)'
    BY <1>3, <1>5, <1>6 DEF Restless
  <2>2. QED BY <1>4, <1>6, <2>1, SettledSame
<1>7. ASSUME NEW e \in Elevators, e = Elev(t) PROVE Settled(e)'
  <2>1. CASE Travel(l) \/ Arrive(l)
    <3>1. loop'[l].pc # "done" /\ \A m \in Loops \ {l} : loop'[m] = loop[m]
      BY <2>1 DEF Travel, Arrive, LoopStep, Loop
    <3>2. Unfinished(t)'
      BY <1>0, <1>1, <1>2, <3>1 DEF Unfinished, Live
    <3>3. QED BY <1>2, <1>3, <1>7, <3>2 DEF Settled, Restless
  <2>2. CASE EmergencyStop(l)
    <3>1. hash'[e] = Halted(hash[e], "MAINTENANCE")
      BY <1>0, <1>7, <2>2 DEF EmergencyStop, WriteHash
    <3>2. hash[e] \in Hash
      OBVIOUS
    <3>3. /\ hash'[e].direction = "IDLE" /\ hash'[e].target = NoFloor
          /\ hash'[e].state = "MAINTENANCE"
      BY <3>1, <3>2 DEF Halted, Hash
    <3>4. QED BY <3>3 DEF Settled
  <2>3. CASE Complete(l)
    <3>1. /\ hash'[e] = DoorsOpenAt(data[t].to)
          /\ idling'[e] = idling[e] + 1 /\ idling[e] \in Nat
      BY <1>0, <1>7, <2>3 DEF Complete, WriteHash
    <3>2. hash'[e].direction = "IDLE" /\ hash'[e].target = NoFloor
      BY <3>1 DEF DoorsOpenAt, DoorsClosedAt
    <3>3. idling'[e] > 0
      BY <3>1
    <3>4. QED BY <3>2, <3>3 DEF Settled
  <2>4. QED BY <2>1, <2>2, <2>3
<1>8. QED BY <1>6, <1>7

LEMMA CompletedSettled ==
    ASSUME IInv, NEW l \in Loops, Worker(l), Completed(l), \A e \in Elevators : Settled(e)
    PROVE  \A e \in Elevators : Settled(e)'
<1> USE TypeParts DEF IInv, TripOk
<1> DEFINE t == loop[l].job
<1>1. /\ loop[l].pc = "done" /\ loop'[l] = IdleLoop /\ SetStatus(t, "completed")
      /\ UNCHANGED <<hash, idling, data>>
  BY DEF Worker, Completed, timers
<1>2. t \in Trips /\ moving[t] \notin Before
  BY <1>1, AtWork
<1>3. ~Unfinished(t)
  BY <1>1, <1>2 DEF Unfinished
<1>4. \A u \in Trips \ {t} : job'[u] = job[u]
  BY <1>1 DEF SetStatus
<1>5. \A u \in Trips : loop'[l].job # u
  BY <1>1, NoTripAssumption DEF IdleLoop
<1>6. \A u \in Trips : Unfinished(u) => Unfinished(u)' /\ Elev(u)' = Elev(u)
  BY <1>3, <1>4, <1>5, OthersUnfinished
<1>7. \A e \in Elevators : Restless(e) => Restless(e)'
  BY <1>6 DEF Restless
<1>8. QED BY <1>1, <1>7, SettledSame

LEMMA WorkerSettled ==
    ASSUME IInv, IInv', Regular, NEW l \in Loops, Worker(l), \A e \in Elevators : Settled(e)
    PROVE  \A e \in Elevators : Settled(e)'
<1>1. ~NotCompleted(l) /\ ~Rejected(l) /\ ~NotRejected(l)
  BY NoneRejected
<1>2. QED BY <1>1, TakeJobSettled, DriveSettled, CompletedSettled DEF Worker

LEMMA TimerSettled ==
    ASSUME IInv, TimersOk, NEW f \in Elevators, DoorsClose(f) \/ DoorsIdle(f),
           \A e \in Elevators : Settled(e)
    PROVE  \A e \in Elevators : Settled(e)'
<1> USE TypeParts DEF IInv, TripOk
<1> SUFFICES ASSUME NEW e \in Elevators PROVE Settled(e)'
  OBVIOUS
<1>1. UNCHANGED <<data, moving, job, loop>>
  BY DEF DoorsClose, DoorsIdle, bull, handlers
<1>2. Restless(e)' = Restless(e)
  BY <1>1 DEF Restless, Unfinished, Elev
<1>3. CASE e # f
  <2>1. hash'[e] = hash[e] /\ idling'[e] = idling[e]
    BY <1>3 DEF DoorsClose, DoorsIdle, WriteHash
  <2>2. QED BY <1>2, <2>1, SettledSame
<1>4. CASE e = f
  <2>1. hash[e] \in Hash /\ closing[e] \in Nat /\ idling[e] \in Nat
    OBVIOUS
  <2>2. hash'[e].direction = hash[e].direction /\ hash'[e].target = hash[e].target
    BY <1>4, <2>1 DEF DoorsClose, DoorsIdle, WriteHash, Hash
  <2>3. CASE DoorsClose(f)
    <3>1. closing[e] > 0 /\ closing[e] <= idling[e] /\ idling'[e] = idling[e]
      BY <1>4, <2>3 DEF DoorsClose, TimersOk
    <3>2. idling'[e] > 0
      BY <2>1, <3>1
    <3>3. QED BY <1>2, <2>2, <3>2 DEF Settled
  <2>4. CASE DoorsIdle(f)
    <3>1. hash'[e].state = "IDLE"
      BY <1>4, <2>1, <2>4 DEF DoorsIdle, WriteHash, Hash
    <3>2. QED BY <1>2, <2>2, <3>1 DEF Settled
  <2>5. QED BY <2>3, <2>4
<1>5. QED BY <1>3, <1>4

LEMMA BeginSettled ==
    ASSUME IInv, NEW t \in Trips, data[t].name = "none", NEW f \in Elevators,
           UNCHANGED <<loop, idling>>, Unfinished(t)', Elev(t)' = f,
           \A e \in Elevators \ {f} : hash'[e] = hash[e],
           \A u \in Trips \ {t} : /\ data'[u] = data[u] /\ moving'[u] = moving[u]
                                  /\ job'[u] = job[u],
           \A e \in Elevators : Settled(e)
    PROVE  \A e \in Elevators : Settled(e)'
<1> SUFFICES ASSUME NEW e \in Elevators PROVE Settled(e)'
  OBVIOUS
<1>1. ~Unfinished(t)
  BY DEF IInv, TripOk, JobOk, Unfinished, Before, Live
<1>2. CASE e = f
  BY <1>2 DEF Settled, Restless
<1>3. CASE e # f
  <2>1. \A u \in Trips : Unfinished(u) => Unfinished(u)' /\ Elev(u)' = Elev(u)
    BY <1>1, UnfinishedSame
  <2>2. Restless(e) => Restless(e)'
    BY <2>1 DEF Restless
  <2>3. QED BY <1>3, <2>2, SettledSame
<1>4. QED BY <1>2, <1>3

LEMMA SettledNext ==
    ASSUME IInv, IInv', HandlersOk, Regular, TimersOk, faults' = 0, [Next]_vars,
           \A e \in Elevators : Settled(e)
    PROVE  \A e \in Elevators : Settled(e)'
<1> USE TypeParts DEF IInv, TripOk
<1>1. ASSUME NEW t \in Trips, NEW e \in Elevators, NEW from \in Floor, NEW to \in Floor,
             Publish(t, e, from, to)
      PROVE  \A f \in Elevators : Settled(f)'
  <2>1. /\ data[t].name = "none" /\ UNCHANGED <<job, loop, idling>> /\ moving'[t] = "track"
        /\ \A u \in Trips \ {t} : data'[u] = data[u] /\ moving'[u] = moving[u]
        /\ data'[t].elev = e /\ \A f \in Elevators \ {e} : hash'[f] = hash[f]
    BY <1>1 DEF Publish, bull, timers, WriteHash
  <2>2. Unfinished(t)' /\ Elev(t)' = e
    BY <2>1 DEF Unfinished, Before, Elev
  <2>3. QED BY <2>1, <2>2, BeginSettled
<1>2. ASSUME NEW t \in Trips, NEW e \in Elevators, AddStop(t, e)
      PROVE  \A f \in Elevators : Settled(f)'
  <2>1. /\ data[t].name = "none" /\ Enqueue(t) /\ UNCHANGED <<hash, moving, loop, idling>>
        /\ \A u \in Trips \ {t} : data'[u] = data[u]
        /\ data'[t].elev = e
    BY <1>2 DEF AddStop, handlers, timers, JobData
  <2>2. job'[t].status = "waiting" /\ \A u \in Trips \ {t} : job'[u] = job[u]
    BY <2>1 DEF Enqueue, SetStatus, Job
  <2>3. \A l \in Loops : loop[l].job # t
    BY <2>1, NoLoopRuns DEF JobOk
  <2>4. Unfinished(t)' /\ Elev(t)' = e
    BY <2>1, <2>2, <2>3 DEF Unfinished, Live, Elev
  <2>5. QED BY <2>1, <2>2, <2>4, BeginSettled
<1>3. ASSUME NEW t \in Trips, MovingHandler(t) PROVE \A f \in Elevators : Settled(f)'
  BY <1>3, MovingHandlerSettled
<1>4. ASSUME NEW t \in Trips PROVE ~Promote(t) /\ ~LockExpires(t) /\ ~Stalled(t)
  BY NoneUnlocked
<1>5. ASSUME NEW l \in Loops, Worker(l) PROVE \A f \in Elevators : Settled(f)'
  BY <1>5, WorkerSettled
<1>6. ~Failure
  BY DEF Failure, MovingHandlerFault, ArrivedHandlerFault, RenewalFault, WorkerFault, Crash, Fault
<1>7. ASSUME NEW e \in Elevators, DoorsClose(e) \/ DoorsIdle(e)
      PROVE  \A f \in Elevators : Settled(f)'
  BY <1>7, TimerSettled
<1>8. CASE UNCHANGED <<hash, idling, data, moving, job, loop>>
  <2>1. \A e \in Elevators : Restless(e)' = Restless(e)
    BY <1>8 DEF Restless, Unfinished, Elev
  <2>2. QED BY <1>8, <2>1, SettledSame
<1>9. ASSUME NEW t \in Trips, ArrivedHandler(t) PROVE \A f \in Elevators : Settled(f)'
  BY <1>8, <1>9 DEF ArrivedHandler, bull, timers
<1>10. ASSUME NEW e \in Elevators, ExpireKey(e) PROVE \A f \in Elevators : Settled(f)'
  BY <1>8, <1>10 DEF ExpireKey, bull, handlers, timers
<1>11. CASE UNCHANGED vars
  BY <1>8, <1>11 DEF vars, bull, handlers, timers
<1>12. CASE Next
  BY <1>12, <1>1, <1>2, <1>3, <1>4, <1>5, <1>6, <1>7, <1>9, <1>10 DEF Next, Step
<1>13. QED BY <1>11, <1>12

LEMMA InitRInv == Init => RInv
<1> SUFFICES ASSUME Init PROVE RInv
  OBVIOUS
<1>1. TimersOk
  BY DEF Init, TimersOk
<1>2. ASSUME NEW e \in Elevators PROVE Settled(e)
  BY DEF Init, Settled, DoorsClosedAt
<1>3. QED BY <1>1, <1>2 DEF RInv

LEMMA RStep == IInv /\ IInv' /\ HInv /\ KInv /\ RInv /\ [Next]_vars => RInv'
<1> SUFFICES ASSUME IInv, IInv', HInv, KInv, RInv, [Next]_vars PROVE RInv'
  OBVIOUS
<1>1. TimersOk'
  BY TimersStep DEF RInv
<1>2. ASSUME faults' = 0 PROVE \A e \in Elevators : Settled(e)'
  <2>1. faults = 0
    BY <1>2, FaultsGrow DEF IInv
  <2>2. QED BY <1>2, <2>1, SettledNext DEF HInv, KInv, RInv
<1>3. QED BY <1>1, <1>2 DEF RInv

(* A settled elevator with nothing under way shows that it stands.          *)
LEMMA SettledRests ==
    ASSUME IInv, NEW e \in Elevators, Settled(e), ~UnderWay(e)
    PROVE  \E f \in Floor : hash[e] \in {DoorsClosedAt(f), Halted(DoorsClosedAt(f), "MAINTENANCE")}
<1> USE TypeParts DEF IInv, TripOk
<1>1. ASSUME NEW t \in Trips, Elev(t) = e PROVE ~Unfinished(t)
  BY <1>1 DEF UnderWay, Unfinished, Before, Live, JobOk
<1>2. ~Restless(e) /\ ~(idling[e] > 0)
  BY <1>1 DEF Restless, UnderWay
<1>3. /\ hash[e] \in Hash /\ hash[e].direction = "IDLE" /\ hash[e].target = NoFloor
      /\ hash[e].state \in {"IDLE", "MAINTENANCE"}
  BY <1>2 DEF Settled
<1>4. hash[e].floor \in Floor
  BY <1>3 DEF Hash
<1> DEFINE shown(s) == [floor |-> hash[e].floor, state |-> s, direction |-> "IDLE",
                        target |-> NoFloor]
<1>5. hash[e] = shown(hash[e].state)
  BY <1>3 DEF Hash
<1>6. /\ DoorsClosedAt(hash[e].floor) = shown("IDLE")
      /\ Halted(DoorsClosedAt(hash[e].floor), "MAINTENANCE") = shown("MAINTENANCE")
  <2>1. DoorsClosedAt(hash[e].floor) = shown("IDLE")
    BY DEF DoorsClosedAt
  <2>2. shown("IDLE") \in Hash /\ shown("MAINTENANCE") \in Hash
    BY <1>4 DEF Hash, State, Direction
  <2>3. ASSUME NEW h \in Hash, h = shown("IDLE")
        PROVE  Halted(h, "MAINTENANCE") = shown("MAINTENANCE")
    <3>1. /\ Halted(h, "MAINTENANCE") \in Hash
          /\ Halted(h, "MAINTENANCE").floor = h.floor
          /\ Halted(h, "MAINTENANCE").state = "MAINTENANCE"
          /\ Halted(h, "MAINTENANCE").direction = "IDLE"
          /\ Halted(h, "MAINTENANCE").target = NoFloor
      BY DEF Halted, Hash, State, Direction
    <3>2. h.floor = hash[e].floor
      BY <2>3
    <3>3. QED BY <3>1, <3>2 DEF Hash
  <2>4. QED BY <2>1, <2>2, <2>3
<1>7. hash[e] = shown("IDLE") \/ hash[e] = shown("MAINTENANCE")
  BY <1>3, <1>5
<1>8. QED BY <1>4, <1>6, <1>7

(* Without failures, however departures, stops and timers of an elevator    *)
(* overlap: when nothing is under way its hash shows no movement and no     *)
(* open doors.                                                              *)
THEOREM RestInTheEnd == Spec => []ComesToRest
<1>1. IInv /\ RInv => ComesToRest
  BY SettledRests DEF RInv, ComesToRest
<1>2. QED
  BY <1>1, Invariance, InitHInv, HStep, InitKInv, KStep, InitRInv, RStep, PTL DEF Spec

-----------------------------------------------------------------------------
(* The cab.  If departures are published only for an elevator seen IDLE,    *)
(* one trip at a time drives it, or its doors are timed, or it rests; and   *)
(* the hash shows which.                                                    *)

(* From its publication until its arrival is published, the trip decides    *)
(* what the hash of its elevator shows.                                     *)
Driven(t) ==
    /\ data[t].name = "move"
    /\ \/ moving[t] \in Before \/ job[t].status = "waiting"
       \/ \E l \in Loops : loop[l].job = t /\ loop[l].pc \in {"run", "arrived"}

Shown(t) ==
    /\ moving[t] \in Before \/ job[t].status = "waiting" =>
         hash[Elev(t)] = MovingTo(data[t].from, t)
    /\ \A l \in Loops : loop[l].job = t =>
         /\ loop[l].pc = "run" => hash[Elev(t)] = MovingTo(loop[l].at, t)
         /\ loop[l].pc = "arrived" => hash[Elev(t)] = DoorsOpenAt(data[t].to)

DrivenBy(e, t) == Elev(t) = e /\ Driven(t)

Undriven(e) == \A t \in Trips : ~DrivenBy(e, t)

TimedState(e) == IF idling[e] = 0 THEN "IDLE"
                 ELSE IF closing[e] = 1 THEN "DOORS_OPENING" ELSE "DOORS_CLOSING"

(* One trip at a time, and none while a door timer is pending.              *)
Course(e) ==
    /\ closing[e] <= idling[e] /\ idling[e] <= 1
    /\ \A t \in Trips : DrivenBy(e, t) =>
         /\ idling[e] = 0 /\ Shown(t)
         /\ \A u \in Trips : DrivenBy(e, u) => u = t
    /\ Undriven(e) => hash[e].target = NoFloor /\ hash[e].state = TimedState(e)

CInv ==
    /\ faults = 0
    /\ \A t \in Trips : data[t].name # "emergency-stop" /\ doomed[t] = {}
    /\ \A e \in Elevators : Course(e)

LEMMA InitCInv == Init => CInv
<1> SUFFICES ASSUME Init PROVE CInv
  OBVIOUS
<1>1. \A t \in Trips : data[t].name = "none"
  BY DEF Init, NoData
<1>2. \A e \in Elevators : Course(e)
  BY <1>1 DEF Init, Course, DrivenBy, Driven, TimedState, DoorsClosedAt
<1>3. QED BY <1>1, <1>2 DEF Init, CInv

(* A trip that a step leaves alone.                                         *)
Untouched(u) ==
    /\ data'[u] = data[u]
    /\ moving'[u] \in Before <=> moving[u] \in Before
    /\ job'[u].status = "waiting" <=> job[u].status = "waiting"
    /\ \A l \in Loops : loop'[l] = loop[l] \/ (loop[l].job # u /\ loop'[l].job # u)

LEMMA DrivenSame ==
    ASSUME NEW u \in Trips, Untouched(u), NEW e
    PROVE  Elev(u)' = Elev(u) /\ (DrivenBy(e, u)' <=> DrivenBy(e, u))
<1>1. ASSUME NEW l \in Loops
      PROVE  loop'[l].job = u /\ loop'[l].pc \in {"run", "arrived"}
             <=> loop[l].job = u /\ loop[l].pc \in {"run", "arrived"}
  BY DEF Untouched
<1>2. QED BY <1>1 DEF Untouched, DrivenBy, Driven, Elev

LEMMA ShownSame ==
    ASSUME NEW u \in Trips, Untouched(u), hash'[Elev(u)] = hash[Elev(u)], Shown(u)
    PROVE  Shown(u)'
<1>1. Elev(u)' = Elev(u)
  BY DEF Untouched, Elev
<1>2. \A f : MovingTo(f, u)' = MovingTo(f, u)
  BY DEF Untouched, MovingTo
<1>3. ASSUME NEW l \in Loops, loop'[l].job = u
      PROVE  loop[l] = loop'[l] /\ loop[l].job = u
  BY <1>3 DEF Untouched
<1>4. QED BY <1>1, <1>2, <1>3 DEF Untouched, Shown, DoorsOpenAt, DoorsClosedAt, MovingTo

(* An elevator whose hash, timers and trips a step leaves alone.            *)
LEMMA CourseSame ==
    ASSUME NEW e \in Elevators, Course(e), hash'[e] = hash[e],
           closing'[e] = closing[e], idling'[e] = idling[e],
           \A u \in Trips : Untouched(u) \/ (~DrivenBy(e, u) /\ ~DrivenBy(e, u)')
    PROVE  Course(e)'
<1>1. ASSUME NEW u \in Trips PROVE DrivenBy(e, u)' <=> DrivenBy(e, u)
  <2>1. CASE Untouched(u)
    BY <2>1, DrivenSame
  <2>2. CASE ~DrivenBy(e, u) /\ ~DrivenBy(e, u)'
    BY <2>2
  <2>3. QED BY <2>1, <2>2
<1>2. ASSUME NEW u \in Trips, DrivenBy(e, u) PROVE Shown(u)'
  <2>1. Untouched(u) /\ Elev(u) = e /\ Shown(u)
    <3>1. Untouched(u) /\ Shown(u)
      BY <1>2 DEF Course
    <3>2. QED BY <1>2, <3>1 DEF DrivenBy
  <2>2. QED BY <2>1, ShownSame
<1>3. Undriven(e)' <=> Undriven(e)
  BY <1>1 DEF Undriven
<1>4. QED BY <1>1, <1>2, <1>3 DEF Course, TimedState

(* An elevator driven by the trip that takes the step.                      *)
LEMMA CourseOf ==
    ASSUME NEW e \in Elevators, NEW t \in Trips, DrivenBy(e, t)', Shown(t)',
           closing'[e] = 0, idling'[e] = 0,
           \A u \in Trips \ {t} : ~DrivenBy(e, u)'
    PROVE  Course(e)'
BY DEF Course, Undriven

(* The trip drives its elevator before and after the step, and the others   *)
(* are left alone.                                                          *)
LEMMA CourseOn ==
    ASSUME IInv, CInv, NEW t \in Trips, Driven(t), Driven(t)', Shown(t)', Elev(t)' = Elev(t),
           UNCHANGED <<closing, idling>>,
           \A e \in Elevators \ {Elev(t)} : hash'[e] = hash[e],
           \A u \in Trips \ {t} : Untouched(u)
    PROVE  \A e \in Elevators : Course(e)'
<1> SUFFICES ASSUME NEW e \in Elevators PROVE Course(e)'
  OBVIOUS
<1>1. Course(e)
  BY DEF CInv
<1>2. CASE e = Elev(t)
  <2>1. DrivenBy(e, t) /\ DrivenBy(e, t)'
    BY <1>2 DEF DrivenBy
  <2>2. closing[e] = 0 /\ idling[e] = 0
    BY <1>1, <2>1, TypeParts DEF Course, IInv
  <2>3. ASSUME NEW u \in Trips \ {t} PROVE ~DrivenBy(e, u)'
    BY <1>1, <2>1, DrivenSame DEF Course
  <2>4. QED BY <2>1, <2>2, <2>3, CourseOf
<1>3. CASE e # Elev(t)
  <2>1. ~DrivenBy(e, t) /\ ~DrivenBy(e, t)'
    BY <1>3 DEF DrivenBy
  <2>2. hash'[e] = hash[e]
    BY <1>3
  <2>3. QED BY <1>1, <2>1, <2>2, CourseSame
<1>4. QED BY <1>2, <1>3

LEMMA AtRest ==
    ASSUME IInv, CInv, NEW e \in Elevators, hash[e].state = "IDLE"
    PROVE  Undriven(e) /\ closing[e] = 0 /\ idling[e] = 0 /\ hash[e].target = NoFloor
<1>1. Course(e)
  BY DEF CInv
<1>2. ASSUME NEW t \in Trips, DrivenBy(e, t) PROVE FALSE
  <2>1. Shown(t) /\ Elev(t) = e /\ Driven(t)
    BY <1>1, <1>2 DEF Course, DrivenBy
  <2>2. \/ \E f : hash[e] = MovingTo(f, t)
        \/ \E f : hash[e] = DoorsOpenAt(f)
    BY <2>1 DEF Shown, Driven
  <2>3. \A f : MovingTo(f, t).state = "MOVING" /\ DoorsOpenAt(f).state = "DOORS_OPENING"
    BY DEF MovingTo, DoorsOpenAt, DoorsClosedAt
  <2>4. hash[e].state \in {"MOVING", "DOORS_OPENING"}
    BY <2>2, <2>3
  <2>5. QED BY <2>4
<1>3. Undriven(e)
  BY <1>2 DEF Undriven
<1>4. hash[e].target = NoFloor /\ TimedState(e) = "IDLE"
  BY <1>1, <1>3 DEF Course
<1>5. idling[e] = 0
  BY <1>4 DEF TimedState
<1>6. QED BY <1>1, <1>3, <1>4, <1>5, TypeParts DEF Course, IInv

(* A timer is pending: nobody drives the elevator.                          *)
LEMMA Timed ==
    ASSUME IInv, CInv, NEW e \in Elevators, idling[e] > 0
    PROVE  /\ Undriven(e) /\ idling[e] = 1 /\ closing[e] \in {0, 1}
           /\ hash[e].target = NoFloor /\ hash[e].state = TimedState(e)
<1>1. Course(e) /\ closing[e] \in Nat /\ idling[e] \in Nat
  BY TypeParts DEF CInv, IInv
<1>2. Undriven(e)
  BY <1>1 DEF Course, Undriven
<1>3. QED BY <1>1, <1>2 DEF Course

-----------------------------------------------------------------------------
LEMMA PublishCourse ==
    ASSUME IInv, Regular, CInv, NEW t \in Trips, NEW e \in Elevators, NEW to \in Floor,
           hash[e].state = "IDLE", Publish(t, e, hash[e].floor, to)
    PROVE  CInv'
<1> USE TypeParts DEF IInv, TripOk
<1> DEFINE f == hash[e].floor
<1>1. /\ data[t].name = "none" /\ f # to
      /\ data' = [data EXCEPT ![t] = [name |-> "move", elev |-> e, from |-> f, to |-> to,
                                      direction |-> DirectionTo(f, to)]]
      /\ hash' = [hash EXCEPT ![e] = [floor |-> f, state |-> "MOVING",
                                      direction |-> DirectionTo(f, to), target |-> to]]
      /\ moving' = [moving EXCEPT ![t] = "track"]
      /\ UNCHANGED <<job, wait, doomed, loop, closing, idling, faults>>
  BY DEF Publish, WriteHash, bull, timers
<1> HIDE DEF f
<1>2. /\ data'[t].name = "move" /\ data'[t].elev = e /\ data'[t].from = f
      /\ data'[t].to = to /\ data'[t].direction = DirectionTo(f, to)
      /\ \A u \in Trips \ {t} : data'[u] = data[u] /\ moving'[u] = moving[u]
      /\ moving'[t] = "track"
  BY <1>1
<1>3. hash'[e] = MovingTo(data[t].from, t)'
  BY <1>1, <1>2 DEF MovingTo
<1>4. job[t].status = "none" /\ \A l \in Loops : loop[l].job # t
  BY <1>1, NoLoopRuns DEF JobOk
<1>5. DrivenBy(e, t)' /\ Elev(t)' = e
  BY <1>2 DEF DrivenBy, Driven, Before, Elev
<1>6. Shown(t)'
  BY <1>1, <1>3, <1>4, <1>5 DEF Shown
<1>7. Undriven(e) /\ closing[e] = 0 /\ idling[e] = 0
  BY AtRest
<1>8. \A u \in Trips \ {t} : Untouched(u)
  BY <1>1, <1>2 DEF Untouched
<1>9. \A u \in Trips \ {t} : ~DrivenBy(e, u)'
  BY <1>7, <1>8, DrivenSame DEF Undriven
<1>10. Course(e)'
  BY <1>1, <1>5, <1>6, <1>7, <1>9, CourseOf
<1>11. ASSUME NEW d \in Elevators \ {e} PROVE Course(d)'
  <2>1. ~DrivenBy(d, t) /\ ~DrivenBy(d, t)'
    BY <1>1, <1>5 DEF DrivenBy, Driven
  <2>2. Course(d) /\ hash'[d] = hash[d]
    BY <1>1 DEF CInv
  <2>3. QED BY <1>1, <1>8, <2>1, <2>2, CourseSame
<1>12. \A u \in Trips : data'[u].name # "emergency-stop" /\ doomed'[u] = {}
  BY <1>1, <1>2 DEF CInv
<1>13. QED BY <1>1, <1>10, <1>11, <1>12 DEF CInv

(* The handler of a departure finds no job to remove, and adds its own.     *)
LEMMA NoneWaiting ==
    ASSUME IInv, CInv, NEW t \in Trips, moving[t] \in Before, data[t].name = "move"
    PROVE  WaitingFor(Elev(t)) = {}
<1> USE TypeParts DEF IInv, TripOk
<1> SUFFICES ASSUME NEW u \in Trips, job[u].status = "waiting", Elev(u) = Elev(t)
             PROVE  FALSE
  BY DEF WaitingFor
<1>1. data[u].name = "move"
  BY TripFields DEF CInv, JobOk
<1>2. Elev(t) \in Elevators /\ DrivenBy(Elev(t), t) /\ DrivenBy(Elev(t), u)
  BY <1>1, TripFields DEF DrivenBy, Driven
<1>3. u = t
  BY <1>2 DEF CInv, Course
<1>4. QED BY <1>3 DEF JobOk

LEMMA MovingHandlerCourse ==
    ASSUME IInv, Regular, HandlersOk, CInv, NEW t \in Trips, MovingHandler(t)
    PROVE  CInv'
<1> USE TypeParts DEF IInv, TripOk
<1>1. UNCHANGED <<hash, data, loop, closing, idling, faults>> /\ doomed[t] = {}
  BY DEF MovingHandler, timers, CInv
<1>2. \A u \in Trips \ {t} : moving'[u] = moving[u]
  BY DEF MovingHandler, RecordStart, GetWaiting, RemoveOne, RemoveThrows, DeleteKey, AddJob,
     SetKey, HandlerStep
<1>3. moving[t] # "none"
  BY DEF MovingHandler, RecordStart, GetWaiting, RemoveOne, RemoveThrows, DeleteKey, AddJob,
     SetKey, HandlerStep
<1>4. data[t].name = "move" /\ Elev(t) \in Elevators
  BY <1>3, TripFields DEF HandlersOk, HandlerOk
<1>5. ASSUME UNCHANGED job, moving'[t] \in Before <=> moving[t] \in Before, UNCHANGED doomed
      PROVE  CInv'
  <2>1. \A u \in Trips : Untouched(u)
    BY <1>1, <1>2, <1>5 DEF Untouched
  <2>2. ASSUME NEW e \in Elevators PROVE Course(e)'
    BY <1>1, <2>1, CourseSame DEF CInv
  <2>3. QED BY <1>1, <1>5, <2>2 DEF CInv
<1>6. CASE RecordStart(t) \/ DeleteKey(t) \/ SetKey(t)
  <2>1. UNCHANGED <<job, doomed>>
    BY <1>6 DEF RecordStart, DeleteKey, SetKey, bull
  <2>2. moving'[t] \in Before <=> moving[t] \in Before
    BY <1>6 DEF RecordStart, DeleteKey, SetKey, HandlerStep, Before
  <2>3. QED BY <1>5, <2>1, <2>2
<1>7. CASE GetWaiting(t)
  <2>1. UNCHANGED job /\ (moving'[t] \in Before <=> moving[t] \in Before) /\ moving[t] \in Before
    BY <1>7 DEF GetWaiting, HandlerStep, bull, Before
  <2>2. doomed' = [doomed EXCEPT ![t] = {}]
    BY <1>4, <1>7, <2>1, NoneWaiting DEF GetWaiting
  <2>3. doomed' = doomed
    BY <1>1, <2>2
  <2>4. QED BY <1>5, <2>1, <2>3
<1>8. CASE RemoveOne(t) \/ RemoveThrows(t)
  BY <1>1, <1>8 DEF RemoveOne, RemoveThrows
<1>9. CASE AddJob(t)
  <2>1. moving[t] = "add" /\ moving'[t] = "set" /\ UNCHANGED doomed
    BY <1>9 DEF AddJob, HandlerStep
  <2>2. moving[t] \in Before /\ job[t].status = "none"
    BY <2>1 DEF Before, JobOk
  <2>3. Namesakes(t) = {}
    BY <1>4, <2>2, NoneWaiting DEF Namesakes
  <2>4. SetStatus(t, "waiting")
    BY <1>9, <2>3 DEF AddJob, Enqueue
  <2>5. job'[t].status = "waiting" /\ \A u \in Trips \ {t} : job'[u] = job[u]
    BY <2>4, StatusSet DEF SetStatus, Live
  <2>6. \A u \in Trips \ {t} : Untouched(u)
    BY <1>1, <1>2, <2>5 DEF Untouched
  <2>7. Driven(t) /\ Driven(t)' /\ Elev(t)' = Elev(t)
    BY <1>1, <1>4, <2>2, <2>5 DEF Driven, Elev
  <2>8. Shown(t)
    BY <1>4, <2>7 DEF CInv, Course, DrivenBy
  <2>9. hash'[Elev(t)] = MovingTo(data[t].from, t)
    BY <1>1, <2>2, <2>8 DEF Shown
  <2>10. \A l \in Loops : loop'[l].job # t
    BY <1>1, <2>2, NoLoopRuns
  <2>11. Shown(t)'
    BY <1>1, <2>7, <2>9, <2>10 DEF Shown, MovingTo
  <2>12. \A e \in Elevators : Course(e)'
    BY <1>1, <2>6, <2>7, <2>11, CourseOn
  <2>13. QED BY <1>1, <2>1, <2>12 DEF CInv
<1>10. QED BY <1>6, <1>7, <1>8, <1>9 DEF MovingHandler

(* The worker loops: what they do to hash, loop and timers.                 *)
LEMMA TakeJobCourse ==
    ASSUME IInv, Regular, CInv, NEW l \in Loops, Worker(l), TakeJob(l)
    PROVE  CInv'
<1> USE TypeParts DEF IInv, TripOk
<1>a. loop[l].pc = "idle" /\ wait # <<>>
  BY DEF TakeJob
<1>b. Head(wait) \in Trips /\ Head(wait) \in ToSet(wait)
  BY <1>a, TailType DEF ListOk
<1> SUFFICES ASSUME NEW t \in Trips, t = Head(wait) PROVE CInv'
  BY <1>b
<1>1. /\ job' = [job EXCEPT ![t].status = "active"]
      /\ loop' = [loop EXCEPT ![l] = [job |-> t, pc |-> "run", at |-> data[t].from,
                                      made |-> job[t].attemptsMade]]
      /\ UNCHANGED <<hash, closing, idling>>
  BY DEF TakeJob, SetStatus, timers
<1>2. UNCHANGED <<data, moving, doomed, faults>>
  BY WorkerFrame
<1>3. t \in ToSet(wait)
  BY <1>b
<1>4. job[t].status = "waiting" /\ loop[l].job = NoTrip
  BY <1>a, <1>3 DEF ListOk, LoopOk
<1>5. /\ loop'[l].job = t /\ loop'[l].pc = "run" /\ loop'[l].at = data[t].from
      /\ \A m \in Loops \ {l} : loop'[m] = loop[m] /\ loop[m].job # t
  BY <1>1, <1>3, <1>4, NoLoopRuns
<1>6. job'[t].status = "active" /\ \A u \in Trips \ {t} : job'[u] = job[u]
  BY <1>1, <1>3, StatusSet DEF Live
<1>7. data[t].name = "move" /\ moving[t] \notin Before
  BY <1>3, <1>4, TripFields DEF CInv, JobOk
<1>8. \A u \in Trips \ {t} : Untouched(u)
  BY <1>2, <1>4, <1>5, <1>6, NoTripAssumption DEF Untouched
<1>9. Driven(t) /\ Driven(t)' /\ Elev(t)' = Elev(t)
  BY <1>2, <1>4, <1>5, <1>7 DEF Driven, Elev
<1>10. Shown(t)
  BY <1>3, <1>9, TripFields DEF CInv, Course, DrivenBy
<1>11. hash'[Elev(t)] = MovingTo(data[t].from, t)
  BY <1>1, <1>4, <1>10 DEF Shown
<1>12. Shown(t)'
  BY <1>2, <1>5, <1>6, <1>7, <1>9, <1>11 DEF Shown, MovingTo
<1>13. \A e \in Elevators : Course(e)'
  BY <1>1, <1>3, <1>8, <1>9, <1>12, CourseOn
<1>14. QED BY <1>2, <1>13 DEF CInv

(* A loop drives on, or arrives.                                            *)
LEMMA DriveCourse ==
    ASSUME IInv, Regular, CInv, NEW l \in Loops, Worker(l), Travel(l) \/ Arrive(l)
    PROVE  CInv'
<1> USE TypeParts DEF IInv, TripOk
<1>a. loop[l].pc = "run"
  BY DEF Travel, Arrive, LoopStep
<1> SUFFICES ASSUME NEW t \in Trips, loop[l].job = t PROVE CInv'
  BY <1>a, AtWork
<1>1. /\ loop[l].pc = "run" /\ data[t].name = "move"
      /\ UNCHANGED <<job, wait, closing, idling>>
  BY DEF Travel, Arrive, LoopStep, Named, bull, timers
<1>2. UNCHANGED <<data, moving, doomed, faults>>
  BY WorkerFrame
<1>3. \/ /\ loop' = [loop EXCEPT ![l].at = Onward(l)]
         /\ hash' = [hash EXCEPT ![Elev(t)] = MovingTo(Onward(l), t)]
      \/ /\ loop' = [loop EXCEPT ![l].pc = "arrived"]
         /\ hash' = [hash EXCEPT ![Elev(t)] = DoorsOpenAt(data[t].to)]
  BY DEF Travel, Arrive, LoopStep, WriteHash
<1>4. /\ loop'[l].job = t
      /\ \/ /\ loop'[l].pc = "run" /\ loop'[l].at = Onward(l)
            /\ hash'[Elev(t)] = MovingTo(Onward(l), t)
         \/ /\ loop'[l].pc = "arrived"
            /\ hash'[Elev(t)] = DoorsOpenAt(data[t].to)
      /\ \A m \in Loops \ {l} : loop'[m] = loop[m]
      /\ \A e \in Elevators \ {Elev(t)} : hash'[e] = hash[e]
  <2>1. loop[l] \in Loop /\ Elev(t) \in Elevators
    BY <1>1, AtWork, TripFields
  <2>2. QED BY <1>1, <1>3, <2>1 DEF Loop
<1>5. /\ job[t].status = "active" /\ moving[t] \notin Before
      /\ \A m \in Loops \ {l} : loop[m].job # t
  BY <1>1, AtWork, AloneAtWork
<1>6. \A u \in Trips \ {t} : Untouched(u)
  BY <1>1, <1>2, <1>4, <1>5 DEF Untouched
<1>7. Driven(t) /\ Driven(t)' /\ Elev(t)' = Elev(t)
  BY <1>1, <1>2, <1>4 DEF Driven, Elev
<1>8. Shown(t)'
  <2>1. /\ \A m \in Loops : loop'[m].job = t => m = l
        /\ moving'[t] \notin Before /\ job'[t].status # "waiting"
    BY <1>1, <1>2, <1>4, <1>5
  <2>2. /\ \A f : MovingTo(f, t)' = MovingTo(f, t)
        /\ DoorsOpenAt(data[t].to)' = DoorsOpenAt(data[t].to)
    BY <1>2 DEF MovingTo, DoorsOpenAt, DoorsClosedAt
  <2>3. CASE /\ loop'[l].pc = "run" /\ loop'[l].at = Onward(l)
             /\ hash'[Elev(t)] = MovingTo(Onward(l), t)
    <3>1. hash'[Elev(t)'] = MovingTo(loop[l].at, t)'
      BY <1>2, <1>7, <2>3 DEF MovingTo
    <3>2. QED BY <2>1, <2>3, <3>1 DEF Shown
  <2>4. CASE loop'[l].pc = "arrived" /\ hash'[Elev(t)] = DoorsOpenAt(data[t].to)
    <3>1. hash'[Elev(t)'] = DoorsOpenAt(data[t].to)'
      BY <1>7, <2>2, <2>4
    <3>2. QED BY <2>1, <2>4, <3>1 DEF Shown
  <2>5. QED BY <1>4, <2>3, <2>4
<1>9. \A e \in Elevators : Course(e)'
  BY <1>1, <1>4, <1>5, <1>6, <1>7, <1>8, CourseOn
<1>10. QED BY <1>2, <1>9 DEF CInv

(* The arrival is published: the trip hands the elevator to its timers.     *)
LEMMA CompleteCourse ==
    ASSUME IInv, Regular, CInv, NEW l \in Loops, Worker(l), Complete(l)
    PROVE  CInv'
<1> USE TypeParts DEF IInv, TripOk
<1>a. loop[l].pc = "arrived"
  BY DEF Complete, LoopStep
<1>b. loop[l].job \in Trips /\ Elev(loop[l].job) \in Elevators
  BY <1>a, AtWork, TripFields
<1> SUFFICES ASSUME NEW t \in Trips, loop[l].job = t, NEW e \in Elevators, e = Elev(t)
             PROVE  CInv'
  BY <1>b
<1>1. /\ loop[l].pc = "arrived" /\ loop' = [loop EXCEPT ![l].pc = "done"]
      /\ hash' = [hash EXCEPT ![e] = DoorsOpenAt(data[t].to)]
      /\ closing' = [closing EXCEPT ![e] = @ + 1]
      /\ idling' = [idling EXCEPT ![e] = @ + 1]
      /\ UNCHANGED <<job, wait>>
  BY DEF Complete, LoopStep, WriteHash, bull
<1>2. UNCHANGED <<data, moving, doomed, faults>>
  BY WorkerFrame
<1>3. /\ job[t].status = "active" /\ moving[t] \notin Before
      /\ data[t].name # "none"
      /\ \A m \in Loops \ {l} : loop[m].job # t
  BY <1>1, AtWork, AloneAtWork
<1>4. data[t].name = "move"
  BY <1>3, TripFields DEF CInv
<1>5. /\ loop'[l].job = t /\ loop'[l].pc = "done"
      /\ \A m \in Loops \ {l} : loop'[m] = loop[m]
  <2>1. loop[l] \in Loop
    OBVIOUS
  <2>2. QED BY <1>1, <2>1 DEF Loop
<1>6. DrivenBy(e, t)
  BY <1>1, <1>4 DEF DrivenBy, Driven
<1>7. closing[e] = 0 /\ idling[e] = 0 /\ \A u \in Trips \ {t} : ~DrivenBy(e, u)
  BY <1>3, <1>4, <1>6 DEF CInv, Course
<1>8. \A u \in Trips \ {t} : Untouched(u)
  BY <1>1, <1>2, <1>3, <1>5 DEF Untouched
<1>9. Elev(t)' = e /\ ~Driven(t)'
  BY <1>1, <1>2, <1>3, <1>5 DEF Driven, Elev
<1>10. Undriven(e)'
  BY <1>7, <1>8, <1>9, DrivenSame DEF Undriven, DrivenBy
<1>11. closing'[e] = 1 /\ idling'[e] = 1 /\ hash'[e] = DoorsOpenAt(data[t].to)
  BY <1>1, <1>4, <1>7
<1>12. hash'[e].target = NoFloor /\ hash'[e].state = "DOORS_OPENING"
  BY <1>11 DEF DoorsOpenAt, DoorsClosedAt
<1>13. Course(e)'
  BY <1>10, <1>11, <1>12 DEF Course, Undriven, TimedState
<1>14. ASSUME NEW d \in Elevators \ {e} PROVE Course(d)'
  <2>1. ~DrivenBy(d, t) /\ ~DrivenBy(d, t)'
    BY <1>9 DEF DrivenBy
  <2>2. Course(d) /\ hash'[d] = hash[d] /\ closing'[d] = closing[d] /\ idling'[d] = idling[d]
    BY <1>1 DEF CInv
  <2>3. QED BY <1>8, <2>1, <2>2, CourseSame
<1>15. QED BY <1>2, <1>13, <1>14 DEF CInv

LEMMA WorkerCourse ==
    ASSUME IInv, Regular, CInv, NEW l \in Loops, Worker(l)
    PROVE  CInv'
<1> USE TypeParts DEF IInv, TripOk
<1>1. CASE EmergencyStop(l)
  <2>1. loop[l].pc = "run" /\ data[loop[l].job].name = "emergency-stop"
    BY <1>1 DEF EmergencyStop, LoopStep, Named
  <2>2. QED BY <2>1, AtWork DEF CInv
<1>2. ~NotCompleted(l) /\ ~Rejected(l) /\ ~NotRejected(l)
  BY NoneRejected
<1>3. CASE Completed(l)
  <2>a. loop[l].pc = "done"
    BY <1>3 DEF Completed
  <2> SUFFICES ASSUME NEW t \in Trips, loop[l].job = t PROVE CInv'
    BY <2>a, AtWork
  <2>1. /\ loop[l].pc = "done" /\ SetStatus(t, "completed")
        /\ loop' = [loop EXCEPT ![l] = IdleLoop]
        /\ UNCHANGED <<hash, closing, idling>>
    BY <1>3 DEF Completed, timers
  <2>2. UNCHANGED <<data, moving, doomed, faults>>
    BY WorkerFrame
  <2>3. job[t].status = "active" /\ \A m \in Loops \ {l} : loop[m].job # t
    BY <2>1, AloneAtWork
  <2>4. /\ loop'[l] = IdleLoop /\ loop'[l].job = NoTrip
        /\ \A m \in Loops \ {l} : loop'[m] = loop[m]
    BY <2>1 DEF IdleLoop
  <2>5. job'[t].status = "completed" /\ \A u \in Trips \ {t} : job'[u] = job[u]
    BY <2>1, <2>3, StatusSet DEF SetStatus
  <2>6. \A u \in Trips \ {t} : Untouched(u)
    BY <2>2, <2>3, <2>4, <2>5, NoTripAssumption DEF Untouched
  <2>7. ASSUME NEW e \in Elevators PROVE ~DrivenBy(e, t) <=> ~DrivenBy(e, t)'
    <3>1. moving[t] \in Before <=> moving'[t] \in Before
      BY <2>2
    <3>2. ASSUME NEW m \in Loops
          PROVE  /\ ~(loop[m].job = t /\ loop[m].pc \in {"run", "arrived"})
                 /\ loop'[m].job # t
      BY <2>1, <2>3, <2>4, NoTripAssumption
    <3>3. QED BY <2>2, <2>3, <2>5, <3>1, <3>2 DEF DrivenBy, Driven, Elev
  <2>8. ASSUME NEW e \in Elevators PROVE ~DrivenBy(e, t)
    <3>1. moving[t] \notin Before
      BY <2>1, AtWork
    <3>2. QED BY <2>1, <2>3, <3>1 DEF DrivenBy, Driven
  <2>9. ASSUME NEW e \in Elevators PROVE Course(e)'
    <3>1. ~DrivenBy(e, t) /\ ~DrivenBy(e, t)'
      BY <2>7, <2>8
    <3>2. QED BY <2>1, <2>6, <3>1, CourseSame DEF CInv
  <2>10. QED BY <2>2, <2>9 DEF CInv
<1>4. QED
  BY <1>1, <1>2, <1>3, TakeJobCourse, DriveCourse, CompleteCourse DEF Worker

LEMMA TimersCourse ==
    ASSUME IInv, CInv, NEW e \in Elevators, DoorsClose(e) \/ DoorsIdle(e)
    PROVE  CInv'
<1> USE TypeParts DEF IInv, TripOk
<1>1. /\ UNCHANGED <<data, job, moving, doomed, loop, faults>>
      /\ \A d \in Elevators \ {e} : /\ hash'[d] = hash[d] /\ closing'[d] = closing[d]
                                    /\ idling'[d] = idling[d]
  BY DEF DoorsClose, DoorsIdle, WriteHash, bull, handlers
<1>2. \A u \in Trips : Untouched(u)
  BY <1>1 DEF Untouched
<1>3. idling[e] > 0
  BY DEF CInv, Course, DoorsClose, DoorsIdle
<1>4. Undriven(e) /\ idling[e] = 1 /\ closing[e] \in {0, 1} /\ hash[e].target = NoFloor
  BY <1>3, Timed
<1>5. Undriven(e)'
  BY <1>2, <1>4, DrivenSame DEF Undriven
<1>6. ASSUME DoorsClose(e) PROVE Course(e)'
  <2>1. /\ closing[e] = 1 /\ closing'[e] = 0 /\ idling'[e] = 1
        /\ hash'[e] = [hash[e] EXCEPT !.state = "DOORS_CLOSING"]
    BY <1>4, <1>6 DEF DoorsClose, WriteHash
  <2>2. hash'[e].target = NoFloor /\ hash'[e].state = "DOORS_CLOSING"
    BY <1>4, <2>1 DEF Hash
  <2>3. QED BY <1>5, <2>1, <2>2 DEF Course, Undriven, TimedState
<1>7. ASSUME DoorsIdle(e) PROVE Course(e)'
  <2>1. /\ closing'[e] = 0 /\ idling'[e] = 0
        /\ hash'[e] = [hash[e] EXCEPT !.state = "IDLE"]
    BY <1>4, <1>7 DEF DoorsIdle, WriteHash
  <2>2. hash'[e].target = NoFloor /\ hash'[e].state = "IDLE"
    BY <1>4, <2>1 DEF Hash
  <2>3. QED BY <1>5, <2>1, <2>2 DEF Course, Undriven, TimedState
<1>8. Course(e)'
  BY <1>6, <1>7
<1>9. ASSUME NEW d \in Elevators \ {e} PROVE Course(d)'
  BY <1>1, <1>2, CourseSame DEF CInv
<1>10. QED BY <1>1, <1>8, <1>9 DEF CInv

(* A serial step is a step of the pipeline, without failure.                *)
LEMMA SerialIsNext == IInv /\ [SerialNext]_vars => [Next]_vars
<1> SUFFICES ASSUME IInv, SerialNext PROVE Next
  OBVIOUS
<1>1. ASSUME NEW t \in Trips, NEW e \in Elevators, NEW to \in Floor,
             Publish(t, e, hash[e].floor, to)
      PROVE  Next
  <2>1. hash[e].floor \in Floor
    BY TypeParts DEF IInv, Hash
  <2>2. QED BY <1>1, <2>1 DEF Next
<1>2. QED BY <1>1 DEF SerialNext, Next

LEMMA CStep == IInv /\ HInv /\ KInv /\ CInv /\ [SerialNext]_vars => CInv'
<1> SUFFICES ASSUME IInv, HInv, KInv, CInv, [SerialNext]_vars PROVE CInv'
  OBVIOUS
<1>1. Regular /\ HandlersOk
  BY DEF HInv, KInv, CInv
<1>2. ASSUME NEW t \in Trips, NEW e \in Elevators, NEW to \in Floor,
             hash[e].state = "IDLE" /\ Publish(t, e, hash[e].floor, to)
      PROVE  CInv'
  BY <1>1, <1>2, PublishCourse
<1>3. ASSUME NEW t \in Trips, MovingHandler(t) PROVE CInv'
  BY <1>1, <1>3, MovingHandlerCourse
<1>4. ASSUME NEW t \in Trips PROVE ~Promote(t) /\ ~LockExpires(t) /\ ~Stalled(t)
  BY <1>1, NoneUnlocked
<1>5. ASSUME UNCHANGED <<hash, data, job, moving, doomed, loop, closing, idling, faults>>
      PROVE  CInv'
  <2>1. \A u \in Trips : Untouched(u)
    BY <1>5 DEF Untouched
  <2>2. ASSUME NEW e \in Elevators PROVE Course(e)'
    BY <1>5, <2>1, CourseSame DEF CInv
  <2>3. QED BY <1>5, <2>2 DEF CInv
<1>6. ASSUME NEW t \in Trips, ArrivedHandler(t) PROVE CInv'
  BY <1>5, <1>6 DEF ArrivedHandler, bull, timers
<1>7. ASSUME NEW l \in Loops, Worker(l) PROVE CInv'
  BY <1>1, <1>7, WorkerCourse
<1>8. ASSUME NEW e \in Elevators, DoorsClose(e) \/ DoorsIdle(e) PROVE CInv'
  BY <1>8, TimersCourse
<1>9. CASE UNCHANGED vars
  BY <1>5, <1>9 DEF vars, bull, handlers, timers
<1>10. CASE SerialNext
  BY <1>2, <1>3, <1>4, <1>6, <1>7, <1>8, <1>10 DEF SerialNext, Step
<1>11. QED BY <1>9, <1>10

-----------------------------------------------------------------------------
(* What the hash of an elevator shows, as a cab.                            *)
LEMMA WatchedType == Watched \in Elevators
BY ElevatorsAssumption DEF Watched

LEMMA InitCab == Init => Cab!Init
<1> SUFFICES ASSUME Init PROVE Cab!Init
  OBVIOUS
<1>1. hash[Watched] = DoorsClosedAt(0)
  BY WatchedType DEF Init
<1>2. 0 \in Cab!CabFloor
  BY MaxFloorAssumption DEF Cab!CabFloor
<1>3. QED BY <1>1, <1>2 DEF Cab!Init, DoorsClosedAt

LEMMA SameCab ==
    ASSUME hash'[Watched] = hash[Watched]
    PROVE  UNCHANGED Cab!cabVars
<1>1. Watched' = Watched
  BY DEF Watched
<1>2. QED BY <1>1 DEF Cab!cabVars

(* The steps that write the hash: a departure, a floor on the way, the      *)
(* arrival, and the timers.                                                 *)
LEMMA PublishCab ==
    ASSUME IInv, CInv, NEW t \in Trips, NEW to \in Floor,
           hash[Watched].state = "IDLE", Publish(t, Watched, hash[Watched].floor, to)
    PROVE  Cab!Depart
<1> USE WatchedType
<1>1. hash[Watched].target = NoFloor
  BY AtRest
<1>2. hash[Watched].floor # to /\ hash[Watched].floor \in Floor
  BY TypeParts DEF Publish, IInv, Hash
<1>3. /\ hash'[Watched].floor = hash[Watched].floor /\ hash'[Watched].target = to
      /\ hash'[Watched].state = "MOVING"
  BY TypeParts DEF Publish, WriteHash, IInv
<1>4. Watched' = Watched
  BY DEF Watched
<1>5. QED
  BY <1>1, <1>2, <1>3, <1>4 DEF Cab!Depart, Cab!OtherFloors, Cab!CabFloor, Floor

LEMMA DriveCab ==
    ASSUME IInv, CInv, NEW l \in Loops, Travel(l) \/ Arrive(l), NEW t \in Trips,
           loop[l].job = t, Elev(t) = Watched
    PROVE  Cab!Pass \/ Cab!Arrive
<1> USE WatchedType, TypeParts DEF IInv, TripOk
<1>1. loop[l].pc = "run" /\ data[t].name = "move" /\ loop[l].at \in Floor
  BY LoopFields DEF Travel, Arrive, LoopStep, Named
<1>2. Driven(t) /\ Shown(t)
  <2>1. Driven(t)
    BY <1>1 DEF Driven
  <2>2. QED BY <2>1 DEF CInv, Course, DrivenBy
<1>3. /\ hash[Watched].floor = loop[l].at /\ hash[Watched].target = data[t].to
      /\ hash[Watched].state = "MOVING"
  BY <1>1, <1>2 DEF Shown, MovingTo
<1>4. data[t].to \in Floor /\ data[t].from \in Floor /\ data[t].to # NoFloor
  BY TripFields, NoFloorAssumption DEF Floor
<1>5. Onward(l) = IF data[t].to > loop[l].at THEN loop[l].at + 1 ELSE loop[l].at - 1
  <2>1. /\ OnTheWay(data[t], loop[l].at) /\ data[t].from # data[t].to
        /\ data[t].direction = DirectionTo(data[t].from, data[t].to)
    BY <1>1 DEF LoopOk, JobOk, Named
  <2>2. CASE data[t].from < data[t].to
    BY <1>1, <1>4, <2>1, <2>2 DEF OnTheWay, Onward, DirectionTo, Floor
  <2>3. CASE ~(data[t].from < data[t].to)
    BY <1>1, <1>4, <2>1, <2>3 DEF OnTheWay, Onward, DirectionTo, Floor
  <2>4. QED BY <2>2, <2>3
<1>6. Watched' = Watched
  BY DEF Watched
<1>7. CASE Travel(l)
  <2>1. Onward(l) # data[t].to /\ hash'[Watched] = MovingTo(Onward(l), t)
    BY <1>7 DEF Travel, WriteHash
  <2>2. /\ hash'[Watched].floor = Onward(l) /\ hash'[Watched].target = data[t].to
        /\ hash'[Watched].state = "MOVING"
    BY <2>1 DEF MovingTo
  <2>3. Cab!Pass
    BY <1>3, <1>4, <1>5, <1>6, <2>1, <2>2 DEF Cab!Pass, Cab!Nearer
  <2>4. QED BY <2>3
<1>8. CASE Arrive(l)
  <2>1. Onward(l) = data[t].to /\ hash'[Watched] = DoorsOpenAt(data[t].to)
    BY <1>8 DEF Arrive, WriteHash
  <2>2. /\ hash'[Watched].floor = data[t].to /\ hash'[Watched].target = NoFloor
        /\ hash'[Watched].state = "DOORS_OPENING"
    BY <2>1 DEF DoorsOpenAt, DoorsClosedAt
  <2>3. Cab!Arrive
    BY <1>3, <1>4, <1>5, <1>6, <2>1, <2>2 DEF Cab!Arrive, Cab!Nearer
  <2>4. QED BY <2>3
<1>9. QED BY <1>7, <1>8

LEMMA TimerCab ==
    ASSUME IInv, CInv, DoorsClose(Watched) \/ DoorsIdle(Watched)
    PROVE  Cab!CloseDoors \/ UNCHANGED Cab!cabVars
<1> USE WatchedType, TypeParts DEF IInv, TripOk
<1>1. idling[Watched] > 0
  BY DEF CInv, Course, DoorsClose, DoorsIdle
<1>2. /\ hash[Watched].target = NoFloor /\ hash[Watched] \in Hash
      /\ hash[Watched].state \in {"DOORS_OPENING", "DOORS_CLOSING"}
  <2>1. hash[Watched].target = NoFloor /\ hash[Watched].state = TimedState(Watched)
    BY <1>1, Timed
  <2>2. TimedState(Watched) \in {"DOORS_OPENING", "DOORS_CLOSING"}
    BY <1>1 DEF TimedState
  <2>3. QED BY <2>1, <2>2
<1>3. Watched' = Watched
  BY DEF Watched
<1>4. CASE DoorsClose(Watched)
  <2>1. hash'[Watched] = [hash[Watched] EXCEPT !.state = "DOORS_CLOSING"]
    BY <1>4 DEF DoorsClose, WriteHash
  <2>2. /\ hash'[Watched].floor = hash[Watched].floor /\ hash'[Watched].target = NoFloor
        /\ hash'[Watched].state = "DOORS_CLOSING"
    BY <1>2, <2>1 DEF Hash
  <2>3. QED BY <1>2, <1>3, <2>2 DEF Cab!cabVars
<1>5. CASE DoorsIdle(Watched)
  <2>1. hash'[Watched] = [hash[Watched] EXCEPT !.state = "IDLE"]
    BY <1>5 DEF DoorsIdle, WriteHash
  <2>2. /\ hash'[Watched].floor = hash[Watched].floor /\ hash'[Watched].target = NoFloor
        /\ hash'[Watched].state = "IDLE"
    BY <1>2, <2>1 DEF Hash
  <2>3. Cab!CloseDoors
    BY <1>2, <1>3, <2>2 DEF Cab!CloseDoors
  <2>4. QED BY <2>3
<1>6. QED BY <1>4, <1>5

LEMMA CompleteCab ==
    ASSUME IInv, CInv, NEW l \in Loops, Complete(l)
    PROVE  hash' = hash
<1> USE TypeParts DEF IInv, TripOk
<1>a. loop[l].pc = "arrived"
  BY DEF Complete, LoopStep
<1> SUFFICES ASSUME NEW t \in Trips, loop[l].job = t PROVE hash' = hash
  BY <1>a, AtWork
<1>1. data[t].name = "move" /\ Elev(t) \in Elevators
  BY <1>a, AtWork, TripFields DEF CInv
<1>2. Driven(t)
  BY <1>a, <1>1 DEF Driven
<1>3. Shown(t)
  BY <1>1, <1>2 DEF CInv, Course, DrivenBy
<1>4. hash[Elev(t)] = DoorsOpenAt(data[t].to)
  BY <1>a, <1>3 DEF Shown
<1>5. hash' = [hash EXCEPT ![Elev(t)] = DoorsOpenAt(data[t].to)]
  BY DEF Complete, WriteHash
<1>6. QED BY <1>1, <1>4, <1>5

LEMMA SerialCab == IInv /\ HInv /\ CInv /\ [SerialNext]_vars => [Cab!Next]_(Cab!cabVars)
<1> SUFFICES ASSUME IInv, HInv, CInv, [SerialNext]_vars PROVE [Cab!Next]_(Cab!cabVars)
  OBVIOUS
<1> USE WatchedType, TypeParts DEF IInv, TripOk
<1>1. Regular
  BY DEF HInv, CInv
<1>2. ASSUME hash'[Watched] = hash[Watched] PROVE [Cab!Next]_(Cab!cabVars)
  BY <1>2, SameCab
<1>3. ASSUME NEW t \in Trips, NEW e \in Elevators, NEW to \in Floor,
             hash[e].state = "IDLE" /\ Publish(t, e, hash[e].floor, to)
      PROVE  [Cab!Next]_(Cab!cabVars)
  <2>1. CASE e = Watched
    BY <1>3, <2>1, PublishCab DEF Cab!Next
  <2>2. CASE e # Watched
    BY <1>2, <1>3, <2>2 DEF Publish, WriteHash
  <2>3. QED BY <2>1, <2>2
<1>4. ASSUME NEW l \in Loops, Worker(l) PROVE [Cab!Next]_(Cab!cabVars)
  <2>1. CASE Travel(l) \/ Arrive(l)
    <3>1. loop[l].job \in Trips
      BY <2>1, AtWork DEF Travel, Arrive, LoopStep
    <3> SUFFICES ASSUME NEW t \in Trips, loop[l].job = t PROVE [Cab!Next]_(Cab!cabVars)
      BY <3>1
    <3>2. CASE Elev(t) = Watched
      BY <2>1, <3>2, DriveCab DEF Cab!Next
    <3>3. CASE Elev(t) # Watched
      BY <1>2, <2>1, <3>3 DEF Travel, Arrive, WriteHash
    <3>4. QED BY <3>2, <3>3
  <2>2. CASE Complete(l)
    BY <1>2, <2>2, CompleteCab
  <2>3. CASE EmergencyStop(l)
    <3>1. loop[l].pc = "run" /\ data[loop[l].job].name = "emergency-stop"
      BY <2>3 DEF EmergencyStop, LoopStep, Named
    <3>2. QED BY <3>1, AtWork DEF CInv
  <2>4. CASE TakeJob(l) \/ Completed(l)
    BY <1>2, <2>4 DEF TakeJob, Completed
  <2>5. QED BY <1>1, <1>4, <2>1, <2>2, <2>3, <2>4, NoneRejected DEF Worker
<1>5. ASSUME NEW e \in Elevators, DoorsClose(e) \/ DoorsIdle(e)
      PROVE  [Cab!Next]_(Cab!cabVars)
  <2>1. CASE e = Watched
    BY <1>5, <2>1, TimerCab DEF Cab!Next
  <2>2. CASE e # Watched
    BY <1>2, <1>5, <2>2 DEF DoorsClose, DoorsIdle, WriteHash
  <2>3. QED BY <2>1, <2>2
<1>6. ASSUME NEW t \in Trips, \/ MovingHandler(t) \/ ArrivedHandler(t) \/ Promote(t)
                              \/ LockExpires(t) \/ Stalled(t)
      PROVE  [Cab!Next]_(Cab!cabVars)
  BY <1>2, <1>6 DEF MovingHandler, ArrivedHandler, Promote, LockExpires, Stalled
<1>7. CASE UNCHANGED vars
  BY <1>2, <1>7 DEF vars
<1>8. CASE SerialNext
  BY <1>3, <1>4, <1>5, <1>6, <1>8 DEF SerialNext, Step
<1>9. QED BY <1>7, <1>8

(* If departures are published only for an elevator seen IDLE, the hash is  *)
(* at every step the one of a cab, whatever the handlers, loops and timers  *)
(* of all elevators do meanwhile: the safety half of ImplementsCab.         *)
THEOREM SerialIsACab == SerialSpec => Cab!Safety
<1>1. SerialSpec => [](IInv /\ HInv /\ KInv /\ CInv)
  <2>1. Init => IInv /\ HInv /\ KInv /\ CInv
    BY InitInv, InitHInv, InitKInv, InitCInv
  <2>2. IInv /\ HInv /\ KInv /\ CInv /\ [SerialNext]_vars
        => IInv' /\ HInv' /\ KInv' /\ CInv'
    BY SerialIsNext, StepInv, HStep, KStep, CStep
  <2>3. QED BY <2>1, <2>2, PTL DEF SerialSpec
<1>2. QED BY <1>1, InitCab, SerialCab, PTL DEF SerialSpec, Cab!Safety

=============================================================================
