----------------------- MODULE MovementPipelineProofs -----------------------
(***************************************************************************)
(* Theorems about MovementPipeline.  All hold for any number of trips,     *)
(* elevators, floors, worker loops and failures, and for every             *)
(* interleaving of handlers, loops, timers and crashes.                    *)
(***************************************************************************)
EXTENDS MovementPipeline, ListLemmas, FiniteSetTheorems

(* The places of the handler of a departure before it adds the job.         *)
Before == {"track", "push", "trim", "waiting", "remove", "add"}

(* A trip has no job before its handler adds one, and a departure goes in   *)
(* the direction of its last floor.                                         *)
JobOk(t) ==
    /\ data[t].name = "none" => moving[t] = "none" /\ job[t].status = "none"
    /\ moving[t] \in Before => job[t].status = "none"
    /\ data[t].name = "move" => /\ data[t].from # data[t].to
                                /\ data[t].direction = DirectionTo(data[t].from, data[t].to)

(* A loop that travels has not come to the last floor yet.                  *)
OnTheWay(d, at) == IF d.from < d.to THEN d.from <= at /\ at < d.to
                                    ELSE d.to < at /\ at <= d.from

LoopOk(l) ==
    /\ loop[l].pc = "idle" <=> loop[l].job = NoTrip
    /\ loop[l].pc = "run" /\ Named(l, "move") => OnTheWay(data[loop[l].job], loop[l].at)

(* Bull's list: every waiting job once, and no other.                       *)
ListOk == IsInjective(wait) /\ ToSet(wait) = {t \in Trips : job[t].status = "waiting"}

Queued(j) == j.status \in {"none", "waiting", "delayed"}

Runs(l, t) == loop[l].job = t

Both(l, m, t) == l # m /\ Runs(l, t) /\ Runs(m, t)

(* A job runs in a second loop, or in one while it is queued, only after it *)
(* was given away for a lost lock, and never in three.                      *)
RunsOk(t) ==
    /\ job[t].stalled <= MaxStalled
    /\ \A l \in Loops : Runs(l, t) => /\ job[t].status # "none"
                                      /\ Queued(job[t]) => job[t].stalled > 0
    /\ \A l, m \in Loops : Both(l, m, t) => job[t].stalled > 0 /\ ~Queued(job[t])
    /\ \A l, m, n \in Loops : Both(l, m, t) /\ Both(m, n, t) => l = n

Retries(n) == IF n < Attempts THEN Attempts - n ELSE 0

(* The arrivals that a loop may still publish, with the retries its failure *)
(* may lead to; those of a queued job; and those that a job may ever.       *)
Left(v) == Retries(v.made + 1) + (IF v.pc \in {"run", "arrived"} THEN 1 ELSE 0)

Ahead(j) == IF ~Queued(j) THEN 0
            ELSE IF j.attemptsMade < Attempts THEN Attempts - j.attemptsMade ELSE 1

Budget(j) == Attempts * (1 + j.stalled)

(* A job, given to another worker, has its attempts again; but it also runs *)
(* on in the first loop, which writes back a count of attempts of its own.  *)
(* What counts is how often an arrival may still be published.              *)
WithinBudget(t) ==
    /\ reports[t] + Ahead(job[t]) <= Budget(job[t])
    /\ \A l \in Loops :
         Runs(l, t) => reports[t] + Left(loop[l]) + Ahead(job[t]) <= Budget(job[t])
    /\ \A l, m \in Loops :
         Both(l, m, t) =>
             reports[t] + Left(loop[l]) + Left(loop[m]) + Ahead(job[t]) <= Budget(job[t])

(* A loop is done with a move, and a move is completed, only after its      *)
(* arrival was published.                                                   *)
ReportOk(t) ==
    /\ WithinBudget(t)
    /\ job[t].status = "completed" /\ data[t].name = "move" => reports[t] > 0
    /\ \A l \in Loops : Runs(l, t) /\ loop[l].pc = "done" /\ data[t].name = "move" => reports[t] > 0

TripOk(t) == JobOk(t) /\ RunsOk(t) /\ ReportOk(t)

(* The inductive invariant.                                                 *)
IInv ==
    /\ TypeOK
    /\ \A t \in Trips : TripOk(t)
    /\ \A l \in Loops : LoopOk(l)
    /\ ListOk

-----------------------------------------------------------------------------
LEMMA LeftType ==
    ASSUME NEW v \in Loop
    PROVE  Left(v) \in Nat
<1>1. v.made \in Nat
  BY DEF Loop
<1>2. Retries(v.made + 1) \in Nat
  BY <1>1 DEF Retries, Attempts
<1>3. QED BY <1>2 DEF Left

LEMMA AheadType ==
    ASSUME NEW j \in Job
    PROVE  Ahead(j) \in Nat /\ Budget(j) \in Nat
<1>1. j.attemptsMade \in Nat /\ j.stalled \in Nat
  BY DEF Job
<1>2. QED BY <1>1 DEF Ahead, Budget, Attempts

LEMMA InitInv == Init => IInv
<1> SUFFICES ASSUME Init PROVE IInv
  OBVIOUS
<1>1. 0 \in Floor
  BY MaxFloorAssumption DEF Floor
<1>2. (CHOOSE e \in Elevators : TRUE) \in Elevators
  BY ElevatorsAssumption
<1>3. NoData \in JobData /\ NoData.name = "none"
  BY <1>1, <1>2 DEF NoData, JobData, Direction
<1>4. DoorsClosedAt(0) \in Hash /\ IdleLoop \in Loop
  BY <1>1 DEF DoorsClosedAt, IdleLoop, Hash, Loop, State, Direction
<1>5. TypeOK
  BY <1>3, <1>4 DEF Init, TypeOK, Job
<1>6. ASSUME NEW t \in Trips PROVE TripOk(t)
  <2>1. \A l \in Loops : ~Runs(l, t)
    BY NoTripAssumption DEF Init, Runs, IdleLoop
  <2>2. /\ job[t].status = "none" /\ job[t].stalled = 0 /\ job[t].attemptsMade = 0
        /\ reports[t] = 0 /\ moving[t] = "none" /\ data[t].name = "none"
    BY <1>3 DEF Init
  <2>3. JobOk(t)
    BY <2>2 DEF JobOk, Before
  <2>4. RunsOk(t)
    BY <2>1, <2>2 DEF RunsOk, Both, MaxStalled
  <2>5. WithinBudget(t)
    BY <2>1, <2>2 DEF WithinBudget, Both, Ahead, Budget, Attempts
  <2>6. ReportOk(t)
    BY <2>1, <2>2, <2>5 DEF ReportOk
  <2>7. QED BY <2>3, <2>4, <2>6 DEF TripOk
<1>7. ASSUME NEW l \in Loops PROVE LoopOk(l)
  BY DEF Init, LoopOk, IdleLoop
<1>8. ListOk
  BY DEF Init, ListOk, IsInjective, ToSet
<1>9. QED BY <1>5, <1>6, <1>7, <1>8 DEF IInv

LEMMA TypeParts ==
    ASSUME TypeOK
    PROVE  /\ hash \in [Elevators -> Hash]
           /\ tracking \subseteq Elevators
           /\ history \in [Elevators -> Nat]
           /\ activeJob \in [Elevators -> Trips \cup {NoTrip}]
           /\ data \in [Trips -> JobData]
           /\ job \in [Trips -> Job]
           /\ wait \in Seq(Trips)
           /\ moving \in [Trips -> {"none"} \cup Before \cup {"set", "done"}]
           /\ doomed \in [Trips -> SUBSET Trips]
           /\ arrived \in [Trips -> {"none", "untrack", "push", "trim", "done"}]
           /\ loop \in [Loops -> Loop]
           /\ closing \in [Elevators -> Nat] /\ idling \in [Elevators -> Nat]
           /\ reports \in [Trips -> Nat]
           /\ faults \in Nat
BY DEF TypeOK, Before

(* One job changes its status; the data of a stop.                          *)
LEMMA StatusSet ==
    ASSUME job \in [Trips -> Job], NEW t \in Trips,
           NEW s \in Live \cup {"none", "completed", "failed", "removed"},
           job' = [job EXCEPT ![t].status = s]
    PROVE  /\ job' \in [Trips -> Job] /\ job'[t].status = s
           /\ job'[t].stalled = job[t].stalled
           /\ job'[t].attemptsMade = job[t].attemptsMade
           /\ \A u \in Trips \ {t} : job'[u] = job[u]
<1> DEFINE j == [job[t] EXCEPT !.status = s]
<1>1. job[t] \in Job
  OBVIOUS
<1>2. /\ j \in Job /\ j.status = s /\ j.stalled = job[t].stalled
      /\ j.attemptsMade = job[t].attemptsMade
  BY <1>1 DEF Job
<1>3. job' = [job EXCEPT ![t] = j]
  OBVIOUS
<1> HIDE DEF j
<1>4. QED BY <1>2, <1>3

LEMMA StopData ==
    ASSUME NEW d \in JobData, NEW e \in Elevators,
           NEW s, s = [d EXCEPT !.name = "emergency-stop", !.elev = e]
    PROVE  s \in JobData /\ s.name = "emergency-stop"
BY DEF JobData

LEMMA TripFields ==
    ASSUME TypeOK, NEW t \in Trips
    PROVE  /\ data[t].name \in {"none", "move", "emergency-stop"}
           /\ Elev(t) \in Elevators /\ data[t].elev \in Elevators
           /\ data[t].from \in Floor /\ data[t].to \in Floor
           /\ data[t].direction \in Direction
           /\ job[t].status \in Live \cup {"none", "completed", "failed", "removed"}
           /\ job[t].attemptsMade \in Nat /\ job[t].stalled \in Nat
           /\ reports[t] \in Nat
BY TypeParts DEF JobData, Job, Elev

LEMMA LoopFields ==
    ASSUME TypeOK, NEW l \in Loops
    PROVE  /\ loop[l].job \in Trips \cup {NoTrip}
           /\ loop[l].pc \in {"idle", "run", "arrived", "done", "rejected"}
           /\ loop[l].at \in Floor /\ loop[l].made \in Nat
BY TypeParts DEF Loop

(* A trip whose job, arrivals and loops a step leaves alone.                *)
LEMMA TripUntouched ==
    ASSUME NEW t \in Trips, RunsOk(t), ReportOk(t),
           data'[t] = data[t], job'[t] = job[t], reports'[t] = reports[t],
           \A l \in Loops : Runs(l, t) \/ Runs(l, t)' => loop'[l] = loop[l]
    PROVE  RunsOk(t)' /\ ReportOk(t)'
<1>1. \A l \in Loops : Runs(l, t)' => Runs(l, t) /\ loop'[l] = loop[l]
  BY DEF Runs
<1>2. RunsOk(t)'
  BY <1>1 DEF RunsOk, Both
<1>3. WithinBudget(t)'
  BY <1>1 DEF ReportOk, WithinBudget, Both
<1>4. QED BY <1>1, <1>2, <1>3 DEF ReportOk

(* The budget when one job changes and no loop does.                        *)
LEMMA JobBudget ==
    ASSUME TypeOK, NEW t \in Trips, WithinBudget(t), UNCHANGED <<loop, reports>>, job'[t] \in Job,
           Ahead(job'[t]) + Budget(job[t]) <= Ahead(job[t]) + Budget(job'[t])
    PROVE  WithinBudget(t)'
<1> DEFINE a == Ahead(job[t])
           b == Budget(job[t])
           a1 == Ahead(job'[t])
           b1 == Budget(job'[t])
           n == reports[t]
<1>1. job[t] \in Job /\ n \in Nat
  BY TypeParts
<1>2. a \in Nat /\ b \in Nat /\ a1 \in Nat /\ b1 \in Nat
  BY <1>1, AheadType
<1>3. \A l \in Loops : Left(loop[l]) \in Nat
  BY TypeParts, LeftType
<1>4. n + a <= b
  BY DEF WithinBudget
<1>5. ASSUME NEW l \in Loops, Runs(l, t) PROVE n + Left(loop[l]) + a <= b
  BY <1>5 DEF WithinBudget
<1>6. ASSUME NEW l \in Loops, NEW m \in Loops, Both(l, m, t)
      PROVE  n + Left(loop[l]) + Left(loop[m]) + a <= b
  BY <1>6 DEF WithinBudget
<1>7. a1 + b <= a + b1
  OBVIOUS
<1> HIDE DEF a, b, a1, b1, n
<1>8. n + a1 <= b1
  BY <1>1, <1>2, <1>4, <1>7
<1>9. ASSUME NEW l \in Loops, Runs(l, t) PROVE n + Left(loop[l]) + a1 <= b1
  BY <1>1, <1>2, <1>3, <1>5, <1>7, <1>9
<1>10. ASSUME NEW l \in Loops, NEW m \in Loops, Both(l, m, t)
       PROVE  n + Left(loop[l]) + Left(loop[m]) + a1 <= b1
  BY <1>1, <1>2, <1>3, <1>6, <1>7, <1>10
<1>11. /\ reports'[t] = n /\ Ahead(job'[t]) = a1 /\ Budget(job'[t]) = b1
       /\ loop' = loop /\ \A l, m \in Loops : Both(l, m, t)' <=> Both(l, m, t)
       /\ \A l \in Loops : Runs(l, t)' <=> Runs(l, t)
  BY DEF n, a1, b1, Both, Runs
<1>12. QED BY <1>8, <1>9, <1>10, <1>11 DEF WithinBudget

(* The budget when one loop goes on with a job, lets go of it or takes it.  *)
LEMMA LoopBudget ==
    ASSUME TypeOK, NEW l \in Loops, NEW t \in Trips, RunsOk(t), WithinBudget(t),
           job'[t] \in Job, loop'[l] \in Loop, reports'[t] \in Nat,
           \A m \in Loops \ {l} : loop'[m] = loop[m],
           job'[t].stalled = job[t].stalled,
           \/ /\ Runs(l, t) /\ loop'[l].job = t /\ Ahead(job'[t]) = Ahead(job[t])
              /\ reports'[t] + Left(loop'[l]) <= reports[t] + Left(loop[l])
           \/ /\ Runs(l, t) /\ loop'[l].job # t /\ reports'[t] = reports[t]
              /\ Ahead(job'[t]) <= Left(loop[l]) + Ahead(job[t])
           \/ /\ ~Runs(l, t) /\ loop'[l].job = t /\ reports'[t] = reports[t]
              /\ Left(loop'[l]) + Ahead(job'[t]) <= Ahead(job[t])
    PROVE  WithinBudget(t)'
<1> DEFINE a == Ahead(job[t])
           b == Budget(job[t])
           a1 == Ahead(job'[t])
           n == reports[t]
           n1 == reports'[t]
           w == Left(loop[l])
           w1 == Left(loop'[l])
<1>1. job[t] \in Job /\ n \in Nat /\ n1 \in Nat
  BY TypeParts
<1>2. a \in Nat /\ b \in Nat /\ a1 \in Nat /\ w \in Nat /\ w1 \in Nat
  BY <1>1, AheadType, LeftType, TypeParts
<1>3. \A m \in Loops : Left(loop[m]) \in Nat
  BY TypeParts, LeftType
<1>4. Budget(job'[t]) = b
  BY DEF Budget
<1>5. /\ n + a <= b
      /\ Runs(l, t) => n + w + a <= b
      /\ \A m \in Loops : Runs(m, t) => n + Left(loop[m]) + a <= b
      /\ \A m \in Loops \ {l} : Runs(l, t) /\ Runs(m, t) => n + w + Left(loop[m]) + a <= b
      /\ \A m, k \in Loops : Both(m, k, t) => n + Left(loop[m]) + Left(loop[k]) + a <= b
  BY DEF WithinBudget, Both
<1>6. \A m \in Loops \ {l} : loop'[m] = loop[m] /\ (Runs(m, t)' <=> Runs(m, t))
  BY DEF Runs
<1>7. \/ Runs(l, t) /\ loop'[l].job = t /\ a1 = a /\ n1 + w1 <= n + w
      \/ Runs(l, t) /\ loop'[l].job # t /\ n1 = n /\ a1 <= w + a
      \/ ~Runs(l, t) /\ loop'[l].job = t /\ n1 = n /\ w1 + a1 <= a
  OBVIOUS
<1>8. ASSUME Runs(l, t), NEW m \in Loops \ {l}, NEW k \in Loops \ {l}, m # k,
             Runs(m, t), Runs(k, t)
      PROVE  FALSE
  BY <1>8 DEF RunsOk, Both
<1> HIDE DEF a, b, a1, n, n1, w, w1
<1>9. n1 + a1 <= b
  BY <1>1, <1>2, <1>5, <1>7
<1>10. ASSUME NEW m \in Loops \ {l}, Runs(m, t) PROVE n1 + Left(loop[m]) + a1 <= b
  <2>1. Left(loop[m]) \in Nat /\ n + Left(loop[m]) + a <= b
    BY <1>3, <1>5, <1>10
  <2>2. Runs(l, t) => n + w + Left(loop[m]) + a <= b
    BY <1>5, <1>10
  <2>3. QED BY <1>1, <1>2, <1>7, <2>1, <2>2
<1>11. loop'[l].job = t => n1 + w1 + a1 <= b
  BY <1>1, <1>2, <1>5, <1>7
<1>12. ASSUME NEW m \in Loops \ {l}, Runs(m, t), loop'[l].job = t
       PROVE  n1 + w1 + Left(loop[m]) + a1 <= b
  <2>1. Left(loop[m]) \in Nat /\ n + Left(loop[m]) + a <= b
    BY <1>3, <1>5, <1>12
  <2>2. Runs(l, t) => n + w + Left(loop[m]) + a <= b
    BY <1>5, <1>12
  <2>3. QED BY <1>1, <1>2, <1>7, <1>12, <2>1, <2>2
<1>13. ASSUME NEW m \in Loops \ {l}, NEW k \in Loops \ {l}, m # k, Runs(m, t), Runs(k, t)
       PROVE  n1 + Left(loop[m]) + Left(loop[k]) + a1 <= b
  <2>1. ~Runs(l, t)
    BY <1>8, <1>13
  <2>2. Left(loop[m]) \in Nat /\ Left(loop[k]) \in Nat /\ n + Left(loop[m]) + Left(loop[k]) + a <= b
    BY <1>3, <1>5, <1>13 DEF Both
  <2>3. QED BY <1>1, <1>2, <1>7, <2>1, <2>2
<1>14. reports'[t] = n1 /\ Ahead(job'[t]) = a1 /\ Left(loop'[l]) = w1
  BY DEF n1, a1, w1
<1>15. \A m \in Loops : Runs(m, t)' => n1 + Left(loop'[m]) + a1 <= b
  BY <1>6, <1>10, <1>11, <1>14 DEF Runs
<1>16. ASSUME NEW m \in Loops, NEW k \in Loops, Both(m, k, t)'
       PROVE  n1 + Left(loop'[m]) + Left(loop'[k]) + a1 <= b
  <2>1. m # k /\ loop'[m].job = t /\ loop'[k].job = t
    BY <1>16 DEF Both, Runs
  <2>2. CASE m = l
    <3>1. k \in Loops \ {l} /\ Runs(k, t) /\ loop'[k] = loop[k]
      BY <1>6, <2>1, <2>2 DEF Runs
    <3>2. QED BY <1>12, <1>14, <2>1, <2>2, <3>1
  <2>3. CASE k = l
    <3>1. m \in Loops \ {l} /\ Runs(m, t) /\ loop'[m] = loop[m]
      BY <1>6, <2>1, <2>3 DEF Runs
    <3>2. n1 + w1 + Left(loop[m]) + a1 <= b /\ Left(loop[m]) \in Nat
      BY <1>3, <1>12, <2>1, <2>3, <3>1
    <3>3. QED BY <1>1, <1>2, <1>14, <2>3, <3>1, <3>2
  <2>4. CASE m # l /\ k # l
    <3>1. /\ m \in Loops \ {l} /\ Runs(m, t) /\ loop'[m] = loop[m]
          /\ k \in Loops \ {l} /\ Runs(k, t) /\ loop'[k] = loop[k]
      BY <1>6, <2>1, <2>4 DEF Runs
    <3>2. QED BY <1>13, <2>1, <3>1
  <2>5. QED BY <2>2, <2>3, <2>4
<1>17. QED BY <1>4, <1>9, <1>14, <1>15, <1>16 DEF WithinBudget

(* A step that leaves jobs and loops alone.  It may move a handler that has *)
(* been started.                                                            *)
LEMMA QuietStep ==
    ASSUME IInv, TypeOK', UNCHANGED <<data, job, wait, loop, reports>>,
           \A t \in Trips : moving'[t] # moving[t] =>
               /\ moving[t] # "none"
               /\ moving'[t] \notin Before \/ moving[t] \in Before
    PROVE  IInv'
<1>1. ASSUME NEW t \in Trips PROVE TripOk(t)'
  <2>1. JobOk(t) /\ RunsOk(t) /\ ReportOk(t)
    BY DEF IInv, TripOk
  <2>2. JobOk(t)'
    BY <2>1 DEF JobOk
  <2>3. QED BY <2>1, <2>2, TripUntouched DEF TripOk
<1>2. ASSUME NEW l \in Loops PROVE LoopOk(l)'
  BY DEF IInv, LoopOk, Named
<1>3. ListOk'
  BY DEF IInv, ListOk
<1>4. QED BY <1>1, <1>2, <1>3 DEF IInv

(* A step that changes the job of one trip and no loop.                     *)
LEMMA JobStep ==
    ASSUME IInv, TypeOK', NEW t \in Trips,
           UNCHANGED <<loop, reports>>,
           \A u \in Trips \ {t} : data'[u] = data[u] /\ job'[u] = job[u] /\ moving'[u] = moving[u],
           data'[t] = data[t] \/ job[t].status = "none",
           TripOk(t)', ListOk'
    PROVE  IInv'
<1>1. ASSUME NEW u \in Trips \ {t} PROVE TripOk(u)'
  <2>1. JobOk(u) /\ RunsOk(u) /\ ReportOk(u)
    BY DEF IInv, TripOk
  <2>2. data'[u] = data[u] /\ job'[u] = job[u] /\ moving'[u] = moving[u] /\ reports'[u] = reports[u]
    OBVIOUS
  <2>3. JobOk(u)'
    BY <2>1, <2>2 DEF JobOk
  <2>4. QED BY <2>1, <2>2, <2>3, TripUntouched DEF TripOk
<1>2. ASSUME NEW l \in Loops PROVE LoopOk(l)'
  <2>1. LoopOk(l) /\ loop[l].job \in Trips \cup {NoTrip} /\ RunsOk(t)
    BY LoopFields DEF IInv, TripOk
  <2>2. loop[l].pc = "run" => loop[l].job \in Trips /\ data'[loop[l].job] = data[loop[l].job]
    BY <2>1 DEF LoopOk, RunsOk, Runs
  <2>3. QED BY <2>1, <2>2 DEF LoopOk, Named
<1>3. QED BY <1>1, <1>2 DEF IInv

(* A step of one loop, on the job of one trip.                              *)
LEMMA LoopJobStep ==
    ASSUME IInv, TypeOK', NEW l \in Loops, NEW t \in Trips,
           UNCHANGED <<data, moving>>,
           \A u \in Trips \ {t} : job'[u] = job[u] /\ reports'[u] = reports[u],
           \A m \in Loops \ {l} : loop'[m] = loop[m],
           loop[l].job \in {t, NoTrip}, loop'[l].job \in {t, NoTrip},
           TripOk(t)', LoopOk(l)', ListOk'
    PROVE  IInv'
<1>1. ASSUME NEW u \in Trips \ {t} PROVE TripOk(u)'
  <2>1. JobOk(u) /\ RunsOk(u) /\ ReportOk(u) /\ u # NoTrip
    BY NoTripAssumption DEF IInv, TripOk
  <2>2. job'[u] = job[u] /\ reports'[u] = reports[u] /\ data'[u] = data[u]
    OBVIOUS
  <2>3. JobOk(u)'
    BY <2>1, <2>2 DEF JobOk
  <2>4. ASSUME NEW m \in Loops, Runs(m, u) \/ Runs(m, u)' PROVE loop'[m] = loop[m]
    BY <2>1, <2>4 DEF Runs
  <2>5. QED BY <2>1, <2>2, <2>3, <2>4, TripUntouched DEF TripOk
<1>2. ASSUME NEW m \in Loops \ {l} PROVE LoopOk(m)'
  BY DEF IInv, LoopOk, Named
<1>3. QED BY <1>1, <1>2 DEF IInv

-----------------------------------------------------------------------------
(* The steps.                                                               *)

LEMMA DirectionType ==
    ASSUME NEW from \in Floor, NEW to \in Floor
    PROVE  DirectionTo(from, to) \in Direction
BY DEF DirectionTo, Direction, Floor

(* A job changes its status, and is not queued unless it was.               *)
LEMMA StatusStep ==
    ASSUME IInv, NEW t \in Trips, UNCHANGED <<loop, reports>>,
           job'[t] \in Job, job'[t].stalled = job[t].stalled,
           job'[t].attemptsMade = job[t].attemptsMade,
           job'[t].status \notin {"none", "completed"}, Queued(job'[t]) => Queued(job[t]),
           data'[t] = data[t] \/ (job[t].status = "none" /\ data'[t].name # "move")
    PROVE  RunsOk(t)' /\ ReportOk(t)'
<1>1. RunsOk(t) /\ ReportOk(t) /\ TypeOK /\ WithinBudget(t)
  BY DEF IInv, TripOk, ReportOk
<1>2. \A l \in Loops : Runs(l, t)' <=> Runs(l, t)
  BY DEF Runs
<1>3. \A l, m \in Loops : Both(l, m, t)' <=> Both(l, m, t)
  BY DEF Both, Runs
<1>4. RunsOk(t)'
  BY <1>1, <1>2, <1>3 DEF RunsOk
<1>5. /\ Ahead(job'[t]) \in Nat /\ Ahead(job[t]) \in Nat /\ Budget(job[t]) \in Nat
      /\ Budget(job'[t]) = Budget(job[t])
  BY <1>1, AheadType, TypeParts DEF Budget
<1>6. Ahead(job'[t]) = Ahead(job[t]) \/ Ahead(job'[t]) = 0
  BY DEF Ahead
<1>7. Ahead(job'[t]) + Budget(job[t]) <= Ahead(job[t]) + Budget(job'[t])
  BY <1>5, <1>6
<1>8. WithinBudget(t)'
  BY <1>1, <1>7, JobBudget
<1>9. \A l \in Loops : Runs(l, t) => job[t].status # "none"
  BY <1>1 DEF RunsOk
<1>10. QED BY <1>1, <1>2, <1>4, <1>8, <1>9 DEF ReportOk

LEMMA PublishStep ==
    ASSUME IInv, NEW t \in Trips, NEW e \in Elevators, NEW from \in Floor, NEW to \in Floor,
           Publish(t, e, from, to)
    PROVE  IInv'
<1> DEFINE dir == DirectionTo(from, to)
           d == [name |-> "move", elev |-> e, from |-> from, to |-> to, direction |-> dir]
           h == [floor |-> from, state |-> "MOVING", direction |-> dir, target |-> to]
<1> USE TypeParts DEF IInv, TripOk
<1>1. /\ data[t].name = "none" /\ from # to
      /\ data' = [data EXCEPT ![t] = d] /\ hash' = [hash EXCEPT ![e] = h]
      /\ moving' = [moving EXCEPT ![t] = "track"]
      /\ UNCHANGED <<tracking, history, activeJob, job, wait, doomed, arrived, loop, closing,
                     idling, reports, faults>>
  BY DEF Publish, WriteHash, records, bull, timers
<1>2. /\ d \in JobData /\ h \in Hash
      /\ d.name = "move" /\ d.from = from /\ d.to = to /\ d.direction = dir
  BY DirectionType DEF JobData, Hash, State
<1> HIDE DEF d, h
<1>3. TypeOK'
  BY <1>1, <1>2 DEF TypeOK
<1>4. moving[t] = "none" /\ job[t].status = "none" /\ RunsOk(t) /\ ReportOk(t)
  BY <1>1 DEF JobOk
<1>5. ASSUME NEW l \in Loops PROVE ~Runs(l, t)
  BY <1>4 DEF RunsOk
<1>6. data'[t] = d /\ moving'[t] = "track" /\ job'[t] = job[t]
  BY <1>1
<1>7. JobOk(t)'
  BY <1>1, <1>2, <1>4, <1>6 DEF JobOk
<1>8. RunsOk(t)'
  BY <1>1, <1>4, <1>6 DEF RunsOk, Runs, Both
<1>9. ReportOk(t)'
  <2>1. Ahead(job'[t]) + Budget(job[t]) <= Ahead(job[t]) + Budget(job'[t])
    BY <1>6, AheadType
  <2>2. WithinBudget(t)'
    BY <1>1, <1>4, <1>6, <2>1, JobBudget DEF ReportOk
  <2>3. QED BY <1>1, <1>4, <1>5, <1>6, <2>2 DEF ReportOk, Runs
<1>10. ListOk'
  BY <1>1 DEF ListOk
<1>11. \A u \in Trips \ {t} : data'[u] = data[u] /\ job'[u] = job[u] /\ moving'[u] = moving[u]
  BY <1>1
<1>12. QED BY <1>1, <1>3, <1>4, <1>7, <1>8, <1>9, <1>10, <1>11, JobStep

(* The list and the job of a trip that is added to it.                      *)
LEMMA EnqueueType ==
    ASSUME TypeOK, ListOk, NEW t \in Trips, job[t].status # "waiting", Enqueue(t)
    PROVE  /\ wait' \in Seq(Trips) /\ ListOk'
           /\ job' = [job EXCEPT ![t].status = "waiting"] /\ job' \in [Trips -> Job]
<1> USE TypeParts
<1>1. job' = [job EXCEPT ![t].status = "waiting"] /\ wait' = Append(wait, t)
  BY DEF Enqueue, SetStatus
<1>2. /\ wait \in Seq(Trips) /\ IsInjective(wait)
      /\ ToSet(wait) = {u \in Trips : job[u].status = "waiting"}
      /\ t \notin ToSet(wait)
  BY DEF ListOk
<1>3. /\ wait' \in Seq(Trips) /\ IsInjective(wait') /\ ToSet(wait') = ToSet(wait) \cup {t}
  BY <1>1, <1>2, AppendType
<1>4. job' \in [Trips -> Job]
  BY <1>1, StatusSet DEF Live
<1>5. \A u \in Trips : job'[u].status = "waiting" <=> job[u].status = "waiting" \/ u = t
  BY <1>1 DEF Job
<1>6. QED BY <1>1, <1>2, <1>3, <1>4, <1>5 DEF ListOk

(* A job is added to the list; it was new, or delayed.                      *)
LEMMA EnqueueStep ==
    ASSUME IInv, TypeOK', NEW t \in Trips, job[t].status \in {"none", "delayed"}, Enqueue(t),
           UNCHANGED <<loop, reports>>,
           \A u \in Trips \ {t} : data'[u] = data[u] /\ moving'[u] = moving[u],
           data'[t].name # "none", moving'[t] \notin Before,
           data'[t] = data[t] \/ (job[t].status = "none" /\ data'[t].name # "move")
    PROVE  IInv'
<1> USE DEF IInv
<1>1. ListOk' /\ job' = [job EXCEPT ![t].status = "waiting"]
  BY EnqueueType
<1>2. /\ job'[t] \in Job /\ job'[t].status = "waiting" /\ job'[t].stalled = job[t].stalled
      /\ job'[t].attemptsMade = job[t].attemptsMade
      /\ \A u \in Trips \ {t} : job'[u] = job[u]
  BY <1>1, TypeParts, StatusSet DEF Live
<1>3. JobOk(t)'
  BY <1>2 DEF JobOk, TripOk
<1>4. RunsOk(t)' /\ ReportOk(t)'
  BY <1>2, StatusStep DEF Queued
<1>5. QED BY <1>1, <1>2, <1>3, <1>4, JobStep DEF TripOk

LEMMA AddStopStep ==
    ASSUME IInv, NEW t \in Trips, NEW e \in Elevators, AddStop(t, e)
    PROVE  IInv'
<1> USE TypeParts DEF IInv, TripOk
<1>1. /\ data[t].name = "none" /\ Enqueue(t)
      /\ data' = [data EXCEPT ![t].name = "emergency-stop", ![t].elev = e]
      /\ UNCHANGED <<hash, tracking, history, activeJob, moving, doomed, arrived, loop, closing,
                     idling, reports, faults>>
  BY DEF AddStop, records, handlers, timers
<1>2. /\ data' \in [Trips -> JobData] /\ data'[t].name = "emergency-stop"
      /\ \A u \in Trips \ {t} : data'[u] = data[u]
  <2> DEFINE d == [data[t] EXCEPT !.name = "emergency-stop", !.elev = e]
  <2>1. d \in JobData /\ d.name = "emergency-stop"
    BY StopData
  <2>2. data' = [data EXCEPT ![t] = d]
    BY <1>1 DEF JobData
  <2> HIDE DEF d
  <2>3. QED BY <2>1, <2>2
<1>3. moving[t] = "none" /\ job[t].status = "none"
  BY <1>1 DEF JobOk
<1>4. wait' \in Seq(Trips) /\ job' \in [Trips -> Job]
  BY <1>1, <1>3, EnqueueType
<1>5. TypeOK'
  BY <1>1, <1>2, <1>4 DEF TypeOK
<1>6. QED BY <1>1, <1>2, <1>3, <1>5, EnqueueStep DEF Before

LEMMA PromoteStep ==
    ASSUME IInv, NEW t \in Trips, Promote(t)
    PROVE  IInv'
<1> USE TypeParts DEF IInv, TripOk
<1>1. /\ job[t].status = "delayed" /\ Enqueue(t)
      /\ UNCHANGED <<hash, tracking, history, activeJob, data, moving, doomed, arrived, loop,
                     closing, idling, reports, faults>>
  BY DEF Promote, records, handlers, timers
<1>2. wait' \in Seq(Trips) /\ job' \in [Trips -> Job]
  BY <1>1, EnqueueType
<1>3. TypeOK'
  BY <1>1, <1>2 DEF TypeOK
<1>4. data[t].name # "none" /\ moving[t] \notin Before
  BY <1>1 DEF JobOk
<1>5. QED BY <1>1, <1>3, <1>4, EnqueueStep

LEMMA MinType ==
    ASSUME NEW m \in Nat, NEW n \in Nat
    PROVE  Min({m, n}) \in Nat /\ Min({m, n}) <= n
<1>1. \E x \in {m, n} : \A y \in {m, n} : x =< y
  OBVIOUS
<1>2. Min({m, n}) \in {m, n} /\ \A y \in {m, n} : Min({m, n}) =< y
  BY <1>1 DEF Min
<1>3. QED BY <1>2

(* The three writes of the records.                                         *)
LEMMA RecordsType ==
    ASSUME TypeOK, NEW e \in Elevators, Tracked(e) \/ Untracked(e) \/ Pushed(e) \/ Trimmed(e)
    PROVE  tracking' \subseteq Elevators /\ history' \in [Elevators -> Nat]
<1> USE TypeParts
<1>1. CASE Tracked(e) \/ Untracked(e)
  BY <1>1 DEF Tracked, Untracked
<1>2. CASE Pushed(e)
  BY <1>2 DEF Pushed
<1>3. CASE Trimmed(e)
  <2>1. Min({history[e], MaxHistory}) \in Nat
    BY MinType, MaxHistoryAssumption
  <2>2. QED BY <1>3, <2>1 DEF Trimmed
<1>4. QED BY <1>1, <1>2, <1>3

(* A handler that takes its next step.                                      *)
LEMMA HandlerMoves ==
    ASSUME TypeOK, NEW t \in Trips, NEW pc, NEW next, HandlerStep(t, pc, next),
           pc \in Before \cup {"set"}, next \in Before \cup {"set", "done"},
           next \in Before => pc \in Before
    PROVE  /\ moving' \in [Trips -> {"none"} \cup Before \cup {"set", "done"}]
           /\ moving[t] = pc /\ moving'[t] = next
           /\ \A u \in Trips : moving'[u] # moving[u] =>
               /\ moving[u] # "none"
               /\ moving'[u] \notin Before \/ moving[u] \in Before
           /\ \A u \in Trips \ {t} : moving'[u] = moving[u]
<1>1. moving[t] = pc /\ moving' = [moving EXCEPT ![t] = next]
  BY DEF HandlerStep
<1>2. moving \in [Trips -> {"none"} \cup Before \cup {"set", "done"}]
  BY TypeParts
<1>3. pc # "none"
  BY DEF Before
<1>4. QED BY <1>1, <1>2, <1>3

LEMMA MovingTypes ==
    ASSUME TypeOK,
           moving' \in [Trips -> {"none"} \cup Before \cup {"set", "done"}],
           tracking' \subseteq Elevators, history' \in [Elevators -> Nat],
           activeJob' \in [Elevators -> Trips \cup {NoTrip}],
           job' \in [Trips -> Job], wait' \in Seq(Trips), doomed' \in [Trips -> SUBSET Trips],
           faults' \in Nat,
           UNCHANGED <<hash, data, arrived, loop, timers, reports>>
    PROVE  TypeOK'
BY TypeParts DEF TypeOK, timers, Before

LEMMA MovingHandlerStep ==
    ASSUME IInv, NEW t \in Trips, MovingHandler(t)
    PROVE  IInv'
<1> USE TypeParts DEF IInv, TripOk
<1>0. UNCHANGED <<hash, data, arrived, loop, timers, reports, faults>>
  BY DEF MovingHandler
<1>q. ASSUME NEW pc \in Before \cup {"set"}, NEW next \in Before \cup {"set", "done"},
             HandlerStep(t, pc, next), next \in Before => pc \in Before,
             tracking' \subseteq Elevators, history' \in [Elevators -> Nat],
             activeJob' \in [Elevators -> Trips \cup {NoTrip}],
             doomed' \in [Trips -> SUBSET Trips], UNCHANGED bull
      PROVE  IInv'
  <2>1. UNCHANGED <<data, job, wait, loop, reports>>
    BY <1>0, <1>q DEF bull
  <2>2. /\ moving' \in [Trips -> {"none"} \cup Before \cup {"set", "done"}]
        /\ \A u \in Trips : moving'[u] # moving[u] =>
             /\ moving[u] # "none"
             /\ moving'[u] \notin Before \/ moving[u] \in Before
    BY <1>q, HandlerMoves
  <2>3. faults' \in Nat /\ job' \in [Trips -> Job] /\ wait' \in Seq(Trips)
    BY <1>0, <2>1
  <2>4. TypeOK'
    BY <1>0, <1>q, <2>2, <2>3, MovingTypes
  <2>5. QED BY <2>1, <2>2, <2>4, QuietStep
<1>e. Elev(t) \in Elevators
  BY TripFields
<1>1. CASE RecordStart(t)
  <2>1. PICK pc \in {"track", "push", "trim"}, next \in {"push", "trim", "waiting"} :
             HandlerStep(t, pc, next)
    BY <1>1 DEF RecordStart
  <2>2. tracking' \subseteq Elevators /\ history' \in [Elevators -> Nat]
    BY <1>1, <1>e, RecordsType DEF RecordStart
  <2>3. UNCHANGED <<activeJob, bull, doomed>>
    BY <1>1 DEF RecordStart
  <2>4. pc \in Before /\ next \in Before
    BY DEF Before
  <2>5. QED BY <1>q, <2>1, <2>2, <2>3, <2>4
<1>2. CASE GetWaiting(t)
  <2>1. /\ HandlerStep(t, "waiting", "remove") /\ UNCHANGED <<records, activeJob, bull>>
        /\ doomed' \in [Trips -> SUBSET Trips]
    BY <1>2 DEF GetWaiting, WaitingFor
  <2>2. "waiting" \in Before /\ "remove" \in Before
    BY DEF Before
  <2>3. QED BY <1>q, <2>1, <2>2 DEF records
<1>3. CASE RemoveOne(t)
  <2>1. PICK u \in doomed[t] :
          /\ HandlerStep(t, "remove", "remove")
          /\ job[u].status # "active"
          /\ doomed' = [doomed EXCEPT ![t] = @ \ {u}]
          /\ IF job[u].status \in Live
             THEN SetStatus(u, "removed") /\ wait' = RemoveFirst(wait, u)
             ELSE UNCHANGED bull
          /\ UNCHANGED <<records, activeJob>>
    BY <1>3 DEF RemoveOne
  <2>2. /\ u \in Trips /\ doomed' \in [Trips -> SUBSET Trips]
        /\ "remove" \in Before
    BY <2>1 DEF Before
  <2>3. CASE job[u].status \notin Live
    BY <1>q, <2>1, <2>2, <2>3 DEF records
  <2>4. CASE job[u].status \in Live
    <3>1. job' = [job EXCEPT ![u].status = "removed"] /\ wait' = RemoveFirst(wait, u)
      BY <2>1, <2>4 DEF SetStatus
    <3>2. /\ job' \in [Trips -> Job] /\ job'[u].status = "removed"
          /\ job'[u].stalled = job[u].stalled
          /\ job'[u].attemptsMade = job[u].attemptsMade
          /\ \A v \in Trips \ {u} : job'[v] = job[v]
      BY <2>2, <3>1, StatusSet DEF Live
    <3>3. /\ wait' \in Seq(Trips) /\ IsInjective(wait') /\ ToSet(wait') = ToSet(wait) \ {u}
      BY <3>1, RemoveFirstType DEF ListOk
    <3>4. ListOk'
      BY <2>2, <3>2, <3>3 DEF ListOk
    <3>5. /\ moving' \in [Trips -> {"none"} \cup Before \cup {"set", "done"}]
          /\ \A v \in Trips : moving'[v] = moving[v]
      BY <2>1, <2>2 DEF HandlerStep
    <3>6. TypeOK'
      BY <1>0, <2>1, <2>2, <3>2, <3>3, <3>5, MovingTypes DEF records
    <3>7. data[u].name # "none" /\ moving[u] \notin Before /\ JobOk(u)
      BY <2>2, <2>4 DEF JobOk, Live
    <3>8. JobOk(u)'
      BY <1>0, <2>2, <3>2, <3>5, <3>7 DEF JobOk
    <3>9. RunsOk(u)' /\ ReportOk(u)'
      BY <1>0, <2>2, <3>2, StatusStep DEF Queued
    <3>10. QED BY <1>0, <2>2, <3>2, <3>4, <3>5, <3>6, <3>8, <3>9, JobStep
  <2>5. QED BY <2>3, <2>4
<1>4. CASE RemoveThrows(t)
  <2>1. /\ HandlerStep(t, "remove", "add") /\ UNCHANGED <<records, activeJob, bull>>
        /\ doomed' \in [Trips -> SUBSET Trips]
    BY <1>4 DEF RemoveThrows
  <2>2. "remove" \in Before /\ "add" \in Before
    BY DEF Before
  <2>3. QED BY <1>q, <2>1, <2>2 DEF records
<1>5. CASE DeleteKey(t)
  <2>1. /\ HandlerStep(t, "remove", "add") /\ UNCHANGED <<records, bull, doomed>>
        /\ activeJob' \in [Elevators -> Trips \cup {NoTrip}]
    BY <1>5 DEF DeleteKey, WriteKey
  <2>2. "remove" \in Before /\ "add" \in Before
    BY DEF Before
  <2>3. QED BY <1>q, <2>1, <2>2 DEF records
<1>6. CASE AddJob(t)
  <2>1. HandlerStep(t, "add", "set") /\ UNCHANGED <<records, activeJob, doomed>>
    BY <1>6 DEF AddJob
  <2>2. "add" \in Before
    BY DEF Before
  <2>3. CASE UNCHANGED bull
    BY <1>q, <2>1, <2>2, <2>3 DEF records
  <2>4. CASE Enqueue(t)
    <3>1. /\ moving' \in [Trips -> {"none"} \cup Before \cup {"set", "done"}]
          /\ moving[t] = "add" /\ moving'[t] = "set"
          /\ \A u \in Trips \ {t} : moving'[u] = moving[u]
      BY <2>1, <2>2, HandlerMoves
    <3>2. JobOk(t)
      OBVIOUS
    <3>3. job[t].status = "none" /\ data[t].name # "none"
      BY <2>2, <3>1, <3>2 DEF JobOk
    <3>4. wait' \in Seq(Trips) /\ job' \in [Trips -> Job]
      BY <2>4, <3>3, EnqueueType
    <3>5. TypeOK'
      BY <1>0, <2>1, <3>1, <3>4, MovingTypes DEF records
    <3>6. QED BY <1>0, <2>4, <3>1, <3>3, <3>5, EnqueueStep DEF Before
  <2>5. QED BY <1>6, <2>3, <2>4 DEF AddJob
<1>7. CASE SetKey(t)
  <2>1. HandlerStep(t, "set", "done") /\ UNCHANGED <<records, bull, doomed>>
    BY <1>7 DEF SetKey
  <2>2. activeJob' \in [Elevators -> Trips \cup {NoTrip}]
    BY <1>7, <1>e DEF SetKey, WriteKey
  <2>3. QED BY <1>q, <2>1, <2>2 DEF records, Before
<1>8. QED BY <1>1, <1>2, <1>3, <1>4, <1>5, <1>6, <1>7 DEF MovingHandler

LEMMA MovingHandlerFaultStep ==
    ASSUME IInv, NEW t \in Trips, MovingHandlerFault(t)
    PROVE  IInv'
<1> USE TypeParts DEF IInv
<1>1. /\ faults' = faults + 1 /\ doomed' = [doomed EXCEPT ![t] = {}]
      /\ UNCHANGED <<hash, tracking, history, activeJob, data, job, wait, arrived, loop, timers,
                     reports>>
  BY DEF MovingHandlerFault, Fault, records, bull
<1>2. PICK pc \in {"track", "push", "trim", "add", "set", "waiting", "remove"},
           next \in {"done", "add"} :
        HandlerStep(t, pc, next) /\ (next = "add" => pc \in {"waiting", "remove"})
  BY DEF MovingHandlerFault
<1>3. /\ moving' \in [Trips -> {"none"} \cup Before \cup {"set", "done"}]
      /\ \A u \in Trips : moving'[u] # moving[u] =>
           /\ moving[u] # "none"
           /\ moving'[u] \notin Before \/ moving[u] \in Before
  BY <1>2, HandlerMoves DEF Before
<1>4. /\ faults' \in Nat /\ doomed' \in [Trips -> SUBSET Trips]
      /\ tracking' \subseteq Elevators /\ history' \in [Elevators -> Nat]
      /\ activeJob' \in [Elevators -> Trips \cup {NoTrip}]
      /\ job' \in [Trips -> Job] /\ wait' \in Seq(Trips)
  BY <1>1
<1>5. TypeOK'
  BY <1>1, <1>3, <1>4, MovingTypes
<1>6. QED BY <1>1, <1>3, <1>5, QuietStep

(* Steps that touch neither jobs nor loops nor the handlers of departures.  *)
LEMMA AsideStep ==
    ASSUME IInv, UNCHANGED <<data, job, wait, loop, reports, moving, doomed>>,
           hash' \in [Elevators -> Hash], tracking' \subseteq Elevators,
           history' \in [Elevators -> Nat],
           activeJob' \in [Elevators -> Trips \cup {NoTrip}],
           arrived' \in [Trips -> {"none", "untrack", "push", "trim", "done"}],
           closing' \in [Elevators -> Nat], idling' \in [Elevators -> Nat], faults' \in Nat
    PROVE  IInv'
<1>1. TypeOK'
  BY DEF IInv, TypeOK
<1>2. QED BY <1>1, QuietStep

LEMMA ArrivalHandlerStep ==
    ASSUME IInv, NEW t \in Trips, ArrivedHandler(t) \/ ArrivedHandlerFault(t)
    PROVE  IInv'
<1> USE TypeParts DEF IInv
<1>1. /\ UNCHANGED <<hash, activeJob, data, job, wait, moving, doomed, loop, closing, idling,
                     reports>>
      /\ faults' \in Nat
  BY DEF ArrivedHandler, ArrivedHandlerFault, Fault, bull, timers
<1>2. arrived' \in [Trips -> {"none", "untrack", "push", "trim", "done"}]
  BY DEF ArrivedHandler, ArrivedHandlerFault, ArrivalStep
<1>3. Elev(t) \in Elevators
  BY TripFields
<1>4. tracking' \subseteq Elevators /\ history' \in [Elevators -> Nat]
  BY <1>3, RecordsType DEF ArrivedHandler, ArrivedHandlerFault, records
<1>5. QED BY <1>1, <1>2, <1>4, AsideStep

(* Fields of a hash, or of a job, are set.                                  *)
LEMMA HashFields ==
    ASSUME NEW h \in Hash, NEW s \in State
    PROVE  [h EXCEPT !.state = s] \in Hash /\ Halted(h, s) \in Hash
BY DEF Halted, Hash, Direction

LEMMA JobFields ==
    ASSUME NEW j \in Job, NEW s \in Live \cup {"failed"}, NEW m \in Nat
    PROVE  /\ [j EXCEPT !.status = s, !.stalled = m] \in Job
           /\ [j EXCEPT !.status = s, !.stalled = m].status = s
           /\ [j EXCEPT !.status = s, !.stalled = m].stalled = m
           /\ [j EXCEPT !.status = s, !.stalled = m].attemptsMade = j.attemptsMade
           /\ [j EXCEPT !.attemptsMade = m, !.status = s] \in Job
           /\ [j EXCEPT !.attemptsMade = m, !.status = s].status = s
           /\ [j EXCEPT !.attemptsMade = m, !.status = s].stalled = j.stalled
           /\ [j EXCEPT !.attemptsMade = m, !.status = s].attemptsMade = m
           /\ [j EXCEPT !.attemptsMade = m] \in Job
           /\ [j EXCEPT !.attemptsMade = m].status = j.status
           /\ [j EXCEPT !.attemptsMade = m].stalled = j.stalled
           /\ [j EXCEPT !.attemptsMade = m].attemptsMade = m
<1>1. s \in Live \cup {"none", "completed", "failed", "removed"}
  OBVIOUS
<1>2. QED BY <1>1 DEF Job

LEMMA TimerStep ==
    ASSUME IInv, NEW e \in Elevators, DoorsClose(e) \/ DoorsIdle(e) \/ ExpireKey(e)
    PROVE  IInv'
<1> USE TypeParts DEF IInv
<1>1. UNCHANGED <<tracking, history, data, job, wait, moving, doomed, arrived, loop, reports,
                  faults>>
  BY DEF DoorsClose, DoorsIdle, ExpireKey, records, bull, handlers
<1>2. hash' \in [Elevators -> Hash]
  <2>1. \A s \in State : [hash[e] EXCEPT !.state = s] \in Hash
    BY HashFields
  <2>2. CASE ExpireKey(e)
    BY <2>2 DEF ExpireKey
  <2>3. CASE DoorsClose(e)
    BY <2>1, <2>3 DEF DoorsClose, WriteHash, State
  <2>4. CASE DoorsIdle(e)
    BY <2>1, <2>4 DEF DoorsIdle, WriteHash, State
  <2>5. QED BY <2>2, <2>3, <2>4
<1>3. activeJob' \in [Elevators -> Trips \cup {NoTrip}]
  BY DEF DoorsClose, DoorsIdle, ExpireKey, WriteKey
<1>4. closing' \in [Elevators -> Nat] /\ idling' \in [Elevators -> Nat]
  <2>1. closing[e] \in Nat /\ idling[e] \in Nat
    OBVIOUS
  <2>2. CASE ExpireKey(e)
    BY <2>2 DEF ExpireKey, timers
  <2>3. CASE DoorsClose(e)
    <3>1. closing[e] - 1 \in Nat
      BY <2>1, <2>3 DEF DoorsClose
    <3>2. QED BY <2>3, <3>1 DEF DoorsClose
  <2>4. CASE DoorsIdle(e)
    <3>1. idling[e] - 1 \in Nat
      BY <2>1, <2>4 DEF DoorsIdle
    <3>2. QED BY <2>4, <3>1 DEF DoorsIdle
  <2>5. QED BY <2>2, <2>3, <2>4
<1>5. QED BY <1>1, <1>2, <1>3, <1>4, AsideStep

(* A job whose status is set to one of its loops' or to failed, while no    *)
(* loop takes a step: a lock runs out, or a job has stalled once too often. *)
LEMMA UnqueuedStep ==
    ASSUME IInv, TypeOK', NEW t \in Trips, job[t].status \in {"active", "unlocked"},
           NEW s \in {"unlocked", "failed"}, SetStatus(t, s),
           UNCHANGED <<data, moving, wait, loop, reports>>
    PROVE  IInv'
<1> USE TypeParts DEF IInv, TripOk
<1>1. /\ job' \in [Trips -> Job] /\ job'[t].status = s /\ job'[t].stalled = job[t].stalled
      /\ job'[t].attemptsMade = job[t].attemptsMade
      /\ \A u \in Trips \ {t} : job'[u] = job[u]
  BY StatusSet DEF SetStatus, Live
<1>2. RunsOk(t)' /\ ReportOk(t)'
  BY <1>1, StatusStep DEF Queued
<1>3. JobOk(t)'
  BY <1>1 DEF JobOk
<1>4. \A u \in Trips : job'[u].status = "waiting" <=> job[u].status = "waiting"
  BY <1>1
<1>5. ListOk'
  BY <1>4 DEF ListOk
<1>6. QED BY <1>1, <1>2, <1>3, <1>5, JobStep

LEMMA LockStep ==
    ASSUME IInv, NEW t \in Trips, LockExpires(t) \/ RenewalFault(t)
    PROVE  IInv'
<1>1. /\ job[t].status = "active" /\ SetStatus(t, "unlocked")
      /\ UNCHANGED <<hash, tracking, history, activeJob, data, wait, moving, doomed, arrived, loop,
                     closing, idling, reports>>
  BY DEF LockExpires, RenewalFault, records, handlers, timers
<1>2. faults' \in Nat
  BY TypeParts DEF IInv, LockExpires, RenewalFault, Fault
<1>3. job' \in [Trips -> Job]
  BY <1>1, TypeParts, StatusSet DEF IInv, SetStatus, Live
<1>4. TypeOK'
  BY <1>1, <1>2, <1>3 DEF IInv, TypeOK
<1>5. QED BY <1>1, <1>4, UnqueuedStep

(* A job that has lost its lock is given away, and has its attempts again.  *)
LEMMA GivenAway ==
    ASSUME IInv, NEW t \in Trips, job[t].status = "unlocked", job[t].stalled < MaxStalled,
           UNCHANGED <<data, loop, reports>>, job'[t] \in Job, job'[t].status = "waiting",
           job'[t].stalled = job[t].stalled + 1, job'[t].attemptsMade = job[t].attemptsMade
    PROVE  RunsOk(t)' /\ ReportOk(t)'
<1>1. RunsOk(t) /\ ReportOk(t) /\ WithinBudget(t) /\ TypeOK
  BY DEF IInv, TripOk, ReportOk
<1>2. job[t].stalled = 0 /\ job'[t].stalled = 1 /\ job[t].attemptsMade \in Nat
  BY <1>1, TripFields DEF MaxStalled
<1>3. \A l, m \in Loops : ~Both(l, m, t)
  BY <1>1, <1>2 DEF RunsOk
<1>4. /\ \A l \in Loops : Runs(l, t)' <=> Runs(l, t)
      /\ \A l, m \in Loops : ~Both(l, m, t)'
  BY <1>3 DEF Runs, Both
<1>5. RunsOk(t)'
  BY <1>2, <1>4 DEF RunsOk, MaxStalled
<1>6. /\ Ahead(job[t]) = 0 /\ Budget(job[t]) = Attempts /\ Budget(job'[t]) = 2 * Attempts
      /\ Ahead(job'[t]) \in Nat /\ Ahead(job'[t]) <= Attempts
  BY <1>2 DEF Ahead, Budget, Queued, Attempts
<1>7. Ahead(job'[t]) + Budget(job[t]) <= Ahead(job[t]) + Budget(job'[t])
  BY <1>6 DEF Attempts
<1>8. WithinBudget(t)'
  BY <1>1, <1>7, JobBudget
<1>9. QED BY <1>1, <1>4, <1>5, <1>8 DEF ReportOk

LEMMA StalledStep ==
    ASSUME IInv, NEW t \in Trips, Stalled(t)
    PROVE  IInv'
<1> USE TypeParts DEF IInv, TripOk
<1>1. /\ job[t].status = "unlocked"
      /\ UNCHANGED <<hash, tracking, history, data, moving, doomed, arrived, loop, closing, idling,
                     reports, faults>>
  BY DEF Stalled, records, handlers, timers
<1>2. JobOk(t) /\ job[t].stalled \in Nat
  BY TripFields
<1>3. data[t].name # "none" /\ moving[t] \notin Before
  BY <1>1, <1>2 DEF JobOk
<1>4. /\ wait \in Seq(Trips) /\ IsInjective(wait)
      /\ ToSet(wait) = {u \in Trips : job[u].status = "waiting"} /\ t \notin ToSet(wait)
  BY <1>1 DEF ListOk
<1>5. CASE /\ job[t].stalled < MaxStalled
           /\ job' = [job EXCEPT ![t].status = "waiting", ![t].stalled = @ + 1]
           /\ wait' = <<t>> \o wait
           /\ UNCHANGED activeJob
  <2> DEFINE m == job[t].stalled + 1
             j == [job[t] EXCEPT !.status = "waiting", !.stalled = m]
  <2>0. job[t] \in Job /\ "waiting" \in Live \cup {"failed"} /\ m \in Nat
    BY <1>2 DEF Live
  <2>2. job' = [job EXCEPT ![t] = j]
    BY <1>5, <2>0 DEF Job
  <2>a. m = job[t].stalled + 1
    OBVIOUS
  <2> HIDE DEF m
  <2>b. /\ j \in Job /\ j.status = "waiting" /\ j.stalled = m
        /\ j.attemptsMade = job[t].attemptsMade
    BY <2>0 DEF Job, Live
  <2>1. /\ j \in Job /\ j.status = "waiting" /\ j.stalled = job[t].stalled + 1
        /\ j.attemptsMade = job[t].attemptsMade
    BY <2>a, <2>b
  <2> HIDE DEF j
  <2>3. /\ job' \in [Trips -> Job] /\ job'[t] = j /\ \A u \in Trips \ {t} : job'[u] = job[u]
    BY <2>1, <2>2
  <2>4. /\ wait' \in Seq(Trips) /\ IsInjective(wait') /\ ToSet(wait') = ToSet(wait) \cup {t}
    BY <1>4, <1>5, FrontType
  <2>5. ListOk'
    BY <1>4, <2>1, <2>3, <2>4 DEF ListOk
  <2>6. TypeOK'
    BY <1>1, <1>5, <2>3, <2>4 DEF TypeOK
  <2>7. JobOk(t)'
    BY <1>1, <1>2, <1>3, <2>1, <2>3 DEF JobOk
  <2>8. RunsOk(t)' /\ ReportOk(t)'
    BY <1>1, <1>5, <2>1, <2>3, GivenAway
  <2>9. QED BY <1>1, <2>3, <2>5, <2>6, <2>7, <2>8, JobStep
<1>6. CASE /\ SetStatus(t, "failed")
           /\ WriteKey(Elev(t), NoTrip)
           /\ UNCHANGED wait
  <2>1. job' \in [Trips -> Job]
    BY <1>6, StatusSet DEF SetStatus
  <2>2. activeJob' \in [Elevators -> Trips \cup {NoTrip}]
    BY <1>6 DEF WriteKey
  <2>3. TypeOK'
    BY <1>1, <1>6, <2>1, <2>2 DEF TypeOK
  <2>4. QED BY <1>1, <1>6, <2>3, UnqueuedStep
<1>7. QED BY <1>5, <1>6 DEF Stalled

LEMMA CrashStep ==
    ASSUME IInv, Crash
    PROVE  IInv'
<1> USE TypeParts DEF IInv, TripOk
<1>1. /\ faults' = faults + 1
      /\ moving' = [t \in Trips |-> Over(moving[t])]
      /\ arrived' = [t \in Trips |-> Over(arrived[t])]
      /\ doomed' = [t \in Trips |-> {}]
      /\ loop' = [l \in Loops |-> IdleLoop]
      /\ closing' = [e \in Elevators |-> 0] /\ idling' = [e \in Elevators |-> 0]
      /\ UNCHANGED <<hash, tracking, history, activeJob, data, job, wait, reports>>
  BY DEF Crash, Fault, records, bull
<1>2. IdleLoop \in Loop
  BY MaxFloorAssumption DEF IdleLoop, Loop, Floor
<1>3. moving' \in [Trips -> {"none", "done"}] /\ arrived' \in [Trips -> {"none", "done"}]
  BY <1>1 DEF Over
<1>4. TypeOK'
  BY <1>1, <1>2, <1>3 DEF TypeOK
<1>5. ASSUME NEW t \in Trips PROVE TripOk(t)'
  <2>1. moving'[t] = Over(moving[t]) /\ JobOk(t) /\ RunsOk(t) /\ ReportOk(t)
    BY <1>1
  <2>2. JobOk(t)'
    BY <1>1, <2>1 DEF JobOk, Over, Before
  <2>3. \A l \in Loops : ~Runs(l, t)'
    BY <1>1, NoTripAssumption DEF IdleLoop, Runs
  <2>4. RunsOk(t)'
    BY <1>1, <2>1, <2>3 DEF RunsOk, Both
  <2>5. WithinBudget(t)'
    BY <1>1, <2>1, <2>3 DEF ReportOk, WithinBudget, Both
  <2>6. QED BY <1>1, <2>1, <2>2, <2>3, <2>4, <2>5 DEF ReportOk
<1>6. \A l \in Loops : LoopOk(l)'
  BY <1>1 DEF LoopOk, IdleLoop
<1>7. ListOk'
  BY <1>1 DEF ListOk
<1>8. QED BY <1>4, <1>5, <1>6, <1>7

-----------------------------------------------------------------------------
(* The worker loops.                                                        *)

(* What is known of a loop that has a job, and of that job.                 *)
LEMMA AtWork ==
    ASSUME IInv, NEW l \in Loops, loop[l].pc # "idle"
    PROVE  /\ loop[l].job \in Trips
           /\ job[loop[l].job].status # "none"
           /\ data[loop[l].job].name # "none" /\ moving[loop[l].job] \notin Before
           /\ TripOk(loop[l].job) /\ LoopOk(l)
<1> USE DEF IInv
<1>1. loop[l].job \in Trips
  BY LoopFields DEF LoopOk
<1>2. TripOk(loop[l].job) /\ LoopOk(l)
  BY <1>1
<1>3. job[loop[l].job].status # "none"
  BY <1>2 DEF TripOk, RunsOk, Runs
<1>4. data[loop[l].job].name # "none" /\ moving[loop[l].job] \notin Before
  BY <1>2, <1>3 DEF TripOk, JobOk
<1>5. QED BY <1>1, <1>2, <1>3, <1>4

(* A loop takes a step and leaves its job as it is, or loses it.            *)
LEMMA LoopOnlyStep ==
    ASSUME IInv, TypeOK', NEW l \in Loops, NEW t \in Trips, loop[l].pc # "idle", loop[l].job = t,
           UNCHANGED <<data, moving, job, wait>>,
           \A m \in Loops \ {l} : loop'[m] = loop[m],
           \A u \in Trips \ {t} : reports'[u] = reports[u],
           \/ /\ loop'[l].job = t /\ reports'[t] >= reports[t]
              /\ reports'[t] + Left(loop'[l]) <= reports[t] + Left(loop[l])
           \/ loop'[l].job = NoTrip /\ reports'[t] = reports[t],
           loop'[l].pc = "done" /\ data[t].name = "move" => reports'[t] > 0,
           LoopOk(l)'
    PROVE  IInv'
<1> USE DEF IInv
<1>1. JobOk(t) /\ RunsOk(t) /\ ReportOk(t) /\ WithinBudget(t) /\ Runs(l, t)
  BY AtWork DEF TripOk, ReportOk, Runs
<1>2. \A m \in Loops : Runs(m, t)' => Runs(m, t) /\ (m # l => loop'[m] = loop[m])
  BY <1>1 DEF Runs
<1>3. JobOk(t)'
  BY <1>1 DEF JobOk
<1>4. RunsOk(t)'
  BY <1>1, <1>2 DEF RunsOk, Both
<1>5. job'[t] \in Job /\ loop'[l] \in Loop /\ reports'[t] \in Nat /\ reports[t] \in Nat
  BY TypeParts DEF TypeOK
<1>6. Ahead(job'[t]) \in Nat /\ Ahead(job'[t]) = Ahead(job[t]) /\ Left(loop[l]) \in Nat
  BY <1>5, AheadType, LeftType, TypeParts
<1>7. Ahead(job'[t]) <= Left(loop[l]) + Ahead(job[t])
  BY <1>6
<1>8. WithinBudget(t)'
  <2>1. CASE /\ loop'[l].job = t
             /\ reports'[t] + Left(loop'[l]) <= reports[t] + Left(loop[l])
    BY <1>1, <1>5, <1>6, <2>1, LoopBudget
  <2>2. CASE loop'[l].job = NoTrip /\ reports'[t] = reports[t]
    <3>1. loop'[l].job # t
      BY <2>2, NoTripAssumption
    <3>2. QED BY <1>1, <1>5, <1>7, <2>2, <3>1, LoopBudget
  <2>3. QED BY <2>1, <2>2
<1>9. reports[t] > 0 => reports'[t] > 0
  BY <1>5
<1>10. ReportOk(t)'
  BY <1>1, <1>2, <1>8, <1>9 DEF ReportOk
<1>11. ListOk'
  BY DEF ListOk
<1>12. \A u \in Trips \ {t} : job'[u] = job[u] /\ reports'[u] = reports[u]
  OBVIOUS
<1>13. QED BY <1>3, <1>4, <1>10, <1>11, <1>12, LoopJobStep DEF TripOk

(* The floor that a travelling loop comes to.                               *)
LEMMA OnwardType ==
    ASSUME IInv, NEW l \in Loops, NEW t \in Trips, loop[l].pc = "run", loop[l].job = t,
           data[t].name = "move"
    PROVE  /\ Onward(l) \in Floor
           /\ Onward(l) # data[t].to => OnTheWay(data[t], Onward(l))
<1> USE DEF IInv, TripOk
<1>1. /\ JobOk(t) /\ LoopOk(l) /\ loop[l].at \in Floor
      /\ data[t].from \in Floor /\ data[t].to \in Floor
  BY LoopFields, TripFields
<1>2. /\ OnTheWay(data[t], loop[l].at) /\ data[t].from # data[t].to
      /\ data[t].direction = DirectionTo(data[t].from, data[t].to)
  BY <1>1 DEF LoopOk, JobOk, Named
<1>3. CASE data[t].from < data[t].to
  <2>1. Onward(l) = loop[l].at + 1
    BY <1>1, <1>2, <1>3 DEF Onward, DirectionTo, Floor
  <2>2. QED BY <1>1, <1>2, <1>3, <2>1, MaxFloorAssumption DEF OnTheWay, Floor
<1>4. CASE data[t].from > data[t].to
  <2>1. Onward(l) = loop[l].at - 1
    BY <1>1, <1>2, <1>4 DEF Onward, DirectionTo, Floor
  <2>2. QED BY <1>1, <1>2, <1>4, <2>1, MaxFloorAssumption DEF OnTheWay, Floor
<1>5. QED BY <1>1, <1>2, <1>3, <1>4, MaxFloorAssumption DEF Floor

(* What is left unchanged by all of a loop's steps.                         *)
LEMMA WorkerFrame ==
    ASSUME IInv, NEW l \in Loops, Worker(l)
    PROVE  UNCHANGED <<tracking, history, data, moving, doomed, faults>>
BY DEF Worker, records

LEMMA WorkerTypes ==
    ASSUME IInv, UNCHANGED <<tracking, history, data, moving, doomed>>,
           hash' \in [Elevators -> Hash], activeJob' \in [Elevators -> Trips \cup {NoTrip}],
           job' \in [Trips -> Job], wait' \in Seq(Trips), loop' \in [Loops -> Loop],
           arrived' \in [Trips -> {"none", "untrack", "push", "trim", "done"}],
           closing' \in [Elevators -> Nat], idling' \in [Elevators -> Nat],
           reports' \in [Trips -> Nat], faults' \in Nat
    PROVE  TypeOK'
BY DEF IInv, TypeOK

LEMMA TakeJobStep ==
    ASSUME IInv, NEW l \in Loops, TakeJob(l), Worker(l)
    PROVE  IInv'
<1> USE TypeParts DEF IInv, TripOk
<1> DEFINE t == Head(wait)
           v == [job |-> t, pc |-> "run", at |-> data[t].from, made |-> job[t].attemptsMade]
<1>1. /\ loop[l].pc = "idle" /\ wait # <<>>
      /\ job' = [job EXCEPT ![t].status = "active"]
      /\ loop' = [loop EXCEPT ![l] = v] /\ wait' = Tail(wait)
      /\ UNCHANGED <<hash, activeJob, arrived, closing, idling, reports>>
  BY DEF TakeJob, SetStatus, timers
<1>2. /\ t \in Trips /\ t \in ToSet(wait) /\ wait' \in Seq(Trips)
      /\ IsInjective(wait') /\ ToSet(wait') = ToSet(wait) \ {t}
  BY <1>1, TailType DEF ListOk
<1>3. job[t].status = "waiting" /\ loop[l].job = NoTrip
  BY <1>1, <1>2 DEF ListOk, LoopOk
<1> HIDE DEF t
<1> SUFFICES ASSUME NEW u \in Trips, u = t PROVE IInv'
  BY <1>2
<1>4. /\ job' \in [Trips -> Job] /\ job'[u].status = "active" /\ job'[u].stalled = job[u].stalled
      /\ \A w \in Trips \ {u} : job'[w] = job[w]
  BY <1>1, <1>2, StatusSet DEF Live
<1>5. /\ v \in Loop /\ v.job = u /\ v.pc = "run" /\ v.at = data[u].from
      /\ v.made = job[u].attemptsMade
  BY TripFields DEF Loop
<1> HIDE DEF v
<1>6. /\ loop' \in [Loops -> Loop] /\ loop'[l] = v /\ \A m \in Loops \ {l} : loop'[m] = loop[m]
  BY <1>1, <1>5
<1>7. UNCHANGED <<tracking, history, data, moving, doomed, faults>>
  BY WorkerFrame
<1>8. TypeOK'
  BY <1>1, <1>2, <1>4, <1>6, <1>7, WorkerTypes
<1>9. JobOk(u) /\ RunsOk(u) /\ ReportOk(u) /\ job[u].status = "waiting" /\ ~Runs(l, u)
  BY <1>3, NoTripAssumption DEF Runs
<1>10. Queued(job[u]) /\ ~Queued(job'[u])
  BY <1>4, <1>9 DEF Queued
<1>11. JobOk(u)'
  BY <1>4, <1>7, <1>9 DEF JobOk
<1>12. \A m \in Loops \ {l} : /\ loop'[m] = loop[m] /\ (Runs(m, u)' <=> Runs(m, u))
                              /\ Runs(m, u) => job[u].stalled > 0
  BY <1>6, <1>9, <1>10 DEF Runs, RunsOk
<1>13. \A m, n \in Loops \ {l} : ~Both(m, n, u)
  BY <1>9, <1>10 DEF RunsOk
<1>14. RunsOk(u)'
  <2>1. \A m, n \in Loops : Both(m, n, u)' => job[u].stalled > 0 /\ (m = l \/ n = l)
    BY <1>12, <1>13 DEF Both
  <2>2. \A m, n, k \in Loops : Both(m, n, u)' /\ Both(n, k, u)' => m = k
    BY <1>12, <1>13 DEF Both
  <2>3. QED BY <1>4, <1>9, <1>10, <2>1, <2>2 DEF RunsOk
<1>15. ReportOk(u)'
  <2>1. Left(v) + Ahead(job'[u]) <= Ahead(job[u])
    <3>1. job[u].attemptsMade \in Nat
      BY TripFields
    <3>2. Left(v) = Retries(job[u].attemptsMade + 1) + 1 /\ Ahead(job'[u]) = 0
      BY <1>5, <1>10 DEF Left, Ahead
    <3>3. QED BY <1>10, <3>1, <3>2 DEF Ahead, Retries, Attempts
  <2>2. WithinBudget(u)'
    BY <1>1, <1>4, <1>5, <1>6, <1>9, <2>1, LoopBudget DEF ReportOk
  <2>3. QED BY <1>1, <1>4, <1>5, <1>6, <1>7, <1>9, <1>12, <2>2 DEF ReportOk
<1>16. LoopOk(l)'
  <2>1. loop'[l].pc = "run" /\ loop'[l].job = u /\ loop'[l].at = data[u].from /\ u # NoTrip
    BY <1>5, <1>6, NoTripAssumption
  <2>2. data[u].name = "move" => OnTheWay(data[u], data[u].from)
    BY <1>9, TripFields DEF JobOk, OnTheWay, Floor
  <2>3. QED BY <1>7, <2>1, <2>2 DEF LoopOk, Named
<1>17. ListOk'
  BY <1>2, <1>4 DEF ListOk
<1>18. loop[l].job \in {u, NoTrip} /\ loop'[l].job = u
  BY <1>3, <1>5, <1>6
<1>19. \A w \in Trips \ {u} : job'[w] = job[w] /\ reports'[w] = reports[w]
  BY <1>1, <1>4
<1>20. QED BY <1>6, <1>7, <1>8, <1>11, <1>14, <1>15, <1>16, <1>17, <1>18, <1>19, LoopJobStep

(* The steps on the way: an intermediate floor, the last one, a stop, and   *)
(* the attempts that fail.                                                  *)
LEMMA DriveStep ==
    ASSUME IInv, NEW l \in Loops, loop[l].pc # "idle",
           NEW v \in Loop, loop' = [loop EXCEPT ![l] = v], v.job = loop[l].job, v.pc # "idle",
           v.made = loop[l].made,
           v.pc \in {"run", "arrived"} => loop[l].pc \in {"run", "arrived"},
           v.pc = "run" /\ Named(l, "move") => OnTheWay(data[loop[l].job], v.at),
           v.pc = "done" => ~Named(l, "move"),
           UNCHANGED <<tracking, history, data, moving, doomed, activeJob, job, wait, arrived,
                       closing, idling, reports>>,
           hash' \in [Elevators -> Hash], faults' \in Nat
    PROVE  IInv'
<1> USE TypeParts DEF IInv
<1> SUFFICES ASSUME NEW t \in Trips, loop[l].job = t PROVE IInv'
  BY AtWork
<1>1. loop' \in [Loops -> Loop] /\ loop'[l] = v /\ \A m \in Loops \ {l} : loop'[m] = loop[m]
  OBVIOUS
<1>2. TypeOK'
  BY <1>1, WorkerTypes
<1>3. /\ reports[t] \in Nat /\ Left(v) \in Nat /\ Left(loop[l]) \in Nat
      /\ Retries(v.made + 1) \in Nat
  BY LeftType DEF Loop, Retries, Attempts
<1>4. Left(v) <= Left(loop[l])
  BY <1>3 DEF Left
<1>5. reports'[t] >= reports[t] /\ reports'[t] + Left(loop'[l]) <= reports[t] + Left(loop[l])
  BY <1>1, <1>3, <1>4
<1>6. LoopOk(l)'
  BY <1>1, NoTripAssumption DEF LoopOk, Named
<1>7. ~(loop'[l].pc = "done" /\ data[t].name = "move")
  BY <1>1 DEF Named
<1>8. QED BY <1>1, <1>2, <1>5, <1>6, <1>7, LoopOnlyStep

(* A loop whose handler goes on to its next step.                           *)
LEMMA NextStepOf ==
    ASSUME IInv, NEW l \in Loops, NEW pc, NEW next \in {"arrived", "done", "rejected"},
           LoopStep(l, pc, next)
    PROVE  \E v \in Loop : /\ loop' = [loop EXCEPT ![l] = v]
                           /\ v.job = loop[l].job /\ v.pc = next /\ loop[l].pc = pc
                           /\ v.made = loop[l].made
<1> DEFINE v == [loop[l] EXCEPT !.pc = next]
<1>1. loop[l] \in Loop
  BY TypeParts DEF IInv
<1>2. v \in Loop /\ v.job = loop[l].job /\ v.pc = next /\ v.made = loop[l].made
  BY <1>1 DEF Loop
<1>3. loop' = [loop EXCEPT ![l] = v] /\ loop[l].pc = pc
  BY DEF LoopStep
<1>4. QED BY <1>2, <1>3

LEMMA HashWritten ==
    ASSUME IInv, NEW e \in Elevators, NEW h \in Hash, WriteHash(e, h)
    PROVE  hash' \in [Elevators -> Hash]
BY TypeParts DEF IInv, WriteHash

LEMMA WayStep ==
    ASSUME IInv, NEW l \in Loops, Worker(l), Travel(l) \/ Arrive(l) \/ EmergencyStop(l)
    PROVE  IInv'
<1> USE TypeParts DEF IInv
<1>1. loop[l].pc = "run" /\ UNCHANGED <<activeJob, job, wait, arrived, closing, idling, reports>>
  BY DEF Travel, Arrive, EmergencyStop, LoopStep, bull, timers
<1>2. UNCHANGED <<tracking, history, data, moving, doomed, faults>>
  BY WorkerFrame
<1> SUFFICES ASSUME NEW t \in Trips, loop[l].job = t PROVE IInv'
  BY <1>1, AtWork
<1>3. /\ Elev(t) \in Elevators /\ data[t].to \in Floor /\ data[t].direction \in Direction
  BY TripFields
<1>4. CASE Travel(l)
  <2>1. /\ data[t].name = "move" /\ Onward(l) # data[t].to
        /\ loop' = [loop EXCEPT ![l].at = Onward(l)]
        /\ WriteHash(Elev(t), MovingTo(Onward(l), t))
    BY <1>4 DEF Travel, Named
  <2>2. Onward(l) \in Floor /\ OnTheWay(data[t], Onward(l))
    BY <1>1, <2>1, OnwardType
  <2>3. MovingTo(Onward(l), t) \in Hash
    BY <1>3, <2>2 DEF MovingTo, Hash, State
  <2>4. hash' \in [Elevators -> Hash]
    BY <1>3, <2>1, <2>3, HashWritten
  <2> DEFINE v == [loop[l] EXCEPT !.at = Onward(l)]
  <2>5. loop[l] \in Loop
    OBVIOUS
  <2>6. v \in Loop /\ v.job = t /\ v.pc = "run" /\ v.at = Onward(l) /\ v.made = loop[l].made
    BY <1>1, <2>2, <2>5 DEF Loop
  <2>7. loop' = [loop EXCEPT ![l] = v]
    BY <2>1
  <2> HIDE DEF v
  <2>8. QED BY <1>1, <1>2, <2>2, <2>4, <2>6, <2>7, DriveStep
<1>5. CASE Arrive(l)
  <2>1. LoopStep(l, "run", "arrived") /\ WriteHash(Elev(t), DoorsOpenAt(data[t].to))
    BY <1>5 DEF Arrive
  <2>2. DoorsOpenAt(data[t].to) \in Hash
    BY <1>3 DEF DoorsOpenAt, DoorsClosedAt, Hash, State, Direction
  <2>3. hash' \in [Elevators -> Hash]
    BY <1>3, <2>1, <2>2, HashWritten
  <2>4. PICK v \in Loop : /\ loop' = [loop EXCEPT ![l] = v] /\ v.job = t /\ v.pc = "arrived"
                          /\ v.made = loop[l].made
    BY <2>1, NextStepOf
  <2>5. QED BY <1>1, <1>2, <2>3, <2>4, DriveStep
<1>6. CASE EmergencyStop(l)
  <2>1. /\ LoopStep(l, "run", "done") /\ ~Named(l, "move")
        /\ WriteHash(Elev(t), Halted(hash[Elev(t)], "MAINTENANCE"))
    BY <1>6 DEF EmergencyStop, Named
  <2>2. Halted(hash[Elev(t)], "MAINTENANCE") \in Hash
    BY <1>3, HashFields DEF State
  <2>3. hash' \in [Elevators -> Hash]
    BY <1>3, <2>1, <2>2, HashWritten
  <2>4. PICK v \in Loop : /\ loop' = [loop EXCEPT ![l] = v] /\ v.job = t /\ v.pc = "done"
                          /\ v.made = loop[l].made
    BY <2>1, NextStepOf
  <2>5. QED BY <1>1, <1>2, <2>1, <2>3, <2>4, DriveStep
<1>7. QED BY <1>4, <1>5, <1>6

(* Bull does not complete a job that is not locked.                         *)
LEMMA NotCompletedStep ==
    ASSUME IInv, NEW l \in Loops, Worker(l), NotCompleted(l)
    PROVE  IInv'
<1> USE TypeParts DEF IInv
<1>1. /\ LoopStep(l, "done", "rejected")
      /\ UNCHANGED <<hash, activeJob, job, wait, arrived, closing, idling, reports>>
  BY DEF NotCompleted, bull, timers
<1>2. UNCHANGED <<tracking, history, data, moving, doomed, faults>>
  BY WorkerFrame
<1>3. PICK v \in Loop : /\ loop' = [loop EXCEPT ![l] = v] /\ v.job = loop[l].job
                        /\ v.pc = "rejected" /\ loop[l].pc = "done" /\ v.made = loop[l].made
  BY <1>1, NextStepOf
<1>4. QED BY <1>1, <1>2, <1>3, DriveStep

LEMMA CompleteStep ==
    ASSUME IInv, NEW l \in Loops, Worker(l), Complete(l)
    PROVE  IInv'
<1> USE TypeParts DEF IInv
<1>1. LoopStep(l, "arrived", "done") /\ UNCHANGED <<activeJob, job, wait>>
  BY DEF Complete, bull
<1>2. UNCHANGED <<tracking, history, data, moving, doomed, faults>>
  BY WorkerFrame
<1>3. loop[l].pc = "arrived"
  BY <1>1 DEF LoopStep
<1> SUFFICES ASSUME NEW t \in Trips, loop[l].job = t PROVE IInv'
  BY <1>3, AtWork
<1>4. Elev(t) \in Elevators /\ data[t].to \in Floor /\ reports[t] \in Nat
  BY TripFields
<1>5. /\ reports' = [reports EXCEPT ![t] = @ + 1]
      /\ arrived' = [arrived EXCEPT ![t] = "untrack"]
      /\ WriteHash(Elev(t), DoorsOpenAt(data[t].to))
      /\ closing' = [closing EXCEPT ![Elev(t)] = @ + 1]
      /\ idling' = [idling EXCEPT ![Elev(t)] = @ + 1]
  BY DEF Complete
<1>6. DoorsOpenAt(data[t].to) \in Hash
  BY <1>4 DEF DoorsOpenAt, DoorsClosedAt, Hash, State, Direction
<1>7. hash' \in [Elevators -> Hash]
  BY <1>4, <1>5, <1>6, HashWritten
<1>8. PICK v \in Loop : /\ loop' = [loop EXCEPT ![l] = v] /\ v.job = t /\ v.pc = "done"
                        /\ v.made = loop[l].made
  BY <1>1, NextStepOf
<1>9. /\ loop' \in [Loops -> Loop] /\ loop'[l] = v /\ \A m \in Loops \ {l} : loop'[m] = loop[m]
  BY <1>8
<1>10. /\ reports' \in [Trips -> Nat] /\ reports'[t] = reports[t] + 1
       /\ \A u \in Trips \ {t} : reports'[u] = reports[u]
  BY <1>5
<1>11. /\ arrived' \in [Trips -> {"none", "untrack", "push", "trim", "done"}]
       /\ closing' \in [Elevators -> Nat] /\ idling' \in [Elevators -> Nat]
  BY <1>4, <1>5
<1>12. TypeOK'
  BY <1>1, <1>2, <1>7, <1>9, <1>10, <1>11, WorkerTypes
<1>13. Left(loop[l]) = Left(v) + 1 /\ Left(v) \in Nat
  <2>1. Retries(v.made + 1) \in Nat
    BY <1>8 DEF Loop, Retries, Attempts
  <2>2. Left(loop[l]) = Retries(v.made + 1) + 1 /\ Left(v) = Retries(v.made + 1)
    BY <1>3, <1>8, <2>1 DEF Left
  <2>3. QED BY <2>1, <2>2
<1>14. /\ reports'[t] >= reports[t] /\ reports'[t] > 0
       /\ reports'[t] + Left(loop'[l]) <= reports[t] + Left(loop[l])
  BY <1>4, <1>9, <1>10, <1>13
<1>15. LoopOk(l)'
  BY <1>8, <1>9, NoTripAssumption DEF LoopOk
<1>16. loop'[l].job = t
  BY <1>8, <1>9
<1>17. QED BY <1>1, <1>2, <1>3, <1>9, <1>10, <1>12, <1>14, <1>15, <1>16, LoopOnlyStep

(* What recording the result of an attempt does to the job.                 *)
LEMMA RecordedJob ==
    ASSUME IInv, NEW l \in Loops, NEW t \in Trips, loop[l].job = t,
           Completed(l) \/ Rejected(l) \/ NotRejected(l)
    PROVE  \E j \in Job :
             /\ job' = [job EXCEPT ![t] = j] /\ j.stalled = job[t].stalled
             /\ Ahead(j) <= Left(loop[l]) + Ahead(job[t])
             /\ Queued(j) => Queued(job[t]) \/ job[t].status = "active"
             /\ j.status = "waiting" <=> job[t].status = "waiting"
             /\ j.status = "none" => job[t].status = "none"
             /\ j.status = "completed" => \/ job[t].status = "completed"
                                          \/ job[t].status = "active" /\ loop[l].pc = "done"
<1> USE TypeParts DEF IInv
<1>1. job[t] \in Job /\ loop[l].made \in Nat /\ job[t].attemptsMade \in Nat
  BY LoopFields DEF Job
<1>2. Left(loop[l]) \in Nat /\ Ahead(job[t]) \in Nat
  BY <1>1, LeftType, AheadType
<1> DEFINE made == loop[l].made + 1
<1>3. made \in Nat /\ made > 0
  BY <1>1
<1>4. CASE Completed(l)
  <2> DEFINE j == [job[t] EXCEPT !.status = "completed"]
  <2>1. j \in Job /\ j.status = "completed" /\ j.stalled = job[t].stalled
    BY <1>1 DEF Job
  <2>2. job' = [job EXCEPT ![t] = j] /\ loop[l].pc = "done" /\ job[t].status = "active"
    BY <1>4 DEF Completed, SetStatus
  <2> HIDE DEF j
  <2>3. ~Queued(j) /\ Ahead(j) = 0
    BY <2>1 DEF Queued, Ahead
  <2>4. Ahead(j) <= Left(loop[l]) + Ahead(job[t])
    BY <1>2, <2>3
  <2>5. QED BY <2>1, <2>2, <2>3, <2>4
<1>5. CASE Rejected(l)
  <2> DEFINE s == IF Named(l, "move") /\ made < Attempts THEN "delayed" ELSE "failed"
             j == [job[t] EXCEPT !.attemptsMade = made, !.status = s]
  <2>1. s \in {"delayed", "failed"} /\ (s = "delayed" => made < Attempts)
    OBVIOUS
  <2>2. job' = [job EXCEPT ![t] = j] /\ loop[l].pc = "rejected" /\ job[t].status = "active"
    BY <1>1, <1>5 DEF Rejected, Job
  <2> HIDE DEF s, made
  <2>3. j \in Job /\ j.status = s /\ j.stalled = job[t].stalled /\ j.attemptsMade = made
    BY <1>1, <1>3, <2>1 DEF Job, Live
  <2> HIDE DEF j
  <2>4. Left(loop[l]) = Retries(made)
    BY <1>3, <2>2 DEF Left, made, Retries, Attempts
  <2>5. Ahead(j) <= Left(loop[l])
    BY <1>3, <2>1, <2>3, <2>4 DEF Ahead, Retries, Attempts, Queued
  <2>6. Ahead(j) \in Nat
    BY <2>3, AheadType
  <2>7. Ahead(j) <= Left(loop[l]) + Ahead(job[t])
    BY <1>2, <2>5, <2>6
  <2>8. j.status \in {"delayed", "failed"}
    BY <2>1, <2>3
  <2>9. QED BY <2>2, <2>3, <2>7, <2>8
<1>6. CASE NotRejected(l)
  <2> DEFINE j == [job[t] EXCEPT !.attemptsMade = made]
  <2>1. job' = [job EXCEPT ![t] = j] /\ loop[l].pc = "rejected" /\ job[t].status # "active"
    BY <1>6 DEF NotRejected
  <2> HIDE DEF made
  <2>2. /\ j \in Job /\ j.status = job[t].status /\ j.stalled = job[t].stalled
        /\ j.attemptsMade = made
    BY <1>1, <1>3 DEF Job
  <2> HIDE DEF j
  <2>3. Left(loop[l]) = Retries(made)
    BY <1>3, <2>1 DEF Left, made, Retries, Attempts
  <2>4. Queued(j) <=> Queued(job[t])
    BY <2>2 DEF Queued
  <2>5. Ahead(j) <= Left(loop[l]) + Ahead(job[t])
    BY <1>1, <1>2, <1>3, <2>2, <2>3, <2>4 DEF Ahead, Retries, Attempts
  <2>6. QED BY <2>1, <2>2, <2>4, <2>5
<1>7. QED BY <1>4, <1>5, <1>6

(* The result of an attempt is recorded, and the loop is free again.        *)
LEMMA RecordedStep ==
    ASSUME IInv, NEW l \in Loops, Worker(l), Completed(l) \/ Rejected(l) \/ NotRejected(l)
    PROVE  IInv'
<1> USE TypeParts DEF IInv, TripOk
<1>1. /\ loop[l].pc \in {"done", "rejected"} /\ loop' = [loop EXCEPT ![l] = IdleLoop]
      /\ UNCHANGED <<hash, wait, arrived, closing, idling, reports>>
  BY DEF Completed, Rejected, NotRejected, timers
<1>2. UNCHANGED <<tracking, history, data, moving, doomed, faults>>
  BY WorkerFrame
<1> SUFFICES ASSUME NEW t \in Trips, loop[l].job = t PROVE IInv'
  BY <1>1, AtWork
<1>3. /\ JobOk(t) /\ RunsOk(t) /\ ReportOk(t) /\ job[t].status # "none" /\ Runs(l, t)
      /\ data[t].name # "none" /\ moving[t] \notin Before
  BY <1>1, AtWork DEF Runs
<1>4. IdleLoop \in Loop /\ IdleLoop.job = NoTrip /\ IdleLoop.pc = "idle"
  BY MaxFloorAssumption DEF IdleLoop, Loop, Floor
<1>5. /\ loop' \in [Loops -> Loop] /\ loop'[l] = IdleLoop
      /\ \A m \in Loops \ {l} : loop'[m] = loop[m]
  BY <1>1, <1>4
<1>6. activeJob' \in [Elevators -> Trips \cup {NoTrip}]
  BY DEF Completed, Rejected, NotRejected, WriteKey
<1>7. PICK j \in Job :
        /\ job' = [job EXCEPT ![t] = j] /\ j.stalled = job[t].stalled
        /\ Ahead(j) <= Left(loop[l]) + Ahead(job[t])
        /\ Queued(j) => Queued(job[t]) \/ job[t].status = "active"
        /\ j.status = "waiting" <=> job[t].status = "waiting"
        /\ j.status = "none" => job[t].status = "none"
        /\ j.status = "completed" => \/ job[t].status = "completed"
                                     \/ job[t].status = "active" /\ loop[l].pc = "done"
  BY RecordedJob
<1>8. /\ job' \in [Trips -> Job] /\ job'[t] = j /\ \A u \in Trips \ {t} : job'[u] = job[u]
  BY <1>7
<1>9. TypeOK'
  BY <1>1, <1>2, <1>5, <1>6, <1>8, WorkerTypes
<1>10. JobOk(t)'
  BY <1>2, <1>3, <1>7, <1>8 DEF JobOk
<1>11. \A m \in Loops : Runs(m, t)' => m # l /\ Both(l, m, t) /\ loop'[m] = loop[m]
  BY <1>3, <1>4, <1>5, NoTripAssumption DEF Runs, Both
<1>12. RunsOk(t)'
  <2>1. \A m \in Loops : Runs(m, t)' => job[t].stalled > 0
    BY <1>3, <1>11 DEF RunsOk
  <2>2. \A m, n \in Loops : ~Both(m, n, t)'
    BY <1>3, <1>11 DEF Both, RunsOk
  <2>3. QED BY <1>3, <1>7, <1>8, <2>1, <2>2 DEF RunsOk
<1>13. ReportOk(t)'
  <2>1. loop'[l].job # t
    BY <1>4, <1>5, NoTripAssumption
  <2>2. WithinBudget(t)'
    BY <1>1, <1>3, <1>5, <1>7, <1>8, <2>1, LoopBudget DEF ReportOk
  <2>3. loop[l].pc = "done" /\ data[t].name = "move" => reports[t] > 0
    BY <1>3 DEF ReportOk
  <2>4. QED BY <1>1, <1>2, <1>3, <1>7, <1>8, <1>11, <2>2, <2>3 DEF ReportOk, Both
<1>14. LoopOk(l)'
  BY <1>4, <1>5 DEF LoopOk
<1>15. ListOk'
  <2>1. \A u \in Trips : job'[u].status = "waiting" <=> job[u].status = "waiting"
    BY <1>7, <1>8
  <2>2. QED BY <1>1, <2>1 DEF ListOk
<1>16. \A u \in Trips \ {t} : job'[u] = job[u] /\ reports'[u] = reports[u]
  BY <1>1, <1>8
<1>17. loop[l].job \in {t, NoTrip} /\ loop'[l].job = NoTrip
  BY <1>4, <1>5
<1>18. QED BY <1>2, <1>5, <1>9, <1>10, <1>12, <1>13, <1>14, <1>15, <1>16, <1>17, LoopJobStep

LEMMA WorkerStep ==
    ASSUME IInv, NEW l \in Loops, Worker(l)
    PROVE  IInv'
BY TakeJobStep, WayStep, CompleteStep, NotCompletedStep, RecordedStep DEF Worker

LEMMA WorkerFaultStep ==
    ASSUME IInv, NEW l \in Loops, WorkerFault(l)
    PROVE  IInv'
<1> USE TypeParts DEF IInv
<1>1. /\ UNCHANGED <<tracking, history, activeJob, data, job, wait, moving, doomed, arrived,
                     closing, idling, reports>>
      /\ faults' = faults + 1 /\ faults' \in Nat
  BY DEF WorkerFault, Fault, records, bull, handlers, timers
<1>2. CASE /\ LoopStep(l, "run", "rejected") \/ LoopStep(l, "arrived", "rejected")
           /\ \/ Named(l, "move") /\ LET e == Elev(loop[l].job) IN
                                     WriteHash(e, Halted(hash[e], "IDLE"))
              \/ UNCHANGED hash
  <2>1. loop[l].pc \in {"run", "arrived"}
    BY <1>2 DEF LoopStep
  <2>2. loop[l].job \in Trips
    BY <2>1, AtWork
  <2>3. hash' \in [Elevators -> Hash]
    <3>1. Elev(loop[l].job) \in Elevators
      BY <2>2, TripFields
    <3>2. Halted(hash[Elev(loop[l].job)], "IDLE") \in Hash
      BY <3>1, HashFields DEF State
    <3>3. QED BY <1>2, <3>1, <3>2, HashWritten
  <2>4. PICK v \in Loop : /\ loop' = [loop EXCEPT ![l] = v] /\ v.job = loop[l].job
                          /\ v.pc = "rejected" /\ v.made = loop[l].made
    BY <1>2, NextStepOf
  <2>5. QED BY <1>1, <2>1, <2>3, <2>4, DriveStep
<1>3. CASE LoopStep(l, "done", "rejected") /\ UNCHANGED hash
  <2>1. PICK v \in Loop : /\ loop' = [loop EXCEPT ![l] = v] /\ v.job = loop[l].job
                          /\ v.pc = "rejected" /\ loop[l].pc = "done" /\ v.made = loop[l].made
    BY <1>3, NextStepOf
  <2>2. QED BY <1>1, <1>3, <2>1, DriveStep
<1>4. CASE /\ loop[l].pc = "rejected"
           /\ loop' = [loop EXCEPT ![l] = IdleLoop]
           /\ UNCHANGED hash
  <2> SUFFICES ASSUME NEW t \in Trips, loop[l].job = t PROVE IInv'
    BY <1>4, AtWork
  <2>1. IdleLoop \in Loop /\ IdleLoop.job = NoTrip /\ IdleLoop.pc = "idle"
    BY MaxFloorAssumption DEF IdleLoop, Loop, Floor
  <2>2. /\ loop' \in [Loops -> Loop] /\ loop'[l] = IdleLoop
        /\ \A m \in Loops \ {l} : loop'[m] = loop[m]
    BY <1>4, <2>1
  <2>3. TypeOK'
    BY <1>1, <1>4, <2>2, WorkerTypes
  <2>4. LoopOk(l)'
    BY <2>1, <2>2 DEF LoopOk
  <2>5. loop'[l].job = NoTrip /\ loop'[l].pc # "done"
    BY <2>1, <2>2
  <2>6. QED BY <1>1, <1>4, <2>2, <2>3, <2>4, <2>5, LoopOnlyStep
<1>5. QED BY <1>2, <1>3, <1>4 DEF WorkerFault

LEMMA StepInv == IInv /\ [Next]_vars => IInv'
<1> SUFFICES ASSUME IInv, [Next]_vars PROVE IInv'
  OBVIOUS
<1>1. ASSUME NEW t \in Trips, NEW e \in Elevators, NEW from \in Floor, NEW to \in Floor,
             Publish(t, e, from, to)
      PROVE  IInv'
  BY <1>1, PublishStep
<1>2. ASSUME NEW t \in Trips, NEW e \in Elevators, AddStop(t, e) PROVE IInv'
  BY <1>2, AddStopStep
<1>3. ASSUME NEW e \in Elevators, DoorsClose(e) \/ DoorsIdle(e) \/ ExpireKey(e) PROVE IInv'
  BY <1>3, TimerStep
<1>4. ASSUME NEW t \in Trips,
             \/ MovingHandler(t) \/ ArrivedHandler(t)
             \/ Promote(t) \/ LockExpires(t) \/ Stalled(t)
      PROVE  IInv'
  BY <1>4, MovingHandlerStep, ArrivalHandlerStep, PromoteStep, LockStep, StalledStep
<1>5. ASSUME NEW t \in Trips,
             MovingHandlerFault(t) \/ ArrivedHandlerFault(t) \/ RenewalFault(t)
      PROVE  IInv'
  BY <1>5, MovingHandlerFaultStep, ArrivalHandlerStep, LockStep
<1>6. ASSUME NEW l \in Loops, Worker(l) \/ WorkerFault(l) PROVE IInv'
  BY <1>6, WorkerStep, WorkerFaultStep
<1>7. CASE Crash
  BY <1>7, CrashStep
<1>8. CASE UNCHANGED vars
  <2>1. TypeOK'
    BY <1>8 DEF IInv, TypeOK, vars, records, bull, handlers, timers
  <2>2. QED BY <1>8, <2>1, QuietStep DEF vars, bull, handlers
<1>9. CASE Next
  BY <1>9, <1>1, <1>2, <1>3, <1>4, <1>5, <1>6, <1>7 DEF Next, Step, Failure
<1>10. QED BY <1>8, <1>9

LEMMA Invariance == Spec => []IInv
BY InitInv, StepInv, PTL DEF Spec

(* Hash, queue, handlers and loops keep their types: updateFloorPosition    *)
(* never writes a floor outside the building, in whatever order attempts,   *)
(* retries, lost locks and crashes come.                                    *)
THEOREM PipelineTypes == Spec => []TypeOK
<1>1. IInv => TypeOK
  BY DEF IInv
<1>2. QED BY <1>1, Invariance, PTL

-----------------------------------------------------------------------------
(* The history of movements.  Its bound rests on the order of things        *)
(* without failures: a job has one worker and keeps it, and its arrival is  *)
(* published and handled once.                                              *)

(* The handlers that have pushed a record and not yet cut the history.      *)
Cutting(e)  == {t \in Trips : Elev(t) = e /\ moving[t] = "trim"}
Clearing(e) == {t \in Trips : Elev(t) = e /\ arrived[t] = "trim"}

Bound(e) == history[e] <= MaxHistory + Cardinality(Cutting(e)) + Cardinality(Clearing(e))

InOrder(t) ==
    /\ job[t].status \notin {"delayed", "unlocked"} /\ job[t].stalled = 0
    /\ job[t].status = "active" <=> \E l \in Loops : loop[l].job = t
    /\ arrived[t] # "none" => \/ job[t].status = "completed"
                              \/ \E l \in Loops : loop[l].job = t /\ loop[l].pc = "done"
    /\ reports[t] <= 1
    /\ arrived[t] = "none" => reports[t] = 0

Regular ==
    /\ \A t \in Trips : InOrder(t)
    /\ \A l \in Loops : loop[l].pc # "rejected"
    /\ \A e \in Elevators : Bound(e)

Unstarted == \A t \in Trips : data[t].name = "none" => arrived[t] = "none"

HInv == Unstarted /\ (faults = 0 => Regular)

LEMMA NoLoopRuns ==
    ASSUME Regular, NEW t \in Trips, job[t].status # "active"
    PROVE  \A l \in Loops : loop[l].job # t
BY DEF Regular, InOrder

(* Without failures a job that runs is locked, and runs in one loop.        *)
LEMMA AloneAtWork ==
    ASSUME IInv, Regular, NEW l \in Loops, loop[l].pc # "idle"
    PROVE  /\ loop[l].job \in Trips /\ job[loop[l].job].status = "active"
           /\ \A m \in Loops \ {l} : loop[m].job # loop[l].job
<1> SUFFICES ASSUME NEW t \in Trips, loop[l].job = t
             PROVE  job[t].status = "active" /\ \A m \in Loops \ {l} : loop[m].job # t
  BY AtWork
<1>1. RunsOk(t) /\ InOrder(t)
  BY DEF IInv, TripOk, Regular
<1>2. \A m \in Loops \ {l} : ~Both(l, m, t)
  BY <1>1 DEF RunsOk, InOrder
<1>3. QED BY <1>1, <1>2 DEF InOrder, Both, Runs

LEMMA CardinalityGrows ==
    ASSUME NEW S \in SUBSET Trips, NEW T \in SUBSET Trips, S \subseteq T
    PROVE  /\ Cardinality(S) \in Nat /\ Cardinality(T) \in Nat
           /\ Cardinality(S) <= Cardinality(T)
           /\ \A t \in T \ S : Cardinality(S) + 1 <= Cardinality(T)
<1>1. IsFiniteSet(S) /\ IsFiniteSet(T)
  BY TripsAssumption, FS_Subset
<1>2. /\ Cardinality(S) \in Nat /\ Cardinality(T) \in Nat
      /\ Cardinality(S) <= Cardinality(T)
  BY <1>1, FS_CardinalityType, FS_Subset
<1>3. ASSUME NEW t \in T \ S PROVE Cardinality(S) + 1 <= Cardinality(T)
  <2>1. Cardinality(S \cup {t}) = Cardinality(S) + 1
    BY <1>1, FS_AddElement
  <2>2. Cardinality(S \cup {t}) <= Cardinality(T)
    BY <1>1, FS_Subset
  <2>3. QED BY <2>1, <2>2
<1>4. QED BY <1>2, <1>3

(* A history keeps its bound if it is cut, or grows no more than the        *)
(* handlers that will cut it.                                               *)
LEMMA BoundStep ==
    ASSUME NEW e \in Elevators, Bound(e), history[e] \in Nat, history'[e] \in Nat,
           \/ history'[e] <= MaxHistory
           \/ /\ Cutting(e) \subseteq Cutting(e)' /\ Clearing(e) \subseteq Clearing(e)'
              /\ \/ history'[e] = history[e]
                 \/ /\ history'[e] = history[e] + 1
                    /\ \E t \in Trips : \/ t \in Cutting(e)' /\ t \notin Cutting(e)
                                        \/ t \in Clearing(e)' /\ t \notin Clearing(e)
    PROVE  Bound(e)'
<1> DEFINE A == Cardinality(Cutting(e))
           B == Cardinality(Clearing(e))
           C == Cardinality(Cutting(e)')
           D == Cardinality(Clearing(e)')
<1>1. /\ Cutting(e) \in SUBSET Trips /\ Clearing(e) \in SUBSET Trips
      /\ Cutting(e)' \in SUBSET Trips /\ Clearing(e)' \in SUBSET Trips
  BY DEF Cutting, Clearing
<1>2. A \in Nat /\ B \in Nat /\ C \in Nat /\ D \in Nat
  BY <1>1, CardinalityGrows
<1>3. history[e] <= MaxHistory + A + B
  BY DEF Bound
<1>4. CASE history'[e] <= MaxHistory
  <2>1. history'[e] <= MaxHistory + C + D
    BY <1>2, <1>4, MaxHistoryAssumption
  <2>2. QED BY <2>1 DEF Bound
<1>5. CASE /\ Cutting(e) \subseteq Cutting(e)' /\ Clearing(e) \subseteq Clearing(e)'
           /\ history'[e] = history[e]
  <2>1. A <= C /\ B <= D
    BY <1>1, <1>5, CardinalityGrows
  <2>2. history'[e] <= MaxHistory + C + D
    BY <1>2, <1>3, <1>5, <2>1, MaxHistoryAssumption
  <2>3. QED BY <2>2 DEF Bound
<1>6. ASSUME Cutting(e) \subseteq Cutting(e)' /\ Clearing(e) \subseteq Clearing(e)',
             history'[e] = history[e] + 1,
             NEW t \in Trips, \/ t \in Cutting(e)' /\ t \notin Cutting(e)
                              \/ t \in Clearing(e)' /\ t \notin Clearing(e)
      PROVE  Bound(e)'
  <2>1. A <= C /\ B <= D
    BY <1>1, <1>6, CardinalityGrows
  <2>2. A + 1 <= C \/ B + 1 <= D
    BY <1>1, <1>6, CardinalityGrows
  <2>3. history'[e] <= MaxHistory + C + D
    BY <1>2, <1>3, <1>6, <2>1, <2>2, MaxHistoryAssumption
  <2>4. QED BY <2>3 DEF Bound
<1>7. QED BY <1>4, <1>5, <1>6

(* A step that writes no history and ends no cut.                           *)
LEMMA SameBounds ==
    ASSUME IInv, IInv', Regular, UNCHANGED history,
           \A t \in Trips : /\ moving[t] = "trim" => moving'[t] = "trim" /\ data'[t] = data[t]
                            /\ arrived[t] = "trim" => arrived'[t] = "trim" /\ data'[t] = data[t]
    PROVE  \A e \in Elevators : Bound(e)'
<1> SUFFICES ASSUME NEW e \in Elevators PROVE Bound(e)'
  OBVIOUS
<1>1. Cutting(e) \subseteq Cutting(e)' /\ Clearing(e) \subseteq Clearing(e)'
  BY DEF Cutting, Clearing, Elev
<1>2. Bound(e) /\ history[e] \in Nat /\ history'[e] = history[e] /\ history'[e] \in Nat
  BY TypeParts DEF Regular, IInv
<1>3. QED BY <1>1, <1>2, BoundStep

(* A step that leaves jobs and loops alone and starts no arrival handler.   *)
LEMMA SameOrder ==
    ASSUME Regular, UNCHANGED <<job, loop, reports>>,
           \A t \in Trips : arrived[t] = "none" <=> arrived'[t] = "none",
           \A e \in Elevators : Bound(e)'
    PROVE  Regular'
<1>1. ASSUME NEW t \in Trips PROVE InOrder(t)'
  BY DEF Regular, InOrder
<1>2. QED BY <1>1 DEF Regular

(* One of the records of elevator e is written, for trip t.                 *)
LEMMA RecordBounds ==
    ASSUME IInv, IInv', Regular, NEW t \in Trips, UNCHANGED data,
           \A u \in Trips \ {t} : moving'[u] = moving[u] /\ arrived'[u] = arrived[u],
           \/ /\ UNCHANGED history
              /\ moving[t] # "trim" \/ moving'[t] = moving[t]
              /\ arrived[t] # "trim" \/ arrived'[t] = arrived[t]
           \/ /\ Pushed(Elev(t))
              /\ \/ moving[t] # "trim" /\ moving'[t] = "trim" /\ arrived'[t] = arrived[t]
                 \/ arrived[t] # "trim" /\ arrived'[t] = "trim" /\ moving'[t] = moving[t]
           \/ Trimmed(Elev(t))
    PROVE  \A e \in Elevators : Bound(e)'
<1> SUFFICES ASSUME NEW e \in Elevators PROVE Bound(e)'
  OBVIOUS
<1>1. /\ Bound(e) /\ history \in [Elevators -> Nat] /\ history' \in [Elevators -> Nat]
      /\ Elev(t) \in Elevators
  <2>1. history \in [Elevators -> Nat] /\ history' \in [Elevators -> Nat]
    BY DEF IInv, TypeOK
  <2>2. Elev(t) \in Elevators
    BY TripFields DEF IInv
  <2>3. QED BY <2>1, <2>2 DEF Regular
<1>2. CASE Elev(t) # e
  <2>1. Cutting(e)' = Cutting(e) /\ Clearing(e)' = Clearing(e)
    BY <1>2 DEF Cutting, Clearing, Elev
  <2>2. history'[e] = history[e]
    BY <1>1, <1>2 DEF Pushed, Trimmed
  <2>3. QED BY <1>1, <2>1, <2>2, BoundStep
<1>3. CASE Elev(t) = e /\ Trimmed(e)
  <2>1. history'[e] = Min({history[e], MaxHistory})
    BY <1>1, <1>3 DEF Trimmed
  <2>2. history'[e] <= MaxHistory
    BY <1>1, <2>1, MinType, MaxHistoryAssumption
  <2>3. QED BY <1>1, <2>2, BoundStep
<1>4. CASE /\ Elev(t) = e /\ Pushed(e)
           /\ \/ moving[t] # "trim" /\ moving'[t] = "trim" /\ arrived'[t] = arrived[t]
              \/ arrived[t] # "trim" /\ arrived'[t] = "trim" /\ moving'[t] = moving[t]
  <2>1. history'[e] = history[e] + 1
    BY <1>1, <1>4 DEF Pushed
  <2>2. Cutting(e) \subseteq Cutting(e)' /\ Clearing(e) \subseteq Clearing(e)'
    BY <1>4 DEF Cutting, Clearing, Elev
  <2>3. \/ t \in Cutting(e)' /\ t \notin Cutting(e)
        \/ t \in Clearing(e)' /\ t \notin Clearing(e)
    BY <1>4 DEF Cutting, Clearing, Elev
  <2>4. QED BY <1>1, <2>1, <2>2, <2>3, BoundStep
<1>5. CASE /\ UNCHANGED history
           /\ moving[t] # "trim" \/ moving'[t] = moving[t]
           /\ arrived[t] # "trim" \/ arrived'[t] = arrived[t]
  <2>1. Cutting(e) \subseteq Cutting(e)' /\ Clearing(e) \subseteq Clearing(e)'
    BY <1>5 DEF Cutting, Clearing, Elev
  <2>2. QED BY <1>1, <1>5, <2>1, BoundStep
<1>6. QED BY <1>2, <1>3, <1>4, <1>5

(* A trip that has no job, or one that waits, has not arrived.              *)
LEMMA NotArrived ==
    ASSUME IInv, Regular, NEW t \in Trips, job[t].status \in {"none", "waiting"}
    PROVE  arrived[t] = "none" /\ \A l \in Loops : loop[l].job # t
<1>1. \A l \in Loops : loop[l].job # t
  BY NoLoopRuns
<1>2. InOrder(t)
  BY DEF Regular
<1>3. QED BY <1>1, <1>2 DEF InOrder

(* The job of one trip is added to the list, or removed from it.            *)
LEMMA ListOrder ==
    ASSUME IInv, Regular, NEW t \in Trips, job[t].status \in {"none", "waiting"},
           UNCHANGED <<loop, arrived, reports>>, job'[t].status \in {"waiting", "removed"},
           job'[t].stalled = job[t].stalled,
           \A u \in Trips \ {t} : job'[u] = job[u],
           \A e \in Elevators : Bound(e)'
    PROVE  Regular'
<1>1. InOrder(t)'
  BY NotArrived DEF Regular, InOrder
<1>2. ASSUME NEW u \in Trips \ {t} PROVE InOrder(u)'
  BY DEF Regular, InOrder
<1>3. QED BY <1>1, <1>2 DEF Regular

LEMMA PublishOrder ==
    ASSUME IInv, IInv', Unstarted, Regular, NEW t \in Trips, NEW e \in Elevators,
           NEW from \in Floor, NEW to \in Floor, Publish(t, e, from, to)
    PROVE  Regular'
<1>1. /\ data[t].name = "none" /\ UNCHANGED <<history, job, loop, arrived, reports>>
      /\ \A u \in Trips \ {t} : moving'[u] = moving[u] /\ data'[u] = data[u]
  BY TypeParts DEF Publish, records, bull, IInv
<1>2. arrived[t] = "none" /\ moving[t] = "none"
  BY <1>1 DEF Unstarted, IInv, TripOk, JobOk
<1>3. \A u \in Trips : /\ moving[u] = "trim" => moving'[u] = "trim" /\ data'[u] = data[u]
                       /\ arrived[u] = "trim" => arrived'[u] = "trim" /\ data'[u] = data[u]
  BY <1>1, <1>2
<1>4. QED BY <1>1, <1>3, SameBounds, SameOrder

LEMMA AddStopOrder ==
    ASSUME IInv, IInv', Unstarted, Regular, NEW t \in Trips, NEW e \in Elevators, AddStop(t, e)
    PROVE  Regular'
<1>1. /\ data[t].name = "none" /\ Enqueue(t)
      /\ UNCHANGED <<history, loop, arrived, moving, reports>>
      /\ \A u \in Trips \ {t} : data'[u] = data[u]
  BY TypeParts DEF AddStop, records, handlers, IInv
<1>2. arrived[t] = "none" /\ moving[t] = "none" /\ job[t].status = "none"
  BY <1>1 DEF Unstarted, IInv, TripOk, JobOk
<1>3. \A u \in Trips : /\ moving[u] = "trim" => moving'[u] = "trim" /\ data'[u] = data[u]
                       /\ arrived[u] = "trim" => arrived'[u] = "trim" /\ data'[u] = data[u]
  BY <1>1, <1>2
<1>4. /\ job'[t].status = "waiting" /\ job'[t].stalled = job[t].stalled
      /\ \A u \in Trips \ {t} : job'[u] = job[u]
  BY <1>1, TypeParts, StatusSet DEF Enqueue, SetStatus, IInv, Live
<1>5. \A f \in Elevators : Bound(f)'
  BY <1>1, <1>3, SameBounds
<1>6. QED BY <1>1, <1>2, <1>4, <1>5, ListOrder

LEMMA MovingHandlerOrder ==
    ASSUME IInv, IInv', Regular, NEW t \in Trips, MovingHandler(t)
    PROVE  Regular'
<1>1. UNCHANGED <<data, arrived, loop, reports>>
  BY DEF MovingHandler
<1>2. \A u \in Trips \ {t} : moving'[u] = moving[u]
  BY TypeParts DEF IInv, MovingHandler, RecordStart, GetWaiting, RemoveOne, RemoveThrows, DeleteKey,
     AddJob, SetKey, HandlerStep
<1>3. moving'[t] \in Before \cup {"set", "done"}
  BY TypeParts DEF IInv, MovingHandler, RecordStart, GetWaiting, RemoveOne, RemoveThrows, DeleteKey,
     AddJob, SetKey, HandlerStep, Before
<1>4. \A e \in Elevators : Bound(e)'
  <2>1. CASE RecordStart(t)
    <3>1. CASE HandlerStep(t, "track", "push") /\ Tracked(Elev(t))
      <4>1. UNCHANGED history /\ moving[t] # "trim"
        BY <3>1 DEF HandlerStep, Tracked
      <4>2. QED BY <1>1, <1>2, <4>1, RecordBounds
    <3>2. CASE HandlerStep(t, "push", "trim") /\ Pushed(Elev(t))
      <4>1. moving[t] # "trim" /\ moving'[t] = "trim"
        BY <3>2, TypeParts DEF HandlerStep, IInv
      <4>2. QED BY <1>1, <1>2, <3>2, <4>1, RecordBounds
    <3>3. CASE HandlerStep(t, "trim", "waiting") /\ Trimmed(Elev(t))
      BY <1>1, <1>2, <3>3, RecordBounds
    <3>4. QED BY <2>1, <3>1, <3>2, <3>3 DEF RecordStart
  <2>2. CASE ~RecordStart(t)
    <3>1. UNCHANGED history /\ moving[t] # "trim"
      BY <2>2 DEF MovingHandler, GetWaiting, RemoveOne, RemoveThrows, DeleteKey, AddJob, SetKey,
         HandlerStep, records
    <3>2. QED BY <1>1, <1>2, <3>1, RecordBounds
  <2>3. QED BY <2>1, <2>2
<1>5. CASE UNCHANGED bull
  BY <1>1, <1>4, <1>5, SameOrder DEF bull
<1>6. CASE AddJob(t) /\ Enqueue(t)
  <2>1. job[t].status = "none"
    BY <1>6 DEF AddJob, HandlerStep, IInv, TripOk, JobOk, Before
  <2>2. /\ job'[t].status = "waiting" /\ job'[t].stalled = job[t].stalled
        /\ \A u \in Trips \ {t} : job'[u] = job[u]
    BY <1>6, TypeParts, StatusSet DEF Enqueue, SetStatus, IInv, Live
  <2>3. QED BY <1>1, <1>4, <2>1, <2>2, ListOrder
<1>7. CASE RemoveOne(t) /\ ~(UNCHANGED bull)
  <2>1. PICK u \in doomed[t] : /\ job[u].status \in Live /\ job[u].status # "active"
                               /\ SetStatus(u, "removed")
    BY <1>7 DEF RemoveOne
  <2>2. u \in Trips
    BY <2>1, TypeParts DEF IInv
  <2>3. job[u].status = "waiting"
    BY <2>1, <2>2 DEF Live, Regular, InOrder
  <2>4. /\ job'[u].status = "removed" /\ job'[u].stalled = job[u].stalled
        /\ \A w \in Trips \ {u} : job'[w] = job[w]
    BY <2>1, <2>2, TypeParts, StatusSet DEF SetStatus, IInv
  <2>5. QED BY <1>1, <1>4, <2>2, <2>3, <2>4, ListOrder
<1>8. QED BY <1>5, <1>6, <1>7 DEF MovingHandler, RecordStart, GetWaiting, RemoveThrows, DeleteKey,
         AddJob, SetKey

LEMMA ArrivedHandlerOrder ==
    ASSUME IInv, IInv', Regular, NEW t \in Trips, ArrivedHandler(t)
    PROVE  Regular'
<1>1. UNCHANGED <<data, moving, job, loop, reports>>
  BY DEF ArrivedHandler, bull
<1>2. /\ arrived[t] # "none" /\ arrived'[t] # "none"
      /\ \A u \in Trips \ {t} : arrived'[u] = arrived[u]
  BY TypeParts DEF ArrivedHandler, ArrivalStep, IInv
<1>3. \A e \in Elevators : Bound(e)'
  <2>1. CASE ArrivalStep(t, "untrack", "push") /\ Untracked(Elev(t))
    <3>1. UNCHANGED history /\ arrived[t] # "trim"
      BY <2>1 DEF ArrivalStep, Untracked
    <3>2. QED BY <1>1, <1>2, <3>1, RecordBounds
  <2>2. CASE ArrivalStep(t, "push", "trim") /\ Pushed(Elev(t))
    <3>1. arrived[t] # "trim" /\ arrived'[t] = "trim"
      BY <2>2, TypeParts DEF ArrivalStep, IInv
    <3>2. QED BY <1>1, <1>2, <2>2, <3>1, RecordBounds
  <2>3. CASE ArrivalStep(t, "trim", "done") /\ Trimmed(Elev(t))
    BY <1>1, <1>2, <2>3, RecordBounds
  <2>4. QED BY <2>1, <2>2, <2>3 DEF ArrivedHandler
<1>4. QED BY <1>1, <1>2, <1>3, SameOrder

(* A loop takes a step with the job of one trip.                            *)
LEMMA WorkerBounds ==
    ASSUME IInv, IInv', Regular, NEW l \in Loops, Worker(l)
    PROVE  \A e \in Elevators : Bound(e)'
<1>1. UNCHANGED <<history, data, moving>>
  BY DEF Worker, records
<1>2. \A u \in Trips : arrived[u] = "trim" => arrived'[u] = "trim"
  <2>1. CASE Complete(l)
    <3>1. loop[l].pc = "arrived" /\ arrived' = [arrived EXCEPT ![loop[l].job] = "untrack"]
      BY <2>1 DEF Complete, LoopStep
    <3>2. /\ loop[l].job \in Trips /\ job[loop[l].job].status = "active"
          /\ \A m \in Loops \ {l} : loop[m].job # loop[l].job
      BY <3>1, AloneAtWork
    <3>3. InOrder(loop[l].job)
      BY <3>2 DEF Regular
    <3>4. arrived[loop[l].job] = "none"
      BY <3>1, <3>2, <3>3 DEF InOrder
    <3>5. QED BY <3>1, <3>4, TypeParts DEF IInv
  <2>2. CASE ~Complete(l)
    BY <2>2 DEF Worker, TakeJob, Travel, Arrive, EmergencyStop, Completed, NotCompleted, Rejected,
       NotRejected
  <2>3. QED BY <2>1, <2>2
<1>3. QED BY <1>1, <1>2, SameBounds

LEMMA WorkerOrder ==
    ASSUME IInv, IInv', Regular, NEW l \in Loops, Worker(l)
    PROVE  Regular'
<1> USE TypeParts DEF IInv
<1>b. \A e \in Elevators : Bound(e)'
  BY WorkerBounds
<1>m. ASSUME NEW m \in Loops, m # l PROVE loop'[m] = loop[m]
  BY <1>m DEF Worker, TakeJob, Travel, Arrive, Complete, EmergencyStop, Completed, NotCompleted,
     Rejected, NotRejected, LoopStep
<1>r. loop[l].pc # "rejected"
  BY DEF Regular
<1>1. CASE TakeJob(l)
  <2> DEFINE t == Head(wait)
  <2>1. /\ loop[l].pc = "idle" /\ wait # <<>> /\ job' = [job EXCEPT ![t].status = "active"]
        /\ loop' = [loop EXCEPT ![l] = [job |-> t, pc |-> "run", at |-> data[t].from,
                                           made |-> job[t].attemptsMade]]
        /\ UNCHANGED <<arrived, reports>>
    BY <1>1 DEF TakeJob, SetStatus
  <2>2. t \in Trips /\ t \in ToSet(wait)
    BY <2>1, TailType DEF ListOk
  <2>3. job[t].status = "waiting" /\ loop[l].job = NoTrip
    BY <2>1, <2>2 DEF ListOk, LoopOk
  <2> HIDE DEF t
  <2>4. arrived[t] = "none" /\ InOrder(t)
    BY <2>2, <2>3, NotArrived DEF Regular
  <2>5. loop'[l].job = t /\ loop'[l].pc = "run"
    BY <2>1
  <2>6. /\ job'[t].status = "active" /\ job'[t].stalled = job[t].stalled
        /\ \A u \in Trips \ {t} : job'[u] = job[u]
    BY <2>1, <2>2, StatusSet DEF Live
  <2>7. ASSUME NEW u \in Trips PROVE InOrder(u)'
    <3>1. CASE u = t
      BY <2>1, <2>4, <2>5, <2>6, <3>1 DEF InOrder
    <3>2. CASE u # t
      <4>1. InOrder(u) /\ job'[u] = job[u] /\ arrived'[u] = arrived[u]
        BY <2>1, <2>6, <3>2 DEF Regular
      <4>2. \A m \in Loops : loop[m].job = u \/ loop'[m].job = u => loop'[m] = loop[m]
        BY <1>m, <2>3, <2>5, <3>2, NoTripAssumption
      <4>3. reports'[u] = reports[u]
        BY <2>1
      <4>4. QED BY <4>1, <4>2, <4>3 DEF InOrder
    <3>3. QED BY <3>1, <3>2
  <2>8. \A m \in Loops : loop'[m].pc # "rejected"
    BY <1>m, <2>5 DEF Regular
  <2>9. QED BY <1>b, <2>7, <2>8 DEF Regular
<1>2. CASE Travel(l) \/ Arrive(l) \/ EmergencyStop(l) \/ Complete(l)
  <2>1. /\ loop[l].pc \in {"run", "arrived"} /\ UNCHANGED job
        /\ loop'[l].job = loop[l].job /\ loop'[l].pc \in {"run", "arrived", "done"}
    BY <1>2 DEF Travel, Arrive, EmergencyStop, Complete, LoopStep, bull, Loop
  <2>2. ASSUME NEW t \in Trips, loop[l].job = t PROVE Regular'
    <3>1. job[t].status = "active" /\ \A m \in Loops \ {l} : loop[m].job # t
      BY <2>1, <2>2, AloneAtWork
    <3>2. InOrder(t)
      BY DEF Regular
    <3>3. arrived[t] = "none" /\ reports[t] = 0
      BY <2>1, <2>2, <3>1, <3>2 DEF InOrder
    <3>4. /\ arrived'[t] # "none" => loop'[l].pc = "done"
          /\ reports'[t] <= 1 /\ (arrived'[t] = "none" => reports'[t] = 0)
          /\ \A u \in Trips \ {t} : arrived'[u] = arrived[u] /\ reports'[u] = reports[u]
      BY <1>2, <2>2, <3>3 DEF Travel, Arrive, EmergencyStop, Complete, LoopStep, Loop
    <3>5. InOrder(t)'
      BY <2>1, <2>2, <3>1, <3>2, <3>4 DEF InOrder
    <3>6. ASSUME NEW u \in Trips \ {t} PROVE InOrder(u)'
      <4>1. InOrder(u) /\ job'[u] = job[u] /\ arrived'[u] = arrived[u]
        BY <2>1, <3>4 DEF Regular
      <4>2. \A m \in Loops : loop[m].job = u \/ loop'[m].job = u => loop'[m] = loop[m]
        BY <1>m, <2>1, <2>2
      <4>3. QED BY <3>4, <4>1, <4>2 DEF InOrder
    <3>7. \A m \in Loops : loop'[m].pc # "rejected"
      BY <1>m, <2>1 DEF Regular
    <3>8. QED BY <1>b, <3>5, <3>6, <3>7 DEF Regular
  <2>3. loop[l].job \in Trips
    BY <2>1, AtWork
  <2>4. QED BY <2>2, <2>3
<1>3. CASE Completed(l)
  <2>1. /\ loop[l].pc = "done" /\ loop'[l] = IdleLoop /\ UNCHANGED <<arrived, reports>>
        /\ SetStatus(loop[l].job, "completed")
    BY <1>3 DEF Completed
  <2>2. ASSUME NEW t \in Trips, loop[l].job = t PROVE Regular'
    <3>1. /\ job'[t].status = "completed" /\ job'[t].stalled = job[t].stalled
          /\ \A u \in Trips \ {t} : job'[u] = job[u]
      BY <2>1, <2>2, StatusSet DEF SetStatus
    <3>2. InOrder(t)'
      <4>1. \A m \in Loops \ {l} : loop'[m].job # t
        BY <1>m, <2>1, <2>2, AloneAtWork
      <4>2. loop'[l].job # t
        BY <2>1, NoTripAssumption DEF IdleLoop
      <4>3. \A m \in Loops : loop'[m].job # t
        BY <4>1, <4>2
      <4>4. QED BY <2>1, <3>1, <4>3 DEF Regular, InOrder
    <3>3. ASSUME NEW u \in Trips \ {t} PROVE InOrder(u)'
      <4>1. InOrder(u) /\ job'[u] = job[u] /\ arrived'[u] = arrived[u]
        BY <2>1, <3>1 DEF Regular
      <4>2. \A m \in Loops : loop[m].job = u \/ loop'[m].job = u => loop'[m] = loop[m]
        BY <1>m, <2>1, <2>2, NoTripAssumption DEF IdleLoop
      <4>3. reports'[u] = reports[u]
        BY <2>1
      <4>4. QED BY <4>1, <4>2, <4>3 DEF InOrder
    <3>4. ASSUME NEW m \in Loops PROVE loop'[m].pc # "rejected"
      <4>1. IdleLoop.pc = "idle"
        BY DEF IdleLoop
      <4>2. QED BY <1>m, <2>1, <4>1 DEF Regular
    <3>5. QED BY <1>b, <3>2, <3>3, <3>4 DEF Regular
  <2>3. loop[l].job \in Trips
    BY <2>1, AtWork
  <2>4. QED BY <2>2, <2>3
<1>4. ~NotCompleted(l)
  BY AloneAtWork DEF NotCompleted, LoopStep
<1>5. QED BY <1>1, <1>2, <1>3, <1>4, <1>r DEF Worker, Rejected, NotRejected

LEMMA InitHInv == Init => HInv
<1> SUFFICES ASSUME Init PROVE HInv
  OBVIOUS
<1>1. Unstarted
  BY DEF Init, Unstarted
<1>2. \A t \in Trips : InOrder(t)
  BY NoTripAssumption DEF Init, InOrder, IdleLoop
<1>3. ASSUME NEW e \in Elevators PROVE Bound(e)
  <2>1. Cutting(e) \in SUBSET Trips /\ Clearing(e) \in SUBSET Trips
    BY DEF Cutting, Clearing
  <2>2. Cardinality(Cutting(e)) \in Nat /\ Cardinality(Clearing(e)) \in Nat
    BY <2>1, CardinalityGrows
  <2>3. history[e] = 0
    BY DEF Init
  <2>4. 0 <= MaxHistory + Cardinality(Cutting(e)) + Cardinality(Clearing(e))
    BY <2>2, MaxHistoryAssumption
  <2>5. QED BY <2>3, <2>4 DEF Bound
<1>4. QED BY <1>1, <1>2, <1>3 DEF HInv, Regular, Init, IdleLoop

(* A trip that has not begun has no arrival handler.                        *)
LEMMA UnstartedStep ==
    ASSUME IInv, IInv', Unstarted, [Next]_vars
    PROVE  Unstarted'
<1> SUFFICES ASSUME NEW t \in Trips, data'[t].name = "none" PROVE arrived'[t] = "none"
  BY DEF Unstarted
<1> USE TypeParts DEF IInv
<1>1. CASE UNCHANGED arrived /\ data'[t] = data[t]
  BY <1>1 DEF Unstarted
<1>2. ASSUME NEW u \in Trips, NEW e \in Elevators, NEW from \in Floor, NEW to \in Floor,
             Publish(u, e, from, to)
      PROVE  arrived'[t] = "none"
  <2>1. UNCHANGED arrived /\ data'[t] = data[t]
    BY <1>2 DEF Publish
  <2>2. QED BY <1>1, <2>1
<1>3. ASSUME NEW u \in Trips, NEW e \in Elevators, AddStop(u, e) PROVE arrived'[t] = "none"
  <2>1. UNCHANGED arrived /\ (u # t => data'[t] = data[t])
    BY <1>3 DEF AddStop, handlers
  <2>2. u # t
    BY <1>3 DEF AddStop, JobData
  <2>3. QED BY <1>1, <2>1, <2>2
<1>4. ASSUME NEW u \in Trips, ArrivedHandler(u) \/ ArrivedHandlerFault(u)
      PROVE  arrived'[t] = "none"
  BY <1>4 DEF ArrivedHandler, ArrivedHandlerFault, ArrivalStep, Unstarted
<1>5. ASSUME NEW l \in Loops, Worker(l) PROVE arrived'[t] = "none"
  <2>1. CASE Complete(l)
    <3>1. loop[l].pc = "arrived" /\ arrived' = [arrived EXCEPT ![loop[l].job] = "untrack"]
      BY <2>1 DEF Complete, LoopStep
    <3>2. data[loop[l].job].name # "none" /\ UNCHANGED data
      BY <1>5, <3>1, AtWork, WorkerFrame
    <3>3. QED BY <3>1, <3>2 DEF Unstarted
  <2>2. CASE ~Complete(l)
    <3>1. UNCHANGED <<arrived, data>>
      BY <1>5, <2>2 DEF Worker, TakeJob, Travel, Arrive, EmergencyStop, Completed, NotCompleted,
         Rejected, NotRejected
    <3>2. QED BY <1>1, <3>1
  <2>3. QED BY <2>1, <2>2
<1>6. ASSUME NEW l \in Loops, WorkerFault(l) PROVE arrived'[t] = "none"
  BY <1>1, <1>6 DEF WorkerFault, handlers
<1>7. CASE Crash
  <2>1. arrived'[t] = Over(arrived[t]) /\ data'[t] = data[t]
    BY <1>7 DEF Crash
  <2>2. QED BY <2>1 DEF Over, Unstarted
<1>8. ASSUME NEW u \in Trips,
             \/ MovingHandler(u) \/ MovingHandlerFault(u)
             \/ Promote(u) \/ LockExpires(u) \/ RenewalFault(u) \/ Stalled(u)
      PROVE  arrived'[t] = "none"
  BY <1>1, <1>8 DEF MovingHandler, MovingHandlerFault, Promote, LockExpires, RenewalFault, Stalled,
     handlers
<1>9. ASSUME NEW e \in Elevators, DoorsClose(e) \/ DoorsIdle(e) \/ ExpireKey(e)
      PROVE  arrived'[t] = "none"
  BY <1>1, <1>9 DEF DoorsClose, DoorsIdle, ExpireKey, handlers
<1>10. CASE UNCHANGED vars
  BY <1>1, <1>10 DEF vars, handlers
<1>11. CASE Next
  BY <1>11, <1>2, <1>3, <1>4, <1>5, <1>6, <1>7, <1>8, <1>9 DEF Next, Step, Failure
<1>12. QED BY <1>10, <1>11

LEMMA RegularStep ==
    ASSUME IInv, IInv', Unstarted, Regular, faults' = 0, [Next]_vars
    PROVE  Regular'
<1>1. ASSUME NEW t \in Trips, NEW e \in Elevators, NEW from \in Floor, NEW to \in Floor,
             Publish(t, e, from, to)
      PROVE  Regular'
  BY <1>1, PublishOrder
<1>2. ASSUME NEW t \in Trips, NEW e \in Elevators, AddStop(t, e) PROVE Regular'
  BY <1>2, AddStopOrder
<1>3. ASSUME NEW t \in Trips, MovingHandler(t) \/ ArrivedHandler(t) PROVE Regular'
  BY <1>3, MovingHandlerOrder, ArrivedHandlerOrder
<1>4. ASSUME NEW t \in Trips PROVE ~Promote(t) /\ ~LockExpires(t) /\ ~Stalled(t)
  BY DEF Promote, LockExpires, InNoLoop, Stalled, Regular, InOrder
<1>5. ASSUME NEW l \in Loops, Worker(l) PROVE Regular'
  BY <1>5, WorkerOrder
<1>6. ~Failure
  BY TypeParts DEF IInv, Failure, MovingHandlerFault, ArrivedHandlerFault, RenewalFault,
     WorkerFault, Crash, Fault
<1>7. CASE UNCHANGED <<history, data, moving, arrived, job, loop, reports>>
  BY <1>7, SameBounds, SameOrder
<1>8. ASSUME NEW e \in Elevators, DoorsClose(e) \/ DoorsIdle(e) \/ ExpireKey(e) PROVE Regular'
  BY <1>7, <1>8 DEF DoorsClose, DoorsIdle, ExpireKey, records, bull, handlers
<1>9. CASE UNCHANGED vars
  BY <1>7, <1>9 DEF vars, records, bull, handlers
<1>10. CASE Next
  BY <1>10, <1>1, <1>2, <1>3, <1>4, <1>5, <1>6, <1>8 DEF Next, Step
<1>11. QED BY <1>9, <1>10

(* Failures are only ever counted up.                                       *)
LEMMA FaultsGrow ==
    ASSUME TypeOK, [Next]_vars, faults' = 0
    PROVE  faults = 0
<1>1. CASE Failure
  <2>1. faults' = faults + 1
    BY <1>1 DEF Failure, MovingHandlerFault, ArrivedHandlerFault, RenewalFault, WorkerFault, Crash,
       Fault
  <2>2. QED BY <2>1, TypeParts
<1>2. CASE Step
  BY <1>2 DEF Step, MovingHandler, ArrivedHandler, Promote, LockExpires, Stalled, Worker,
     DoorsClose, DoorsIdle
<1>3. ASSUME NEW t \in Trips, NEW e \in Elevators, NEW from \in Floor, NEW to \in Floor,
             Publish(t, e, from, to)
      PROVE  faults = 0
  BY <1>3 DEF Publish
<1>4. ASSUME NEW t \in Trips, NEW e \in Elevators, AddStop(t, e) PROVE faults = 0
  BY <1>4 DEF AddStop
<1>5. ASSUME NEW e \in Elevators, ExpireKey(e) PROVE faults = 0
  BY <1>5 DEF ExpireKey
<1>6. CASE UNCHANGED vars
  BY <1>6 DEF vars
<1>7. QED BY <1>1, <1>2, <1>3, <1>4, <1>5, <1>6 DEF Next

LEMMA HStep == IInv /\ IInv' /\ HInv /\ [Next]_vars => HInv'
<1> SUFFICES ASSUME IInv, IInv', HInv, [Next]_vars PROVE HInv'
  OBVIOUS
<1>1. Unstarted'
  BY UnstartedStep DEF HInv
<1>2. ASSUME faults' = 0 PROVE Regular'
  <2>1. faults = 0
    BY <1>2, FaultsGrow DEF IInv
  <2>2. QED BY <1>2, <2>1, RegularStep DEF HInv
<1>3. QED BY <1>1, <1>2 DEF HInv

(* recordMovement: without failures, a history never holds more records     *)
(* than the bound and those whose cut is still to come, however many        *)
(* departures and arrivals of an elevator overlap.                          *)
THEOREM HistoryTrimmed == Spec => []HistoryIsTrimmed
<1>1. HInv => HistoryIsTrimmed
  BY DEF HInv, Regular, Bound, Cutting, Clearing, HistoryIsTrimmed
<1>2. QED BY <1>1, Invariance, InitHInv, HStep, PTL DEF Spec

(* completeMovement: a completed move has published its arrival; without    *)
(* failures once, and whatever fails at most once for each of the three     *)
(* attempts of each worker the job was given to, also when a success is not *)
(* recorded and the job retried, or a second worker runs beside the first.  *)
THEOREM ArrivalsReported == Spec => []ArrivalIsReported
<1>1. ASSUME IInv, HInv PROVE ArrivalIsReported
  <2> SUFFICES ASSUME NEW t \in Trips
               PROVE  /\ job[t].status = "completed" /\ data[t].name = "move" => reports[t] > 0
                      /\ reports[t] <= Attempts * (1 + job[t].stalled)
                      /\ faults = 0 => reports[t] <= 1
    BY DEF ArrivalIsReported
  <2>1. ReportOk(t) /\ job[t] \in Job /\ reports[t] \in Nat
    BY <1>1, TypeParts DEF IInv, TripOk
  <2>2. Ahead(job[t]) \in Nat /\ Budget(job[t]) \in Nat
    BY <2>1, AheadType
  <2>3. reports[t] + Ahead(job[t]) <= Budget(job[t])
    BY <2>1 DEF ReportOk, WithinBudget
  <2>4. reports[t] <= Budget(job[t])
    BY <2>1, <2>2, <2>3
  <2>5. faults = 0 => reports[t] <= 1
    BY <1>1 DEF HInv, Regular, InOrder
  <2>6. QED BY <2>1, <2>4, <2>5 DEF ReportOk, Budget
<1>2. QED BY <1>1, Invariance, InitHInv, HStep, PTL DEF Spec

(* A set in which no three elements differ, and one in which no two do.     *)
LEMMA AtMostTwo ==
    ASSUME NEW S, \A a, b, c \in S : a # b /\ b # c => a = c
    PROVE  /\ Cardinality(S) <= 2
           /\ (\A a, b \in S : a = b) => Cardinality(S) <= 1
<1>1. CASE S = {}
  BY <1>1, FS_EmptySet
<1>2. CASE \E a \in S : S = {a}
  <2>1. PICK a \in S : S = {a}
    BY <1>2
  <2>2. Cardinality(S) = 1
    BY <2>1, FS_Singleton
  <2>3. QED BY <2>2
<1>3. CASE \E a, b \in S : a # b
  <2>1. PICK a \in S, b \in S : a # b
    BY <1>3
  <2>2. S = {a} \cup {b}
    BY <2>1
  <2>3. IsFiniteSet({a}) /\ Cardinality({a}) = 1 /\ b \notin {a}
    BY <2>1, FS_Singleton
  <2>4. Cardinality({a} \cup {b}) = 2
    BY <2>3, FS_AddElement
  <2>5. QED BY <2>1, <2>2, <2>4
<1>4. QED BY <1>1, <1>2, <1>3

(* Bull's list and the loops of the processor: a job waits in one place and *)
(* runs in one loop without failures; a job that has lost its lock may run  *)
(* in two, never in three, whatever fails.                                  *)
THEOREM OneWorker == Spec => []OneWorkerPerJob
<1>1. ASSUME IInv, HInv PROVE OneWorkerPerJob
  <2>1. ListOk
    BY <1>1 DEF IInv
  <2>2. ASSUME NEW t \in Trips
        PROVE  /\ Cardinality(Running(t)) <= 1 + job[t].stalled
               /\ faults = 0 => Cardinality(Running(t)) <= 1
    <3>1. RunsOk(t) /\ job[t].stalled \in Nat /\ job[t].stalled <= 1
      BY <1>1, TripFields DEF IInv, TripOk, RunsOk, MaxStalled
    <3>2. \A l, m, n \in Running(t) : l # m /\ m # n => l = n
      BY <3>1 DEF Running, RunsOk, Both, Runs
    <3>3. job[t].stalled = 0 => \A l, m \in Running(t) : l = m
      BY <3>1 DEF Running, RunsOk, Both, Runs
    <3>4. /\ Cardinality(Running(t)) <= 2
          /\ job[t].stalled = 0 => Cardinality(Running(t)) <= 1
      BY <3>2, <3>3, AtMostTwo
    <3>5. job[t].stalled \in {0, 1}
      BY <3>1
    <3>6. faults = 0 => job[t].stalled = 0
      BY <1>1 DEF HInv, Regular, InOrder
    <3>7. QED BY <3>4, <3>5, <3>6
  <2>3. QED BY <2>1, <2>2 DEF OneWorkerPerJob, ListOk
<1>2. QED BY <1>1, Invariance, InitHInv, HStep, PTL DEF Spec

=============================================================================
