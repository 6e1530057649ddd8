------------------------- MODULE CallElevatorProofs -------------------------
(***************************************************************************)
(* Theorems about CallElevator.  All hold for any number of requests,      *)
(* elevators, floors and failures, and for every interleaving of the       *)
(* handlers' awaits.                                                       *)
(***************************************************************************)
EXTENDS CallElevator, ElevatorDomainProofs

(* The phases of a handler, by what is already done.                        *)
Rebuilt == {"seed", "history"}      \* the aggregate is rebuilt, not yet called
Saving  == {"upsert", "hash"}       \* the aggregate is being saved
Logging == {"sequence", "insert"}   \* its events are being saved
Early   == {"absent", "keys", "hashes", "default", "fallback", "find", "create"}
              \cup Rebuilt \cup Saving
Rowed   == Rebuilt \cup Saving \cup Logging \cup {"answered"}
Placed  == {"default", "fallback", "find", "create"} \cup Rowed

(* The events of one call: Called, then perhaps Moving.                     *)
Shape(es) == /\ Len(es) \in 1 .. 2
             /\ es[1].type = "Called"
             /\ Len(es) = 2 => es[2].type = "Moving"

LocalsGood(v) ==
    /\ v.phase \in Placed => v.elev \in Elevators
    /\ v.phase \in Rebuilt => \E f \in Floor, s \in State : v.agg = Rehydrated(f, s)
    /\ v.phase \in Saving =>
         IF v.kind = "call" THEN Shape(v.agg.events) ELSE v.agg.events = <<>>
    /\ v.phase \in Logging => Shape(v.agg.events) /\ v.stored < Len(v.agg.events)
    /\ v.phase \in Early => v.stored = 0 /\ ~v.cached

LocalsOk(r) == LocalsGood(req[r])

CalledRow(r) == \E x \in log[req[r].elev] : x.type = "Called" /\ x.by = r

RowsOk(r) ==
    /\ \A e \in Elevators : \A x \in log[e] :
         x.by = r => e = req[r].elev /\ req[r].phase \notin Early
    /\ req[r].phase \in Logging =>
         /\ \A x \in log[req[r].elev] : x.by = r => req[r].stored = 1 /\ x.type = "Called"
         /\ req[r].stored = 1 => CalledRow(r)
    /\ req[r].phase = "insert" =>
         /\ req[r].seq # 0
         /\ \A x \in log[req[r].elev] : x.by = r => x.seq < req[r].seq
         /\ \A s \in 1 .. req[r].seq - 1 : \E y \in log[req[r].elev] : y.seq = s
    /\ Answered(r) /\ req[r].kind = "call" => CalledRow(r)

(* The hashes c that a handler with locals v can count on: those it listed, *)
(* that of the elevator a call was assigned, that which it wrote itself.    *)
HashGood(v, c) ==
    /\ v.phase = "hashes" => \A e \in v.keys : c[e] # Nothing
    /\ v.kind = "call" /\ v.phase \in {"find", "create"} \cup Rowed => c[v.elev] # Nothing
    /\ v.cached /\ v.phase \in Rowed => c[v.elev] # Nothing

StoresOk(r) ==
    /\ req[r].phase \in Rowed => db[req[r].elev] # Nothing
    /\ HashGood(req[r], cache)

(* The inductive invariant.  A number read is one above rows that are still *)
(* there when it is used, so an insert can repeat a number but never skip   *)
(* one; the numbers of one request grow because each is read after the row  *)
(* before was inserted.                                                     *)
IInv ==
    /\ TypeOK
    /\ \A r \in Requests : LocalsOk(r) /\ RowsOk(r) /\ StoresOk(r)
    /\ LogHasNoGaps
    /\ OwnEventsInOrder

LEMMA FreshRowType == FreshRow \in Row /\ FreshRow # Nothing
BY MaxFloorAssumption, NothingAssumption DEF FreshRow, Row, Floor, State, Direction

LEMMA RowOfType ==
    ASSUME NEW a \in Aggregate
    PROVE  RowOf(a) \in Row /\ RowOf(a) # Nothing
BY NothingAssumption DEF RowOf, Row, StoredTarget, Aggregate

LEMMA RehydratedType ==
    ASSUME NEW f \in Floor, NEW s \in State
    PROVE  Rehydrated(f, s) \in Aggregate
BY DEF Rehydrated, Aggregate, Direction

LEMMA CommittedType ==
    ASSUME NEW a \in Aggregate
    PROVE  WithEventsCommitted(a) \in Aggregate /\ WithEventsCommitted(a).events = <<>>
<1>1. <<>> \in Seq(Event)
  OBVIOUS
<1>2. QED BY <1>1 DEF WithEventsCommitted, Aggregate

LEMMA InitInv == Init => IInv
<1> SUFFICES ASSUME Init PROVE IInv
  OBVIOUS
<1>1. Created(0) \in Aggregate
  BY MaxFloorAssumption, RehydratedType DEF Created, Floor, State
<1>2. /\ NewRequest \in Request /\ NewRequest.phase = "absent" /\ NewRequest.stored = 0
      /\ NewRequest.cached = FALSE
  BY <1>1, MaxFloorAssumption DEF NewRequest, Request, Phase, Resting, Floor
<1>3. TypeOK
  BY <1>2 DEF Init, TypeOK
<1>4. ASSUME NEW r \in Requests PROVE LocalsOk(r) /\ RowsOk(r) /\ StoresOk(r)
  BY <1>2 DEF Init, LocalsOk, LocalsGood, RowsOk, StoresOk, HashGood, Answered, Placed, Rowed,
     Rebuilt, Saving, Logging, Early
<1>5. LogHasNoGaps /\ OwnEventsInOrder
  BY DEF Init, LogHasNoGaps, OwnEventsInOrder
<1>6. QED BY <1>3, <1>4, <1>5 DEF IInv

-----------------------------------------------------------------------------
(* What a step of another request may do to the stores without disturbing   *)
(* q: rows and hashes do not disappear, and no event is logged in q's name. *)
Respects(q) ==
    /\ req'[q] = req[q]
    /\ \A e \in Elevators : /\ db[e] # Nothing => db'[e] # Nothing
                            /\ cache[e] # Nothing => cache'[e] # Nothing
                            /\ log[e] \subseteq log'[e]
                            /\ \A x \in log'[e] : x.by = q => x \in log[e]

LEMMA Undisturbed ==
    ASSUME NEW q \in Requests, IInv, Respects(q)
    PROVE  LocalsOk(q)' /\ RowsOk(q)' /\ StoresOk(q)'
<1>1. LocalsOk(q) /\ RowsOk(q) /\ StoresOk(q)
  BY DEF IInv
<1>2. LocalsOk(q)'
  BY <1>1 DEF Respects, LocalsOk
<1>3. req[q].phase \in Rowed => req[q].elev \in Elevators
  BY <1>1 DEF LocalsOk, LocalsGood, Placed
<1>4. StoresOk(q)'
  <2>1. req[q] \in Request /\ req'[q] = req[q]
    BY DEF IInv, TypeOK, Respects
  <2>2. req[q].keys \subseteq Elevators
    BY <2>1 DEF Request
  <2>3. req[q].phase \in {"find", "create"} => req[q].elev \in Elevators
    BY <1>1 DEF LocalsOk, LocalsGood, Placed
  <2>4. HashGood(req[q], cache)'
    BY <1>1, <1>3, <2>1, <2>2, <2>3 DEF Respects, StoresOk, HashGood
  <2>5. req[q].phase \in Rowed => db'[req[q].elev] # Nothing
    BY <1>1, <1>3 DEF Respects, StoresOk
  <2>6. QED BY <2>1, <2>4, <2>5 DEF StoresOk
<1>5. RowsOk(q)'
  <2>1. ASSUME NEW e \in Elevators, NEW x \in log'[e], x.by = q
        PROVE  e = req'[q].elev /\ req'[q].phase \notin Early
    BY <1>1, <2>1 DEF Respects, RowsOk
  <2>2. ASSUME req'[q].phase \in Logging
        PROVE  /\ \A x \in log'[req'[q].elev] : x.by = q => req'[q].stored = 1 /\ x.type = "Called"
               /\ req'[q].stored = 1 => CalledRow(q)'
    BY <1>1, <1>3, <2>2 DEF Respects, RowsOk, CalledRow, Rowed
  <2>3. ASSUME req'[q].phase = "insert"
        PROVE  /\ req'[q].seq # 0
               /\ \A x \in log'[req'[q].elev] : x.by = q => x.seq < req'[q].seq
               /\ \A s \in 1 .. req'[q].seq - 1 : \E y \in log'[req'[q].elev] : y.seq = s
    BY <1>1, <1>3, <2>3 DEF Respects, RowsOk, Rowed, Logging
  <2>4. ASSUME Answered(q)', req'[q].kind = "call" PROVE CalledRow(q)'
    BY <1>1, <1>3, <2>4 DEF Respects, RowsOk, CalledRow, Rowed, Answered
  <2>5. QED BY <2>1, <2>2, <2>3, <2>4 DEF RowsOk
<1>6. QED BY <1>2, <1>4, <1>5

(* A step that logs nothing preserves the invariant if it respects the      *)
(* others and leaves the request that takes it in order.                    *)
Steps(r) ==
    /\ \A q \in Requests \ {r} : req'[q] = req[q]
    /\ \A e \in Elevators : /\ db[e] # Nothing => db'[e] # Nothing
                            /\ cache[e] # Nothing => cache'[e] # Nothing
    /\ log' = log

LEMMA QuietStep ==
    ASSUME NEW r \in Requests, IInv, TypeOK', Steps(r),
           LocalsOk(r)', RowsOk(r)', StoresOk(r)'
    PROVE  IInv'
<1>1. ASSUME NEW q \in Requests, q # r PROVE LocalsOk(q)' /\ RowsOk(q)' /\ StoresOk(q)'
  <2>1. Respects(q)
    BY <1>1 DEF Respects, Steps
  <2>2. QED BY <2>1, Undisturbed
<1>2. LogHasNoGaps' /\ OwnEventsInOrder'
  BY DEF IInv, Steps, LogHasNoGaps, OwnEventsInOrder
<1>3. QED BY <1>1, <1>2 DEF IInv

(* Before its first event, and after it was given up, a request has no rows *)
(* to account for.                                                          *)
LEMMA QuietRows ==
    ASSUME NEW r \in Requests, IInv, log' = log,
           \/ req[r].phase \in Early /\ req'[r].phase \in Early \cup {"failed", "lost"}
           \/ /\ req[r].phase \in Early /\ req'[r].phase = "sequence"
              /\ req'[r].stored = 0 /\ req'[r].elev \in Elevators
           \/ req[r].phase \in Early /\ req'[r].phase = "answered" /\ req'[r].kind # "call"
           \/ req'[r].phase \in {"failed", "lost"} /\ req'[r].elev = req[r].elev
    PROVE  RowsOk(r)'
<1> USE DEF Early, Rebuilt, Saving, Logging
<1>1. RowsOk(r)
  BY DEF IInv
<1>2. \A e \in Elevators : \A x \in log'[e] :
         x.by = r => e = req'[r].elev /\ req'[r].phase \notin Early
  BY <1>1 DEF RowsOk
<1>3. ASSUME req'[r].phase \in Logging
      PROVE  /\ \A x \in log'[req'[r].elev] : x.by = r => req'[r].stored = 1 /\ x.type = "Called"
             /\ req'[r].stored = 1 => CalledRow(r)'
  <2>1. /\ req[r].phase \in Early /\ req'[r].phase = "sequence"
        /\ req'[r].stored = 0 /\ req'[r].elev \in Elevators
    BY <1>3
  <2>2. \A x \in log'[req'[r].elev] : x.by # r
    BY <1>1, <2>1 DEF RowsOk
  <2>3. QED BY <2>1, <2>2
<1>4. req'[r].phase # "insert" /\ ~(Answered(r)' /\ req'[r].kind = "call")
  BY DEF Answered
<1>5. QED BY <1>2, <1>3, <1>4 DEF RowsOk

(* The type of the requests after one of them took a step.                  *)
LEMMA ReqType ==
    ASSUME req \in [Requests -> Request], NEW r \in Requests,
           NEW v \in Request, req' = [req EXCEPT ![r] = v]
    PROVE  /\ req' \in [Requests -> Request]
           /\ req'[r] = v
           /\ \A q \in Requests \ {r} : req'[q] = req[q]
OBVIOUS

LEMMA TypeParts ==
    ASSUME IInv
    PROVE  /\ db    \in [Elevators -> Row \cup {Nothing}]
           /\ cache \in [Elevators -> Row \cup {Nothing}]
           /\ log   \in [Elevators -> SUBSET LogRow]
           /\ published \subseteq [type : {"Called", "Moving", "Arrived"}, by : Requests]
           /\ req   \in [Requests -> Request]
           /\ met   \in [Requests -> SUBSET Requests]
           /\ faults \in Nat
BY DEF IInv, TypeOK

LEMMA ReqFields ==
    ASSUME IInv, NEW r \in Requests
    PROVE  /\ req[r] \in Request
           /\ req[r].agg \in Aggregate
           /\ LocalsOk(r) /\ RowsOk(r) /\ StoresOk(r)
BY TypeParts DEF IInv, Request

(* What a handler counts on stays while it goes on with the same elevator.  *)
LEMMA HashKept ==
    ASSUME IInv, NEW r \in Requests, NEW v \in Request,
           req[r].phase \in {"find", "create"} \cup Rowed, v.phase # "hashes",
           v.elev = req[r].elev, v.kind = req[r].kind, v.cached = req[r].cached,
           \A e \in Elevators : cache[e] # Nothing => cache'[e] # Nothing
    PROVE  HashGood(v, cache')
<1>1. LocalsOk(r) /\ HashGood(req[r], cache)
  BY ReqFields DEF StoresOk
<1>2. req[r].elev \in Elevators
  BY <1>1 DEF LocalsOk, LocalsGood, Placed
<1>3. req[r].cached => req[r].phase \in Rowed
  BY <1>1 DEF LocalsOk, LocalsGood, Early
<1>4. QED BY <1>1, <1>2, <1>3 DEF HashGood

(* A step of one handler that logs no event, in terms of its locals v.      *)
LEMMA QuietBecomes ==
    ASSUME IInv, NEW r \in Requests, NEW v \in Request, Becomes(r, v), LocalsGood(v),
           UNCHANGED <<log, published>>,
           db' \in [Elevators -> Row \cup {Nothing}],
           cache' \in [Elevators -> Row \cup {Nothing}],
           met' \in [Requests -> SUBSET Requests], faults' \in Nat,
           \A e \in Elevators : /\ db[e] # Nothing => db'[e] # Nothing
                                /\ cache[e] # Nothing => cache'[e] # Nothing,
           v.phase \in Rowed => db'[v.elev] # Nothing,
           HashGood(v, cache'),
           \/ req[r].phase \in Early /\ v.phase \in Early \cup {"failed"}
           \/ req[r].phase \in Early /\ v.phase = "sequence" /\ v.stored = 0
           \/ req[r].phase \in Early /\ v.phase = "answered" /\ v.kind # "call"
           \/ v.phase = "failed" /\ v.elev = req[r].elev
    PROVE  IInv'
<1>1. /\ req' \in [Requests -> Request] /\ req'[r] = v
      /\ \A q \in Requests \ {r} : req'[q] = req[q]
  BY TypeParts, ReqType DEF Becomes
<1>2. TypeOK' /\ Steps(r)
  BY <1>1, TypeParts DEF TypeOK, Steps
<1>3. LocalsOk(r)' /\ StoresOk(r)'
  BY <1>1 DEF LocalsOk, StoresOk
<1>4. v.phase = "sequence" => v.elev \in Elevators
  BY DEF LocalsGood, Placed, Rowed, Logging
<1>5. RowsOk(r)'
  BY <1>1, <1>4, QuietRows
<1>6. QED BY <1>2, <1>3, <1>5, QuietStep

LEMMA FailsStep ==
    ASSUME IInv, NEW r \in Requests, Fails(r), UNCHANGED <<db, cache, log, published, met>>,
           faults' \in Nat
    PROVE  IInv'
<1> DEFINE v == [req[r] EXCEPT !.phase = "failed"]
<1>1. /\ v \in Request /\ v.phase = "failed" /\ v.elev = req[r].elev
  BY ReqFields DEF Request, Phase, Resting
<1>2. Becomes(r, v)
  BY DEF Fails
<1> HIDE DEF v
<1>3. LocalsGood(v)
  BY <1>1 DEF LocalsGood, Placed, Rowed, Rebuilt, Saving, Logging, Early
<1>4. v.phase \notin Rowed /\ HashGood(v, cache')
  BY <1>1 DEF HashGood, Rowed, Rebuilt, Saving, Logging
<1>5. QED BY <1>1, <1>2, <1>3, <1>4, TypeParts, QuietBecomes

(* Moves within the phases before the aggregate is rebuilt.                 *)
LEMMA EarlyStep ==
    ASSUME IInv, NEW r \in Requests, NEW v \in Request, Becomes(r, v),
           UNCHANGED <<db, log, published>>,
           met' \in [Requests -> SUBSET Requests], faults' \in Nat,
           cache' \in [Elevators -> Row \cup {Nothing}],
           \A e \in Elevators : cache[e] # Nothing => cache'[e] # Nothing,
           req[r].phase \in Early, v.stored = req[r].stored, v.cached = req[r].cached,
           v.phase \in {"keys", "hashes", "default", "fallback", "find", "create"},
           v.phase \notin {"keys", "hashes"} => v.elev \in Elevators,
           v.phase = "hashes" => \A e \in v.keys : cache'[e] # Nothing,
           v.phase \in {"find", "create"} /\ v.kind = "call" => cache'[v.elev] # Nothing
    PROVE  IInv'
<1>1. v.stored = 0 /\ ~v.cached
  BY ReqFields DEF LocalsOk, LocalsGood
<1>2. LocalsGood(v)
  BY <1>1 DEF LocalsGood, Placed, Rowed, Rebuilt, Saving, Logging, Early
<1>3. v.phase \notin Rowed /\ v.phase \in Early
  BY DEF Rowed, Rebuilt, Saving, Logging, Early
<1>4. HashGood(v, cache')
  BY <1>1, <1>3 DEF HashGood
<1>5. QED BY <1>4, <1>2, <1>3, TypeParts, QuietBecomes

LEMMA ReceiveStep ==
    ASSUME IInv, NEW r \in Requests, Receive(r)
    PROVE  IInv'
<1>0. met' \in [Requests -> SUBSET Requests]
  <2>1. Meets(r) /\ InFlight \subseteq Requests
    BY DEF Receive, ReceiveCall, ReceiveInitialize, InFlight
  <2>2. \A s \in Requests : (IF s = r THEN InFlight
                            ELSE IF s \in InFlight THEN met[s] \cup {r} ELSE met[s])
                           \in SUBSET Requests
    BY <2>1, TypeParts
  <2>3. QED BY <2>1, <2>2 DEF Meets
<1>1. CASE ReceiveCall(r)
  <2>1. /\ req[r].phase = "absent" /\ UNCHANGED <<db, cache, log, published, faults>>
    BY <1>1 DEF ReceiveCall, At
  <2>2. ASSUME NEW from \in Floor, NEW to \in Floor,
               Becomes(r, [req[r] EXCEPT !.from = from, !.to = to, !.phase = "keys"])
        PROVE  IInv'
    <3> DEFINE v == [req[r] EXCEPT !.from = from, !.to = to, !.phase = "keys"]
    <3>1. /\ v \in Request /\ v.phase = "keys" /\ v.stored = req[r].stored
          /\ v.cached = req[r].cached
      BY ReqFields DEF Request, Phase
    <3> HIDE DEF v
    <3>2. Becomes(r, v)
      BY <2>2 DEF v
    <3>3. QED BY <1>0, <2>1, <3>1, <3>2, TypeParts, EarlyStep DEF Early
  <2>3. QED BY <1>1, <2>2 DEF ReceiveCall
<1>2. CASE ReceiveInitialize(r)
  <2>1. /\ req[r].phase = "absent" /\ UNCHANGED <<db, cache, log, published, faults>>
    BY <1>2 DEF ReceiveInitialize, At
  <2>2. ASSUME NEW f \in Floor, NEW e \in FreshId,
               Becomes(r, [req[r] EXCEPT !.kind = "initialize", !.from = f, !.to = f,
                                         !.elev = e, !.phase = "find"])
        PROVE  IInv'
    <3> DEFINE v == [req[r] EXCEPT !.kind = "initialize", !.from = f, !.to = f,
                                   !.elev = e, !.phase = "find"]
    <3>1. e \in Elevators
      BY DEF FreshId
    <3>2. /\ v \in Request /\ v.phase = "find" /\ v.stored = req[r].stored /\ v.elev = e
          /\ v.cached = req[r].cached /\ v.kind = "initialize"
      BY <3>1, ReqFields DEF Request, Phase
    <3> HIDE DEF v
    <3>3. Becomes(r, v)
      BY <2>2 DEF v
    <3>4. QED BY <1>0, <2>1, <3>1, <3>2, <3>3, TypeParts, EarlyStep DEF Early
  <2>3. QED BY <1>2, <2>2 DEF ReceiveInitialize
<1>3. QED BY <1>1, <1>2 DEF Receive

(* A failure counts one more; a step without one counts none.               *)
LEMMA FaultsGrow ==
    ASSUME IInv, Fault \/ faults' = faults
    PROVE  faults' \in Nat
BY TypeParts DEF Fault

LEMMA AssignmentStep ==
    ASSUME IInv, NEW r \in Requests,
           ListKeys(r) \/ ReadHashes(r) \/ WriteNewHash(r) \/ AssignmentFault(r),
           UNCHANGED met
    PROVE  IInv'
<1>1. ASSUME NEW e \in Elevators, NEW p \in {"default", "fallback", "find"},
             Becomes(r, [req[r] EXCEPT !.elev = e, !.phase = p]),
             UNCHANGED <<db, cache, log, published>>, Fault \/ faults' = faults,
             req[r].phase \in Early, p = "find" => cache[e] # Nothing
      PROVE  IInv'
  <2> DEFINE v == [req[r] EXCEPT !.elev = e, !.phase = p]
  <2>1. /\ v \in Request /\ v.phase = p /\ v.stored = req[r].stored /\ v.elev = e
        /\ v.cached = req[r].cached
    BY ReqFields DEF Request, Phase
  <2> HIDE DEF v
  <2>2. Becomes(r, v)
    BY <1>1 DEF v
  <2>3. QED BY <1>1, <2>1, <2>2, TypeParts, FaultsGrow, EarlyStep
<1>2. CASE ListKeys(r)
  <2>1. req[r].phase = "keys" /\ UNCHANGED <<db, cache, log, published, faults>>
    BY <1>2 DEF ListKeys, At
  <2>2. CASE Becomes(r, [req[r] EXCEPT !.keys = Keys, !.phase = "hashes"])
    <3> DEFINE v == [req[r] EXCEPT !.keys = Keys, !.phase = "hashes"]
    <3>1. Keys \subseteq Elevators /\ \A e \in Keys : cache[e] # Nothing
      BY DEF Keys
    <3>2. /\ v \in Request /\ v.phase = "hashes" /\ v.stored = req[r].stored
          /\ v.cached = req[r].cached /\ v.keys = Keys
      <4> HIDE DEF Keys
      <4>1. QED BY <3>1, ReqFields DEF Request, Phase
    <3> HIDE DEF v
    <3>3. Becomes(r, v)
      BY <2>2 DEF v
    <3>4. QED BY <2>1, <3>1, <3>2, <3>3, TypeParts, EarlyStep DEF Early
  <2>3. ASSUME NEW e \in FreshId, Becomes(r, [req[r] EXCEPT !.elev = e, !.phase = "default"])
        PROVE  IInv'
    BY <1>1, <2>1, <2>3, ZenonT(40) DEF FreshId, Early
  <2>4. QED BY <1>2, <2>2, <2>3 DEF ListKeys
<1>3. CASE ReadHashes(r)
  <2>1. req[r].phase = "hashes" /\ UNCHANGED <<db, cache, log, published, faults>>
    BY <1>3 DEF ReadHashes, At
  <2>2. \A e \in Candidates(req[r].keys, req[r].from) : e \in Elevators /\ cache[e] # Nothing
    BY <2>1, ReqFields DEF Candidates, IdleAmong, Request, StoresOk, HashGood
  <2>3. QED BY <1>1, <1>3, <2>1, <2>2 DEF ReadHashes, Early
<1>4. CASE WriteNewHash(r)
  <2> DEFINE v == [req[r] EXCEPT !.phase = "find"]
  <2>1. /\ req[r].phase \in {"default", "fallback"} /\ UNCHANGED <<db, log, published, faults>>
        /\ cache' = [cache EXCEPT ![req[r].elev] = FreshRow]
        /\ Becomes(r, v)
    BY <1>4 DEF WriteNewHash, At
  <2>2. req[r].elev \in Elevators
    BY <2>1, ReqFields DEF LocalsOk, LocalsGood, Placed
  <2>3. /\ v \in Request /\ v.phase = "find" /\ v.stored = req[r].stored /\ v.elev = req[r].elev
        /\ v.cached = req[r].cached
    BY ReqFields DEF Request, Phase
  <2> HIDE DEF v
  <2>4. /\ cache' \in [Elevators -> Row \cup {Nothing}]
        /\ \A e \in Elevators : cache[e] # Nothing => cache'[e] # Nothing
        /\ cache'[req[r].elev] # Nothing
    BY <2>1, <2>2, TypeParts, FreshRowType
  <2>5. QED BY <2>1, <2>2, <2>3, <2>4, TypeParts, EarlyStep DEF Early
<1>5. CASE AssignmentFault(r)
  <2>1. Fault /\ UNCHANGED <<db, cache, log, published>>
    BY <1>5, ZenonT(40) DEF AssignmentFault
  <2>2. CASE /\ At(r, "keys") \/ At(r, "hashes") \/ At(r, "default")
             /\ \E e \in FreshId : Becomes(r, [req[r] EXCEPT !.elev = e, !.phase = "fallback"])
    BY <1>1, <2>1, <2>2 DEF FreshId, Early, At
  <2>3. CASE Fails(r)
    BY <2>1, <2>3, FaultsGrow, FailsStep
  <2>4. QED BY <1>5, <2>2, <2>3 DEF AssignmentFault
<1>6. QED BY <1>2, <1>3, <1>4, <1>5

LEMMA FindStep ==
    ASSUME IInv, NEW r \in Requests,
           FindRow(r) \/ CreateRow(r) \/ SeedHash(r) \/ LoadHistory(r),
           UNCHANGED met
    PROVE  IInv'
<1> USE DEF Early, Rebuilt, Saving, Logging
<1>1. CASE FindRow(r)
  <2> DEFINE row == db[req[r].elev]
  <2>1. req[r].phase = "find" /\ UNCHANGED <<db, cache, log, published, faults>>
    BY <1>1 DEF FindRow, At
  <2>2. req[r].elev \in Elevators /\ req[r].stored = 0 /\ ~req[r].cached
    BY <2>1, ReqFields DEF LocalsOk, LocalsGood, Placed
  <2>3. CASE Becomes(r, [req[r] EXCEPT !.phase = "create"])
    <3> DEFINE v == [req[r] EXCEPT !.phase = "create"]
    <3>1. /\ v \in Request /\ v.phase = "create" /\ v.stored = req[r].stored
          /\ v.elev = req[r].elev /\ v.kind = req[r].kind /\ v.cached = req[r].cached
      BY ReqFields DEF Request, Phase
    <3> HIDE DEF v
    <3>2. Becomes(r, v)
      BY <2>3 DEF v
    <3>3. v.kind = "call" => cache'[v.elev] # Nothing
      BY <2>1, <3>1, ReqFields DEF StoresOk, HashGood
    <3>4. QED BY <2>1, <2>2, <3>1, <3>2, <3>3, TypeParts, EarlyStep
  <2>4. CASE /\ row # Nothing
             /\ Becomes(r, [req[r] EXCEPT !.agg = Rehydrated(row.floor, row.state),
                                          !.phase = "history"])
    <3> DEFINE v == [req[r] EXCEPT !.agg = Rehydrated(row.floor, row.state), !.phase = "history"]
    <3>1. row.floor \in Floor /\ row.state \in State
      BY <2>2, <2>4, TypeParts DEF Row
    <3>2. Rehydrated(row.floor, row.state) \in Aggregate
      BY <3>1, RehydratedType
    <3>3. /\ v \in Request /\ v.phase = "history" /\ v.stored = 0 /\ v.elev = req[r].elev
          /\ v.agg = Rehydrated(row.floor, row.state)
          /\ v.kind = req[r].kind /\ v.cached = req[r].cached
      BY <2>2, <3>2, ReqFields DEF Request, Phase
    <3> HIDE DEF v
    <3>4. Becomes(r, v)
      BY <2>4 DEF v
    <3>5. LocalsGood(v)
      BY <2>2, <3>1, <3>3 DEF LocalsGood, Placed, Rowed
    <3>6. HashGood(v, cache')
      BY <2>1, <3>3, HashKept
    <3>7. QED BY <2>1, <2>4, <3>3, <3>4, <3>5, <3>6, TypeParts, QuietBecomes
  <2>5. QED BY <1>1, <2>3, <2>4 DEF FindRow
<1>2. CASE CreateRow(r)
  <2> DEFINE v == [req[r] EXCEPT !.agg = Created(0), !.phase = "seed"]
             new == [FreshRow EXCEPT !.target = db[req[r].elev].target]
  <2>1. req[r].phase = "create" /\ UNCHANGED <<cache, log, published, faults>>
    BY <1>2 DEF CreateRow, At
  <2>2. req[r].elev \in Elevators /\ req[r].stored = 0 /\ ~req[r].cached
    BY <2>1, ReqFields DEF LocalsOk, LocalsGood, Placed
  <2>3. Created(0) \in Aggregate /\ \E f \in Floor, s \in State : Created(0) = Rehydrated(f, s)
    BY MaxFloorAssumption, RehydratedType DEF Created, Floor, State
  <2>4. /\ v \in Request /\ v.phase = "seed" /\ v.stored = 0 /\ v.elev = req[r].elev
        /\ v.agg = Created(0) /\ v.kind = req[r].kind /\ v.cached = req[r].cached
    BY <2>2, <2>3, ReqFields DEF Request, Phase
  <2>5. db[req[r].elev] # Nothing => new \in Row /\ new # Nothing
    <3>1. db[req[r].elev] # Nothing => db[req[r].elev].target \in Floor \cup {NoFloor}
      BY <2>2, TypeParts DEF Row
    <3>2. QED BY <3>1, FreshRowType, NothingAssumption DEF Row
  <2> HIDE DEF v, new
  <2>6. LocalsGood(v)
    BY <2>2, <2>3, <2>4 DEF LocalsGood, Placed, Rowed
  <2>7. ASSUME NEW w \in Row, w # Nothing, db' = [db EXCEPT ![req[r].elev] = w], Becomes(r, v)
        PROVE  IInv'
    <3>1. /\ db' \in [Elevators -> Row \cup {Nothing}] /\ db'[v.elev] # Nothing
          /\ \A e \in Elevators : db[e] # Nothing => db'[e] # Nothing
      BY <2>2, <2>4, <2>7, TypeParts
    <3>2. HashGood(v, cache')
      BY <2>1, <2>4, HashKept
    <3>3. QED BY <2>1, <2>4, <2>6, <2>7, <3>1, <3>2, TypeParts, QuietBecomes
  <2>8. CASE db[req[r].elev] # Nothing /\ Fails(r) /\ UNCHANGED db
    BY <2>1, <2>8, TypeParts, FailsStep
  <2>9. QED BY <1>2, <2>5, <2>7, <2>8, FreshRowType DEF CreateRow, v, new
<1>3. CASE SeedHash(r)
  <2> DEFINE v == [req[r] EXCEPT !.phase = "history"]
  <2>1. /\ req[r].phase = "seed" /\ UNCHANGED <<db, log, published>> /\ Becomes(r, v)
        /\ Fault \/ faults' = faults
        /\ cache' = cache \/ cache' = [cache EXCEPT ![req[r].elev] = FreshRow]
    BY <1>3 DEF SeedHash, At
  <2>2. /\ req[r].elev \in Elevators /\ req[r].stored = 0 /\ ~req[r].cached
        /\ db[req[r].elev] # Nothing
    BY <2>1, ReqFields DEF LocalsOk, LocalsGood, Placed, Rowed, StoresOk
  <2>3. /\ v \in Request /\ v.phase = "history" /\ v.stored = 0 /\ v.elev = req[r].elev
        /\ v.agg = req[r].agg /\ v.kind = req[r].kind /\ v.cached = req[r].cached
    BY <2>2, ReqFields DEF Request, Phase
  <2> HIDE DEF v
  <2>4. LocalsGood(v)
    BY <2>1, <2>2, <2>3, ReqFields DEF LocalsOk, LocalsGood, Placed, Rowed
  <2>5. /\ cache' \in [Elevators -> Row \cup {Nothing}]
        /\ \A e \in Elevators : cache[e] # Nothing => cache'[e] # Nothing
    BY <2>1, TypeParts, FreshRowType
  <2>6. HashGood(v, cache')
    BY <2>1, <2>3, <2>5, HashKept DEF Rowed
  <2>7. QED BY <2>1, <2>2, <2>3, <2>4, <2>5, <2>6, FaultsGrow, TypeParts, QuietBecomes
<1>4. CASE LoadHistory(r)
  <2>1. req[r].phase = "history" /\ UNCHANGED <<db, cache, log, published, faults>>
    BY <1>4 DEF LoadHistory, At
  <2>2. /\ req[r].elev \in Elevators /\ req[r].stored = 0 /\ ~req[r].cached
        /\ db[req[r].elev] # Nothing
    BY <2>1, ReqFields DEF LocalsOk, LocalsGood, Placed, Rowed, StoresOk
  <2>3. PICK f \in Floor, s \in State : req[r].agg = Rehydrated(f, s)
    BY <2>1, ReqFields DEF LocalsOk, LocalsGood
  <2>4. ASSUME NEW v \in Request, Becomes(r, v), v.phase = "upsert", v.stored = 0,
               v.elev = req[r].elev, v.kind = req[r].kind, v.cached = req[r].cached,
               IF v.kind = "call" THEN Shape(v.agg.events) ELSE v.agg.events = <<>>
        PROVE  IInv'
    <3>1. LocalsGood(v)
      BY <2>2, <2>4 DEF LocalsGood, Placed, Rowed
    <3>2. HashGood(v, cache')
      BY <2>1, <2>4, HashKept DEF Rowed
    <3>3. QED BY <2>1, <2>2, <2>4, <3>1, <3>2, TypeParts, QuietBecomes
  <2>5. CASE req[r].kind = "initialize" /\ Becomes(r, [req[r] EXCEPT !.phase = "upsert"])
    <3> DEFINE v == [req[r] EXCEPT !.phase = "upsert"]
    <3>1. /\ v \in Request /\ v.phase = "upsert" /\ v.stored = 0 /\ v.elev = req[r].elev
          /\ v.kind = "initialize" /\ v.agg = req[r].agg /\ v.cached = req[r].cached
      BY <2>2, <2>5, ReqFields DEF Request, Phase
    <3> HIDE DEF v
    <3>2. v.agg.events = <<>>
      BY <2>3, <3>1 DEF Rehydrated
    <3>3. QED BY <2>4, <2>5, <3>1, <3>2 DEF v
  <2>6. CASE /\ req[r].kind = "call"
             /\ Becomes(r, [req[r] EXCEPT !.agg = WithCall(@, req[r].from, req[r].to),
                                          !.phase = "upsert"])
    <3> DEFINE b == WithCall(req[r].agg, req[r].from, req[r].to)
               v == [req[r] EXCEPT !.agg = b, !.phase = "upsert"]
    <3>1. req[r].from \in Floor /\ req[r].to \in Floor
      BY ReqFields DEF Request
    <3>2. b \in Aggregate /\ Shape(b.events)
      BY <2>3, <3>1, FirstCallEvents DEF Shape
    <3>3. Becomes(r, v)
      BY <2>6, ReqFields DEF Request
    <3> HIDE DEF b
    <3>4. /\ v \in Request /\ v.phase = "upsert" /\ v.stored = 0 /\ v.elev = req[r].elev
          /\ v.kind = "call" /\ v.agg = b /\ v.cached = req[r].cached
          /\ v.kind = req[r].kind
      BY <2>2, <2>6, <3>2, ReqFields DEF Request, Phase
    <3> HIDE DEF v
    <3>5. QED BY <2>4, <3>2, <3>3, <3>4
  <2>7. CASE Fails(r)
    BY <2>1, <2>7, TypeParts, FailsStep
  <2>8. QED BY <1>4, <2>5, <2>6, <2>7 DEF LoadHistory
<1>5. QED BY <1>1, <1>2, <1>3, <1>4

LEMMA SaveStep ==
    ASSUME IInv, NEW r \in Requests, Upsert(r) \/ WriteHash(r), UNCHANGED met
    PROVE  IInv'
<1> USE DEF Early, Rebuilt, Saving, Logging
<1>1. CASE Upsert(r)
  <2> DEFINE v == [req[r] EXCEPT !.phase = "hash"]
  <2>1. /\ req[r].phase = "upsert" /\ UNCHANGED <<cache, log, published, faults>>
        /\ db' = [db EXCEPT ![req[r].elev] = RowOf(req[r].agg)] /\ Becomes(r, v)
    BY <1>1 DEF Upsert, At
  <2>2. req[r].elev \in Elevators /\ req[r].stored = 0 /\ ~req[r].cached
    BY <2>1, ReqFields DEF LocalsOk, LocalsGood, Placed, Rowed
  <2>3. /\ v \in Request /\ v.phase = "hash" /\ v.stored = 0 /\ v.elev = req[r].elev
        /\ v.agg = req[r].agg /\ v.kind = req[r].kind /\ v.cached = req[r].cached
    BY <2>2, ReqFields DEF Request, Phase
  <2> HIDE DEF v
  <2>4. LocalsGood(v)
    BY <2>1, <2>2, <2>3, ReqFields DEF LocalsOk, LocalsGood, Placed, Rowed
  <2>5. RowOf(req[r].agg) \in Row /\ RowOf(req[r].agg) # Nothing
    BY ReqFields, RowOfType
  <2>6. /\ db' \in [Elevators -> Row \cup {Nothing}] /\ db'[v.elev] # Nothing
        /\ \A e \in Elevators : db[e] # Nothing => db'[e] # Nothing
    BY <2>1, <2>2, <2>3, <2>5, TypeParts
  <2>7. HashGood(v, cache')
    BY <2>1, <2>3, HashKept DEF Rowed
  <2>8. QED BY <2>1, <2>3, <2>4, <2>6, <2>7, TypeParts, QuietBecomes
<1>2. CASE WriteHash(r)
  <2>0. PICK w \in BOOLEAN :
          /\ Becomes(r, [req[r] EXCEPT !.cached = w, !.phase = AfterHash(r)])
          /\ \/ /\ cache' = [cache EXCEPT ![req[r].elev] = RowOf(req[r].agg)]
                /\ faults' = faults
             \/ ~w /\ cache' = cache /\ Fault
    <3>1. At(r, "hash")
      BY <1>2 DEF WriteHash
    <3>2. [req[r] EXCEPT !.phase = AfterHash(r)]
            = [req[r] EXCEPT !.cached = FALSE, !.phase = AfterHash(r)]
      <4>1. req[r].cached = FALSE
        BY <3>1, ReqFields DEF LocalsOk, LocalsGood, At, Request
      <4>2. QED BY <4>1, ReqFields DEF Request
    <3>3. QED BY <1>2, <3>2 DEF WriteHash
  <2> DEFINE v == [req[r] EXCEPT !.cached = w, !.phase = AfterHash(r)]
  <2>1. /\ req[r].phase = "hash" /\ UNCHANGED <<db, log, published>> /\ Becomes(r, v)
        /\ \/ cache' = [cache EXCEPT ![req[r].elev] = RowOf(req[r].agg)] /\ faults' = faults
           \/ ~w /\ cache' = cache /\ Fault
    BY <1>2, <2>0 DEF WriteHash, At
  <2>2. /\ req[r].elev \in Elevators /\ req[r].stored = 0 /\ ~req[r].cached
        /\ db[req[r].elev] # Nothing
    BY <2>1, ReqFields DEF LocalsOk, LocalsGood, Placed, Rowed, StoresOk
  <2>3. /\ v \in Request /\ v.phase = AfterHash(r) /\ v.stored = 0 /\ v.elev = req[r].elev
        /\ v.agg = req[r].agg /\ v.kind = req[r].kind /\ v.cached = w
    BY <2>2, ReqFields DEF Request, Phase, Resting, AfterHash
  <2> HIDE DEF v
  <2>4. IF req[r].kind = "call" THEN Shape(req[r].agg.events) ELSE req[r].agg.events = <<>>
    BY <2>1, ReqFields DEF LocalsOk, LocalsGood
  <2>5. \/ /\ v.phase = "answered" /\ v.kind # "call"
        \/ /\ v.phase = "sequence" /\ Shape(v.agg.events) /\ 0 < Len(v.agg.events)
    <3>1. CASE req[r].kind = "call"
      <4>1. req[r].agg.events # <<>> /\ 0 < Len(req[r].agg.events)
        BY <2>4, <3>1 DEF Shape
      <4>2. QED BY <2>3, <2>4, <3>1, <4>1 DEF AfterHash
    <3>2. CASE req[r].kind # "call"
      BY <2>3, <2>4, <3>2 DEF AfterHash
    <3>3. QED BY <3>1, <3>2
  <2>6. LocalsGood(v)
    BY <2>2, <2>3, <2>5 DEF LocalsGood, Placed, Rowed
  <2>7. RowOf(req[r].agg) \in Row /\ RowOf(req[r].agg) # Nothing
    BY ReqFields, RowOfType
  <2>8. /\ cache' \in [Elevators -> Row \cup {Nothing}]
        /\ \A e \in Elevators : cache[e] # Nothing => cache'[e] # Nothing
        /\ w => cache'[v.elev] # Nothing
    BY <2>1, <2>2, <2>3, <2>7, TypeParts
  <2>9. HashGood(v, cache')
    <3>1. req[r].kind = "call" => cache[req[r].elev] # Nothing
      BY <2>1, ReqFields DEF StoresOk, HashGood, Rowed
    <3>2. v.phase # "hashes"
      BY <2>5
    <3>3. QED BY <2>2, <2>3, <2>8, <3>1, <3>2 DEF HashGood
  <2>10. QED
    BY <2>1, <2>2, <2>3, <2>5, <2>6, <2>8, <2>9, FaultsGrow, TypeParts, QuietBecomes
<1>3. QED BY <1>1, <1>2

(* The number read is one above rows that are there, and above every row of *)
(* the same request.                                                        *)
LEMMA SequenceStep ==
    ASSUME IInv, NEW r \in Requests, NextSequence(r), UNCHANGED met
    PROVE  IInv'
<1> DEFINE rows == log[req[r].elev]
<1>1. req[r].phase = "sequence" /\ UNCHANGED <<db, cache, log, published, faults>>
  BY DEF NextSequence, At
<1>2. /\ req[r].elev \in Elevators /\ Shape(req[r].agg.events)
      /\ req[r].stored < Len(req[r].agg.events)
  BY <1>1, ReqFields DEF LocalsOk, LocalsGood, Placed, Rowed, Logging
<1>3. PICK s \in {0} \cup {x.seq : x \in rows} :
        IsLastSequence(rows, s) /\ Becomes(r, [req[r] EXCEPT !.seq = s + 1, !.phase = "insert"])
  BY DEF NextSequence
<1> DEFINE n == s + 1
           v == [req[r] EXCEPT !.seq = n, !.phase = "insert"]
<1>4. rows \subseteq LogRow
  BY <1>2, TypeParts
<1>5. s \in Nat /\ \A x \in rows : x.seq \in Nat /\ x.seq <= s
  BY <1>3, <1>4 DEF LogRow, IsLastSequence
<1>6. \A t \in 1 .. s : \E y \in rows : y.seq = t
  <2>1. CASE rows = {} /\ s = 0
    BY <2>1
  <2>2. CASE \E x \in rows : x.seq = s
    BY <1>2, <2>2 DEF IInv, LogHasNoGaps
  <2>3. QED BY <1>3, <2>1, <2>2 DEF IsLastSequence
<1>7. n \in Nat /\ n # 0 /\ n - 1 = s
  BY <1>5
<1>8. Becomes(r, v)
  BY <1>3
<1> HIDE DEF n, rows
<1>9. /\ v \in Request /\ v.phase = "insert" /\ v.seq = n /\ v.stored = req[r].stored
      /\ v.elev = req[r].elev /\ v.agg = req[r].agg /\ v.kind = req[r].kind
      /\ v.cached = req[r].cached
  BY <1>7, ReqFields DEF Request, Phase
<1> HIDE DEF v
<1>10. /\ req' \in [Requests -> Request] /\ req'[r] = v
      /\ \A q \in Requests \ {r} : req'[q] = req[q]
  BY <1>8, <1>9, TypeParts, ReqType DEF Becomes
<1>11. TypeOK' /\ Steps(r)
  BY <1>1, <1>10, TypeParts DEF TypeOK, Steps
<1>12. LocalsOk(r)' /\ StoresOk(r)'
  <2>1. HashGood(v, cache')
    BY <1>1, <1>9, HashKept DEF Rowed, Logging
  <2>2. QED
    BY <1>1, <1>2, <1>9, <1>10, <2>1, ReqFields DEF LocalsOk, LocalsGood, StoresOk, Placed, Rowed,
       Rebuilt, Saving, Logging, Early
<1>13. RowsOk(r)'
  <2>1. \A e \in Elevators : \A x \in log'[e] :
           x.by = r => e = req'[r].elev /\ req'[r].phase \notin Early
    BY <1>1, <1>9, <1>10, ReqFields DEF RowsOk, Early, Rebuilt, Saving
  <2>2. /\ \A x \in log'[req'[r].elev] : x.by = r => req'[r].stored = 1 /\ x.type = "Called"
        /\ req'[r].stored = 1 => CalledRow(r)'
    BY <1>1, <1>9, <1>10, ReqFields DEF RowsOk, CalledRow, Logging
  <2>3. /\ req'[r].seq # 0
        /\ \A x \in log'[req'[r].elev] : x.by = r => x.seq < req'[r].seq
        /\ \A t \in 1 .. req'[r].seq - 1 : \E y \in log'[req'[r].elev] : y.seq = t
    BY <1>1, <1>5, <1>6, <1>9, <1>10, <1>7 DEF rows, n
  <2>4. ~Answered(r)'
    BY <1>9, <1>10 DEF Answered
  <2>5. QED BY <2>1, <2>2, <2>3, <2>4 DEF RowsOk
<1>14. QED BY <1>11, <1>12, <1>13, QuietStep

(* The row inserted carries a number whose predecessors are all taken; the  *)
(* first row of a call is its Called event, the second its Moving event.    *)
LEMMA InsertStep ==
    ASSUME IInv, NEW r \in Requests, InsertEvent(r), UNCHANGED met
    PROVE  IInv'
<1> DEFINE a == req[r].agg
           i == req[r].stored + 1
           e == req[r].elev
           w == [seq |-> req[r].seq, type |-> a.events[i].type, by |-> r]
<1>1. /\ req[r].phase = "insert" /\ UNCHANGED <<db, cache, faults>>
      /\ log' = [log EXCEPT ![e] = @ \cup {w}]
  BY DEF InsertEvent, At
<1>2. e \in Elevators /\ Shape(a.events) /\ req[r].stored < Len(a.events)
  BY <1>1, ReqFields DEF LocalsOk, LocalsGood, Placed, Rowed, Logging
<1>3. /\ \A x \in log[e] : x.by = r => req[r].stored = 1 /\ x.type = "Called" /\ x.seq < req[r].seq
      /\ req[r].stored = 1 => CalledRow(r)
      /\ req[r].seq # 0
      /\ \A s \in 1 .. req[r].seq - 1 : \E y \in log[e] : y.seq = s
      /\ \A d \in Elevators : \A x \in log[d] : x.by = r => d = e
  BY <1>1, ReqFields DEF RowsOk, Logging
<1>4. a \in Aggregate /\ req[r].stored \in Nat /\ req[r].seq \in Nat
  BY ReqFields DEF Request
<1>5. /\ i \in {1, 2} /\ i \in 1 .. Len(a.events) /\ i - 1 = req[r].stored
      /\ i = 1 => a.events[i].type = "Called"
      /\ i = 2 => a.events[i].type = "Moving"
      /\ i < Len(a.events) => i = 1
  <2>1. /\ Len(a.events) \in {1, 2} /\ a.events[1].type = "Called"
        /\ Len(a.events) = 2 => a.events[2].type = "Moving"
    BY <1>2 DEF Shape
  <2> DEFINE k == req[r].stored
             n == Len(a.events)
  <2>2. k \in Nat /\ k < n /\ n \in {1, 2}
    BY <1>2, <1>4, <2>1
  <2> HIDE DEF k, n
  <2>3. \/ k + 1 = 1 /\ k = 0 /\ k + 1 \in 1 .. n /\ (k + 1) - 1 = k
        \/ k + 1 = 2 /\ k = 1 /\ n = 2 /\ k + 1 \in 1 .. n /\ (k + 1) - 1 = k /\ ~(k + 1 < n)
    BY <2>2
  <2>4. \/ i = 1 /\ i \in 1 .. n /\ i - 1 = k
        \/ i = 2 /\ n = 2 /\ i \in 1 .. n /\ i - 1 = k /\ ~(i < n)
    BY <2>3 DEF k
  <2>5. n = 2 => a.events[2].type = "Moving"
    BY <2>1 DEF n
  <2> HIDE DEF i
  <2>6. /\ i \in {1, 2} /\ i \in 1 .. n /\ i - 1 = k
        /\ i = 1 => a.events[i].type = "Called"
        /\ i = 2 => a.events[i].type = "Moving"
        /\ i < n => i = 1
    BY <2>1, <2>4, <2>5
  <2>7. QED BY <2>6 DEF k, n, i
<1>6. w \in LogRow /\ w.seq = req[r].seq /\ w.by = r /\ w.type = a.events[i].type
  BY <1>3, <1>4, <1>5 DEF LogRow
<1>7. PICK v \in Request :
        /\ Becomes(r, v)
        /\ v.stored = i /\ v.elev = e /\ v.kind = req[r].kind /\ v.cached = req[r].cached
        /\ \/ v.phase = "sequence" /\ v.agg = a /\ i < Len(a.events)
           \/ v.phase = "answered"
        /\ published' = published
  <2> DEFINE done == WithEventsCommitted(a)
             v1 == [req[r] EXCEPT !.stored = i, !.phase = "sequence"]
             v2 == [req[r] EXCEPT !.stored = i, !.agg = done, !.phase = "answered"]
  <2>1. \/ i < Len(a.events) /\ Becomes(r, v1) /\ published' = published
        \/ /\ Becomes(r, v2)
           /\ published' = published
                \cup {[type |-> done.events[j].type, by |-> r] : j \in DOMAIN done.events}
    BY DEF InsertEvent
  <2>2. done \in Aggregate /\ done.events = <<>>
    BY <1>4, CommittedType
  <2>3. i \in Nat
    BY <1>5
  <2> HIDE DEF i, a, done
  <2>4. /\ v1 \in Request /\ v1.stored = i /\ v1.elev = e /\ v1.kind = req[r].kind
        /\ v1.phase = "sequence" /\ v1.agg = a /\ v1.cached = req[r].cached
    BY <2>3, ReqFields DEF Request, Phase, a
  <2>5. /\ v2 \in Request /\ v2.stored = i /\ v2.elev = e /\ v2.kind = req[r].kind
        /\ v2.phase = "answered" /\ v2.cached = req[r].cached
    BY <2>2, <2>3, ReqFields DEF Request, Phase, Resting
  <2> HIDE DEF v1, v2
  <2>6. {[type |-> done.events[j].type, by |-> r] : j \in DOMAIN done.events} = {}
    BY <2>2
  <2>7. CASE i < Len(a.events) /\ Becomes(r, v1) /\ published' = published
    BY <2>4, <2>7
  <2>8. CASE Becomes(r, v2) /\ published' = published
    BY <2>5, <2>8
  <2>9. QED BY <2>1, <2>6, <2>7, <2>8
<1> HIDE DEF a, i, e, w
<1>8. /\ req' \in [Requests -> Request] /\ req'[r] = v
      /\ \A q \in Requests \ {r} : req'[q] = req[q]
  BY <1>7, TypeParts, ReqType DEF Becomes
<1>9. /\ log' \in [Elevators -> SUBSET LogRow]
      /\ log'[e] = log[e] \cup {w}
      /\ \A d \in Elevators \ {e} : log'[d] = log[d]
  BY <1>1, <1>2, <1>6, TypeParts
<1>10. TypeOK'
  BY <1>1, <1>7, <1>8, <1>9, TypeParts DEF TypeOK
<1>11. ASSUME NEW q \in Requests, q # r PROVE LocalsOk(q)' /\ RowsOk(q)' /\ StoresOk(q)'
  <2>1. Respects(q)
    BY <1>1, <1>6, <1>8, <1>9, <1>11 DEF Respects
  <2>2. QED BY <2>1, Undisturbed
<1>12. LocalsOk(r)' /\ StoresOk(r)'
  <2>1. LocalsOk(r)'
    BY <1>2, <1>7, <1>8 DEF LocalsOk, LocalsGood, Placed, Rowed, Rebuilt, Saving, Logging, Early
  <2>2. StoresOk(r)'
    <3>1. HashGood(v, cache')
      BY <1>1, <1>7, HashKept DEF Rowed, Logging, e
    <3>2. QED BY <1>1, <1>7, <1>8, <3>1, ReqFields DEF StoresOk, Rowed, Logging, e
  <2>3. QED BY <2>1, <2>2
<1>13. RowsOk(r)'
  <2>1. w.type = "Called" \/ CalledRow(r)
    BY <1>3, <1>5, <1>6
  <2>2. CalledRow(r)'
    BY <1>2, <1>6, <1>7, <1>8, <1>9, <2>1 DEF CalledRow, e
  <2>3. ASSUME NEW d \in Elevators, NEW x \in log'[d], x.by = r
        PROVE  d = req'[r].elev /\ req'[r].phase \notin Early
    BY <1>3, <1>7, <1>8, <1>9, <2>3 DEF Early, Rebuilt, Saving
  <2>4. ASSUME req'[r].phase \in Logging, NEW x \in log'[req'[r].elev], x.by = r
        PROVE  req'[r].stored = 1 /\ x.type = "Called"
    <3>1. i = 1 /\ req'[r].stored = 1 /\ req[r].stored = 0
      BY <1>5, <1>7, <1>8, <2>4 DEF Logging
    <3>2. x = w
      BY <1>3, <1>7, <1>8, <1>9, <2>4, <3>1
    <3>3. QED BY <1>5, <1>6, <3>1, <3>2
  <2>5. req'[r].phase # "insert"
    BY <1>7, <1>8
  <2>6. QED BY <2>2, <2>3, <2>4, <2>5 DEF RowsOk
<1>14. LogHasNoGaps'
  <2>1. ASSUME NEW d \in Elevators, NEW x \in log'[d], NEW s \in 1 .. x.seq
        PROVE  \E y \in log'[d] : y.seq = s
    <3>1. CASE x \in log[d]
      <4>1. PICK y \in log[d] : y.seq = s
        BY <3>1 DEF IInv, LogHasNoGaps
      <4>2. QED BY <1>9, <4>1
    <3>2. CASE d = e /\ x = w
      BY <1>3, <1>4, <1>6, <1>9, <3>2
    <3>3. QED BY <1>9, <3>1, <3>2
  <2>2. QED BY <2>1 DEF LogHasNoGaps
<1>15. OwnEventsInOrder'
  <2>1. ASSUME NEW d \in Elevators, NEW x \in log'[d], NEW y \in log'[d],
               x.by = y.by, x.type = "Called", y.type = "Moving"
        PROVE  x.seq < y.seq
    <3>1. CASE x \in log[d] /\ y \in log[d]
      BY <2>1, <3>1 DEF IInv, OwnEventsInOrder
    <3>2. CASE d = e /\ x = w
      BY <1>3, <1>6, <1>9, <2>1, <3>2
    <3>3. CASE d = e /\ y = w /\ x \in log[e]
      BY <1>3, <1>6, <2>1, <3>3
    <3>4. QED BY <1>9, <3>1, <3>2, <3>3
  <2>2. QED BY <2>1 DEF OwnEventsInOrder
<1>16. QED BY <1>10, <1>11, <1>12, <1>13, <1>14, <1>15 DEF IInv

(* A crash ends every handler in flight and leaves the stores as they are.  *)
LEMMA CrashStep ==
    ASSUME IInv, Crash
    PROVE  IInv'
<1>1. /\ Fault /\ UNCHANGED <<db, cache, log, published, met>>
      /\ req' = [r \in Requests |->
                   IF r \in InFlight THEN [req[r] EXCEPT !.phase = "lost"] ELSE req[r]]
  BY DEF Crash
<1>2. faults' \in Nat
  BY <1>1, FaultsGrow
<1>3. ASSUME NEW r \in Requests
      PROVE  req'[r] \in Request /\ LocalsOk(r)' /\ RowsOk(r)' /\ StoresOk(r)'
  <2>1. CASE r \in InFlight
    <3> DEFINE v == [req[r] EXCEPT !.phase = "lost"]
    <3>1. req'[r] = v
      BY <1>1, <2>1
    <3>2. v \in Request /\ v.phase = "lost" /\ v.elev = req[r].elev
      BY ReqFields DEF Request, Phase, Resting
    <3> HIDE DEF v
    <3>3. LocalsOk(r)' /\ StoresOk(r)'
      BY <3>1, <3>2 DEF LocalsOk, LocalsGood, StoresOk, HashGood, Placed, Rowed, Rebuilt, Saving,
         Logging, Early
    <3>4. RowsOk(r)'
      BY <1>1, <3>1, <3>2, QuietRows
    <3>5. QED BY <3>1, <3>2, <3>3, <3>4
  <2>2. CASE r \notin InFlight
    <3>1. req'[r] = req[r]
      BY <1>1, <2>2
    <3>2. Respects(r)
      BY <1>1, <1>2, <3>1 DEF Respects
    <3>3. QED BY <3>1, <3>2, Undisturbed, ReqFields
  <2>3. QED BY <2>1, <2>2
<1>4. TypeOK'
  <2>1. req' \in [Requests -> Request]
    BY <1>1, <1>3
  <2>2. QED BY <1>1, <1>2, <2>1, TypeParts DEF TypeOK
<1>5. LogHasNoGaps' /\ OwnEventsInOrder'
  BY <1>1 DEF IInv, LogHasNoGaps, OwnEventsInOrder
<1>6. QED BY <1>3, <1>4, <1>5 DEF IInv

LEMMA NextInv == IInv /\ [Next]_vars => IInv'
<1> SUFFICES ASSUME IInv, [Next]_vars PROVE IInv'
  OBVIOUS
<1>1. CASE Crash
  BY <1>1, CrashStep
<1>2. ASSUME NEW r \in Requests, Receive(r) PROVE IInv'
  BY <1>2, ReceiveStep
<1>3. ASSUME NEW r \in Requests, DatabaseFault(r), UNCHANGED met PROVE IInv'
  BY <1>3, FaultsGrow, FailsStep DEF DatabaseFault
<1>4. ASSUME NEW r \in Requests, Step(r) PROVE IInv'
  BY <1>3, <1>4, AssignmentStep, FindStep, SaveStep, SequenceStep, InsertStep DEF Step
<1>5. CASE UNCHANGED vars
  <2>1. UNCHANGED <<db, cache, log, published, req, met, faults>>
    BY <1>5 DEF vars
  <2>2. TypeOK' /\ LogHasNoGaps' /\ OwnEventsInOrder'
    BY <2>1 DEF IInv, TypeOK, LogHasNoGaps, OwnEventsInOrder
  <2>3. ASSUME NEW r \in Requests PROVE Respects(r)
    BY <2>1 DEF Respects
  <2>4. QED BY <2>2, <2>3, Undisturbed DEF IInv
<1>6. QED BY <1>1, <1>2, <1>4, <1>5 DEF Next

LEMMA Invariance == Spec => []IInv
BY InitInv, NextInv, PTL DEF Spec

-----------------------------------------------------------------------------
(* Rows, hashes, events and handler locals keep their types: no save writes *)
(* a floor outside the building, a sequence number 0 or an event past the   *)
(* end of the list.                                                         *)
THEOREM CommandTypes == Spec => []TypeOK
<1>1. IInv => TypeOK
  BY DEF IInv
<1>2. QED BY <1>1, Invariance, PTL

(* The sequence numbers of every elevator run from 1 without a gap, however *)
(* the saves of any number of requests interleave, fail or are cut short.   *)
THEOREM NoGaps == Spec => []LogHasNoGaps
<1>1. IInv => LogHasNoGaps
  BY DEF IInv
<1>2. QED BY <1>1, Invariance, PTL

(* The Called event of a request is numbered before its Moving event,       *)
(* whatever others number in between.                                       *)
THEOREM OwnEventsOrdered == Spec => []OwnEventsInOrder
<1>1. IInv => OwnEventsInOrder
  BY DEF IInv
<1>2. QED BY <1>1, Invariance, PTL

(* An answered request has its row, whatever failed or crashed; its Called  *)
(* event, if it is a call; and its hash, unless it was an initialization    *)
(* whose hash write was swallowed.                                          *)
THEOREM AnswersRecorded == Spec => []AnswerIsOnRecord
<1>1. IInv => AnswerIsOnRecord
  BY DEF IInv, AnswerIsOnRecord, RowsOk, StoresOk, HashGood, CalledRow, Answered, Rowed
<1>2. QED BY <1>1, Invariance, PTL
=============================================================================
