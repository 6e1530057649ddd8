---------------------------- MODULE FleetProofs ----------------------------
(***************************************************************************)
(* Theorems about what the two stores of CallElevator hold together, for   *)
(* every interleaving of requests: what races cannot break without a       *)
(* failure, and what nothing but a race breaks.  They rest on the          *)
(* invariant of CallElevatorProofs.                                        *)
(***************************************************************************)
EXTENDS CallElevatorProofs

(* What each step of a request does, field by field: p and q are its phases *)
(* before and after.                                                        *)
Goes(r, p, q) ==
    /\ req[r].phase = p /\ req'[r].phase = q
    /\ \A s \in Requests \ {r} : req'[s] = req[s]

Keeps(r) == req'[r].elev = req[r].elev /\ req'[r].kind = req[r].kind

DoesReceiveCall(r) ==
    Goes(r, "absent", "keys") /\ Keeps(r) /\ UNCHANGED <<db, cache, log, faults>>

DoesReceiveInitialize(r) ==
    /\ Goes(r, "absent", "find") /\ req'[r].kind = "initialize" /\ req'[r].elev \in FreshId
    /\ UNCHANGED <<db, cache, log, faults>>

DoesListKeys(r) ==
    /\ \/ Goes(r, "keys", "hashes") /\ req'[r].keys = Keys /\ req'[r].elev = req[r].elev
       \/ Goes(r, "keys", "default") /\ req'[r].elev \in FreshId /\ Keys = {}
    /\ req'[r].kind = req[r].kind
    /\ UNCHANGED <<db, cache, log, faults>>

DoesReadHashes(r) ==
    /\ Goes(r, "hashes", "find")
    /\ req'[r].elev \in req[r].keys /\ req'[r].kind = req[r].kind
    /\ UNCHANGED <<db, cache, log, faults>>

DoesWriteNewHash(r) ==
    /\ Goes(r, "default", "find") \/ Goes(r, "fallback", "find")
    /\ Keeps(r)
    /\ cache' = [cache EXCEPT ![req[r].elev] = FreshRow]
    /\ UNCHANGED <<db, log, faults>>

DoesFallBack(r) ==
    /\ \E p \in {"keys", "hashes", "default"} : Goes(r, p, "fallback")
    /\ req'[r].elev \in FreshId /\ req'[r].kind = req[r].kind
    /\ Fault /\ UNCHANGED <<db, cache, log>>

DoesFindRow(r) ==
    /\ \/ Goes(r, "find", "create") /\ db[req[r].elev] = Nothing
       \/ /\ Goes(r, "find", "history") /\ db[req[r].elev] # Nothing
          /\ req'[r].agg.state = db[req[r].elev].state
    /\ Keeps(r)
    /\ UNCHANGED <<db, cache, log, faults>>

DoesCreateRow(r) ==
    /\ Goes(r, "create", "seed") /\ Keeps(r) /\ req'[r].agg.state = "IDLE"
    /\ \E w \in Row : /\ db' = [db EXCEPT ![req[r].elev] = w]
                      /\ w.state = "IDLE"
                      /\ db[req[r].elev] = Nothing => w = FreshRow
    /\ UNCHANGED <<cache, log, faults>>

DoesNotCreateRow(r) ==
    /\ Goes(r, "create", "failed") /\ Keeps(r) /\ db[req[r].elev] # Nothing
    /\ UNCHANGED <<db, cache, log, faults>>

DoesSeedHash(r) ==
    /\ Goes(r, "seed", "history") /\ Keeps(r) /\ req'[r].agg = req[r].agg
    /\ \/ cache' = [cache EXCEPT ![req[r].elev] = FreshRow] /\ faults' = faults
       \/ cache' = cache /\ Fault
    /\ UNCHANGED <<db, log>>

DoesLoadHistory(r) ==
    /\ \/ Goes(r, "history", "failed")
       \/ /\ Goes(r, "history", "upsert")
          /\ req[r].agg.state = "MOVING" => req'[r].agg.state = "MOVING"
          /\ req'[r].agg.state = "MOVING" =>
               req[r].agg.state = "MOVING" \/ Len(req'[r].agg.events) = 2
    /\ Keeps(r)
    /\ UNCHANGED <<db, cache, log, faults>>

DoesUpsert(r) ==
    /\ Goes(r, "upsert", "hash") /\ Keeps(r) /\ req'[r].agg = req[r].agg
    /\ db' = [db EXCEPT ![req[r].elev] = RowOf(req[r].agg)]
    /\ UNCHANGED <<cache, log, faults>>

DoesWriteHash(r) ==
    /\ \/ Goes(r, "hash", "answered") /\ req[r].agg.events = <<>>
       \/ Goes(r, "hash", "sequence") /\ req[r].agg.events # <<>>
    /\ Keeps(r) /\ req'[r].agg = req[r].agg
    /\ \/ cache' = [cache EXCEPT ![req[r].elev] = RowOf(req[r].agg)] /\ faults' = faults
       \/ cache' = cache /\ Fault /\ ~req'[r].cached
    /\ UNCHANGED <<db, log>>

DoesNextSequence(r) ==
    /\ Goes(r, "sequence", "insert") /\ Keeps(r) /\ req'[r].agg = req[r].agg
    /\ req'[r].cached = req[r].cached
    /\ \A x \in log[req[r].elev] : x.seq < req'[r].seq
    /\ UNCHANGED <<db, cache, log, faults>>

DoesInsertEvent(r) ==
    /\ \/ Goes(r, "insert", "sequence") /\ req'[r].agg = req[r].agg
       \/ Goes(r, "insert", "answered")
    /\ Keeps(r) /\ req'[r].cached = req[r].cached
    /\ \E w \in LogRow :
         /\ log' = [log EXCEPT ![req[r].elev] = @ \cup {w}]
         /\ w.seq = req[r].seq /\ w.by = r
         /\ req'[r].phase = "answered" /\ Len(req[r].agg.events) = 2 => w.type = "Moving"
    /\ UNCHANGED <<db, cache, faults>>

DoesFail(r) ==
    /\ \E p \in Phase \ Resting : Goes(r, p, "failed")
    /\ Keeps(r)
    /\ Fault /\ UNCHANGED <<db, cache, log>>

DoesStep(r) ==
    \/ DoesListKeys(r) \/ DoesReadHashes(r) \/ DoesWriteNewHash(r) \/ DoesFallBack(r)
    \/ DoesFindRow(r) \/ DoesCreateRow(r) \/ DoesNotCreateRow(r) \/ DoesSeedHash(r)
    \/ DoesLoadHistory(r) \/ DoesUpsert(r) \/ DoesWriteHash(r) \/ DoesNextSequence(r)
    \/ DoesInsertEvent(r) \/ DoesFail(r)

Does(r) == \/ (DoesReceiveCall(r) \/ DoesReceiveInitialize(r)) /\ Meets(r)
           \/ DoesStep(r) /\ met' = met

LEMMA BecomesDoes ==
    ASSUME IInv, NEW r \in Requests, NEW v, Becomes(r, v)
    PROVE  /\ req'[r] = v
           /\ Goes(r, req[r].phase, v.phase)
           /\ v.elev = req[r].elev /\ v.kind = req[r].kind => Keeps(r)
BY TypeParts DEF Becomes, Goes, Keeps

LEMMA ReceiveDoes ==
    ASSUME IInv, NEW r \in Requests, Receive(r)
    PROVE  Does(r)
<1>1. CASE ReceiveCall(r)
  <2>0. At(r, "absent") /\ UNCHANGED <<db, cache, log, faults>>
    BY <1>1 DEF ReceiveCall
  <2>1. PICK from \in Floor, to \in Floor :
          Becomes(r, [req[r] EXCEPT !.from = from, !.to = to, !.phase = "keys"])
    BY <1>1 DEF ReceiveCall
  <2>2. Goes(r, "absent", "keys") /\ Keeps(r)
    <3> DEFINE v == [req[r] EXCEPT !.from = from, !.to = to, !.phase = "keys"]
    <3>1. v.phase = "keys" /\ v.kind = req[r].kind /\ v.elev = req[r].elev
      BY ReqFields DEF Request
    <3>2. Becomes(r, v)
      BY <2>0, <2>1
    <3> HIDE DEF v
    <3>3. QED BY <2>0, <2>1, <3>1, <3>2, BecomesDoes DEF At
  <2>3. QED BY <1>1, <2>0, <2>2 DEF DoesReceiveCall, ReceiveCall, Does
<1>2. CASE ReceiveInitialize(r)
  <2>0. At(r, "absent") /\ UNCHANGED <<db, cache, log, faults>>
    BY <1>2 DEF ReceiveInitialize
  <2>1. PICK f \in Floor, e \in FreshId :
          Becomes(r, [req[r] EXCEPT !.kind = "initialize", !.from = f, !.to = f,
                                    !.elev = e, !.phase = "find"])
    BY <1>2 DEF ReceiveInitialize
  <2>2. Goes(r, "absent", "find") /\ req'[r].kind = "initialize" /\ req'[r].elev = e
    <3> DEFINE v == [req[r] EXCEPT !.kind = "initialize", !.from = f, !.to = f,
                                   !.elev = e, !.phase = "find"]
    <3>1. v.phase = "find" /\ v.kind = "initialize" /\ v.elev = e
      BY ReqFields DEF Request
    <3>2. Becomes(r, v)
      BY <2>0, <2>1
    <3> HIDE DEF v
    <3>3. QED BY <2>0, <2>1, <3>1, <3>2, BecomesDoes DEF At
  <2>3. QED BY <1>2, <2>0, <2>2 DEF DoesReceiveInitialize, ReceiveInitialize, Does
<1>3. QED BY <1>1, <1>2 DEF Receive

LEMMA FailsDoes ==
    ASSUME IInv, NEW r \in Requests, Fails(r)
    PROVE  Goes(r, req[r].phase, "failed") /\ Keeps(r)
<1>1. Becomes(r, [req[r] EXCEPT !.phase = "failed"])
  BY DEF Fails
<1> DEFINE v == [req[r] EXCEPT !.phase = "failed"]
<1>2. v.phase = "failed" /\ v.kind = req[r].kind /\ v.elev = req[r].elev
  BY ReqFields DEF Request
<1> HIDE DEF v
<1>3. Becomes(r, v)
  BY <1>1 DEF v
<1>4. QED BY <1>2, <1>3, BecomesDoes

LEMMA AssignmentDoes ==
    ASSUME IInv, NEW r \in Requests,
           ListKeys(r) \/ ReadHashes(r) \/ WriteNewHash(r) \/ AssignmentFault(r)
    PROVE  \/ DoesListKeys(r) \/ DoesReadHashes(r) \/ DoesWriteNewHash(r)
           \/ DoesFallBack(r) \/ DoesFail(r)
<1>1. CASE ListKeys(r)
  <2>1. CASE Becomes(r, [req[r] EXCEPT !.keys = Keys, !.phase = "hashes"])
    <3>1. Goes(r, "keys", "hashes") /\ req'[r].keys = Keys /\ Keeps(r)
      <4> DEFINE v == [req[r] EXCEPT !.keys = Keys, !.phase = "hashes"]
      <4>1. v.phase = "hashes" /\ v.kind = req[r].kind /\ v.elev = req[r].elev /\ v.keys = Keys
        BY ReqFields DEF Request
      <4>2. Becomes(r, v)
        BY <1>1, <2>1 DEF ListKeys
      <4> HIDE DEF v
      <4>3. QED BY <1>1, <2>1, <4>1, <4>2, BecomesDoes DEF ListKeys, At
    <3>2. QED BY <1>1, <3>1 DEF ListKeys, DoesListKeys, Keeps
  <2>2. ASSUME NEW e \in FreshId, Keys = {},
               Becomes(r, [req[r] EXCEPT !.elev = e, !.phase = "default"])
        PROVE  DoesListKeys(r)
    <3>1. Goes(r, "keys", "default") /\ req'[r].elev = e /\ req'[r].kind = req[r].kind
      <4> DEFINE v == [req[r] EXCEPT !.elev = e, !.phase = "default"]
      <4>1. v.phase = "default" /\ v.kind = req[r].kind /\ v.elev = e
        BY ReqFields DEF Request
      <4>2. Becomes(r, v)
        BY <1>1, <2>2 DEF ListKeys
      <4> HIDE DEF v
      <4>3. QED BY <1>1, <2>2, <4>1, <4>2, BecomesDoes DEF ListKeys, At
    <3>2. QED BY <1>1, <2>2, <3>1 DEF ListKeys, DoesListKeys
  <2>3. QED BY <1>1, <2>1, <2>2 DEF ListKeys
<1>2. CASE ReadHashes(r)
  <2>1. PICK e \in Candidates(req[r].keys, req[r].from) :
          Becomes(r, [req[r] EXCEPT !.elev = e, !.phase = "find"])
    BY <1>2 DEF ReadHashes
  <2>2. e \in req[r].keys
    BY DEF Candidates, IdleAmong
  <2>3. Goes(r, "hashes", "find") /\ req'[r].elev = e /\ req'[r].kind = req[r].kind
    <3> DEFINE v == [req[r] EXCEPT !.elev = e, !.phase = "find"]
    <3>1. v.phase = "find" /\ v.kind = req[r].kind /\ v.elev = e
      BY ReqFields DEF Request
    <3>2. Becomes(r, v)
      BY <1>2, <2>1 DEF ReadHashes
    <3> HIDE DEF v
    <3>3. QED BY <1>2, <2>1, <3>1, <3>2, BecomesDoes DEF ReadHashes, At
  <2>4. QED BY <1>2, <2>2, <2>3 DEF ReadHashes, DoesReadHashes
<1>3. CASE WriteNewHash(r)
  <2>1. Becomes(r, [req[r] EXCEPT !.phase = "find"])
    BY <1>3 DEF WriteNewHash
  <2>2. Goes(r, req[r].phase, "find") /\ Keeps(r)
    <3> DEFINE v == [req[r] EXCEPT !.phase = "find"]
    <3>1. v.phase = "find" /\ v.kind = req[r].kind /\ v.elev = req[r].elev
      BY ReqFields DEF Request
    <3>2. Becomes(r, v)
      BY <2>1
    <3> HIDE DEF v
    <3>3. QED BY <2>1, <3>1, <3>2, BecomesDoes
  <2>3. QED BY <1>3, <2>2 DEF WriteNewHash, DoesWriteNewHash, At
<1>4. CASE AssignmentFault(r)
  <2>1. Fault /\ UNCHANGED <<db, cache, log>>
    BY <1>4, ZenonT(40) DEF AssignmentFault
  <2>2. ASSUME NEW p \in {"keys", "hashes", "default"}, At(r, p), NEW e \in FreshId,
               Becomes(r, [req[r] EXCEPT !.elev = e, !.phase = "fallback"])
        PROVE  DoesFallBack(r)
    <3>1. Goes(r, p, "fallback") /\ req'[r].elev = e /\ req'[r].kind = req[r].kind
      <4> DEFINE v == [req[r] EXCEPT !.elev = e, !.phase = "fallback"]
      <4>1. v.phase = "fallback" /\ v.kind = req[r].kind /\ v.elev = e
        BY ReqFields DEF Request
      <4>2. Becomes(r, v)
        BY <2>2
      <4> HIDE DEF v
      <4>3. QED BY <2>2, <4>1, <4>2, BecomesDoes DEF At
    <3>2. QED BY <2>1, <3>1 DEF DoesFallBack
  <2>3. CASE At(r, "fallback") /\ Fails(r)
    <3>1. Goes(r, "fallback", "failed") /\ Keeps(r)
      BY <2>3, FailsDoes DEF At
    <3>2. QED BY <2>1, <3>1 DEF DoesFail, Phase, Resting
  <2>4. QED BY <1>4, <2>2, <2>3 DEF AssignmentFault
<1>5. QED BY <1>1, <1>2, <1>3, <1>4

(* A call on a rebuilt aggregate sets it moving only with a Moving event,   *)
(* and never stops it.                                                      *)
LEMMA CallSetsOff ==
    ASSUME NEW f \in Floor, NEW s \in State, NEW from \in Floor, NEW to \in Floor,
           NEW b, b = WithCall(Rehydrated(f, s), from, to)
    PROVE  /\ s = "MOVING" => b.state = "MOVING"
           /\ b.state = "MOVING" => s = "MOVING" \/ Len(b.events) = 2
<1> DEFINE a == Rehydrated(f, s)
           q == Enqueued(Enqueued(<<>>, from), to)
           called == CalledEvent(from, to)
           c == [a EXCEPT !.queue = q, !.events = <<called>>]
<1>1. /\ a \in Aggregate /\ a.queue = <<>> /\ a.events = <<>> /\ a.state = s
  BY DEF Rehydrated, Aggregate, Direction
<1>2. q \in Seq(Floor)
  <2>1. <<>> \in Seq(Floor) /\ IsInjective(<<>>)
    BY DEF IsInjective
  <2>2. QED BY <2>1, EnqueuedType
<1>3. called \in Event
  BY DEF CalledEvent, Event
<1>4. b = WithNextRequest(c)
  <2>1. Append(<<>>, called) = <<called>>
    OBVIOUS
  <2>2. QED BY <1>1, <2>1 DEF WithCall
<1> HIDE DEF a, q, called
<1>5. <<called>> \in Seq(Event)
  BY <1>3
<1>6. c \in Aggregate /\ c.events = <<called>> /\ c.state = s /\ c.queue = q
  BY <1>1, <1>2, <1>5 DEF Aggregate
<1> HIDE DEF c
<1>7. CASE s # "IDLE" \/ q = <<>>
  <2>1. b = c
    BY <1>4, <1>6, <1>7 DEF WithNextRequest
  <2>2. QED BY <1>6, <2>1
<1>8. CASE s = "IDLE" /\ q # <<>>
  <2> DEFINE next  == Head(q)
             dir   == DirectionTo(c.floor, next)
             taken == [c EXCEPT !.queue = Tail(@), !.target = next, !.direction = dir]
             m     == MovingEvent(c.floor, next, dir)
  <2>1. b = IF dir = "IDLE" THEN taken
            ELSE [taken EXCEPT !.state = "MOVING", !.events = Append(@, m)]
    BY <1>4, <1>6, <1>8 DEF WithNextRequest
  <2> HIDE DEF next, dir, m
  <2>2. /\ taken.state = "IDLE" /\ taken.events = <<called>>
        /\ [taken EXCEPT !.state = "MOVING", !.events = Append(@, m)].events
             = Append(<<called>>, m)
    BY <1>6, <1>8 DEF Aggregate
  <2>3. Len(Append(<<called>>, m)) = 2
    OBVIOUS
  <2> HIDE DEF taken
  <2>4. QED BY <1>8, <2>1, <2>2, <2>3
<1>9. QED BY <1>7, <1>8

LEMMA FindDoes ==
    ASSUME IInv, NEW r \in Requests,
           FindRow(r) \/ CreateRow(r) \/ SeedHash(r) \/ LoadHistory(r)
    PROVE  \/ DoesFindRow(r) \/ DoesCreateRow(r) \/ DoesNotCreateRow(r)
           \/ DoesSeedHash(r) \/ DoesLoadHistory(r)
<1>1. CASE FindRow(r)
  <2> DEFINE row == db[req[r].elev]
  <2>1. At(r, "find") /\ UNCHANGED <<db, cache, log, faults>>
    BY <1>1 DEF FindRow
  <2>2. CASE row = Nothing /\ Becomes(r, [req[r] EXCEPT !.phase = "create"])
    <3>1. Goes(r, "find", "create") /\ Keeps(r)
      <4> DEFINE v == [req[r] EXCEPT !.phase = "create"]
      <4>1. v.phase = "create" /\ v.kind = req[r].kind /\ v.elev = req[r].elev
        BY ReqFields DEF Request
      <4>2. Becomes(r, v)
        BY <2>1, <2>2
      <4> HIDE DEF v
      <4>3. QED BY <2>1, <2>2, <4>1, <4>2, BecomesDoes DEF At
    <3>2. QED BY <2>1, <2>2, <3>1 DEF DoesFindRow
  <2>3. CASE /\ row # Nothing
             /\ Becomes(r, [req[r] EXCEPT !.agg = Rehydrated(row.floor, row.state),
                                          !.phase = "history"])
    <3>1. /\ Goes(r, "find", "history") /\ Keeps(r)
          /\ req'[r].agg = Rehydrated(row.floor, row.state)
      <4> DEFINE v == [req[r] EXCEPT !.agg = Rehydrated(row.floor, row.state), !.phase = "history"]
      <4>1. /\ v.phase = "history" /\ v.kind = req[r].kind /\ v.elev = req[r].elev
            /\ v.agg = Rehydrated(row.floor, row.state)
        BY ReqFields DEF Request
      <4>2. Becomes(r, v)
        BY <2>1, <2>3
      <4> HIDE DEF v
      <4>3. QED BY <2>1, <2>3, <4>1, <4>2, BecomesDoes DEF At
    <3>2. req'[r].agg.state = row.state
      BY <3>1 DEF Rehydrated
    <3>3. QED BY <2>1, <2>3, <3>1, <3>2 DEF DoesFindRow
  <2>4. QED BY <1>1, <2>2, <2>3 DEF FindRow
<1>2. CASE CreateRow(r)
  <2> DEFINE e == req[r].elev
             ok == [req[r] EXCEPT !.agg = Created(0), !.phase = "seed"]
             reset == [FreshRow EXCEPT !.target = db[e].target]
  <2>1. At(r, "create") /\ UNCHANGED <<cache, log, faults>>
    BY <1>2 DEF CreateRow
  <2>2. e \in Elevators
    BY <2>1, ReqFields DEF LocalsOk, LocalsGood, Placed, At
  <2>3. db[e] # Nothing => reset \in Row /\ reset.state = "IDLE"
    <3>1. db[e] # Nothing => db[e].target \in Floor \cup {NoFloor}
      BY <2>2, TypeParts DEF Row
    <3>2. QED BY <3>1, FreshRowType DEF Row, FreshRow
  <2>4. FreshRow \in Row /\ FreshRow.state = "IDLE"
    BY FreshRowType DEF FreshRow
  <2>5. ASSUME Becomes(r, ok)
        PROVE  Goes(r, "create", "seed") /\ Keeps(r) /\ req'[r].agg.state = "IDLE"
    <3>1. Goes(r, "create", "seed") /\ Keeps(r) /\ req'[r].agg = Created(0)
      <4> DEFINE v == ok
      <4>1. /\ v.phase = "seed" /\ v.kind = req[r].kind /\ v.elev = req[r].elev
            /\ v.agg = Created(0)
        BY ReqFields DEF Request
      <4>2. Becomes(r, v)
        BY <2>1, <2>5
      <4> HIDE DEF v
      <4>3. QED BY <2>1, <2>5, <4>1, <4>2, BecomesDoes DEF At
    <3>2. QED BY <3>1 DEF Created, Rehydrated
  <2>6. CASE db[e] = Nothing /\ db' = [db EXCEPT ![e] = FreshRow] /\ Becomes(r, ok)
    BY <2>1, <2>4, <2>5, <2>6 DEF DoesCreateRow
  <2>7. CASE db[e] # Nothing /\ db' = [db EXCEPT ![e] = reset] /\ Becomes(r, ok)
    <3> HIDE DEF reset, ok
    <3>1. QED BY <2>1, <2>3, <2>5, <2>7 DEF DoesCreateRow
  <2>8. CASE db[e] # Nothing /\ Fails(r) /\ UNCHANGED db
    BY <2>1, <2>8, FailsDoes DEF DoesNotCreateRow, At
  <2>9. QED BY <1>2, <2>6, <2>7, <2>8 DEF CreateRow
<1>3. CASE SeedHash(r)
  <2>1. /\ At(r, "seed") /\ UNCHANGED <<db, log>>
        /\ Becomes(r, [req[r] EXCEPT !.phase = "history"])
        /\ \/ cache' = [cache EXCEPT ![req[r].elev] = FreshRow] /\ faults' = faults
           \/ cache' = cache /\ Fault
    BY <1>3 DEF SeedHash
  <2>2. Goes(r, "seed", "history") /\ Keeps(r) /\ req'[r].agg = req[r].agg
    <3> DEFINE v == [req[r] EXCEPT !.phase = "history"]
    <3>1. /\ v.phase = "history" /\ v.kind = req[r].kind /\ v.elev = req[r].elev
          /\ v.agg = req[r].agg
      BY ReqFields DEF Request
    <3>2. Becomes(r, v)
      BY <2>1
    <3> HIDE DEF v
    <3>3. QED BY <2>1, <3>1, <3>2, BecomesDoes DEF At
  <2>3. QED BY <2>1, <2>2 DEF DoesSeedHash
<1>4. CASE LoadHistory(r)
  <2>1. At(r, "history") /\ UNCHANGED <<db, cache, log, faults>>
    BY <1>4 DEF LoadHistory
  <2>2. CASE Becomes(r, [req[r] EXCEPT !.phase = "upsert"])
    <3>1. Goes(r, "history", "upsert") /\ Keeps(r) /\ req'[r].agg = req[r].agg
      <4> DEFINE v == [req[r] EXCEPT !.phase = "upsert"]
      <4>1. /\ v.phase = "upsert" /\ v.kind = req[r].kind /\ v.elev = req[r].elev
            /\ v.agg = req[r].agg
        BY ReqFields DEF Request
      <4>2. Becomes(r, v)
        BY <2>1, <2>2
      <4> HIDE DEF v
      <4>3. QED BY <2>1, <2>2, <4>1, <4>2, BecomesDoes DEF At
    <3>2. QED BY <2>1, <3>1 DEF DoesLoadHistory
  <2>3. CASE Becomes(r, [req[r] EXCEPT !.agg = WithCall(@, req[r].from, req[r].to),
                                       !.phase = "upsert"])
    <3>1. /\ Goes(r, "history", "upsert") /\ Keeps(r)
          /\ req'[r].agg = WithCall(req[r].agg, req[r].from, req[r].to)
      <4> DEFINE v == [req[r] EXCEPT !.agg = WithCall(@, req[r].from, req[r].to),
                                     !.phase = "upsert"]
      <4>1. /\ v.phase = "upsert" /\ v.kind = req[r].kind /\ v.elev = req[r].elev
            /\ v.agg = WithCall(req[r].agg, req[r].from, req[r].to)
        BY ReqFields DEF Request
      <4>2. Becomes(r, v)
        BY <2>1, <2>3
      <4> HIDE DEF v
      <4>3. QED BY <2>1, <2>3, <4>1, <4>2, BecomesDoes DEF At
    <3>2. PICK f \in Floor, s \in State : req[r].agg = Rehydrated(f, s)
      BY <2>1, ReqFields DEF LocalsOk, LocalsGood, Rebuilt, At
    <3>3. req[r].from \in Floor /\ req[r].to \in Floor /\ Rehydrated(f, s).state = s
      BY ReqFields DEF Request, Rehydrated
    <3>4. /\ s = "MOVING" => req'[r].agg.state = "MOVING"
          /\ req'[r].agg.state = "MOVING" => s = "MOVING" \/ Len(req'[r].agg.events) = 2
      BY <3>1, <3>2, <3>3, CallSetsOff
    <3>5. QED BY <2>1, <3>1, <3>2, <3>3, <3>4 DEF DoesLoadHistory
  <2>4. CASE Fails(r)
    BY <2>1, <2>4, FailsDoes DEF DoesLoadHistory, At
  <2>5. QED BY <1>4, <2>2, <2>3, <2>4 DEF LoadHistory
<1>5. QED BY <1>1, <1>2, <1>3, <1>4

LEMMA SaveDoes ==
    ASSUME IInv, NEW r \in Requests, Upsert(r) \/ WriteHash(r)
    PROVE  DoesUpsert(r) \/ DoesWriteHash(r)
<1>1. CASE Upsert(r)
  <2>1. Goes(r, "upsert", "hash") /\ Keeps(r) /\ req'[r].agg = req[r].agg
    <3> DEFINE v == [req[r] EXCEPT !.phase = "hash"]
    <3>1. /\ v.phase = "hash" /\ v.kind = req[r].kind /\ v.elev = req[r].elev
          /\ v.agg = req[r].agg
      BY ReqFields DEF Request
    <3>2. Becomes(r, v)
      BY <1>1 DEF Upsert
    <3> HIDE DEF v
    <3>3. QED BY <1>1, <3>1, <3>2, BecomesDoes DEF Upsert, At
  <2>2. QED BY <1>1, <2>1 DEF Upsert, DoesUpsert
<1>2. CASE WriteHash(r)
  <2>1. PICK w \in BOOLEAN :
          /\ At(r, "hash") /\ UNCHANGED <<db, log>>
          /\ Becomes(r, [req[r] EXCEPT !.cached = w, !.phase = AfterHash(r)])
          /\ \/ /\ cache' = [cache EXCEPT ![req[r].elev] = RowOf(req[r].agg)]
                /\ faults' = faults
             \/ cache' = cache /\ Fault /\ ~w
    <3>1. At(r, "hash") /\ UNCHANGED <<db, log>>
      BY <1>2 DEF WriteHash
    <3>2. [req[r] EXCEPT !.phase = AfterHash(r)]
            = [req[r] EXCEPT !.cached = FALSE, !.phase = AfterHash(r)]
      <4>1. req[r].cached = FALSE
        BY <3>1, ReqFields DEF LocalsOk, LocalsGood, At, Request, Early, Saving
      <4>2. QED BY <4>1, ReqFields DEF Request
    <3>3. QED BY <1>2, <3>1, <3>2 DEF WriteHash
  <2>2. /\ Goes(r, "hash", AfterHash(r)) /\ Keeps(r) /\ req'[r].agg = req[r].agg
        /\ req'[r].cached = w
    <3> DEFINE v == [req[r] EXCEPT !.cached = w, !.phase = AfterHash(r)]
    <3>1. /\ v.phase = AfterHash(r) /\ v.kind = req[r].kind /\ v.elev = req[r].elev
          /\ v.agg = req[r].agg /\ v.cached = w
      BY ReqFields DEF Request
    <3>2. Becomes(r, v)
      BY <2>1
    <3> HIDE DEF v
    <3>3. QED BY <2>1, <3>1, <3>2, BecomesDoes DEF At
  <2>3. QED BY <2>1, <2>2 DEF DoesWriteHash, AfterHash
<1>3. QED BY <1>1, <1>2

LEMMA NumberDoes ==
    ASSUME IInv, NEW r \in Requests, NextSequence(r)
    PROVE  DoesNextSequence(r)
<1> DEFINE rows == log[req[r].elev]
<1>1. At(r, "sequence") /\ UNCHANGED <<db, cache, log, faults>>
  BY DEF NextSequence
<1>2. req[r].elev \in Elevators
  BY <1>1, ReqFields DEF LocalsOk, LocalsGood, Placed, Rowed, Logging, At
<1>3. PICK s \in {0} \cup {x.seq : x \in rows} :
        IsLastSequence(rows, s) /\ Becomes(r, [req[r] EXCEPT !.seq = s + 1, !.phase = "insert"])
  BY DEF NextSequence
<1>4. rows \subseteq LogRow
  BY <1>2, TypeParts
<1>5. s \in Nat /\ \A x \in rows : x.seq \in Nat /\ x.seq <= s
  BY <1>3, <1>4 DEF LogRow, IsLastSequence
<1> DEFINE n == s + 1
<1>6. \A x \in rows : x.seq < n
  BY <1>5
<1>7. Becomes(r, [req[r] EXCEPT !.seq = n, !.phase = "insert"])
  BY <1>3
<1> HIDE DEF n, rows
<1>8. /\ Goes(r, "sequence", "insert") /\ Keeps(r) /\ req'[r].agg = req[r].agg
      /\ req'[r].seq = n /\ req'[r].cached = req[r].cached
  <2> DEFINE v == [req[r] EXCEPT !.seq = n, !.phase = "insert"]
  <2>1. /\ v.phase = "insert" /\ v.kind = req[r].kind /\ v.elev = req[r].elev
        /\ v.agg = req[r].agg /\ v.seq = n /\ v.cached = req[r].cached
    BY ReqFields DEF Request
  <2>2. Becomes(r, v)
    BY <1>1, <1>7
  <2> HIDE DEF v
  <2>3. QED BY <1>1, <1>7, <2>1, <2>2, BecomesDoes DEF At
<1>9. QED BY <1>1, <1>6, <1>8 DEF DoesNextSequence, rows

LEMMA InsertDoes ==
    ASSUME IInv, NEW r \in Requests, InsertEvent(r)
    PROVE  DoesInsertEvent(r)
<1> DEFINE a == req[r].agg
           i == req[r].stored + 1
           w == [seq |-> req[r].seq, type |-> a.events[i].type, by |-> r]
           v1 == [req[r] EXCEPT !.stored = i, !.phase = "sequence"]
           v2 == [req[r] EXCEPT !.stored = i, !.agg = WithEventsCommitted(a), !.phase = "answered"]
<1>1. /\ At(r, "insert") /\ UNCHANGED <<db, cache, faults>>
      /\ log' = [log EXCEPT ![req[r].elev] = @ \cup {w}]
      /\ \/ i < Len(a.events) /\ Becomes(r, v1)
         \/ i = Len(a.events) /\ Becomes(r, v2)
  BY DEF InsertEvent
<1>2. Shape(a.events) /\ req[r].stored < Len(a.events) /\ req[r].stored \in Nat
      /\ req[r].seq \in Nat /\ req[r].seq # 0
  BY <1>1, ReqFields DEF LocalsOk, LocalsGood, Logging, RowsOk, Request, At
<1>3. w \in LogRow /\ w.seq = req[r].seq /\ w.by = r /\ (i = 2 => w.type = "Moving")
  <2> DEFINE k == req[r].stored
             n == Len(a.events)
  <2>1. /\ k \in Nat /\ k < n /\ n \in {1, 2}
        /\ a.events[1].type = "Called" /\ (n = 2 => a.events[2].type = "Moving")
    BY <1>2 DEF Shape
  <2> HIDE DEF k, n
  <2>2. k + 1 = 1 \/ (k + 1 = 2 /\ n = 2)
    BY <2>1
  <2>3. i = 1 \/ (i = 2 /\ n = 2)
    BY <2>2 DEF k
  <2> HIDE DEF i
  <2>4. a.events[i].type \in {"Called", "Moving"} /\ (i = 2 => a.events[i].type = "Moving")
    BY <2>1, <2>3
  <2> HIDE DEF a
  <2>5. QED BY <1>2, <2>4 DEF LogRow
<1>4. /\ \/ Goes(r, "insert", "sequence") /\ req'[r].agg = a
         \/ Goes(r, "insert", "answered") /\ i = Len(a.events)
      /\ Keeps(r) /\ req'[r].cached = req[r].cached
  <2> HIDE DEF i
  <2>1. CASE i < Len(a.events) /\ Becomes(r, v1)
    <3> DEFINE v == v1
    <3>1. /\ v.phase = "sequence" /\ v.kind = req[r].kind /\ v.elev = req[r].elev
          /\ v.agg = req[r].agg /\ v.cached = req[r].cached
      BY ReqFields DEF Request
    <3>2. Becomes(r, v)
      BY <1>1, <2>1
    <3> HIDE DEF v
    <3>3. QED BY <1>1, <2>1, <3>1, <3>2, BecomesDoes DEF At
  <2>2. CASE i = Len(a.events) /\ Becomes(r, v2)
    <3> DEFINE v == v2
    <3>1. /\ v.phase = "answered" /\ v.kind = req[r].kind /\ v.elev = req[r].elev
          /\ v.cached = req[r].cached
      BY ReqFields DEF Request
    <3>2. Becomes(r, v)
      BY <1>1, <2>2
    <3> HIDE DEF v
    <3>3. QED BY <1>1, <2>2, <3>1, <3>2, BecomesDoes DEF At
  <2>3. QED BY <1>1, <2>1, <2>2
<1> HIDE DEF w, i, v1, v2
<1>5. req'[r].phase = "answered" /\ Len(req[r].agg.events) = 2 => w.type = "Moving"
  BY <1>3, <1>4 DEF Goes
<1>6. QED BY <1>1, <1>3, <1>4, <1>5 DEF DoesInsertEvent

LEMMA StepDoes ==
    ASSUME IInv, NEW r \in Requests, Step(r)
    PROVE  Does(r)
<1>1. ASSUME DatabaseFault(r) PROVE DoesStep(r)
  <2>1. Goes(r, req[r].phase, "failed") /\ Keeps(r) /\ Fault /\ UNCHANGED <<db, cache, log>>
    BY <1>1, FailsDoes DEF DatabaseFault
  <2>2. req[r].phase \in Phase \ Resting
    BY <1>1 DEF DatabaseFault, Phase, Resting
  <2>3. QED BY <2>1, <2>2 DEF DoesFail, DoesStep
<1>2. DoesStep(r)
  BY <1>1, AssignmentDoes, FindDoes, SaveDoes, NumberDoes, InsertDoes DEF Step, DoesStep
<1>3. QED BY <1>2 DEF Does, Step

LEMMA DoesOthers ==
    ASSUME NEW r \in Requests, Does(r)
    PROVE  \A s \in Requests \ {r} : req'[s] = req[s]
BY DEF Does, DoesStep, DoesReceiveCall, DoesReceiveInitialize, DoesListKeys, DoesReadHashes,
   DoesWriteNewHash, DoesFallBack, DoesFindRow, DoesCreateRow, DoesNotCreateRow, DoesSeedHash,
   DoesLoadHistory, DoesUpsert, DoesWriteHash, DoesNextSequence, DoesInsertEvent, DoesFail, Goes

LEMMA DoesFaults ==
    ASSUME NEW r \in Requests, Does(r)
    PROVE  Fault \/ faults' = faults
BY DEF Does, DoesStep, DoesReceiveCall, DoesReceiveInitialize, DoesListKeys, DoesReadHashes,
   DoesWriteNewHash, DoesFallBack, DoesFindRow, DoesCreateRow, DoesNotCreateRow, DoesSeedHash,
   DoesLoadHistory, DoesUpsert, DoesWriteHash, DoesNextSequence, DoesInsertEvent, DoesFail

-----------------------------------------------------------------------------
(* Without failures, however requests interleave.                           *)

(* A request whose Moving event is on its way to the log.                   *)
Departing(q) == /\ req[q].phase \in {"hash", "sequence", "insert"}
                /\ Len(req[q].agg.events) = 2

MovingRow(e) == \E x \in log[e] : x.type = "Moving"

Explained(e) == MovingRow(e) \/ \E q \in Requests : req[q].elev = e /\ Departing(q)

(* A hash without a row belongs to an elevator that is being created, and a *)
(* row without a hash to one whose hash is about to be written.             *)
HashHasRow(e) ==
    cache[e] # Nothing /\ db[e] = Nothing
        => \E q \in Requests : req[q].elev = e /\ req[q].phase \in {"find", "create"}

RowHasHash(e) ==
    db[e] # Nothing /\ cache[e] = Nothing
        => \E q \in Requests : req[q].elev = e /\ req[q].phase = "seed"

(* MOVING, in a row or in an aggregate rebuilt from one, has a reason: a    *)
(* Moving event logged, on its way to the log, or still in the aggregate.   *)
RowExplained(e) == db[e] # Nothing /\ db[e].state = "MOVING" => Explained(e)

HeldExplained(r) ==
    req[r].phase \in Rebuilt \cup Saving /\ req[r].agg.state = "MOVING"
        => Len(req[r].agg.events) = 2 \/ Explained(req[r].elev)

(* The inductive strengthening of SameFleet and DepartureIsOnRecord: what   *)
(* is missing while an elevator is busy is in the locals of some request.   *)
FleetInv ==
    faults = 0 => /\ \A e \in Elevators : HashHasRow(e) /\ RowHasHash(e) /\ RowExplained(e)
                  /\ \A r \in Requests : HeldExplained(r)

LEMMA InitFleet == Init => FleetInv
<1> SUFFICES ASSUME Init PROVE FleetInv
  OBVIOUS
<1>1. \A r \in Requests : req[r].phase = "absent"
  BY DEF Init, NewRequest
<1>2. QED
  BY <1>1 DEF Init, FleetInv, HashHasRow, RowHasHash, RowExplained, HeldExplained, Rebuilt, Saving

LEMMA NoFault ==
    ASSUME IInv, faults' = 0
    PROVE  ~Fault
BY TypeParts DEF Fault

(* A departure explained stays explained.                                   *)
LEMMA ExplainedStays ==
    ASSUME IInv, NEW r \in Requests, Does(r), faults' = 0, NEW e \in Elevators, Explained(e)
    PROVE  Explained(e)'
<1>1. \A s \in Requests \ {r} : req'[s] = req[s]
  BY DoesOthers
<1>2. log[e] \subseteq log'[e]
  <2>1. CASE log' = log
    BY <2>1
  <2>2. CASE DoesInsertEvent(r)
    <3>1. PICK w \in LogRow : log' = [log EXCEPT ![req[r].elev] = @ \cup {w}]
      BY <2>2 DEF DoesInsertEvent
    <3>2. QED BY <3>1, TypeParts
  <2>3. QED
    BY <2>1, <2>2 DEF Does, DoesStep, DoesReceiveCall, DoesReceiveInitialize, DoesListKeys,
       DoesReadHashes, DoesWriteNewHash, DoesFallBack, DoesFindRow, DoesCreateRow,
       DoesNotCreateRow, DoesSeedHash,
       DoesLoadHistory, DoesUpsert, DoesWriteHash, DoesNextSequence, DoesFail
<1>3. ASSUME Departing(r), req[r].elev = e
      PROVE  (Departing(r)' /\ req'[r].elev = e) \/ MovingRow(e)'
  <2>1. CASE DoesWriteHash(r)
    <3>1. req[r].agg.events # <<>>
      <4>1. Len(<<>>) # 2
        OBVIOUS
      <4>2. QED BY <1>3, <4>1, Zenon DEF Departing
    <3>2. Goes(r, "hash", "sequence") /\ Keeps(r) /\ req'[r].agg = req[r].agg
      BY <2>1, <3>1 DEF DoesWriteHash
    <3>3. QED BY <1>3, <3>2 DEF Departing, Goes, Keeps
  <2>2. CASE DoesNextSequence(r)
    BY <1>3, <2>2 DEF DoesNextSequence, Departing, Goes, Keeps
  <2>3. CASE DoesInsertEvent(r)
    <3>1. CASE Goes(r, "insert", "sequence") /\ req'[r].agg = req[r].agg
      BY <1>3, <2>3, <3>1 DEF DoesInsertEvent, Departing, Goes, Keeps
    <3>2. CASE Goes(r, "insert", "answered")
      <4>1. PICK w \in LogRow : log' = [log EXCEPT ![e] = @ \cup {w}] /\ w.type = "Moving"
        BY <1>3, <2>3, <3>2 DEF DoesInsertEvent, Departing, Goes
      <4>2. w \in log'[e]
        BY <4>1, TypeParts
      <4>3. QED BY <4>1, <4>2 DEF MovingRow
    <3>3. QED BY <2>3, <3>1, <3>2 DEF DoesInsertEvent
  <2>4. req[r].phase \in {"hash", "sequence", "insert"}
    BY <1>3 DEF Departing
  <2>5. QED
    BY <2>1, <2>2, <2>3, <2>4, NoFault DEF Does, DoesStep, DoesReceiveCall, DoesReceiveInitialize,
       DoesListKeys, DoesReadHashes, DoesWriteNewHash, DoesFallBack, DoesFindRow, DoesCreateRow,
       DoesNotCreateRow, DoesSeedHash, DoesLoadHistory, DoesUpsert, DoesFail, Goes
<1>4. CASE MovingRow(e)
  BY <1>2, <1>4 DEF MovingRow, Explained
<1>5. CASE \E q \in Requests : req[q].elev = e /\ Departing(q)
  <2>1. PICK q \in Requests : req[q].elev = e /\ Departing(q)
    BY <1>5
  <2>2. q # r => req'[q].elev = e /\ Departing(q)'
    BY <1>1, <2>1 DEF Departing
  <2>3. QED BY <1>3, <2>1, <2>2 DEF Explained
<1>6. QED BY <1>4, <1>5 DEF Explained

(* The witnesses among the other requests stay; what r stood for is to be   *)
(* made good by its step.                                                   *)
LEMMA FleetKept ==
    ASSUME IInv, FleetInv, faults = 0, NEW r \in Requests, Does(r), faults' = 0,
           \A e \in Elevators : HashHasRow(e)' /\ RowHasHash(e)' /\ RowExplained(e)',
           HeldExplained(r)'
    PROVE  FleetInv'
<1>1. ASSUME NEW q \in Requests, q # r PROVE HeldExplained(q)'
  <2>1. req'[q] = req[q]
    BY <1>1, DoesOthers
  <2>2. HeldExplained(q)
    BY DEF FleetInv
  <2>3. req[q].phase \in Rebuilt \cup Saving => req[q].elev \in Elevators
    BY ReqFields DEF LocalsOk, LocalsGood, Placed, Rowed
  <2>4. QED BY <2>1, <2>2, <2>3, ExplainedStays DEF HeldExplained
<1>2. QED BY <1>1 DEF FleetInv

(* Steps that write neither store.                                          *)
LEMMA FleetReads ==
    ASSUME IInv, FleetInv, faults = 0, NEW r \in Requests, Does(r), faults' = 0,
           UNCHANGED <<db, cache>>, req[r].phase # "seed",
           req[r].phase \in {"find", "create"} =>
               req'[r].elev = req[r].elev
               /\ (req'[r].phase \in {"find", "create"} \/ db[req[r].elev] # Nothing),
           HeldExplained(r)'
    PROVE  FleetInv'
<1>1. ASSUME NEW e \in Elevators PROVE HashHasRow(e)'
  <2> SUFFICES ASSUME cache[e] # Nothing, db[e] = Nothing
               PROVE  \E q \in Requests : req'[q].elev = e /\ req'[q].phase \in {"find", "create"}
    BY DEF HashHasRow
  <2>1. PICK q \in Requests : req[q].elev = e /\ req[q].phase \in {"find", "create"}
    BY DEF FleetInv, HashHasRow
  <2>2. q # r => req'[q] = req[q]
    BY DoesOthers
  <2>3. QED BY <2>1, <2>2
<1>2. ASSUME NEW e \in Elevators PROVE RowHasHash(e)'
  <2> SUFFICES ASSUME db[e] # Nothing, cache[e] = Nothing
               PROVE  \E q \in Requests : req'[q].elev = e /\ req'[q].phase = "seed"
    BY DEF RowHasHash
  <2>1. PICK q \in Requests : req[q].elev = e /\ req[q].phase = "seed"
    BY DEF FleetInv, RowHasHash
  <2>2. q # r /\ req'[q] = req[q]
    BY <2>1, DoesOthers
  <2>3. QED BY <2>1, <2>2
<1>3. ASSUME NEW e \in Elevators PROVE RowExplained(e)'
  BY ExplainedStays DEF FleetInv, RowExplained
<1>4. QED BY <1>1, <1>2, <1>3, FleetKept

LEMMA FleetStep ==
    ASSUME IInv, FleetInv, NEW r \in Requests, Does(r), faults' \in Nat, faults' = 0 => faults = 0
    PROVE  FleetInv'
<1> SUFFICES ASSUME faults = 0, faults' = 0 PROVE FleetInv'
  BY DEF FleetInv
<1> DEFINE e == req[r].elev
<1>1. req[r].phase \in Placed => e \in Elevators
  BY ReqFields DEF LocalsOk, LocalsGood
<1>2. ~Fault
  BY NoFault
<1>3. HeldExplained(r) /\ \A d \in Elevators : HashHasRow(d) /\ RowHasHash(d) /\ RowExplained(d)
  BY DEF FleetInv
<1>4. CASE DoesReceiveCall(r) \/ DoesReceiveInitialize(r) \/ DoesListKeys(r) \/ DoesReadHashes(r)
  <2>1. /\ UNCHANGED <<db, cache>> /\ req[r].phase \in {"absent", "keys", "hashes"}
        /\ req'[r].phase \notin Rebuilt \cup Saving
    BY <1>4 DEF DoesReceiveCall, DoesReceiveInitialize, DoesListKeys, DoesReadHashes, Goes,
       Rebuilt, Saving
  <2>2. HeldExplained(r)'
    BY <2>1 DEF HeldExplained
  <2>3. QED BY <2>1, <2>2, FleetReads
<1>5. CASE DoesFindRow(r)
  <2>1. req[r].phase = "find" /\ e \in Elevators /\ UNCHANGED <<db, cache>> /\ req'[r].elev = e
    BY <1>1, <1>5 DEF DoesFindRow, Goes, Keeps, Placed
  <2>2. req'[r].phase = "create" \/ db[e] # Nothing
    BY <1>5 DEF DoesFindRow, Goes
  <2>3. HeldExplained(r)'
    <3>1. CASE req'[r].phase = "history"
      <4>1. db[e] # Nothing /\ req'[r].agg.state = db[e].state
        BY <1>5, <3>1 DEF DoesFindRow, Goes
      <4>2. QED BY <1>3, <2>1, <4>1, ExplainedStays DEF HeldExplained, RowExplained
    <3>2. CASE req'[r].phase = "create"
      BY <3>2 DEF HeldExplained, Rebuilt, Saving
    <3>3. QED BY <1>5, <3>1, <3>2 DEF DoesFindRow, Goes
  <2>4. QED BY <2>1, <2>2, <2>3, FleetReads
<1>6. CASE DoesNotCreateRow(r)
  <2>1. /\ req[r].phase = "create" /\ UNCHANGED <<db, cache>> /\ req'[r].elev = e
        /\ db[e] # Nothing /\ req'[r].phase = "failed"
    BY <1>6 DEF DoesNotCreateRow, Goes, Keeps
  <2>2. HeldExplained(r)'
    BY <2>1 DEF HeldExplained, Rebuilt, Saving
  <2>3. QED BY <2>1, <2>2, FleetReads
<1>7. CASE DoesLoadHistory(r)
  <2>1. /\ req[r].phase = "history" /\ UNCHANGED <<db, cache>> /\ req'[r].elev = e
    BY <1>7 DEF DoesLoadHistory, Goes, Keeps
  <2>2. HeldExplained(r)'
    <3>1. CASE req'[r].phase = "upsert"
      <4>1. e \in Elevators
        BY <1>1, <2>1 DEF Placed, Rowed, Rebuilt
      <4>2. req'[r].agg.state = "MOVING" =>
              req[r].agg.state = "MOVING" \/ Len(req'[r].agg.events) = 2
        BY <1>7, <3>1 DEF DoesLoadHistory, Goes
      <4>3. req[r].agg.state = "MOVING" => Len(req[r].agg.events) = 2 \/ Explained(e)
        BY <1>3, <2>1 DEF HeldExplained, Rebuilt
      <4>4. Len(req[r].agg.events) # 2
        <5>1. PICK f \in Floor, s \in State : req[r].agg = Rehydrated(f, s)
          BY <2>1, ReqFields DEF LocalsOk, LocalsGood, Rebuilt
        <5>2. QED BY <5>1 DEF Rehydrated
      <4>5. QED BY <2>1, <4>1, <4>2, <4>3, <4>4, ExplainedStays DEF HeldExplained
    <3>2. CASE req'[r].phase = "failed"
      BY <3>2 DEF HeldExplained, Rebuilt, Saving
    <3>3. QED BY <1>7, <3>1, <3>2 DEF DoesLoadHistory, Goes
  <2>3. QED BY <2>1, <2>2, FleetReads
<1>8. CASE DoesNextSequence(r) \/ DoesInsertEvent(r)
  <2>1. /\ req[r].phase \in {"sequence", "insert"} /\ UNCHANGED <<db, cache>>
        /\ req'[r].phase \in {"sequence", "insert", "answered"}
    BY <1>8 DEF DoesNextSequence, DoesInsertEvent, Goes
  <2>2. HeldExplained(r)'
    BY <2>1 DEF HeldExplained, Rebuilt, Saving
  <2>3. QED BY <2>1, <2>2, FleetReads
<1>9. CASE DoesWriteNewHash(r)
  <2>1. /\ req[r].phase \in {"default", "fallback"} /\ req'[r].phase = "find" /\ req'[r].elev = e
        /\ cache' = [cache EXCEPT ![e] = FreshRow] /\ db' = db /\ e \in Elevators
    BY <1>1, <1>9 DEF DoesWriteNewHash, Goes, Keeps, Placed
  <2>2. ASSUME NEW d \in Elevators PROVE HashHasRow(d)' /\ RowHasHash(d)' /\ RowExplained(d)'
    <3>1. cache'[d] = IF d = e THEN FreshRow ELSE cache[d]
      BY <2>1, TypeParts
    <3>2. HashHasRow(d)'
      BY <1>3, <2>1, <3>1, DoesOthers DEF HashHasRow
    <3>3. RowHasHash(d)'
      BY <1>3, <2>1, <3>1, DoesOthers, FreshRowType DEF RowHasHash
    <3>4. RowExplained(d)'
      BY <1>3, <2>1, ExplainedStays DEF RowExplained
    <3>5. QED BY <3>2, <3>3, <3>4
  <2>3. HeldExplained(r)'
    BY <2>1 DEF HeldExplained, Rebuilt, Saving
  <2>4. QED BY <2>2, <2>3, FleetKept
<1>10. CASE DoesSeedHash(r)
  <2>1. /\ req[r].phase = "seed" /\ req'[r].phase = "history" /\ req'[r].elev = e
        /\ cache' = [cache EXCEPT ![e] = FreshRow] /\ db' = db /\ e \in Elevators
        /\ req'[r].agg = req[r].agg
    BY <1>1, <1>2, <1>10 DEF DoesSeedHash, Goes, Keeps, Placed, Rowed, Rebuilt
  <2>2. db[e] # Nothing
    BY <2>1, ReqFields DEF StoresOk, Rowed, Rebuilt
  <2>3. ASSUME NEW d \in Elevators PROVE HashHasRow(d)' /\ RowHasHash(d)' /\ RowExplained(d)'
    <3>1. cache'[d] = IF d = e THEN FreshRow ELSE cache[d]
      BY <2>1, TypeParts
    <3>2. HashHasRow(d)'
      BY <1>3, <2>1, <2>2, <3>1, DoesOthers DEF HashHasRow
    <3>3. RowHasHash(d)'
      BY <1>3, <2>1, <3>1, DoesOthers, FreshRowType DEF RowHasHash
    <3>4. RowExplained(d)'
      BY <1>3, <2>1, ExplainedStays DEF RowExplained
    <3>5. QED BY <3>2, <3>3, <3>4
  <2>4. HeldExplained(r)'
    BY <1>3, <2>1, ExplainedStays DEF HeldExplained, Rebuilt
  <2>5. QED BY <2>3, <2>4, FleetKept
<1>11. CASE DoesWriteHash(r)
  <2>1. /\ req[r].phase = "hash" /\ req'[r].phase \in {"answered", "sequence"}
        /\ cache' = [cache EXCEPT ![e] = RowOf(req[r].agg)] /\ db' = db /\ e \in Elevators
    BY <1>1, <1>2, <1>11 DEF DoesWriteHash, Goes, Placed, Rowed, Saving
  <2>2. db[e] # Nothing /\ RowOf(req[r].agg) # Nothing
    BY <2>1, ReqFields, RowOfType DEF StoresOk, Rowed, Saving
  <2>3. ASSUME NEW d \in Elevators PROVE HashHasRow(d)' /\ RowHasHash(d)' /\ RowExplained(d)'
    <3>1. cache'[d] = IF d = e THEN RowOf(req[r].agg) ELSE cache[d]
      BY <2>1, TypeParts
    <3>2. HashHasRow(d)'
      BY <1>3, <2>1, <2>2, <3>1, DoesOthers DEF HashHasRow
    <3>3. RowHasHash(d)'
      BY <1>3, <2>1, <2>2, <3>1, DoesOthers DEF RowHasHash
    <3>4. RowExplained(d)'
      BY <1>3, <2>1, ExplainedStays DEF RowExplained
    <3>5. QED BY <3>2, <3>3, <3>4
  <2>4. HeldExplained(r)'
    BY <2>1 DEF HeldExplained, Rebuilt, Saving
  <2>5. QED BY <2>3, <2>4, FleetKept
<1>12. CASE DoesCreateRow(r)
  <2>1. /\ req[r].phase = "create" /\ req'[r].phase = "seed" /\ req'[r].elev = e
        /\ req'[r].agg.state = "IDLE" /\ cache' = cache /\ e \in Elevators
    BY <1>1, <1>12 DEF DoesCreateRow, Goes, Keeps, Placed
  <2>2. PICK w \in Row : db' = [db EXCEPT ![e] = w] /\ w.state = "IDLE"
    BY <1>12 DEF DoesCreateRow
  <2>3. w # Nothing
    BY NothingAssumption
  <2>4. ASSUME NEW d \in Elevators PROVE HashHasRow(d)' /\ RowHasHash(d)' /\ RowExplained(d)'
    <3>1. db'[d] = IF d = e THEN w ELSE db[d]
      BY <2>1, <2>2, TypeParts
    <3>2. HashHasRow(d)'
      BY <1>3, <2>1, <2>3, <3>1, DoesOthers DEF HashHasRow
    <3>3. RowHasHash(d)'
      BY <1>3, <2>1, <3>1, DoesOthers DEF RowHasHash
    <3>4. RowExplained(d)'
      BY <1>3, <2>2, <3>1, ExplainedStays DEF RowExplained
    <3>5. QED BY <3>2, <3>3, <3>4
  <2>5. HeldExplained(r)'
    BY <2>1 DEF HeldExplained
  <2>6. QED BY <2>4, <2>5, FleetKept
<1>13. CASE DoesUpsert(r)
  <2>1. /\ req[r].phase = "upsert" /\ req'[r].phase = "hash" /\ req'[r].elev = e
        /\ req'[r].agg = req[r].agg /\ cache' = cache /\ e \in Elevators
        /\ db' = [db EXCEPT ![e] = RowOf(req[r].agg)]
    BY <1>1, <1>13 DEF DoesUpsert, Goes, Keeps, Placed, Rowed, Saving
  <2>2. /\ db[e] # Nothing /\ RowOf(req[r].agg) # Nothing
        /\ RowOf(req[r].agg).state = req[r].agg.state
    BY <2>1, ReqFields, RowOfType DEF StoresOk, Rowed, Saving, RowOf
  <2>3. ASSUME NEW d \in Elevators, d = e, req[r].agg.state = "MOVING" PROVE Explained(d)'
    <3>1. CASE Len(req[r].agg.events) = 2
      BY <2>1, <2>3, <3>1 DEF Explained, Departing
    <3>2. CASE Len(req[r].agg.events) # 2
      BY <1>3, <2>1, <2>3, <3>2, ExplainedStays DEF HeldExplained, Saving
    <3>3. QED BY <3>1, <3>2
  <2>4. ASSUME NEW d \in Elevators PROVE HashHasRow(d)' /\ RowHasHash(d)' /\ RowExplained(d)'
    <3>1. db'[d] = IF d = e THEN RowOf(req[r].agg) ELSE db[d]
      BY <2>1, TypeParts
    <3>2. HashHasRow(d)'
      BY <1>3, <2>1, <2>2, <3>1, DoesOthers DEF HashHasRow
    <3>3. RowHasHash(d)'
      BY <1>3, <2>1, <2>2, <3>1, DoesOthers DEF RowHasHash
    <3>4. RowExplained(d)'
      <4>1. CASE d = e
        BY <2>2, <2>3, <3>1, <4>1 DEF RowExplained
      <4>2. CASE d # e
        BY <1>3, <3>1, <4>2, ExplainedStays DEF RowExplained
      <4>3. QED BY <4>1, <4>2
    <3>5. QED BY <3>2, <3>3, <3>4
  <2>5. HeldExplained(r)'
    BY <2>1, <2>3 DEF HeldExplained
  <2>6. QED BY <2>4, <2>5, FleetKept
<1>14. CASE DoesFallBack(r) \/ DoesFail(r)
  BY <1>2, <1>14 DEF DoesFallBack, DoesFail
<1>15. QED
  BY <1>4, <1>5, <1>6, <1>7, <1>8, <1>9, <1>10, <1>11, <1>12, <1>13, <1>14 DEF Does, DoesStep

LEMMA FleetNext == IInv /\ FleetInv /\ [Next]_vars => FleetInv'
<1> SUFFICES ASSUME IInv, FleetInv, [Next]_vars PROVE FleetInv'
  OBVIOUS
<1>1. CASE Crash
  BY <1>1, TypeParts DEF Crash, Fault, FleetInv
<1>2. ASSUME NEW r \in Requests, Receive(r) \/ Step(r) PROVE FleetInv'
  <2>1. Does(r)
    BY <1>2, ReceiveDoes, StepDoes
  <2>2. faults' \in Nat /\ (faults' = 0 => faults = 0)
    BY <2>1, DoesFaults, TypeParts DEF Fault
  <2>3. QED BY <2>1, <2>2, FleetStep
<1>3. CASE UNCHANGED vars
  BY <1>3 DEF vars, FleetInv, HashHasRow, RowHasHash, RowExplained, HeldExplained, Explained,
     MovingRow, Departing
<1>4. QED BY <1>1, <1>2, <1>3 DEF Next

LEMMA FleetInvariance == Spec => [](IInv /\ FleetInv)
<1>1. Init => IInv /\ FleetInv
  BY InitInv, InitFleet
<1>2. IInv /\ FleetInv /\ [Next]_vars => (IInv /\ FleetInv)'
  BY NextInv, FleetNext
<1>3. QED BY <1>1, <1>2, PTL DEF Spec

(* Without failures, an elevator that no request is busy with is in both    *)
(* stores or in neither, however many requests created it at once.          *)
THEOREM OneFleet == Spec => []SameFleet
<1>1. IInv /\ FleetInv => SameFleet
  <2> SUFFICES ASSUME FleetInv, faults = 0, NEW e \in Elevators, ~Busy(e)
               PROVE  db[e] = Nothing <=> cache[e] = Nothing
    BY DEF SameFleet
  <2>1. ASSUME NEW q \in Requests, req[q].elev = e PROVE req[q].phase \in Resting
    BY <2>1 DEF Busy, InFlight
  <2>2. HashHasRow(e) /\ RowHasHash(e)
    BY DEF FleetInv
  <2>3. QED BY <2>1, <2>2 DEF HashHasRow, RowHasHash, Resting
<1>2. QED BY <1>1, FleetInvariance, PTL

(* Without failures, the row of an elevator that no request is busy with is *)
(* MOVING only if the log says that it set off, although the row is written *)
(* awaits before the event and other requests save the same row.            *)
THEOREM DeparturesRecorded == Spec => []DepartureIsOnRecord
<1>1. IInv /\ FleetInv => DepartureIsOnRecord
  <2> SUFFICES ASSUME FleetInv, faults = 0, NEW e \in Elevators, ~Busy(e),
                      db[e] # Nothing, db[e].state = "MOVING"
               PROVE  MovingRow(e)
    BY DEF DepartureIsOnRecord, MovingRow
  <2>1. ASSUME NEW q \in Requests, req[q].elev = e PROVE req[q].phase \in Resting
    BY <2>1 DEF Busy, InFlight
  <2>2. Explained(e)
    BY DEF FleetInv, RowExplained
  <2>3. QED BY <2>1, <2>2 DEF Explained, Departing, Resting
<1>2. QED BY <1>1, FleetInvariance, PTL

-----------------------------------------------------------------------------
(* Nothing but a race breaks them: the invariants of the history met.       *)

(* The history is that of meetings: mutual, of requests that have come, and *)
(* complete for those in flight.                                            *)
MetInv ==
    \A r, s \in Requests :
        /\ s \in met[r] => /\ s # r /\ r \in met[s]
                           /\ req[r].phase # "absent" /\ req[s].phase # "absent"
        /\ r \in InFlight /\ s \in InFlight /\ r # s => s \in met[r]

(* Where the elevator of a request is still to be found, and where a new    *)
(* one is not yet written, nobody else knows it.                            *)
PlaceOk(r) ==
    /\ req[r].phase \in {"absent", "keys", "hashes"} => req[r].elev = NoElevator
    /\ req[r].phase \in {"absent", "keys", "hashes", "default", "fallback"}
          => req[r].kind = "call"
    /\ req[r].phase \in {"default", "fallback"}
          => /\ cache[req[r].elev] = Nothing
             /\ \A q \in Requests \ {r} : req[q].elev # req[r].elev

PlaceInv == \A r \in Requests : PlaceOk(r)

Raced(r) == req[r].elev \in Elevators /\ Rivals(r) # {}

(* What a request without a rival knows of its elevator is still so.        *)
Own(r) ==
    /\ req[r].phase = "create" => db[req[r].elev] = Nothing
    /\ req[r].phase \in Rebuilt => req[r].agg.state = db[req[r].elev].state
    /\ req[r].phase = "upsert" /\ db[req[r].elev].state = "MOVING" => req[r].agg.state = "MOVING"
    /\ req[r].phase = "hash" => db[req[r].elev] = RowOf(req[r].agg)
    /\ req[r].phase \in Logging /\ req[r].cached => cache[req[r].elev] = db[req[r].elev]

OwnInv == \A r \in Requests : Raced(r) \/ Own(r)

(* A row numbered since the request read its number is of a request it met. *)
Numbered(r) ==
    req[r].phase = "insert" =>
        \A x \in log[req[r].elev] : x.seq < req[r].seq \/ x.by \in met[r]

NumberInv == RepeatsOnlyInRaces /\ \A r \in Requests : Numbered(r)

(* An elevator is born when a hash shows it, or when a call that saw no     *)
(* hash at all is about to write one.                                       *)
Inited(e) == \E r \in Requests : req[r].kind = "initialize" /\ req[r].elev = e

Born(e) == cache[e] # Nothing \/ \E r \in Requests : req[r].phase = "default" /\ req[r].elev = e

Twins(e, f) == \E r, s \in Requests : req[r].elev = e /\ req[s].elev = f /\ s \in met[r]

BornInv ==
    faults = 0 =>
        /\ \A r \in Requests : req[r].phase # "fallback"
        /\ \A e, f \in Elevators :
             Born(e) /\ Born(f) /\ e # f => Inited(e) \/ Inited(f) \/ Twins(e, f)

RaceInv == MetInv /\ PlaceInv /\ OwnInv /\ NumberInv /\ BornInv

LEMMA InitRace == Init => RaceInv
<1> SUFFICES ASSUME Init PROVE RaceInv
  OBVIOUS
<1>1. \A r \in Requests : /\ req[r].phase = "absent" /\ req[r].kind = "call"
                          /\ req[r].elev = NoElevator /\ met[r] = {}
  BY DEF Init, NewRequest
<1>2. \A e \in Elevators : cache[e] = Nothing /\ log[e] = {}
  BY DEF Init
<1>3. MetInv /\ PlaceInv
  BY <1>1 DEF MetInv, PlaceInv, PlaceOk, InFlight, Resting
<1>4. OwnInv /\ NumberInv
  BY <1>1, <1>2 DEF OwnInv, Own, NumberInv, Numbered, RepeatsOnlyInRaces, Rebuilt, Logging
<1>5. BornInv
  BY <1>1, <1>2 DEF BornInv, Born
<1>6. QED BY <1>3, <1>4, <1>5 DEF RaceInv

(* A request only writes what belongs to its elevator.                      *)
LEMMA WritesOwn ==
    ASSUME IInv, NEW r \in Requests, Does(r), NEW e \in Elevators,
           req[r].elev # e \/ r \notin InFlight
    PROVE  db'[e] = db[e] /\ cache'[e] = cache[e] /\ log'[e] = log[e]
<1>1. CASE UNCHANGED <<db, cache, log>>
  BY <1>1
<1>2. CASE \/ DoesWriteNewHash(r) \/ DoesSeedHash(r) \/ DoesWriteHash(r)
           \/ DoesCreateRow(r) \/ DoesUpsert(r) \/ DoesInsertEvent(r)
  <2>1. r \in InFlight
    BY <1>2 DEF DoesWriteNewHash, DoesSeedHash, DoesWriteHash, DoesCreateRow, DoesUpsert,
       DoesInsertEvent, Goes, InFlight, Resting
  <2>2. req[r].elev # e
    BY <2>1
  <2>3. CASE DoesWriteNewHash(r) \/ DoesSeedHash(r) \/ DoesWriteHash(r)
    BY <2>2, <2>3, TypeParts DEF DoesWriteNewHash, DoesSeedHash, DoesWriteHash
  <2>4. CASE DoesCreateRow(r)
    BY <2>2, <2>4, TypeParts DEF DoesCreateRow
  <2>5. CASE DoesUpsert(r)
    BY <2>2, <2>5, TypeParts DEF DoesUpsert
  <2>6. CASE DoesInsertEvent(r)
    BY <2>2, <2>6, TypeParts DEF DoesInsertEvent
  <2>7. QED BY <1>2, <2>3, <2>4, <2>5, <2>6
<1>3. QED
  BY <1>1, <1>2 DEF Does, DoesStep, DoesReceiveCall, DoesReceiveInitialize, DoesListKeys,
     DoesReadHashes, DoesFallBack, DoesFindRow, DoesNotCreateRow, DoesLoadHistory,
     DoesNextSequence, DoesFail

(* A request keeps its elevator, unless it has none or falls back.          *)
LEMMA ElevMoves ==
    ASSUME PlaceInv, NEW r \in Requests, Does(r), req'[r].elev # req[r].elev
    PROVE  \/ req[r].elev = NoElevator
           \/ req[r].phase = "default" /\ Fault
<1>1. CASE DoesReceiveInitialize(r) \/ DoesListKeys(r) \/ DoesReadHashes(r) \/ DoesFallBack(r)
  BY <1>1 DEF DoesReceiveInitialize, DoesListKeys, DoesReadHashes, DoesFallBack, Goes, PlaceInv,
     PlaceOk
<1>2. QED
  BY <1>1 DEF Does, DoesStep, DoesReceiveCall, DoesWriteNewHash, DoesFindRow,
     DoesCreateRow, DoesNotCreateRow, DoesSeedHash, DoesLoadHistory, DoesUpsert, DoesWriteHash,
     DoesNextSequence, DoesInsertEvent, DoesFail, Keeps

(* No request comes back.                                                   *)
LEMMA FlightAfter ==
    ASSUME NEW r \in Requests, Does(r)
    PROVE  /\ req'[r].phase # "absent"
           /\ req[r].phase = "absent" \/ r \in InFlight
           /\ DoesStep(r) => r \in InFlight
<1> USE DEF InFlight, Resting, Goes
<1>1. CASE DoesReceiveCall(r) \/ DoesReceiveInitialize(r)
  <2>1. req[r].phase = "absent" /\ req'[r].phase # "absent"
    BY <1>1 DEF DoesReceiveCall, DoesReceiveInitialize
  <2>2. ~DoesStep(r)
    BY <2>1 DEF DoesStep, DoesListKeys, DoesReadHashes, DoesWriteNewHash, DoesFallBack,
       DoesFindRow, DoesCreateRow, DoesNotCreateRow, DoesSeedHash, DoesLoadHistory, DoesUpsert,
       DoesWriteHash, DoesNextSequence, DoesInsertEvent, DoesFail
  <2>3. QED BY <2>1, <2>2
<1>2. CASE DoesStep(r)
  BY <1>2 DEF DoesStep, DoesListKeys, DoesReadHashes, DoesWriteNewHash, DoesFallBack,
     DoesFindRow, DoesCreateRow, DoesNotCreateRow, DoesSeedHash, DoesLoadHistory, DoesUpsert,
     DoesWriteHash, DoesNextSequence, DoesInsertEvent, DoesFail
<1>3. QED BY <1>1, <1>2 DEF Does

LEMMA MetStep ==
    ASSUME IInv, MetInv, NEW r \in Requests, Does(r)
    PROVE  MetInv' /\ \A s \in Requests : met[s] \subseteq met'[s]
<1>1. CASE DoesStep(r) /\ met' = met
  <2>1. InFlight' \subseteq InFlight
    BY <1>1, FlightAfter, DoesOthers DEF InFlight
  <2>2. \A s \in Requests : req[s].phase # "absent" => req'[s].phase # "absent"
    BY FlightAfter, DoesOthers
  <2>3. QED BY <1>1, <2>1, <2>2 DEF MetInv
<1>2. CASE (DoesReceiveCall(r) \/ DoesReceiveInitialize(r)) /\ Meets(r)
  <2>1. req[r].phase = "absent" /\ r \notin InFlight
    BY <1>2 DEF DoesReceiveCall, DoesReceiveInitialize, Goes, InFlight, Resting
  <2>2. InFlight' \subseteq InFlight \cup {r}
    BY DoesOthers DEF InFlight
  <2>3. \A s \in Requests : req[s].phase # "absent" => req'[s].phase # "absent"
    BY FlightAfter, DoesOthers
  <2>4. \A s \in Requests : met'[s] = IF s = r THEN InFlight
                                      ELSE IF s \in InFlight THEN met[s] \cup {r} ELSE met[s]
    BY <1>2 DEF Meets
  <2>5. met[r] = {} /\ \A s \in Requests : r \notin met[s]
    BY <2>1, TypeParts DEF MetInv
  <2>6. req'[r].phase # "absent" /\ \A s \in InFlight : req[s].phase # "absent"
    BY FlightAfter DEF InFlight, Resting
  <2>7. ASSUME NEW s \in Requests, NEW t \in Requests, t \in met'[s]
        PROVE  t # s /\ s \in met'[t] /\ req'[s].phase # "absent" /\ req'[t].phase # "absent"
    <3>1. CASE s = r
      BY <2>1, <2>3, <2>4, <2>6, <2>7, <3>1
    <3>2. CASE s # r /\ t = r
      BY <2>3, <2>4, <2>5, <2>6, <2>7, <3>2
    <3>3. CASE s # r /\ t # r
      BY <2>3, <2>4, <2>7, <3>3 DEF MetInv
    <3>4. QED BY <3>1, <3>2, <3>3
  <2>8. ASSUME NEW s \in InFlight', NEW t \in InFlight', s # t PROVE t \in met'[s]
    <3>1. s \in Requests /\ t \in Requests
      BY DEF InFlight
    <3>2. QED BY <2>2, <2>4, <2>8, <3>1 DEF MetInv
  <2>9. QED BY <2>4, <2>5, <2>7, <2>8 DEF MetInv
<1>3. QED BY <1>1, <1>2 DEF Does

LEMMA PlaceStep ==
    ASSUME IInv, PlaceInv, NEW r \in Requests, Does(r)
    PROVE  PlaceInv'
<1>1. ASSUME NEW q \in Requests, q # r PROVE PlaceOk(q)'
  <2>1. req'[q] = req[q] /\ PlaceOk(q)
    BY <1>1, DoesOthers DEF PlaceInv
  <2>2. ASSUME req[q].phase \in {"default", "fallback"}
        PROVE  /\ cache'[req[q].elev] = Nothing
               /\ \A s \in Requests \ {q} : req'[s].elev # req[q].elev
    <3>1. /\ req[q].elev \in Elevators /\ cache[req[q].elev] = Nothing
          /\ \A s \in Requests \ {q} : req[s].elev # req[q].elev
      BY <2>1, <2>2, ReqFields DEF PlaceOk, LocalsOk, LocalsGood, Placed
    <3>2. cache'[req[q].elev] = Nothing
      BY <1>1, <3>1, WritesOwn
    <3>3. req'[r].elev # req[q].elev
      <4>1. CASE DoesReceiveInitialize(r) \/ DoesListKeys(r) \/ DoesFallBack(r)
        BY <1>1, <3>1, <4>1 DEF DoesReceiveInitialize, DoesListKeys, DoesFallBack, FreshId
      <4>2. CASE DoesReadHashes(r)
        <5>1. cache[req'[r].elev] # Nothing
          BY <4>2, ReqFields DEF DoesReadHashes, Goes, StoresOk, HashGood
        <5>2. QED BY <3>1, <5>1
      <4>3. req'[r].elev = req[r].elev => req'[r].elev # req[q].elev
        BY <1>1, <3>1
      <4>4. QED
        BY <4>1, <4>2, <4>3 DEF Does, DoesStep, DoesReceiveCall, DoesWriteNewHash, DoesFindRow,
           DoesCreateRow, DoesNotCreateRow, DoesSeedHash, DoesLoadHistory, DoesUpsert,
           DoesWriteHash, DoesNextSequence, DoesInsertEvent, DoesFail, Keeps
    <3>4. QED BY <3>1, <3>2, <3>3, DoesOthers
  <2>3. QED BY <2>1, <2>2 DEF PlaceOk
<1>2. PlaceOk(r)'
  <2>1. PlaceOk(r)
    BY DEF PlaceInv
  <2>2. CASE DoesReceiveCall(r) \/ DoesListKeys(r) \/ DoesFallBack(r)
    <3>1. CASE DoesReceiveCall(r)
      BY <2>1, <3>1 DEF DoesReceiveCall, Goes, Keeps, PlaceOk
    <3>2. CASE DoesListKeys(r)
      BY <2>1, <3>2 DEF DoesListKeys, Goes, FreshId, PlaceOk
    <3>3. CASE DoesFallBack(r)
      BY <2>1, <3>3 DEF DoesFallBack, Goes, FreshId, PlaceOk
    <3>4. QED BY <2>2, <3>1, <3>2, <3>3
  <2>3. ASSUME req'[r].phase \notin {"absent", "keys", "hashes", "default", "fallback"}
        PROVE  PlaceOk(r)'
    BY <2>3 DEF PlaceOk
  <2>4. QED
    BY <2>2, <2>3 DEF Does, DoesStep, DoesReceiveInitialize, DoesReadHashes, DoesWriteNewHash,
       DoesFindRow, DoesCreateRow, DoesNotCreateRow, DoesSeedHash, DoesLoadHistory, DoesUpsert,
       DoesWriteHash, DoesNextSequence, DoesInsertEvent, DoesFail, Goes
<1>3. QED BY <1>1, <1>2 DEF PlaceInv

(* A request that had a rival has it for good.                              *)
LEMMA RacedStays ==
    ASSUME IInv, MetInv, PlaceInv, NEW q \in Requests, Does(q), NEW r \in Requests, Raced(r)
    PROVE  Raced(r)'
<1>1. PICK s \in met[r] : req[s].elev = req[r].elev
  BY DEF Raced, Rivals
<1>2. s \in Requests /\ s # r /\ req[r].elev \in Elevators
  BY TypeParts DEF MetInv, Raced
<1>3. s \in met'[r]
  BY MetStep
<1>4. ASSUME NEW t \in {r, s} PROVE req'[t].elev = req[t].elev
  <2>1. CASE t # q
    BY <1>2, <2>1, DoesOthers
  <2>2. CASE t = q
    <3>1. req[q].elev # NoElevator
      BY <1>1, <1>2, <2>2, NoElevatorAssumption
    <3>2. req[q].phase # "default"
      BY <1>1, <1>2, <2>2 DEF PlaceInv, PlaceOk
    <3>3. QED BY <2>2, <3>1, <3>2, ElevMoves
  <2>3. QED BY <2>1, <2>2
<1>5. QED BY <1>1, <1>2, <1>3, <1>4 DEF Raced, Rivals

(* Nobody else writes what belongs to the elevator of a request in flight   *)
(* that has no rival.                                                       *)
LEMMA Unraced ==
    ASSUME IInv, MetInv, NEW q \in Requests, Does(q), NEW r \in InFlight, r # q, ~Raced(r),
           req[r].elev \in Elevators
    PROVE  db'[req[r].elev] = db[req[r].elev] /\ cache'[req[r].elev] = cache[req[r].elev]
<1>1. r \in Requests
  BY DEF InFlight
<1>2. ASSUME q \in InFlight PROVE req[q].elev # req[r].elev
  BY <1>1, <1>2 DEF MetInv, Raced, Rivals
<1>3. QED BY <1>2, WritesOwn

LEMMA OwnStep ==
    ASSUME IInv, MetInv, PlaceInv, OwnInv, NEW r \in Requests, Does(r)
    PROVE  OwnInv'
<1> SUFFICES ASSUME NEW q \in Requests, ~Raced(q) PROVE Own(q)'
  BY RacedStays DEF OwnInv
<1>1. Own(q)
  BY DEF OwnInv
<1>2. req[q].phase \in Placed => req[q].elev \in Elevators
  BY ReqFields DEF LocalsOk, LocalsGood
<1>3. CASE q # r
  <2>1. req'[q] = req[q]
    BY <1>3, DoesOthers
  <2>2. CASE req[q].phase \in {"create"} \cup Rebuilt \cup Saving \cup Logging
    <3>1. q \in InFlight /\ req[q].elev \in Elevators
      BY <1>2, <2>2 DEF InFlight, Resting, Placed, Rowed, Rebuilt, Saving, Logging
    <3>2. db'[req[q].elev] = db[req[q].elev] /\ cache'[req[q].elev] = cache[req[q].elev]
      BY <1>3, <3>1, Unraced
    <3>3. RowOf(req'[q].agg) = RowOf(req[q].agg)
      BY <2>1
    <3>4. QED BY <1>1, <2>1, <3>2, <3>3 DEF Own
  <2>3. CASE req[q].phase \notin {"create"} \cup Rebuilt \cup Saving \cup Logging
    BY <2>1, <2>3 DEF Own, Saving
  <2>4. QED BY <2>2, <2>3
<1>4. CASE q = r
  <2> DEFINE e == req[r].elev
  <2> USE DEF Rebuilt, Saving, Logging, Goes, Keeps
  <2>0. Own(r)
    BY <1>1, <1>4
  <2>1. CASE DoesFindRow(r)
    BY <1>4, <2>1 DEF DoesFindRow, Own
  <2>2. CASE DoesCreateRow(r)
    <3>1. PICK w \in Row : db' = [db EXCEPT ![e] = w] /\ w.state = "IDLE"
      BY <2>2 DEF DoesCreateRow
    <3>2. req[r].phase = "create" /\ e \in Elevators
      BY <1>2, <1>4, <2>2 DEF DoesCreateRow, Placed
    <3>3. db'[e].state = "IDLE"
      BY <3>1, <3>2, TypeParts
    <3>4. QED BY <1>4, <2>2, <3>3 DEF DoesCreateRow, Own
  <2>3. CASE DoesSeedHash(r)
    BY <1>4, <2>0, <2>3 DEF DoesSeedHash, Own
  <2>4. CASE DoesLoadHistory(r)
    BY <1>4, <2>0, <2>4 DEF DoesLoadHistory, Own
  <2>5. CASE DoesUpsert(r)
    <3>1. req[r].phase = "upsert" /\ e \in Elevators
      BY <1>2, <1>4, <2>5 DEF DoesUpsert, Placed, Rowed
    <3>2. db'[e] = RowOf(req[r].agg)
      BY <2>5, <3>1, TypeParts DEF DoesUpsert
    <3>3. req'[r].phase = "hash" /\ req'[r].elev = e /\ req'[r].agg = req[r].agg
      BY <2>5 DEF DoesUpsert
    <3>4. RowOf(req'[r].agg) = RowOf(req[r].agg)
      BY <3>3
    <3>5. QED BY <1>4, <3>2, <3>3, <3>4 DEF Own
  <2>6. CASE DoesWriteHash(r)
    <3>1. req[r].phase = "hash" /\ e \in Elevators /\ db[e] = RowOf(req[r].agg)
      BY <1>2, <1>4, <2>0, <2>6 DEF DoesWriteHash, Own, Placed, Rowed
    <3>2. req'[r].cached => cache'[e] = RowOf(req[r].agg)
      BY <2>6, <3>1, TypeParts DEF DoesWriteHash
    <3>3. db' = db /\ req'[r].elev = e /\ req'[r].phase \in {"answered", "sequence"}
      BY <2>6 DEF DoesWriteHash
    <3>4. QED BY <1>4, <3>1, <3>2, <3>3 DEF Own
  <2>7. CASE DoesNextSequence(r)
    BY <1>4, <2>0, <2>7 DEF DoesNextSequence, Own
  <2>8. CASE DoesInsertEvent(r)
    BY <1>4, <2>0, <2>8 DEF DoesInsertEvent, Own
  <2>9. ASSUME req'[r].phase \notin {"create"} \cup Rebuilt \cup Saving \cup Logging
        PROVE  Own(q)'
    BY <1>4, <2>9 DEF Own
  <2>10. QED
    BY <2>1, <2>2, <2>3, <2>4, <2>5, <2>6, <2>7, <2>8, <2>9 DEF Does, DoesStep, DoesReceiveCall,
       DoesReceiveInitialize, DoesListKeys, DoesReadHashes, DoesWriteNewHash, DoesFallBack,
       DoesNotCreateRow, DoesFail
<1>5. QED BY <1>3, <1>4

(* A number is read when the rows it may clash with are of requests still   *)
(* in flight, or are not there yet.                                         *)
LEMMA NumberStep ==
    ASSUME IInv, MetInv, NumberInv, NEW r \in Requests, Does(r)
    PROVE  NumberInv'
<1> DEFINE e == req[r].elev
<1>1. \A s \in Requests : met[s] \subseteq met'[s]
  BY MetStep
<1>2. \A q \in Requests : Numbered(q)
  BY DEF NumberInv
<1>3. \A q \in Requests : req[q].phase = "insert" => req[q].elev \in Elevators
  BY ReqFields DEF LocalsOk, LocalsGood, Placed, Rowed, Logging
<1>4. CASE DoesInsertEvent(r)
  <2>1. PICK w \in LogRow : log' = [log EXCEPT ![e] = @ \cup {w}] /\ w.seq = req[r].seq /\ w.by = r
    BY <1>4 DEF DoesInsertEvent
  <2>2. req[r].phase = "insert" /\ req'[r].phase # "insert" /\ e \in Elevators
    BY <1>3, <1>4 DEF DoesInsertEvent, Goes
  <2>3. \A d \in Elevators : log'[d] = IF d = e THEN log[d] \cup {w} ELSE log[d]
    BY <2>1, TypeParts
  <2>4. ASSUME NEW x \in log[e], x.seq = w.seq PROVE x.by \in met[r] /\ r \in met[x.by]
    <3>1. x \in LogRow
      BY <2>2, TypeParts
    <3>2. x.by \in met[r]
      BY <1>2, <2>1, <2>2, <2>4, <3>1 DEF Numbered, LogRow
    <3>3. QED BY <3>1, <3>2 DEF MetInv, LogRow
  <2>5. ASSUME NEW d \in Elevators, NEW x \in log'[d], NEW y \in log'[d], x # y, x.seq = y.seq
        PROVE  y.by \in met'[x.by]
    <3>1. x \in log[d] \/ (d = e /\ x = w)
      BY <2>3
    <3>2. y \in log[d] \/ (d = e /\ y = w)
      BY <2>3
    <3>3. x \in LogRow /\ y \in LogRow
      BY <3>1, <3>2, TypeParts
    <3>4. x.by \in Requests /\ y.by \in Requests
      BY <3>3 DEF LogRow
    <3>5. CASE x \in log[d] /\ y \in log[d]
      BY <1>1, <2>5, <3>4, <3>5 DEF NumberInv, RepeatsOnlyInRaces
    <3>6. CASE d = e /\ x = w /\ y \in log[e]
      BY <1>1, <2>1, <2>4, <2>5, <3>4, <3>6
    <3>7. CASE d = e /\ y = w /\ x \in log[e]
      BY <1>1, <2>1, <2>4, <2>5, <3>4, <3>7
    <3>8. QED BY <2>5, <3>1, <3>2, <3>5, <3>6, <3>7
  <2>6. ASSUME NEW q \in Requests PROVE Numbered(q)'
    <3>1. CASE q = r
      BY <2>2, <3>1 DEF Numbered
    <3>2. CASE q # r
      <4>1. req'[q] = req[q] /\ Numbered(q)
        BY <1>2, <3>2, DoesOthers
      <4>2. req[q].phase = "insert" => r \in met[q]
        BY <2>2, <3>2 DEF MetInv, InFlight, Resting
      <4>3. QED BY <1>1, <1>3, <2>1, <2>3, <4>1, <4>2 DEF Numbered
    <3>3. QED BY <3>1, <3>2
  <2>7. QED BY <2>5, <2>6 DEF NumberInv, RepeatsOnlyInRaces
<1>5. CASE log' = log
  <2>1. RepeatsOnlyInRaces'
    <3>1. ASSUME NEW d \in Elevators, NEW x \in log[d], NEW y \in log[d], x # y, x.seq = y.seq
          PROVE  y.by \in met'[x.by]
      <4>1. x.by \in Requests
        BY TypeParts DEF LogRow
      <4>2. y.by \in met[x.by]
        BY <3>1 DEF NumberInv, RepeatsOnlyInRaces
      <4>3. QED BY <1>1, <4>1, <4>2
    <3>2. QED BY <1>5, <3>1 DEF RepeatsOnlyInRaces
  <2>2. ASSUME NEW q \in Requests PROVE Numbered(q)'
    <3>1. CASE q # r
      <4>1. req'[q] = req[q] /\ Numbered(q)
        BY <1>2, <3>1, DoesOthers
      <4>2. QED BY <1>1, <1>5, <4>1 DEF Numbered
    <3>2. CASE q = r /\ DoesNextSequence(r)
      BY <1>5, <3>2 DEF DoesNextSequence, Keeps, Numbered
    <3>3. CASE q = r /\ req'[r].phase # "insert"
      BY <3>3 DEF Numbered
    <3>4. req'[r].phase = "insert" => DoesNextSequence(r)
      BY DEF Does, DoesStep, DoesReceiveCall, DoesReceiveInitialize, DoesListKeys,
         DoesReadHashes, DoesWriteNewHash, DoesFallBack, DoesFindRow, DoesCreateRow,
         DoesNotCreateRow, DoesSeedHash, DoesLoadHistory, DoesUpsert, DoesWriteHash,
         DoesInsertEvent, DoesFail, Goes
    <3>5. QED BY <3>1, <3>2, <3>3, <3>4
  <2>3. QED BY <2>1, <2>2 DEF NumberInv
<1>6. QED
  BY <1>4, <1>5 DEF Does, DoesStep, DoesReceiveCall, DoesReceiveInitialize, DoesListKeys,
     DoesReadHashes, DoesWriteNewHash, DoesFallBack, DoesFindRow, DoesCreateRow, DoesNotCreateRow,
     DoesSeedHash, DoesLoadHistory, DoesUpsert, DoesWriteHash, DoesNextSequence, DoesFail

(* Only a call that sees no hash makes an elevator, and those it does not   *)
(* see are of calls in flight.                                              *)
LEMMA BornStep ==
    ASSUME IInv, MetInv, PlaceInv, BornInv, NEW r \in Requests, Does(r),
           faults = 0, faults' = 0
    PROVE  BornInv'
<1>0. ~Fault
  BY NoFault
<1>1. /\ \A q \in Requests : req[q].phase # "fallback"
      /\ \A e, f \in Elevators :
           Born(e) /\ Born(f) /\ e # f => Inited(e) \/ Inited(f) \/ Twins(e, f)
  BY DEF BornInv
<1>2. ASSUME NEW q \in Requests, req[q].elev \in Elevators
      PROVE  req'[q].elev = req[q].elev /\ req'[q].kind = req[q].kind
  <2>1. CASE q # r
    BY <2>1, DoesOthers
  <2>2. CASE q = r
    <3>1. req[r].elev # NoElevator
      BY <1>2, <2>2, NoElevatorAssumption
    <3>2. req'[r].elev = req[r].elev
      BY <1>0, <3>1, ElevMoves
    <3>3. req[r].phase # "absent"
      BY <3>1 DEF PlaceInv, PlaceOk
    <3>4. req'[r].kind = req[r].kind
      BY <3>3 DEF Does, DoesStep, DoesReceiveCall, DoesReceiveInitialize, DoesListKeys,
         DoesReadHashes, DoesWriteNewHash, DoesFallBack, DoesFindRow, DoesCreateRow,
         DoesNotCreateRow, DoesSeedHash, DoesLoadHistory, DoesUpsert, DoesWriteHash,
         DoesNextSequence, DoesInsertEvent, DoesFail, Goes, Keeps
    <3>5. QED BY <2>2, <3>2, <3>4
  <2>3. QED BY <2>1, <2>2
<1>3. ASSUME NEW e \in Elevators, Inited(e) PROVE Inited(e)'
  BY <1>2, <1>3 DEF Inited
<1>4. ASSUME NEW e \in Elevators, NEW f \in Elevators, Twins(e, f) PROVE Twins(e, f)'
  <2>1. PICK p \in Requests, s \in Requests : req[p].elev = e /\ req[s].elev = f /\ s \in met[p]
    BY <1>4 DEF Twins
  <2>2. req'[p].elev = e /\ req'[s].elev = f /\ s \in met'[p]
    BY <1>2, <2>1, MetStep
  <2>3. QED BY <2>2 DEF Twins
<1>5. \A q \in Requests : req'[q].phase # "fallback"
  BY <1>0, <1>1, DoesOthers DEF Does, DoesStep, DoesReceiveCall, DoesReceiveInitialize,
     DoesListKeys, DoesReadHashes, DoesWriteNewHash, DoesFallBack, DoesFindRow, DoesCreateRow,
     DoesNotCreateRow, DoesSeedHash, DoesLoadHistory, DoesUpsert, DoesWriteHash, DoesNextSequence,
     DoesInsertEvent, DoesFail, Goes
<1>6. ASSUME NEW e \in Elevators, Born(e)', ~Born(e)
      PROVE  \/ Inited(e)'
             \/ DoesListKeys(r) /\ req'[r].elev = e /\ Keys = {} /\ r \in InFlight
  <2>1. CASE cache'[e] # Nothing
    <3>1. cache[e] = Nothing /\ cache'[e] # cache[e]
      BY <1>6, <2>1 DEF Born
    <3>2. req[r].elev = e /\ r \in InFlight
      BY <3>1, WritesOwn
    <3>3. CASE DoesWriteNewHash(r)
      <4>1. req[r].phase = "default"
        BY <1>1, <3>3 DEF DoesWriteNewHash, Goes
      <4>2. QED BY <1>6, <3>2, <4>1 DEF Born
    <3>4. CASE DoesSeedHash(r) \/ DoesWriteHash(r)
      <4>1. req[r].phase \in Rowed
        BY <3>4 DEF DoesSeedHash, DoesWriteHash, Goes, Rowed, Rebuilt, Saving
      <4>2. req[r].kind # "call"
        BY <3>1, <3>2, <4>1, ReqFields DEF StoresOk, HashGood
      <4>3. req[r].kind = "initialize"
        BY <4>2, ReqFields DEF Request
      <4>4. Inited(e)
        BY <3>2, <4>3 DEF Inited
      <4>5. QED BY <1>3, <4>4
    <3>5. CASE cache' = cache
      BY <3>1, <3>5
    <3>6. QED
      BY <3>3, <3>4, <3>5 DEF Does, DoesStep, DoesReceiveCall, DoesReceiveInitialize, DoesListKeys,
         DoesReadHashes, DoesFallBack, DoesFindRow, DoesCreateRow, DoesNotCreateRow,
         DoesLoadHistory, DoesUpsert, DoesNextSequence, DoesInsertEvent, DoesFail
  <2>2. CASE \E q \in Requests : req'[q].phase = "default" /\ req'[q].elev = e
    <3>1. PICK q \in Requests : req'[q].phase = "default" /\ req'[q].elev = e
      BY <2>2
    <3>2. q = r
      BY <1>6, <3>1, DoesOthers DEF Born
    <3>3. DoesListKeys(r)
      BY <3>1, <3>2 DEF Does, DoesStep, DoesReceiveCall, DoesReceiveInitialize, DoesReadHashes,
         DoesWriteNewHash, DoesFallBack, DoesFindRow, DoesCreateRow, DoesNotCreateRow,
         DoesSeedHash, DoesLoadHistory, DoesUpsert, DoesWriteHash, DoesNextSequence,
         DoesInsertEvent, DoesFail, Goes
    <3>4. Keys = {} /\ r \in InFlight
      BY <3>1, <3>2, <3>3 DEF DoesListKeys, Goes, InFlight, Resting
    <3>5. QED BY <3>1, <3>2, <3>3, <3>4
  <2>3. QED BY <1>6, <2>1, <2>2 DEF Born
<1>7. ASSUME NEW e \in Elevators, NEW f \in Elevators, Born(f), e # f,
             DoesListKeys(r), req'[r].elev = e, Keys = {}, r \in InFlight
      PROVE  Twins(e, f)' /\ Twins(f, e)'
  <2>1. cache[f] = Nothing
    BY <1>7 DEF Keys
  <2>2. PICK s \in Requests : req[s].phase = "default" /\ req[s].elev = f
    BY <1>7, <2>1 DEF Born
  <2>3. s \in InFlight /\ s # r
    BY <1>7, <2>2 DEF InFlight, Resting, DoesListKeys, Goes
  <2>4. s \in met'[r] /\ r \in met'[s]
    BY <1>7, <2>3, MetStep DEF MetInv
  <2>5. req'[s] = req[s]
    BY <2>3, DoesOthers
  <2>6. QED BY <1>7, <2>2, <2>4, <2>5 DEF Twins
<1>8. ASSUME NEW e \in Elevators, NEW f \in Elevators, Born(e)', Born(f)', e # f
      PROVE  Inited(e)' \/ Inited(f)' \/ Twins(e, f)'
  <2>1. CASE Born(e) /\ Born(f)
    BY <1>1, <1>3, <1>4, <1>8, <2>1
  <2>2. CASE Born(e) /\ ~Born(f)
    BY <1>6, <1>7, <1>8, <2>2
  <2>3. CASE ~Born(e) /\ Born(f)
    BY <1>6, <1>7, <1>8, <2>3
  <2>4. CASE ~Born(e) /\ ~Born(f)
    BY <1>6, <1>8, <2>4
  <2>5. QED BY <2>1, <2>2, <2>3, <2>4
<1>9. QED BY <1>5, <1>8 DEF BornInv

LEMMA RaceNext == IInv /\ RaceInv /\ [Next]_vars => RaceInv'
<1> SUFFICES ASSUME IInv, RaceInv, [Next]_vars PROVE RaceInv'
  OBVIOUS
<1> USE DEF RaceInv
<1>1. CASE Crash
  <2>1. /\ UNCHANGED <<db, cache, log, met>> /\ faults' # 0
        /\ req' = [r \in Requests |->
                     IF r \in InFlight THEN [req[r] EXCEPT !.phase = "lost"] ELSE req[r]]
    BY <1>1, TypeParts DEF Crash, Fault
  <2>2. ASSUME NEW q \in Requests
        PROVE  \/ req'[q] = req[q] /\ req[q].phase \in Resting
               \/ req'[q].phase = "lost" /\ req[q].phase # "absent"
    BY <2>1, ReqFields DEF InFlight, Request, Resting
  <2>3. InFlight' = {}
    BY <2>2 DEF InFlight, Resting
  <2>4. \A q \in Requests : req[q].phase # "absent" => req'[q].phase # "absent"
    BY <2>2
  <2>5. MetInv'
    BY <2>1, <2>3, <2>4 DEF MetInv
  <2>6. PlaceInv'
    BY <2>2 DEF PlaceInv, PlaceOk, Resting
  <2>7. OwnInv'
    BY <2>2 DEF OwnInv, Own, Rebuilt, Logging, Resting
  <2>8. NumberInv'
    BY <2>1, <2>2 DEF NumberInv, Numbered, RepeatsOnlyInRaces, Resting
  <2>9. QED BY <2>1, <2>5, <2>6, <2>7, <2>8 DEF BornInv
<1>2. ASSUME NEW r \in Requests, Receive(r) \/ Step(r) PROVE RaceInv'
  <2>1. Does(r)
    BY <1>2, ReceiveDoes, StepDoes
  <2>2. MetInv' /\ PlaceInv' /\ OwnInv' /\ NumberInv'
    BY <2>1, MetStep, PlaceStep, OwnStep, NumberStep
  <2>3. faults' = 0 => faults = 0
    BY <2>1, DoesFaults, TypeParts DEF Fault
  <2>4. BornInv'
    <3>1. CASE faults' = 0
      BY <2>1, <2>3, <3>1, BornStep
    <3>2. CASE faults' # 0
      BY <3>2 DEF BornInv
    <3>3. QED BY <3>1, <3>2
  <2>5. QED BY <2>2, <2>4
<1>3. CASE UNCHANGED vars
  <2>1. UNCHANGED <<db, cache, log, req, met, faults>>
    BY <1>3 DEF vars
  <2>2. MetInv' /\ PlaceInv'
    BY <2>1 DEF MetInv, InFlight, PlaceInv, PlaceOk
  <2>3. OwnInv'
    BY <2>1 DEF OwnInv, Own, Raced, Rivals, RowOf
  <2>4. NumberInv'
    BY <2>1 DEF NumberInv, Numbered, RepeatsOnlyInRaces
  <2>5. BornInv'
    BY <2>1 DEF BornInv, Born, Inited, Twins
  <2>6. QED BY <2>2, <2>3, <2>4, <2>5
<1>4. QED BY <1>1, <1>2, <1>3 DEF Next

LEMMA RaceInvariance == Spec => [](IInv /\ RaceInv)
<1>1. Init => IInv /\ RaceInv
  BY InitInv, InitRace
<1>2. IInv /\ RaceInv /\ [Next]_vars => (IInv /\ RaceInv)'
  BY NextInv, RaceNext
<1>3. QED BY <1>1, <1>2, PTL DEF Spec

(* However many requests are in flight, fail or are cut short, two events   *)
(* of an elevator share a number only if the requests that logged them were *)
(* in flight together.                                                      *)
THEOREM RepeatsAreRaces == Spec => []RepeatsOnlyInRaces
<1>1. IInv /\ RaceInv => RepeatsOnlyInRaces
  BY DEF RaceInv, NumberInv
<1>2. QED BY <1>1, RaceInvariance, PTL

(* Without failures two elevators that nobody initialized are of calls that *)
(* were in flight together: a call that comes later sees the first one's    *)
(* hash, however the calls before it were interleaved.                      *)
THEOREM DefaultsAreRaces == Spec => []DefaultsOnlyInRaces
<1>1. IInv /\ RaceInv => DefaultsOnlyInRaces
  <2> SUFFICES ASSUME BornInv, faults = 0, NEW e \in Keys, NEW f \in Keys, e # f
               PROVE  Inited(e) \/ Inited(f) \/ Twins(e, f)
    BY DEF RaceInv, DefaultsOnlyInRaces, Inited, Twins
  <2>1. QED BY DEF BornInv, Born, Keys
<1>2. QED BY <1>1, RaceInvariance, PTL

(* A step that answers a request without a rival, whose hash write was not  *)
(* swallowed, leaves row and hash of its elevator equal.                    *)
LEMMA LeavesSync ==
    ASSUME IInv, RaceInv, [Next]_vars, NEW r \in Requests,
           ~Answered(r), Answered(r)', req'[r].cached, Rivals(r)' = {}
    PROVE  db'[req'[r].elev] = cache'[req'[r].elev]
<1>1. req'[r].phase = "answered" /\ req[r].phase # "answered"
  BY DEF Answered
<1>2. req'[r] # req[r]
  BY <1>1
<1>3. CASE Crash
  <2>1. req' = [q \in Requests |->
                  IF q \in InFlight THEN [req[q] EXCEPT !.phase = "lost"] ELSE req[q]]
    BY <1>3 DEF Crash
  <2>2. req'[r].phase = "lost" \/ req'[r] = req[r]
    BY <2>1, ReqFields DEF Request
  <2>3. QED BY <1>1, <1>2, <2>2
<1>4. ASSUME NEW q \in Requests, Receive(q) \/ Step(q)
      PROVE  db'[req'[r].elev] = cache'[req'[r].elev]
  <2>1. Does(q)
    BY <1>4, ReceiveDoes, StepDoes
  <2>2. q = r
    BY <1>2, <2>1, DoesOthers
  <2>3. ~Raced(r)
    BY <2>1, RacedStays DEF RaceInv, Raced
  <2>4. Own(r)
    BY <2>3 DEF RaceInv, OwnInv
  <2>5. CASE DoesWriteHash(r)
    <3>1. req[r].phase = "hash" /\ req[r].elev \in Elevators /\ db[req[r].elev] = RowOf(req[r].agg)
      BY <2>4, <2>5, ReqFields DEF DoesWriteHash, Goes, Own, LocalsOk, LocalsGood, Placed, Rowed,
         Saving
    <3>2. cache'[req[r].elev] = RowOf(req[r].agg) /\ db' = db /\ req'[r].elev = req[r].elev
      BY <2>5, <3>1, TypeParts DEF DoesWriteHash, Keeps
    <3>3. QED BY <3>1, <3>2
  <2>6. CASE DoesInsertEvent(r)
    BY <2>4, <2>6 DEF DoesInsertEvent, Goes, Keeps, Own, Logging
  <2>7. QED
    BY <1>1, <2>1, <2>2, <2>5, <2>6 DEF Does, DoesStep, DoesReceiveCall, DoesReceiveInitialize,
       DoesListKeys, DoesReadHashes, DoesWriteNewHash, DoesFallBack, DoesFindRow, DoesCreateRow,
       DoesNotCreateRow, DoesSeedHash, DoesLoadHistory, DoesUpsert, DoesNextSequence, DoesFail,
       Goes
<1>5. CASE UNCHANGED vars
  BY <1>2, <1>5 DEF vars
<1>6. QED BY <1>3, <1>4, <1>5 DEF Next

(* Whatever others, failures and crashes have left behind, an answered      *)
(* request that had no rival and wrote its hash leaves the stores equal.    *)
THEOREM LoneRequestsSync == Spec => LoneRequestLeavesSync
<1>1. IInv /\ RaceInv /\ [Next]_vars =>
        [\A r \in Requests :
           ~Answered(r) /\ Answered(r)' /\ req'[r].cached /\ Rivals(r)' = {}
           => db'[req'[r].elev] = cache'[req'[r].elev]]_vars
  BY LeavesSync
<1>2. QED BY <1>1, RaceInvariance, PTL DEF Spec, LoneRequestLeavesSync

(* A step that takes back a stored departure is of a request with a rival.  *)
LEMMA TakenBack ==
    ASSUME IInv, RaceInv, [Next]_vars, NEW e \in Elevators,
           db[e] # Nothing, db[e].state = "MOVING", db'[e].state # "MOVING"
    PROVE  \E r \in Requests : req'[r] # req[r] /\ req[r].elev = e /\ Rivals(r) # {}
<1>1. db'[e] # db[e]
  OBVIOUS
<1>2. ASSUME NEW r \in Requests, Receive(r) \/ Step(r)
      PROVE  req'[r] # req[r] /\ req[r].elev = e /\ Rivals(r) # {}
  <2>1. Does(r)
    BY <1>2, ReceiveDoes, StepDoes
  <2>2. req[r].elev = e /\ r \in InFlight
    BY <1>1, <2>1, WritesOwn
  <2>3. CASE DoesCreateRow(r)
    <3>1. req[r].phase = "create" /\ req'[r].phase = "seed"
      BY <2>3 DEF DoesCreateRow, Goes
    <3>2. ~Own(r)
      BY <2>2, <3>1 DEF Own
    <3>3. QED BY <2>2, <3>1, <3>2 DEF RaceInv, OwnInv, Raced
  <2>4. CASE DoesUpsert(r)
    <3>1. req[r].phase = "upsert" /\ req'[r].phase = "hash"
      BY <2>4 DEF DoesUpsert, Goes
    <3>2. db'[e] = RowOf(req[r].agg)
      BY <2>2, <2>4, TypeParts DEF DoesUpsert
    <3>3. req[r].agg.state # "MOVING"
      BY <3>2 DEF RowOf
    <3>4. ~Own(r)
      BY <2>2, <3>1, <3>3 DEF Own
    <3>5. QED BY <2>2, <3>1, <3>4 DEF RaceInv, OwnInv, Raced
  <2>5. QED
    BY <1>1, <2>1, <2>3, <2>4 DEF Does, DoesStep, DoesReceiveCall, DoesReceiveInitialize,
       DoesListKeys, DoesReadHashes, DoesWriteNewHash, DoesFallBack, DoesFindRow,
       DoesNotCreateRow, DoesSeedHash, DoesLoadHistory, DoesWriteHash, DoesNextSequence,
       DoesInsertEvent, DoesFail
<1>3. QED BY <1>1, <1>2 DEF Next, Crash, vars

(* Failures and crashes included, a stored departure is taken back only by  *)
(* a request that had a rival for the elevator: by one that read the row,   *)
(* or found none, before another request saved the departure.               *)
THEOREM DeparturesLostInRaces == Spec => DepartureNotLost
<1>1. IInv /\ RaceInv /\ [Next]_vars =>
        [\A e \in Elevators :
           /\ db[e] # Nothing /\ db[e].state = "MOVING" /\ db'[e].state # "MOVING"
           => \E r \in Requests : req'[r] # req[r] /\ req[r].elev = e /\ Rivals(r) # {}]_vars
  BY TakenBack
<1>2. QED BY <1>1, RaceInvariance, PTL DEF Spec, DepartureNotLost
=============================================================================
