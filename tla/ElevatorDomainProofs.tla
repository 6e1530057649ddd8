------------------------ MODULE ElevatorDomainProofs ------------------------
(***************************************************************************)
(* What the methods of the aggregate preserve, as lemmas on the values of  *)
(* ElevatorDomain; the proofs about the modules that use them cite these.  *)
(***************************************************************************)
EXTENDS ElevatorDomain, TLAPS

(* HeadsForTarget and StrandedOnlyAtOwnFloor, of one object.                *)
HeadsFor(a) ==
    Travelling(a) => /\ a.target # a.floor
                     /\ a.direction = DirectionTo(a.floor, a.target)

StrandedOk(a) == a.state = "IDLE" /\ a.queue # <<>> => a.target = a.floor

LEMMA DirectionType ==
    ASSUME NEW f, NEW g
    PROVE  DirectionTo(f, g) \in Direction
BY DEF DirectionTo, Direction

LEMMA DirectionIdle ==
    ASSUME NEW f \in Int, NEW g \in Int
    PROVE  DirectionTo(f, g) = "IDLE" <=> f = g
BY DEF DirectionTo

LEMMA NextRequestKeeps ==
    ASSUME NEW a, a.state # "IDLE" \/ a.queue = <<>>
    PROVE  WithNextRequest(a) = a
BY DEF WithNextRequest

LEMMA NextRequestTakes ==
    ASSUME NEW a \in Aggregate, a.state = "IDLE", a.queue # <<>>,
           NEW b, b = WithNextRequest(a)
    PROVE  /\ b \in Aggregate
           /\ Head(a.queue) \in Floor
           /\ b.floor = a.floor
           /\ b.target = Head(a.queue)
           /\ b.queue = Tail(a.queue)
           /\ b.direction = DirectionTo(a.floor, Head(a.queue))
           /\ b.state = IF Head(a.queue) = a.floor THEN "IDLE" ELSE "MOVING"
           /\ LET m == MovingEvent(a.floor, Head(a.queue), DirectionTo(a.floor, Head(a.queue)))
              IN  b.events = IF Head(a.queue) = a.floor THEN a.events ELSE Append(a.events, m)
<1> DEFINE next == Head(a.queue)
           dir  == DirectionTo(a.floor, next)
           moving == MovingEvent(a.floor, next, dir)
           taken == [a EXCEPT !.queue = Tail(@), !.target = next, !.direction = dir]
           gone  == [taken EXCEPT !.state  = "MOVING", !.events = Append(@, moving)]
<1>1. /\ next \in Floor /\ Tail(a.queue) \in Seq(Floor)
      /\ a.floor \in Floor /\ a.events \in Seq(Event)
  BY DEF Aggregate
<1>2. moving \in Event /\ moving.type = "Moving"
  BY <1>1, DirectionType DEF MovingEvent, Event
<1>3. Append(a.events, moving) \in Seq(Event)
  <2> HIDE DEF moving
  <2> QED BY <1>1, <1>2
<1>4. b = IF dir = "IDLE" THEN taken ELSE gone
  BY DEF WithNextRequest
<1> HIDE DEF dir, moving
<1>5. dir \in Direction
  BY DirectionType DEF dir
<1>6. dir = "IDLE" <=> next = a.floor
  BY <1>1, DirectionIdle DEF dir, Floor
<1>7. CASE dir = "IDLE"
  <2>1. b = taken
    BY <1>4, <1>7
  <2>2. /\ b \in Aggregate /\ b.floor = a.floor /\ b.target = next /\ b.queue = Tail(a.queue)
        /\ b.direction = dir /\ b.state = "IDLE" /\ b.events = a.events
    BY <2>1, <1>1, <1>5, <1>7 DEF Aggregate
  <2>3. QED BY <2>2, <1>1, <1>6, <1>7 DEF dir
<1>8. CASE dir # "IDLE"
  <2>1. b = gone
    BY <1>4, <1>8
  <2>2. b.events = Append(a.events, moving)
    BY <2>1 DEF Aggregate
  <2>3. /\ b \in Aggregate /\ b.floor = a.floor /\ b.target = next /\ b.queue = Tail(a.queue)
        /\ b.direction = dir /\ b.state = "MOVING"
    BY <2>1, <1>1, <1>3, <1>5 DEF Aggregate, State
  <2>4. QED BY <2>2, <2>3, <1>1, <1>6, <1>8 DEF dir, moving
<1>9. QED BY <1>7, <1>8

LEMMA NextRequestInv ==
    ASSUME NEW a \in Aggregate, HeadsFor(a), IsInjective(a.queue)
    PROVE  /\ WithNextRequest(a) \in Aggregate
           /\ HeadsFor(WithNextRequest(a))
           /\ StrandedOk(WithNextRequest(a))
           /\ IsInjective(WithNextRequest(a).queue)
<1> DEFINE b == WithNextRequest(a)
<1>1. CASE a.state # "IDLE" \/ a.queue = <<>>
  BY <1>1, NextRequestKeeps DEF StrandedOk
<1>2. CASE a.state = "IDLE" /\ a.queue # <<>>
  <2>1. /\ b \in Aggregate
        /\ Head(a.queue) \in Floor
        /\ b.floor = a.floor
        /\ b.target = Head(a.queue)
        /\ b.queue = Tail(a.queue)
        /\ b.direction = DirectionTo(a.floor, Head(a.queue))
        /\ b.state = IF Head(a.queue) = a.floor THEN "IDLE" ELSE "MOVING"
    BY <1>2, NextRequestTakes
  <2>2. IsInjective(Tail(a.queue))
    BY <1>2 DEF IsInjective, Aggregate
  <2> HIDE DEF b
  <2>3. HeadsFor(b)
    BY <2>1 DEF HeadsFor, Travelling
  <2>4. StrandedOk(b)
    BY <2>1 DEF StrandedOk
  <2>5. QED BY <2>1, <2>2, <2>3, <2>4 DEF b
<1>3. QED BY <1>1, <1>2

LEMMA EnqueuedType ==
    ASSUME NEW q \in Seq(Floor), IsInjective(q), NEW f \in Floor
    PROVE  Enqueued(q, f) \in Seq(Floor) /\ IsInjective(Enqueued(q, f))
<1>1. CASE f \in Range(q)
  BY <1>1 DEF Enqueued
<1>2. CASE f \notin Range(q)
  <2>1. Enqueued(q, f) = Append(q, f)
    BY <1>2 DEF Enqueued
  <2>2. \A i \in DOMAIN q : q[i] # f
    BY <1>2 DEF Range
  <2>3. IsInjective(Append(q, f))
    BY <2>2 DEF IsInjective
  <2>4. QED BY <2>1, <2>3
<1>3. QED BY <1>1, <1>2

LEMMA CallInv ==
    ASSUME NEW a \in Aggregate, HeadsFor(a), IsInjective(a.queue),
           NEW from \in Floor, NEW to \in Floor
    PROVE  /\ WithCall(a, from, to) \in Aggregate
           /\ HeadsFor(WithCall(a, from, to))
           /\ StrandedOk(WithCall(a, from, to))
           /\ IsInjective(WithCall(a, from, to).queue)
<1> DEFINE q == Enqueued(Enqueued(a.queue, from), to)
           es == Append(a.events, CalledEvent(from, to))
           c == [a EXCEPT !.queue = q, !.events = es]
<1>1. q \in Seq(Floor) /\ IsInjective(q)
  BY EnqueuedType DEF Aggregate
<1>2. es \in Seq(Event)
  <2>1. CalledEvent(from, to) \in Event
    BY DEF CalledEvent, Event
  <2>2. QED BY <2>1 DEF Aggregate
<1>3. WithCall(a, from, to) = WithNextRequest(c)
  BY DEF WithCall, Aggregate
<1> HIDE DEF q, es
<1>4. c \in Aggregate /\ c.queue = q /\ HeadsFor(c)
  BY <1>1, <1>2 DEF Aggregate, HeadsFor, Travelling
<1> HIDE DEF c
<1>5. QED BY <1>1, <1>3, <1>4, NextRequestInv

LEMMA OneFloorInv ==
    ASSUME NEW a \in Aggregate, HeadsFor(a), Travelling(a), NEW b, b = WithOneFloor(a)
    PROVE  /\ b \in Aggregate
           /\ HeadsFor(b)
           /\ b.queue = a.queue
           /\ IF FloorAfter(a) = a.target
              THEN /\ b.state = "DOORS_OPENING"
                   /\ b.target = NoFloor
                   /\ b.floor = a.target
              ELSE /\ b.state = "MOVING"
                   /\ b.target = a.target
                   /\ b.direction = a.direction
                   /\ b.floor = FloorAfter(a)
<1>1. /\ a.floor \in Floor /\ a.target \in Floor /\ a.target # a.floor
      /\ a.direction = DirectionTo(a.floor, a.target)
  BY DEF Aggregate, HeadsFor, Travelling
<1>2. FloorAfter(a) = IF a.target > a.floor THEN a.floor + 1 ELSE a.floor - 1
  BY <1>1 DEF FloorAfter, DirectionTo, Floor
<1>3. FloorAfter(a) \in Floor
  BY <1>1, <1>2, MaxFloorAssumption DEF Floor
<1>4. CASE FloorAfter(a) = a.target
  <2> DEFINE es == Append(a.events, ArrivedEvent(FloorAfter(a)))
  <2>1. es \in Seq(Event)
    <3>1. ArrivedEvent(FloorAfter(a)) \in Event
      BY <1>3 DEF ArrivedEvent, Event
    <3>2. QED BY <3>1 DEF Aggregate
  <2> HIDE DEF es
  <2>2. b = [a EXCEPT !.floor = FloorAfter(a), !.state = "DOORS_OPENING",
                      !.direction = "IDLE", !.target = NoFloor, !.events = es]
    BY <1>4 DEF WithOneFloor, Aggregate, es
  <2>3. QED
    BY <1>1, <1>3, <1>4, <2>1, <2>2 DEF Aggregate, HeadsFor, Travelling, State, Direction
<1>5. CASE FloorAfter(a) # a.target
  <2>1. b = [a EXCEPT !.floor = FloorAfter(a)]
    BY <1>5 DEF WithOneFloor
  <2>2. DirectionTo(FloorAfter(a), a.target) = DirectionTo(a.floor, a.target)
    BY <1>1, <1>2, <1>5 DEF DirectionTo, Floor
  <2>3. QED
    BY <1>1, <1>3, <1>5, <2>1, <2>2 DEF Aggregate, HeadsFor, Travelling
<1>6. QED BY <1>4, <1>5

LEMMA DoorsTimedOutInv ==
    ASSUME NEW a \in Aggregate, IsInjective(a.queue)
    PROVE  /\ WithDoorsTimedOut(a) \in Aggregate
           /\ HeadsFor(WithDoorsTimedOut(a))
           /\ StrandedOk(WithDoorsTimedOut(a))
           /\ IsInjective(WithDoorsTimedOut(a).queue)
<1> DEFINE c == [a EXCEPT !.state = "IDLE"]
<1>1. c \in Aggregate /\ c.queue = a.queue /\ HeadsFor(c)
  BY DEF Aggregate, State, HeadsFor, Travelling
<1>2. WithDoorsTimedOut(a) = WithNextRequest(c)
  BY DEF WithDoorsTimedOut
<1> HIDE DEF c
<1>3. QED BY <1>1, <1>2, NextRequestInv

(* What a call leaves alone.                                                *)
LEMMA CallKeeps ==
    ASSUME NEW a \in Aggregate, NEW from \in Floor, NEW to \in Floor, IsInjective(a.queue),
           a.state # "IDLE"
    PROVE  WithCall(a, from, to) =
             [a EXCEPT !.queue  = Enqueued(Enqueued(a.queue, from), to),
                       !.events = Append(a.events, CalledEvent(from, to))]
<1> DEFINE c == [a EXCEPT !.queue  = Enqueued(Enqueued(a.queue, from), to),
                          !.events = Append(a.events, CalledEvent(from, to))]
<1>1. WithCall(a, from, to) = WithNextRequest(c)
  BY DEF WithCall, Aggregate
<1>2. c.state # "IDLE"
  BY DEF Aggregate
<1>3. QED BY <1>1, <1>2, NextRequestKeeps

LEMMA NextRequestStep ==
    ASSUME NEW c \in Aggregate, NEW b, b = WithNextRequest(c)
    PROVE  /\ b.floor = c.floor
           /\ c.state # "IDLE" => b = c
           /\ c.state = "IDLE" => \/ b.state = "IDLE"
                                 \/ /\ b.state = "MOVING"
                                    /\ b.target \in Floor
                                    /\ b.target # b.floor
           /\ \/ b.queue = c.queue
              \/ /\ c.queue # <<>>
                 /\ b.queue = Tail(c.queue)
                 /\ b.target = Head(c.queue)
<1>1. CASE c.state # "IDLE" \/ c.queue = <<>>
  BY <1>1, NextRequestKeeps
<1>2. CASE c.state = "IDLE" /\ c.queue # <<>>
  BY <1>2, NextRequestTakes
<1>3. QED BY <1>1, <1>2

LEMMA NextRequestEvents ==
    ASSUME NEW c \in Aggregate, NEW b, b = WithNextRequest(c)
    PROVE  \/ b.events = c.events
           \/ \E m \in Event : m.type = "Moving" /\ b.events = Append(c.events, m)
<1>1. CASE c.state # "IDLE" \/ c.queue = <<>>
  BY <1>1, NextRequestKeeps
<1>2. CASE c.state = "IDLE" /\ c.queue # <<>>
  <2> DEFINE f == Head(c.queue)
             m == MovingEvent(c.floor, f, DirectionTo(c.floor, f))
  <2>1. f \in Floor /\ b.events = IF f = c.floor THEN c.events ELSE Append(c.events, m)
    BY <1>2, NextRequestTakes
  <2>2. m \in Event /\ m.type = "Moving"
    BY <2>1, DirectionType DEF MovingEvent, Event, Aggregate
  <2> HIDE DEF m, f
  <2>3. QED BY <2>1, <2>2
<1>3. QED BY <1>1, <1>2

(* What a call does to the motion: nothing, unless the elevator is IDLE.    *)
LEMMA CallStep ==
    ASSUME NEW a \in Aggregate, IsInjective(a.queue), NEW from \in Floor, NEW to \in Floor,
           NEW b, b = WithCall(a, from, to)
    PROVE  /\ b.floor = a.floor
           /\ a.state # "IDLE" => /\ b.state = a.state
                                  /\ b.target = a.target
                                  /\ b.direction = a.direction
           /\ a.state = "IDLE" => \/ b.state = "IDLE"
                                 \/ /\ b.state = "MOVING"
                                    /\ b.target \in Floor
                                    /\ b.target # b.floor
           /\ LET q == Enqueued(Enqueued(a.queue, from), to) IN
              \/ b.queue = q
              \/ /\ q # <<>>
                 /\ b.queue = Tail(q)
                 /\ b.target = Head(q)
<1> DEFINE q == Enqueued(Enqueued(a.queue, from), to)
           es == Append(a.events, CalledEvent(from, to))
           c == [a EXCEPT !.queue = q, !.events = es]
<1>1. q \in Seq(Floor)
  BY EnqueuedType DEF Aggregate
<1>2. es \in Seq(Event)
  <2>1. CalledEvent(from, to) \in Event
    BY DEF CalledEvent, Event
  <2>2. QED BY <2>1 DEF Aggregate
<1>3. b = WithNextRequest(c)
  BY DEF WithCall, Aggregate
<1> HIDE DEF q, es
<1>4. /\ c \in Aggregate /\ c.queue = q /\ c.floor = a.floor /\ c.state = a.state
      /\ c.target = a.target /\ c.direction = a.direction
  BY <1>1, <1>2 DEF Aggregate
<1> HIDE DEF c
<1>5. /\ b.floor = c.floor
      /\ c.state # "IDLE" => b = c
      /\ c.state = "IDLE" => \/ b.state = "IDLE"
                            \/ /\ b.state = "MOVING"
                               /\ b.target \in Floor
                               /\ b.target # b.floor
      /\ \/ b.queue = c.queue
         \/ /\ c.queue # <<>>
            /\ b.queue = Tail(c.queue)
            /\ b.target = Head(c.queue)
  BY <1>3, <1>4, NextRequestStep
<1>6. \/ b.queue = q
      \/ q # <<>> /\ b.queue = Tail(q) /\ b.target = Head(q)
  BY <1>4, <1>5
<1>7. a.state # "IDLE" => b.state = a.state /\ b.target = a.target /\ b.direction = a.direction
  BY <1>4, <1>5
<1>8. QED BY <1>4, <1>5, <1>6, <1>7 DEF q

LEMMA DoorsTimedOutStep ==
    ASSUME NEW a \in Aggregate, NEW b, b = WithDoorsTimedOut(a)
    PROVE  /\ b.floor = a.floor
           /\ \/ b.state = "IDLE"
              \/ b.state = "MOVING" /\ b.target \in Floor /\ b.target # b.floor
           /\ \/ b.queue = a.queue
              \/ /\ a.queue # <<>>
                 /\ b.queue = Tail(a.queue)
                 /\ b.target = Head(a.queue)
<1> DEFINE c == [a EXCEPT !.state = "IDLE"]
<1>1. /\ c \in Aggregate /\ c.queue = a.queue /\ c.floor = a.floor /\ c.state = "IDLE"
  BY DEF Aggregate, State
<1>2. b = WithNextRequest(c)
  BY DEF WithDoorsTimedOut
<1> HIDE DEF c
<1>3. QED BY <1>1, <1>2, NextRequestStep

LEMMA CommitStep ==
    ASSUME NEW a \in Aggregate, NEW b, b = WithEventsCommitted(a)
    PROVE  /\ b.floor = a.floor /\ b.state = a.state /\ b.target = a.target
           /\ b.direction = a.direction /\ b.queue = a.queue
BY DEF WithEventsCommitted, Aggregate

(* A call on an object just rebuilt from its row, as the handlers make it:  *)
(* one Called event, and a Moving event if the elevator sets off.           *)
LEMMA FirstCallEvents ==
    ASSUME NEW f \in Floor, NEW s \in State, NEW from \in Floor, NEW to \in Floor,
           NEW b, b = WithCall(Rehydrated(f, s), from, to)
    PROVE  /\ b \in Aggregate
           /\ Len(b.events) \in 1 .. 2
           /\ b.events[1].type = "Called"
           /\ Len(b.events) = 2 => b.events[2].type = "Moving"
<1> DEFINE a == Rehydrated(f, s)
           q == Enqueued(Enqueued(<<>>, from), to)
           called == CalledEvent(from, to)
           c == [a EXCEPT !.queue = q, !.events = <<called>>]
<1>1. /\ a \in Aggregate /\ HeadsFor(a) /\ a.queue = <<>> /\ a.events = <<>>
      /\ IsInjective(a.queue)
  BY DEF Rehydrated, Aggregate, Direction, HeadsFor, Travelling, IsInjective
<1>2. q \in Seq(Floor)
  <2>1. <<>> \in Seq(Floor) /\ IsInjective(<<>>)
    BY DEF IsInjective
  <2>2. QED BY <2>1, EnqueuedType
<1>3. called \in Event /\ called.type = "Called"
  BY DEF CalledEvent, Event
<1>4. b = WithNextRequest(c)
  <2>1. Append(<<>>, called) = <<called>>
    OBVIOUS
  <2>2. QED BY <1>1, <2>1 DEF WithCall
<1>5. b \in Aggregate
  BY <1>1, CallInv
<1> HIDE DEF a, q, called
<1>6. <<called>> \in Seq(Event)
  BY <1>3
<1>7. c \in Aggregate /\ c.events = <<called>>
  BY <1>1, <1>2, <1>6 DEF Aggregate
<1> HIDE DEF c
<1>8. CASE b.events = c.events
  <2>1. Len(b.events) = 1 /\ b.events[1] = called
    BY <1>7, <1>8
  <2>2. QED BY <1>3, <1>5, <2>1
<1>9. ASSUME NEW m \in Event, m.type = "Moving", b.events = Append(c.events, m)
      PROVE  /\ b \in Aggregate
             /\ Len(b.events) \in 1 .. 2
             /\ b.events[1].type = "Called"
             /\ Len(b.events) = 2 => b.events[2].type = "Moving"
  <2>1. Len(b.events) = 2 /\ b.events[1] = called /\ b.events[2] = m
    BY <1>3, <1>7, <1>9
  <2>2. QED BY <1>3, <1>5, <1>9, <2>1
<1>10. QED BY <1>4, <1>7, <1>8, <1>9, NextRequestEvents
=============================================================================
