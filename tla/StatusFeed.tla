----------------------------- MODULE StatusFeed -----------------------------
(***************************************************************************)
(* How the elevators' hashes reach those who watch: the snapshot and the   *)
(* subscriptions of the gateway, the announcements of handlers, worker and *)
(* timers, the broadcast every second, GET /elevators, and the page.       *)
(* ElevatorGateway, WebSocketAdapter, RealtimeStatusService,               *)
(* GetAllElevatorsHandler, client/index.html.                              *)
(*                                                                         *)
(* All of them share one connection to Redis.  Commands take effect in the *)
(* order they are issued, so a command is one action with what it reads or *)
(* writes, and its reply waits in line.  What a hash holds is left to      *)
(* MovementPipeline: here it is the number of the write it stems from.     *)
(***************************************************************************)
EXTENDS SequencesExt, Naturals

CONSTANTS
    Elevators,
    Clients,      \* those who connect to the gateway
    Pages,        \* the clients that are browsers with the page
    Pollers,      \* those who ask GET /elevators again and again
    Everyone,     \* all that are connected
    Nobody,       \* a client that has gone
    MaxWrites,    \* bound: writes of hashes
    MaxPending,   \* bound: commands without a reply
    MaxFaults     \* bound: failed commands and process crashes

ASSUME ReadersAssumption ==
    /\ Pages \subseteq Clients
    /\ Clients \cap Pollers = {}
    /\ Everyone # Nobody /\ {Everyone, Nobody} \cap (Clients \cup Pollers) = {}
ASSUME BoundsAssumption == MaxWrites \in Nat /\ MaxPending \in Nat

VARIABLES
    past,       \* the states of the fleet, one for each write; the last one is in Redis
    line,       \* the replies pending on the connection
    connected,  \* connectedClients of the adapter
    table,      \* the rows of each page
    status,     \* the list each viewer got last, of elevators-status or GET
    faults      \* failures so far, against MaxFaults

vars == <<past, line, connected, table, status, faults>>

(* Some elevators, each with the number of the write that its state is of;  *)
(* 0 stands for the defaults of an elevator that has no hash.               *)
View == UNION {[S -> 0 .. MaxWrites] : S \in SUBSET Elevators}

Reply == [ kind : {"keys", "hashes", "hash", "movement", "arrived", "handler", "recorded",
                   "update"},
           to   : Clients \cup Pollers \cup {Everyone, Nobody},
           view : View ]

Unseen == [e \in {} |-> 0]

One(e, n) == [f \in {e} |-> n]

(* View A laid over view B.                                                 *)
Over(A, B) == [e \in DOMAIN A \cup DOMAIN B |-> IF e \in DOMAIN A THEN A[e] ELSE B[e]]

Init ==
    /\ past = <<>>
    /\ line = <<>>
    /\ connected = {}
    /\ table  = [c \in Pages |-> Unseen]
    /\ status = [v \in Clients \cup Pollers |-> Unseen]
    /\ faults = 0

-----------------------------------------------------------------------------
Hashes == IF past = <<>> THEN Unseen ELSE Last(past)

Fault == faults < MaxFaults /\ faults' = faults + 1

Command(kind, to, view) == [kind |-> kind, to |-> to, view |-> view]

Issue(cmd) == Len(line) < MaxPending /\ line' = Append(line, cmd)

(* A hash is written, by the repository, a handler, the worker or a timer.  *)
(* The write is announced when it is replied to, with an event of its kind  *)
(* ("update": one that the page only logs or ignores, or none at all).      *)
Write(e) ==
    /\ Len(past) < MaxWrites
    /\ past' = Append(past, Over(One(e, Len(past) + 1), Hashes))
    /\ \E kind \in {"movement", "arrived", "handler", "update"} :
         Issue(Command(kind, Everyone, One(e, Len(past) + 1)))
    /\ UNCHANGED <<connected, table, status, faults>>

(* Every list of elevators starts with KEYS elevator:*:state.               *)
AskKeys(to) == Issue(Command("keys", to, [e \in DOMAIN Hashes |-> 0]))

(* handleConnection of the adapter, and of the gateway, which starts the    *)
(* client's snapshot.  (Fault...: variants of the definition below them,    *)
(* which the specification does not use.)                                   *)
FaultRegister(c) == connected' = connected \cup {Everyone}     \* the namespace, not the client

Register(c) == connected' = connected \cup {c}

Connect(c) ==
    /\ c \notin connected
    /\ Register(c)
    /\ AskKeys(c)
    /\ UNCHANGED <<past, table, status, faults>>

(* handleDisconnect.  What is still read for the client is sent to nobody,  *)
(* also if it connects again.                                               *)
Disconnect(c) ==
    /\ c \in connected
    /\ connected' = connected \ {c}
    /\ line' = [i \in DOMAIN line |-> IF line[i].to = c THEN [line[i] EXCEPT !.to = Nobody]
                                       ELSE line[i]]
    /\ UNCHANGED <<past, table, status, faults>>

(* handleSubscribeElevator.  The room that the client joins gets no event.  *)
Subscribe(c, e) ==
    /\ c \in connected
    /\ Issue(Command("hash", c, One(e, IF e \in DOMAIN Hashes THEN Hashes[e] ELSE 0)))
    /\ UNCHANGED <<past, connected, table, status, faults>>

(* broadcastElevatorStatuses: every second, whether or not the last one is  *)
(* over, and from handlers through triggerStatusUpdate.                     *)
FaultTick ==                     \* a failed broadcast is the last
    faults = 0 /\ AskKeys(Everyone) /\ UNCHANGED <<past, connected, table, status, faults>>

Tick == AskKeys(Everyone) /\ UNCHANGED <<past, connected, table, status, faults>>

(* GET /elevators, by a client that waits for the answer before it asks     *)
(* again.                                                                   *)
Poll(p) ==
    /\ \A i \in DOMAIN line : line[i].to # p
    /\ AskKeys(p)
    /\ UNCHANGED <<past, connected, table, status, faults>>

-----------------------------------------------------------------------------
(* The replies.                                                             *)

(* How many promises stand between the reply and the code that acts on it.  *)
(* One: the await of the command itself.  Two: that await is in a function  *)
(* that is awaited (updateFloorPosition, recordMovement).  Three: it is in  *)
(* the functions of a Promise.all.  GET counts as three too: its pipeline,  *)
(* the handler and the query bus are awaited in turn, and who polls gets    *)
(* nothing else that could come first.                                      *)
Depth(kind) == IF kind = "hashes" THEN 3 ELSE IF kind \in {"movement", "recorded"} THEN 2 ELSE 1

FaultAnswerable(i) == TRUE       \* every reader has a connection of its own

(* Replies come in order.  Of those that come in one packet, the code with  *)
(* fewer promises before it runs first.                                     *)
Answerable(i) == \A j \in 1 .. i - 1 : Depth(line[j].kind) > Depth(line[i].kind)

Rest(i) == RemoveAt(line, i)

(* The keys are there: their hgetall go out together.                       *)
ReadHashes(i) ==
    /\ line[i].kind = "keys"
    /\ \/ /\ DOMAIN line[i].view # {} \/ line[i].to \in Clients \cup {Nobody}
          /\ line' = Append(Rest(i), Command("hashes", line[i].to,
                                       [e \in DOMAIN line[i].view |-> Hashes[e]]))
       \/ /\ DOMAIN line[i].view = {} /\ line[i].to \in Pollers \cup {Everyone}
          /\ line' = Rest(i)
    /\ UNCHANGED <<table, status>>

(* The page puts the elevators of an event into its rows.                   *)
Shown(S, view) == [c \in Pages |-> IF c \in S THEN Over(view, table[c]) ELSE table[c]]

Listed(S, view) == [v \in DOMAIN status |-> IF v \in S THEN view ELSE status[v]]

(* The hashes are there: elevator-states to the client that connected.      *)
SendStates(i) ==
    /\ line[i].kind = "hashes" /\ line[i].to \in Clients \cup {Nobody}
    /\ line' = Rest(i)
    /\ table' = Shown({line[i].to}, line[i].view)
    /\ UNCHANGED status

(* ... elevators-status to all that are connected by now, if any are ...    *)
SendStatus(i) ==
    /\ line[i].kind = "hashes" /\ line[i].to = Everyone
    /\ line' = Rest(i)
    /\ status' = Listed(connected, line[i].view)
    /\ UNCHANGED table

(* ... or the answer of GET.                                                *)
Answer(i) ==
    /\ line[i].kind = "hashes" /\ line[i].to \in Pollers
    /\ line' = Rest(i)
    /\ status' = Listed({line[i].to}, line[i].view)
    /\ UNCHANGED table

(* elevator-state, the answer to a subscription.                            *)
SendHash(i) ==
    /\ line[i].kind = "hash"
    /\ line' = Rest(i)
    /\ table' = Shown({line[i].to}, line[i].view)
    /\ UNCHANGED status

(* The page shows elevator-movement and elevator-arrived, and no other      *)
(* broadcast.                                                               *)
Announce(i) ==
    /\ line[i].kind \in {"movement", "arrived", "recorded", "update"}
    /\ line' = Rest(i)
    /\ table' = IF line[i].kind = "update" THEN table ELSE Shown(connected, line[i].view)
    /\ UNCHANGED status

(* The handler of an arrival has tracking and history to write before it    *)
(* announces what it wrote.                                                 *)
Record(i) ==
    /\ line[i].kind = "handler"
    /\ line' = Append(Rest(i), Command("recorded", Everyone, line[i].view))
    /\ UNCHANGED <<table, status>>

Handle(i) ==
    /\ i \in DOMAIN line /\ Answerable(i)
    /\ \/ ReadHashes(i) \/ SendStates(i) \/ SendStatus(i) \/ Answer(i) \/ SendHash(i)
       \/ Announce(i) \/ Record(i)
    /\ UNCHANGED <<past, connected, faults>>

(* A command fails: the error is logged, and nothing is sent.               *)
CommandFault(i) ==
    /\ Fault
    /\ i \in DOMAIN line /\ Answerable(i)
    /\ line' = Rest(i)
    /\ UNCHANGED <<past, connected, table, status>>

(* The process dies and comes back: handlers and connections are gone.      *)
Crash ==
    /\ Fault
    /\ line' = <<>>
    /\ connected' = {}
    /\ UNCHANGED <<past, table, status>>

Next ==
    \/ \E e \in Elevators : Write(e)
    \/ \E c \in Clients : Connect(c) \/ Disconnect(c) \/ \E e \in Elevators : Subscribe(c, e)
    \/ Tick
    \/ \E p \in Pollers : Poll(p)
    \/ \E i \in 1 .. MaxPending : Handle(i) \/ CommandFault(i)
    \/ Crash

Spec == Init /\ [][Next]_vars

(* Every command gets its reply.  The timer ticks and the pollers ask       *)
(* however many commands are pending; only the bound keeps them waiting,    *)
(* hence the strong fairness.                                               *)
FairSpec ==
    /\ Spec
    /\ WF_vars(Handle(1))
    /\ SF_vars(Tick)
    /\ \A p \in Pollers : SF_vars(Poll(p))

-----------------------------------------------------------------------------
(* Replies, pages and lists hold elevators with the numbers of writes.      *)
TypeOK ==
    /\ past \in Seq(View) /\ Len(past) <= MaxWrites
    /\ line \in Seq(Reply) /\ Len(line) <= MaxPending
    /\ connected \subseteq Clients
    /\ table \in [Pages -> View]
    /\ status \in [Clients \cup Pollers -> View]
    /\ faults \in Nat

(* The first state of the fleet that a list shows, one state for all the    *)
(* elevators on it; if there is none, a state that is still to come.        *)
StateShown(view) ==
    LET fits == {m \in DOMAIN past : \A e \in DOMAIN view :
                    e \in DOMAIN past[m] /\ past[m][e] = view[e]} IN
    IF view = Unseen THEN 0
    ELSE IF fits = {} THEN Len(past) + 1
    ELSE CHOOSE m \in fits : \A n \in fits : m <= n

Board == INSTANCE StatusBoard WITH
             Viewers <- Clients \cup Pollers,
             Horizon <- MaxWrites,
             now     <- Len(past),
             seen    <- [v \in Clients \cup Pollers |-> StateShown(status[v])],
             tuned   <- connected \cup Pollers

(* The lists of elevators-status and of GET are a status board: though the  *)
(* broadcasts overlap and writes fall between their commands, a list shows  *)
(* its elevators as they were at one moment (one that was made after the    *)
(* keys were read is missing), and no viewer gets an older list after a     *)
(* newer one.                                                               *)
ImplementsBoard == Board!Safety

(* The rest of what a board promises (Board!Spec): after failed broadcasts, *)
(* crashes and reconnections those who listen are shown each state of the   *)
(* fleet, or a later one.                                                   *)
ListsCatchUp == \A v \in Clients \cup Pollers : Board!CatchesUp(v)

(* README, of the gateway: "enabling clients to monitor elevator movements, *)
(* states, and events in real time".  A page that stays connected shows, in *)
(* the end, each state of an elevator, or a later one.                      *)
PageCatchesUp ==
    \A c \in Pages, e \in Elevators, n \in 1 .. MaxWrites :
        c \in connected /\ e \in DOMAIN Hashes /\ Hashes[e] >= n
            ~> c \notin connected \/ (e \in DOMAIN table[c] /\ table[c][e] >= n)
=============================================================================
