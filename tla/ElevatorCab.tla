---------------------------- MODULE ElevatorCab -----------------------------
(***************************************************************************)
(* What an elevator promises its passengers, with no queue, no events and  *)
(* no timers: a cab commits to one destination, comes one floor nearer at  *)
(* a time and never turns away, opens its doors there and nowhere else,    *)
(* and leaves only with the doors closed.                                  *)
(***************************************************************************)
EXTENDS Integers

CONSTANTS MaxFloor, NoFloor

VARIABLES
    position,     \* the floor the cab is at
    destination,  \* the floor it is committed to, or NoFloor
    doors         \* "open" or "closed"

cabVars == <<position, destination, doors>>

CabFloor == 0 .. MaxFloor

Init ==
    /\ position \in CabFloor
    /\ destination = NoFloor
    /\ doors \in {"open", "closed"}

OtherFloors == CabFloor \ {position}

(* The cab commits to a floor other than its own.                           *)
Depart ==
    /\ destination = NoFloor
    /\ doors = "closed"
    /\ destination' \in OtherFloors
    /\ UNCHANGED <<position, doors>>

Nearer(p) == IF destination > p THEN p + 1 ELSE p - 1

(* One floor nearer, short of the destination.                              *)
Pass ==
    /\ destination # NoFloor
    /\ position' = Nearer(position)
    /\ position' # destination
    /\ UNCHANGED <<destination, doors>>

(* The last floor: the commitment is met and the doors open.                *)
Arrive ==
    /\ destination # NoFloor
    /\ position' = Nearer(position)
    /\ position' = destination
    /\ destination' = NoFloor
    /\ doors' = "open"

(* The doors close, and the cab may at once commit to its next floor.       *)
CloseDoors ==
    /\ doors = "open"
    /\ doors' = "closed"
    /\ destination' \in OtherFloors \cup {NoFloor}
    /\ UNCHANGED position

Next == Depart \/ Pass \/ Arrive \/ CloseDoors

Safety == Init /\ [][Next]_cabVars

(* A committed cab keeps moving until it arrives, and open doors close.     *)
Spec == Safety /\ WF_cabVars(Pass \/ Arrive) /\ WF_cabVars(CloseDoors)
=============================================================================
