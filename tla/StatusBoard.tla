---------------------------- MODULE StatusBoard -----------------------------
(***************************************************************************)
(* What a status display promises: the fleet goes through states 1, 2, 3,  *)
(* ...; every viewer is shown states of the fleet, never a later one       *)
(* before an earlier one, and falls behind no state for good.              *)
(***************************************************************************)
EXTENDS Naturals

CONSTANTS
    Viewers,
    Horizon    \* the states for which catching up is promised: 1 .. Horizon

VARIABLES
    now,    \* the number of the fleet's present state
    seen,   \* the number of the state each viewer was shown last, 0 if none
    tuned   \* the viewers that are listening

boardVars == <<now, seen, tuned>>

Init ==
    /\ now = 0
    /\ seen = [v \in Viewers |-> 0]
    /\ tuned \in SUBSET Viewers

Change == now' = now + 1 /\ UNCHANGED <<seen, tuned>>

(* Some listeners are shown one state, no older than what they have seen.   *)
Show ==
    /\ UNCHANGED <<now, tuned>>
    /\ seen' \in [Viewers -> 0 .. now]
    /\ \A v \in Viewers : seen'[v] # seen[v] =>
         /\ v \in tuned /\ seen'[v] >= seen[v]
         /\ \A w \in Viewers : seen'[w] # seen[w] => seen'[w] = seen'[v]

Tune == tuned' \in SUBSET Viewers /\ UNCHANGED <<now, seen>>

Next == Change \/ Show \/ Tune

Safety == Init /\ [][Next]_boardVars

(* A viewer that keeps listening is shown every state of the fleet, or a    *)
(* later one.                                                               *)
CatchesUp(v) ==
    \A n \in 1 .. Horizon :
        now >= n /\ v \in tuned ~> seen[v] >= n \/ v \notin tuned

Spec == Safety /\ \A v \in Viewers : CatchesUp(v)
=============================================================================
