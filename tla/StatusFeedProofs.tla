-------------------------- MODULE StatusFeedProofs --------------------------
(***************************************************************************)
(* The lists of StatusFeed are a status board (its safety part): a list    *)
(* shows its elevators as they were at one moment, and no viewer gets an   *)
(* older list after a newer one.  For any number of elevators, clients,    *)
(* pollers, overlapping broadcasts, writes and failures.                   *)
(***************************************************************************)
EXTENDS StatusFeed, ListLemmas, WellFoundedInduction

(* View B is no older than view A.                                          *)
UpTo(A, B) == DOMAIN A \subseteq DOMAIN B /\ \A e \in DOMAIN A : A[e] <= B[e]

(* A list P of states of the fleet: nothing is ever older than before.      *)
Growing(P) ==
    /\ P \in Seq(View)
    /\ \A m \in 1 .. Len(P) : \A e \in DOMAIN P[m] : P[m][e] <= Len(P)
    /\ \A m, n \in 1 .. Len(P) : m <= n => UpTo(P[m], P[n])

HashesIn(P) == IF P = <<>> THEN Unseen ELSE Last(P)

(* The view shows its elevators as they were in state m.                    *)
Fits(P, view, m) == \A e \in DOMAIN view : e \in DOMAIN P[m] /\ P[m][e] = view[e]

Known(P, view) == view = Unseen \/ \E m \in 1 .. Len(P) : Fits(P, view, m)

(* What is pending cannot show less, or older, than the view A: keys that   *)
(* are still to be read, and hashes that have been read.                    *)
Precedes(A, cmd) ==
    /\ cmd.kind = "keys" => DOMAIN A \subseteq DOMAIN cmd.view
    /\ cmd.kind = "hashes" => UpTo(A, cmd.view)

PendingOk(P, cmd) ==
    /\ cmd.kind = "keys" => DOMAIN cmd.view \subseteq DOMAIN HashesIn(P)
    /\ cmd.kind = "hashes" => Known(P, cmd.view)

InTurn(L) ==
    \A i, j \in 1 .. Len(L) :
        /\ L[i].kind = "hashes" /\ (i < j \/ L[j].kind = "keys") => Precedes(L[i].view, L[j])
        /\ L[i].kind = "keys" /\ L[j].kind = "keys" /\ i < j =>
             DOMAIN L[i].view \subseteq DOMAIN L[j].view

LineOk(P, L) == InTurn(L) /\ \A i \in 1 .. Len(L) : PendingOk(P, L[i])

(* A command may join the line.                                             *)
MayJoin(cmd, L) ==
    \A j \in 1 .. Len(L) :
        /\ L[j].kind = "hashes" => Precedes(L[j].view, cmd)
        /\ L[j].kind = "keys" /\ cmd.kind = "keys" =>
             DOMAIN L[j].view \subseteq DOMAIN cmd.view
        /\ L[j].kind = "keys" /\ cmd.kind = "hashes" => Precedes(cmd.view, L[j])

(* What a viewer has seen is older than all that is pending.                *)
SeenOk(P, view, L) == Known(P, view) /\ \A i \in 1 .. Len(L) : Precedes(view, L[i])

(* The inductive invariant.                                                 *)
IInv ==
    /\ TypeOK
    /\ Growing(past)
    /\ LineOk(past, line)
    /\ \A v \in Clients \cup Pollers : SeenOk(past, status[v], line)

-----------------------------------------------------------------------------
(* Views.                                                                   *)

LEMMA ViewType ==
    ASSUME NEW view
    PROVE  view \in View <=> /\ DOMAIN view \subseteq Elevators
                             /\ view \in [DOMAIN view -> 0 .. MaxWrites]
BY DEF View

LEMMA UnseenType ==
    /\ Unseen \in View /\ DOMAIN Unseen = {}
    /\ \A view \in View : DOMAIN view = {} => view = Unseen
<1>1. DOMAIN Unseen = {} /\ Unseen \in [{} -> 0 .. MaxWrites]
  BY DEF Unseen
<1>2. ASSUME NEW view \in View, DOMAIN view = {} PROVE view = Unseen
  <2>1. view = [e \in DOMAIN view |-> view[e]]
    BY ViewType
  <2>2. QED BY <1>2, <2>1 DEF Unseen
<1>3. QED BY <1>1, <1>2, ViewType

LEMMA OverView ==
    ASSUME NEW A \in View, NEW B \in View
    PROVE  /\ Over(A, B) \in View
           /\ DOMAIN Over(A, B) = DOMAIN A \cup DOMAIN B
           /\ \A e \in DOMAIN Over(A, B) : Over(A, B)[e] = IF e \in DOMAIN A THEN A[e] ELSE B[e]
<1>1. /\ DOMAIN Over(A, B) = DOMAIN A \cup DOMAIN B
      /\ \A e \in DOMAIN Over(A, B) : Over(A, B)[e] = IF e \in DOMAIN A THEN A[e] ELSE B[e]
      /\ Over(A, B) = [e \in DOMAIN A \cup DOMAIN B |-> IF e \in DOMAIN A THEN A[e] ELSE B[e]]
  BY DEF Over
<1>2. /\ DOMAIN A \subseteq Elevators /\ \A e \in DOMAIN A : A[e] \in 0 .. MaxWrites
      /\ DOMAIN B \subseteq Elevators /\ \A e \in DOMAIN B : B[e] \in 0 .. MaxWrites
  BY ViewType
<1>3. Over(A, B) \in [DOMAIN Over(A, B) -> 0 .. MaxWrites]
  BY <1>1, <1>2
<1>4. QED BY <1>1, <1>2, <1>3, ViewType

LEMMA OneView ==
    ASSUME NEW e \in Elevators, NEW n \in 0 .. MaxWrites
    PROVE  /\ One(e, n) \in View /\ DOMAIN One(e, n) = {e} /\ One(e, n)[e] = n
<1>1. DOMAIN One(e, n) = {e} /\ One(e, n)[e] = n /\ One(e, n) \in [{e} -> 0 .. MaxWrites]
  BY DEF One
<1>2. QED BY <1>1, ViewType

LEMMA UpToTransitive ==
    ASSUME NEW A \in View, NEW B \in View, NEW C \in View, UpTo(A, B), UpTo(B, C)
    PROVE  UpTo(A, C)
<1>1. \A e \in DOMAIN A : A[e] \in Int /\ B[e] \in Int /\ C[e] \in Int
  BY ViewType DEF UpTo
<1>2. QED BY <1>1 DEF UpTo

-----------------------------------------------------------------------------
(* The states of the fleet.                                                 *)

LEMMA PastStates ==
    ASSUME NEW P, Growing(P)
    PROVE  /\ Len(P) \in Nat
           /\ \A m \in 1 .. Len(P) : P[m] \in View
           /\ HashesIn(P) \in View
           /\ P # <<>> => Len(P) \in 1 .. Len(P) /\ HashesIn(P) = P[Len(P)]
           /\ P = <<>> => Len(P) = 0 /\ HashesIn(P) = Unseen
<1>1. Len(P) \in Nat /\ \A m \in 1 .. Len(P) : P[m] \in View
  BY ListElements DEF Growing
<1>2. P # <<>> => Len(P) \in 1 .. Len(P)
  BY EmptySeq DEF Growing
<1>3. P = <<>> => Len(P) = 0
  OBVIOUS
<1>4. QED BY <1>1, <1>2, <1>3, UnseenType DEF HashesIn, Last

(* Redis shows nothing older than any state known.                          *)
LEMMA KnownIsPast ==
    ASSUME NEW P, Growing(P), NEW view \in View, Known(P, view)
    PROVE  UpTo(view, HashesIn(P))
<1>1. CASE view = Unseen
  BY <1>1, UnseenType DEF UpTo
<1>2. ASSUME NEW m \in 1 .. Len(P), Fits(P, view, m) PROVE UpTo(view, HashesIn(P))
  <2>1. P # <<>> /\ m <= Len(P) /\ Len(P) \in 1 .. Len(P) /\ HashesIn(P) = P[Len(P)]
    BY <1>2, PastStates
  <2>2. UpTo(P[m], P[Len(P)])
    BY <2>1 DEF Growing
  <2>3. QED BY <1>2, <2>1, <2>2 DEF UpTo, Fits
<1>3. QED BY <1>1, <1>2 DEF Known

(* What is read for keys that were there before.                            *)
LEMMA ReadView ==
    ASSUME NEW P, Growing(P), NEW D, D \subseteq DOMAIN HashesIn(P),
           NEW view, view = [e \in D |-> HashesIn(P)[e]]
    PROVE  /\ view \in View /\ Known(P, view)
           /\ \A A \in View : Known(P, A) /\ DOMAIN A \subseteq D => UpTo(A, view)
<1>1. HashesIn(P) \in View
  BY PastStates
<1>2. DOMAIN view = D /\ \A e \in D : view[e] = HashesIn(P)[e]
  OBVIOUS
<1>3. view \in View
  <2>1. DOMAIN view \subseteq Elevators /\ \A e \in D : HashesIn(P)[e] \in 0 .. MaxWrites
    BY <1>1, <1>2, ViewType
  <2>2. view \in [DOMAIN view -> 0 .. MaxWrites]
    BY <1>2, <2>1
  <2>3. QED BY <2>1, <2>2, ViewType
<1>4. Known(P, view)
  <2>1. CASE P = <<>>
    <3>1. DOMAIN view = {}
      BY <1>2, <2>1, PastStates, UnseenType
    <3>2. QED BY <1>3, <3>1, UnseenType DEF Known
  <2>2. CASE P # <<>>
    BY <1>2, <2>2, PastStates DEF Known, Fits
  <2>3. QED BY <2>1, <2>2
<1>5. ASSUME NEW A \in View, Known(P, A), DOMAIN A \subseteq D PROVE UpTo(A, view)
  <2>1. UpTo(A, HashesIn(P))
    BY <1>5, KnownIsPast
  <2>2. QED BY <1>2, <1>5, <2>1 DEF UpTo
<1>6. QED BY <1>3, <1>4, <1>5

Grown(P, e) == Append(P, Over(One(e, Len(P) + 1), HashesIn(P)))

Longer(P, Q) == Len(Q) = Len(P) + 1 /\ \A m \in 1 .. Len(P) : Q[m] = P[m]

(* A write adds a state; all that was known is known.                       *)
LEMMA GrownPast ==
    ASSUME NEW P, Growing(P), Len(P) < MaxWrites, NEW e \in Elevators,
           NEW Q, Q = Grown(P, e)
    PROVE  /\ Growing(Q) /\ Longer(P, Q)
           /\ UpTo(HashesIn(P), HashesIn(Q))
<1> DEFINE k == Len(P) + 1
           H == HashesIn(P)
           N == Over(One(e, k), H)
<1>1. Len(P) \in Nat /\ k \in 0 .. MaxWrites /\ H \in View
  BY PastStates, BoundsAssumption
<1>2. /\ One(e, k) \in View /\ DOMAIN One(e, k) = {e} /\ One(e, k)[e] = k
  BY <1>1, OneView
<1>3. N \in View /\ DOMAIN N = {e} \cup DOMAIN H
  BY <1>1, <1>2, OverView
<1>4. \A f \in DOMAIN N : N[f] = IF f = e THEN k ELSE H[f]
  BY <1>1, <1>2, <1>3, OverView
<1> HIDE DEF N
<1>5. /\ Q \in Seq(View) /\ Len(Q) = k /\ Q[k] = N
      /\ \A m \in 1 .. Len(P) : Q[m] = P[m]
  <2>1. P \in Seq(View) /\ Q = Append(P, N)
    BY DEF Growing, Grown, N
  <2>2. QED BY <1>3, <2>1, AppendProperties
<1>6. \A f \in DOMAIN H : H[f] <= Len(P) /\ H[f] \in Int
  <2>1. CASE P = <<>>
    BY <2>1, PastStates, UnseenType
  <2>2. CASE P # <<>>
    <3>1. Len(P) \in 1 .. Len(P) /\ H = P[Len(P)]
      BY <2>2, PastStates
    <3>2. \A f \in DOMAIN H : H[f] <= Len(P)
      BY <3>1 DEF Growing
    <3>3. \A f \in DOMAIN H : H[f] \in Int
      BY <1>1, ViewType
    <3>4. QED BY <3>2, <3>3
  <2>3. QED BY <2>1, <2>2
<1>7. UpTo(H, N)
  BY <1>1, <1>3, <1>4, <1>6 DEF UpTo
<1>8. \A m \in 1 .. k : m \in 1 .. Len(P) \/ m = k
  BY <1>1
<1>9. ASSUME NEW m \in 1 .. k, NEW f \in DOMAIN Q[m] PROVE Q[m][f] <= k
  <2>1. CASE m = k
    <3>1. N[f] = k \/ (f \in DOMAIN H /\ N[f] = H[f])
      BY <1>3, <1>4, <1>5, <1>9, <2>1
    <3>2. QED BY <1>1, <1>5, <1>6, <2>1, <3>1
  <2>2. CASE m \in 1 .. Len(P)
    <3>1. P[m][f] <= Len(P) /\ P[m][f] \in Int
      BY <1>5, <1>9, <2>2, PastStates, ViewType DEF Growing
    <3>2. QED BY <1>1, <1>5, <2>2, <3>1
  <2>3. QED BY <1>8, <2>1, <2>2
<1>10. ASSUME NEW m \in 1 .. Len(P) PROVE UpTo(P[m], N) /\ P[m] \in View
  <2>1. P # <<>> /\ Len(P) \in 1 .. Len(P) /\ m <= Len(P) /\ H = P[Len(P)] /\ P[m] \in View
    BY PastStates
  <2>2. UpTo(P[m], H)
    BY <2>1 DEF Growing
  <2>3. QED BY <1>1, <1>3, <1>7, <2>1, <2>2, UpToTransitive
<1>11. UpTo(N, N)
  <2>1. \A f \in DOMAIN N : N[f] \in Int
    BY <1>3, ViewType
  <2>2. QED BY <2>1 DEF UpTo
<1>12. ASSUME NEW m \in 1 .. k, NEW n \in 1 .. k, m <= n PROVE UpTo(Q[m], Q[n])
  <2>1. CASE n = k
    BY <1>5, <1>8, <1>10, <1>11, <2>1
  <2>2. CASE n \in 1 .. Len(P)
    <3>1. m \in 1 .. Len(P)
      BY <1>1, <1>12, <2>2
    <3>2. QED BY <1>5, <1>12, <2>2, <3>1 DEF Growing
  <2>3. QED BY <1>8, <2>1, <2>2
<1>13. Growing(Q)
  BY <1>5, <1>9, <1>12 DEF Growing
<1>14. HashesIn(Q) = N
  <2>1. Len(Q) # 0
    BY <1>1, <1>5
  <2>2. Q # <<>>
    BY <2>1
  <2>3. QED BY <1>5, <1>13, <2>2, PastStates
<1>15. QED BY <1>5, <1>7, <1>13, <1>14 DEF Longer

LEMMA KnownGrows ==
    ASSUME NEW P, NEW Q, NEW view, Known(P, view), Len(P) \in Nat, Longer(P, Q)
    PROVE  Known(Q, view)
BY DEF Known, Fits, Longer

-----------------------------------------------------------------------------
(* The replies pending.                                                     *)

(* One reply is taken out of the line.                                      *)
LEMMA RestOk ==
    ASSUME NEW P, NEW L \in Seq(Reply), LineOk(P, L), NEW i \in 1 .. Len(L),
           NEW R, R = RemoveAt(L, i)
    PROVE  /\ R \in Seq(Reply) /\ Len(R) = Len(L) - 1 /\ Len(L) \in Nat
           /\ LineOk(P, R)
           /\ \A j \in 1 .. Len(R) : \E a \in 1 .. Len(L) : a # i /\ R[j] = L[a]
<1>1. R \in Seq(Reply) /\ Shortened(R, L, i) /\ Len(L) \in Nat
  BY RemoveAtType, ListElements
<1>2. Len(R) = Len(L) - 1
  BY <1>1 DEF Shortened
<1>3. ASSUME NEW j \in 1 .. Len(R)
      PROVE  \E a \in 1 .. Len(L) : R[j] = L[a] /\ a = IF j < i THEN j ELSE j + 1
  <2>1. j \in 1 .. Len(L) - 1 /\ j \in 1 .. Len(L) /\ j + 1 \in 1 .. Len(L)
    BY <1>1, <1>2
  <2>2. R[j] = IF j < i THEN L[j] ELSE L[j + 1]
    BY <1>1, <2>1 DEF Shortened
  <2>3. QED BY <2>1, <2>2
<1>4. ASSUME NEW j \in 1 .. Len(R) PROVE \E a \in 1 .. Len(L) : a # i /\ R[j] = L[a]
  <2>1. PICK a \in 1 .. Len(L) : R[j] = L[a] /\ a = IF j < i THEN j ELSE j + 1
    BY <1>3
  <2>2. a # i
    BY <2>1
  <2>3. QED BY <2>1, <2>2
<1>5. ASSUME NEW j \in 1 .. Len(R), NEW k \in 1 .. Len(R)
      PROVE  /\ R[j].kind = "hashes" /\ (j < k \/ R[k].kind = "keys") => Precedes(R[j].view, R[k])
             /\ R[j].kind = "keys" /\ R[k].kind = "keys" /\ j < k =>
                  DOMAIN R[j].view \subseteq DOMAIN R[k].view
  <2>1. PICK a \in 1 .. Len(L) : R[j] = L[a] /\ a = IF j < i THEN j ELSE j + 1
    BY <1>3
  <2>2. PICK b \in 1 .. Len(L) : R[k] = L[b] /\ b = IF k < i THEN k ELSE k + 1
    BY <1>3
  <2>3. j < k => a < b
    BY <2>1, <2>2
  <2>4. QED BY <2>1, <2>2, <2>3 DEF LineOk, InTurn
<1>6. \A j \in 1 .. Len(R) : PendingOk(P, R[j])
  BY <1>4 DEF LineOk
<1>7. LineOk(P, R)
  BY <1>5, <1>6 DEF LineOk, InTurn
<1>8. QED BY <1>1, <1>2, <1>4, <1>7

(* One command joins the line.                                              *)
LEMMA Added ==
    ASSUME NEW L \in Seq(Reply), NEW cmd \in Reply, NEW R, R = Append(L, cmd)
    PROVE  /\ R \in Seq(Reply) /\ Len(R) = Len(L) + 1 /\ Len(L) \in Nat
           /\ \A j \in 1 .. Len(L) : R[j] = L[j]
           /\ R[Len(L) + 1] = cmd
           /\ \A j \in 1 .. Len(R) : R[j] = cmd \/ \E a \in 1 .. Len(L) : R[j] = L[a]
<1>1. /\ R \in Seq(Reply) /\ Len(R) = Len(L) + 1 /\ Len(L) \in Nat
      /\ \A j \in 1 .. Len(L) : R[j] = L[j]
      /\ R[Len(L) + 1] = cmd
  BY AppendProperties, ListElements
<1>2. \A j \in 1 .. Len(R) : j = Len(L) + 1 \/ j \in 1 .. Len(L)
  BY <1>1
<1>3. QED BY <1>1, <1>2

LEMMA AddOk ==
    ASSUME NEW P, NEW L \in Seq(Reply), NEW cmd \in Reply, NEW R, R = Append(L, cmd),
           LineOk(P, L), PendingOk(P, cmd), MayJoin(cmd, L)
    PROVE  LineOk(P, R)
<1>1. /\ R \in Seq(Reply) /\ Len(R) = Len(L) + 1 /\ Len(L) \in Nat
      /\ \A j \in 1 .. Len(L) : R[j] = L[j]
      /\ R[Len(L) + 1] = cmd
      /\ \A j \in 1 .. Len(R) : R[j] = cmd \/ \E a \in 1 .. Len(L) : R[j] = L[a]
  BY Added
<1>2. \A j \in 1 .. Len(R) : j = Len(L) + 1 \/ j \in 1 .. Len(L)
  BY <1>1
<1>3. ASSUME NEW j \in 1 .. Len(R), NEW k \in 1 .. Len(R)
      PROVE  /\ R[j].kind = "hashes" /\ (j < k \/ R[k].kind = "keys") => Precedes(R[j].view, R[k])
             /\ R[j].kind = "keys" /\ R[k].kind = "keys" /\ j < k =>
                  DOMAIN R[j].view \subseteq DOMAIN R[k].view
  <2>1. CASE j \in 1 .. Len(L) /\ k \in 1 .. Len(L)
    <3>1. R[j] = L[j] /\ R[k] = L[k]
      BY <1>1, <2>1
    <3>2. QED BY <2>1, <3>1 DEF LineOk, InTurn
  <2>2. CASE j \in 1 .. Len(L) /\ k = Len(L) + 1
    <3>1. R[j] = L[j] /\ R[k] = cmd
      BY <1>1, <2>2
    <3>2. QED BY <2>2, <3>1 DEF MayJoin
  <2>3. CASE j = Len(L) + 1 /\ k \in 1 .. Len(L)
    <3>1. R[j] = cmd /\ R[k] = L[k] /\ ~(j < k)
      BY <1>1, <2>3
    <3>2. QED BY <2>3, <3>1 DEF MayJoin
  <2>4. CASE j = Len(L) + 1 /\ k = Len(L) + 1
    <3>1. R[j] = cmd /\ R[k] = cmd /\ ~(j < k)
      BY <1>1, <2>4
    <3>2. QED BY <3>1
  <2>5. QED BY <1>2, <2>1, <2>2, <2>3, <2>4
<1>4. \A j \in 1 .. Len(R) : PendingOk(P, R[j])
  BY <1>1 DEF LineOk
<1>5. QED BY <1>3, <1>4 DEF LineOk, InTurn

(* A command that reads no list is of no concern to the lists.              *)
LEMMA AddOther ==
    ASSUME NEW P, NEW L \in Seq(Reply), LineOk(P, L), NEW cmd \in Reply,
           cmd.kind \notin {"keys", "hashes"}, NEW R, R = Append(L, cmd)
    PROVE  /\ R \in Seq(Reply) /\ Len(R) = Len(L) + 1 /\ Len(L) \in Nat
           /\ LineOk(P, R)
           /\ \A view : SeenOk(P, view, L) => SeenOk(P, view, R)
<1>1. PendingOk(P, cmd) /\ \A view : Precedes(view, cmd)
  BY DEF PendingOk, Precedes
<1>2. MayJoin(cmd, L)
  BY <1>1 DEF MayJoin
<1>3. LineOk(P, R)
  BY <1>1, <1>2, AddOk
<1>4. /\ R \in Seq(Reply) /\ Len(R) = Len(L) + 1 /\ Len(L) \in Nat
      /\ \A j \in 1 .. Len(R) : R[j] = cmd \/ \E a \in 1 .. Len(L) : R[j] = L[a]
  BY Added
<1>5. QED BY <1>1, <1>3, <1>4 DEF SeenOk

-----------------------------------------------------------------------------
(* The steps.                                                               *)

LEMMA StateTypes ==
    ASSUME IInv
    PROVE  /\ past \in Seq(View) /\ Len(past) \in Nat /\ Len(past) <= MaxWrites
           /\ line \in Seq(Reply) /\ Len(line) \in Nat /\ Len(line) <= MaxPending
           /\ DOMAIN line = 1 .. Len(line)
           /\ \A i \in 1 .. Len(line) :
                 /\ line[i] \in Reply /\ line[i].view \in View
                 /\ line[i].to \in Clients \cup Pollers \cup {Everyone, Nobody}
           /\ Hashes = HashesIn(past) /\ Hashes \in View
           /\ status \in [Clients \cup Pollers -> View]
           /\ table \in [Pages -> View]
<1>1. line \in Seq(Reply) /\ DOMAIN line = 1 .. Len(line)
  BY DEF IInv, TypeOK
<1>2. \A i \in 1 .. Len(line) : line[i] \in Reply
  BY <1>1, ListElements
<1>3. Hashes = HashesIn(past) /\ Hashes \in View
  BY PastStates DEF Hashes, HashesIn, IInv
<1>4. Len(line) \in Nat /\ Len(past) \in Nat
  BY <1>1, ListElements, PastStates DEF IInv
<1>5. QED BY <1>1, <1>2, <1>3, <1>4 DEF IInv, TypeOK, Reply

LEMMA InitInv == Init => IInv
<1> SUFFICES ASSUME Init PROVE IInv
  OBVIOUS
<1>1. past = <<>> /\ line = <<>> /\ Len(past) = 0 /\ Len(line) = 0
  BY DEF Init
<1>2. past \in Seq(View) /\ line \in Seq(Reply)
  BY <1>1, EmptySeq
<1>3. TypeOK
  BY <1>1, <1>2, UnseenType, BoundsAssumption DEF Init, TypeOK
<1>4. Growing(past) /\ LineOk(past, line)
  BY <1>1, <1>2 DEF Growing, LineOk, InTurn
<1>5. \A v \in Clients \cup Pollers : SeenOk(past, status[v], line)
  BY <1>1 DEF Init, SeenOk, Known
<1>6. QED BY <1>3, <1>4, <1>5 DEF IInv

(* A command joins the line that reads no list.                             *)
LEMMA IssueOther ==
    ASSUME IInv, NEW cmd \in Reply, cmd.kind \notin {"keys", "hashes"}, Issue(cmd)
    PROVE  /\ line' \in Seq(Reply) /\ Len(line') <= MaxPending
           /\ LineOk(past, line')
           /\ \A view : SeenOk(past, view, line) => SeenOk(past, view, line')
<1> USE StateTypes DEF IInv
<1>1. Len(line) < MaxPending /\ line' = Append(line, cmd)
  BY DEF Issue
<1>2. /\ line' \in Seq(Reply) /\ Len(line') = Len(line) + 1
      /\ LineOk(past, line')
      /\ \A view : SeenOk(past, view, line) => SeenOk(past, view, line')
  BY <1>1, AddOther
<1>3. Len(line') <= MaxPending
  BY <1>1, <1>2, BoundsAssumption
<1>4. QED BY <1>2, <1>3

LEMMA WriteStep ==
    ASSUME IInv, NEW e \in Elevators, Write(e)
    PROVE  IInv'
<1> USE StateTypes DEF IInv
<1>1. /\ Len(past) < MaxWrites /\ Len(past) + 1 \in 0 .. MaxWrites
      /\ past' = Grown(past, e)
      /\ UNCHANGED <<connected, table, status, faults>>
  BY BoundsAssumption DEF Write, Grown
<1>2. /\ Growing(past') /\ Longer(past, past')
      /\ UpTo(HashesIn(past), HashesIn(past'))
  BY <1>1, GrownPast
<1>3. /\ line' \in Seq(Reply) /\ Len(line') <= MaxPending
      /\ LineOk(past, line')
      /\ \A view : SeenOk(past, view, line) => SeenOk(past, view, line')
  <2>1. PICK kind \in {"movement", "arrived", "handler", "update"} :
          Issue(Command(kind, Everyone, One(e, Len(past) + 1)))
    BY DEF Write
  <2>2. /\ Command(kind, Everyone, One(e, Len(past) + 1)) \in Reply
        /\ Command(kind, Everyone, One(e, Len(past) + 1)).kind = kind
    BY <1>1, OneView DEF Command, Reply
  <2>3. QED BY <2>1, <2>2, IssueOther
<1>4. \A view : Known(past, view) => Known(past', view)
  BY <1>2, KnownGrows
<1>5. LineOk(past', line')
  <2>1. ASSUME NEW i \in 1 .. Len(line') PROVE PendingOk(past', line'[i])
    BY <1>2, <1>3, <1>4 DEF LineOk, PendingOk, UpTo
  <2>2. QED BY <1>3, <2>1 DEF LineOk
<1>6. \A v \in Clients \cup Pollers : SeenOk(past', status[v], line')
  BY <1>3, <1>4 DEF SeenOk
<1>7. past' \in Seq(View) /\ Len(past') <= MaxWrites
  BY <1>1, <1>2 DEF Growing, Longer
<1>8. TypeOK'
  BY <1>1, <1>3, <1>7 DEF TypeOK
<1>9. QED BY <1>1, <1>2, <1>5, <1>6, <1>8

(* A list is asked for.                                                     *)
LEMMA AskKeysStep ==
    ASSUME IInv, NEW to \in Clients \cup Pollers \cup {Everyone}, AskKeys(to),
           connected' \subseteq Clients, UNCHANGED <<past, table, status, faults>>
    PROVE  IInv'
<1> USE StateTypes DEF IInv
<1> DEFINE cmd == Command("keys", to, [e \in DOMAIN Hashes |-> 0])
<1>1. Len(line) < MaxPending /\ line' = Append(line, cmd)
  BY DEF AskKeys, Issue
<1>2. cmd \in Reply /\ cmd.kind = "keys" /\ DOMAIN cmd.view = DOMAIN Hashes
  <2>1. PICK keys : keys = [e \in DOMAIN Hashes |-> 0]
    OBVIOUS
  <2>2. DOMAIN keys = DOMAIN Hashes /\ \A e \in DOMAIN keys : keys[e] = 0
    BY <2>1
  <2>3. keys \in [DOMAIN keys -> 0 .. MaxWrites]
    BY <2>1, <2>2, BoundsAssumption
  <2>4. keys \in View
    BY <2>2, <2>3, ViewType
  <2>5. QED BY <2>1, <2>2, <2>4 DEF Command, Reply
<1> HIDE DEF cmd
<1>3. PendingOk(past, cmd)
  BY <1>2 DEF PendingOk
<1>4. \A view \in View : Known(past, view) => Precedes(view, cmd)
  BY <1>2, KnownIsPast DEF Precedes, UpTo
<1>5. MayJoin(cmd, line)
  BY <1>2, <1>4 DEF LineOk, PendingOk, MayJoin
<1>6. /\ line' \in Seq(Reply) /\ Len(line') = Len(line) + 1
      /\ \A j \in 1 .. Len(line') : line'[j] = cmd \/ \E a \in 1 .. Len(line) : line'[j] = line[a]
  BY <1>1, <1>2, Added
<1>7. LineOk(past, line')
  BY <1>1, <1>2, <1>3, <1>5, AddOk
<1>8. ASSUME NEW v \in Clients \cup Pollers PROVE SeenOk(past, status[v], line')
  BY <1>4, <1>6 DEF SeenOk
<1>9. Len(line') <= MaxPending
  BY <1>1, <1>6, BoundsAssumption
<1>10. TypeOK'
  BY <1>6, <1>9 DEF TypeOK
<1>11. QED BY <1>7, <1>8, <1>10

LEMMA DisconnectStep ==
    ASSUME IInv, NEW c \in Clients, Disconnect(c)
    PROVE  IInv'
<1> USE StateTypes DEF IInv
<1>1. /\ line' = [i \in 1 .. Len(line) |-> IF line[i].to = c THEN [line[i] EXCEPT !.to = Nobody]
                                           ELSE line[i]]
      /\ connected' \subseteq Clients /\ UNCHANGED <<past, table, status, faults>>
  BY DEF Disconnect, TypeOK
<1>2. ASSUME NEW i \in 1 .. Len(line)
      PROVE  line'[i] \in Reply /\ line'[i].kind = line[i].kind /\ line'[i].view = line[i].view
  <2>1. [line[i] EXCEPT !.to = Nobody] \in Reply
    BY DEF Reply
  <2>2. QED BY <1>1, <2>1 DEF Reply
<1>3. line' \in Seq(Reply) /\ Len(line') = Len(line)
  BY <1>1, <1>2, IsASeq
<1>4. LineOk(past, line')
  BY <1>2, <1>3 DEF LineOk, InTurn, PendingOk, Precedes
<1>5. \A v \in Clients \cup Pollers : SeenOk(past, status[v], line')
  BY <1>2, <1>3 DEF SeenOk, Precedes
<1>6. TypeOK'
  BY <1>1, <1>3 DEF TypeOK
<1>7. QED BY <1>1, <1>4, <1>5, <1>6

LEMMA SubscribeStep ==
    ASSUME IInv, NEW c \in Clients, NEW e \in Elevators, Subscribe(c, e)
    PROVE  IInv'
<1> USE StateTypes DEF IInv
<1> DEFINE n == IF e \in DOMAIN Hashes THEN Hashes[e] ELSE 0
<1>1. n \in 0 .. MaxWrites
  BY ViewType, BoundsAssumption
<1> HIDE DEF n
<1>2. Issue(Command("hash", c, One(e, n))) /\ UNCHANGED <<past, connected, table, status, faults>>
  BY DEF Subscribe, n
<1>3. Command("hash", c, One(e, n)) \in Reply /\ Command("hash", c, One(e, n)).kind = "hash"
  BY <1>1, OneView DEF Command, Reply
<1>4. /\ line' \in Seq(Reply) /\ Len(line') <= MaxPending
      /\ LineOk(past, line')
      /\ \A view : SeenOk(past, view, line) => SeenOk(past, view, line')
  BY <1>2, <1>3, IssueOther
<1>5. TypeOK'
  BY <1>2, <1>4 DEF TypeOK
<1>6. QED BY <1>2, <1>4, <1>5

-----------------------------------------------------------------------------
(* The replies.                                                             *)

(* A reply is taken out of the line, and nothing else joins it.             *)
LEMMA TakeLine ==
    ASSUME IInv, NEW i \in 1 .. Len(line), NEW R, R = Rest(i)
    PROVE  /\ R \in Seq(Reply) /\ Len(R) < MaxPending /\ Len(R) <= MaxPending
           /\ LineOk(past, R)
           /\ \A view : SeenOk(past, view, line) => SeenOk(past, view, R)
           /\ \A j \in 1 .. Len(R) : \E a \in 1 .. Len(line) : a # i /\ R[j] = line[a]
<1>1. R = RemoveAt(line, i) /\ line \in Seq(Reply) /\ LineOk(past, line)
  BY StateTypes DEF IInv, Rest
<1>2. /\ R \in Seq(Reply) /\ Len(R) = Len(line) - 1
      /\ LineOk(past, R)
      /\ \A j \in 1 .. Len(R) : \E a \in 1 .. Len(line) : a # i /\ R[j] = line[a]
  BY <1>1, RestOk
<1>3. \A view : SeenOk(past, view, line) => SeenOk(past, view, R)
  BY <1>2 DEF SeenOk
<1>4. Len(R) < MaxPending /\ Len(R) <= MaxPending
  BY <1>2, StateTypes, BoundsAssumption
<1>5. QED BY <1>2, <1>3, <1>4

(* Lists are read in the order in which they were asked for: the keys that  *)
(* have come are older than those still to come, and the hashes than all.   *)
LEMMA FirstComeFirstServed ==
    ASSUME IInv, NEW i \in 1 .. Len(line), Answerable(i),
           NEW a \in 1 .. Len(line), a # i
    PROVE  /\ line[i].kind = "keys" /\ line[a].kind = "keys" => i < a
           /\ line[i].kind = "hashes" => i < a
<1>1. ASSUME a < i PROVE Depth(line[a].kind) > Depth(line[i].kind)
  <2>1. a \in 1 .. i - 1
    BY <1>1
  <2>2. QED BY <2>1 DEF Answerable
<1>2. line[i].kind = "keys" /\ line[a].kind = "keys" => ~(a < i)
  BY <1>1 DEF Depth
<1>3. line[i].kind = "hashes" => ~(a < i)
  BY <1>1 DEF Depth
<1>4. QED BY <1>2, <1>3

LEMMA ReadHashesStep ==
    ASSUME IInv, NEW i \in 1 .. Len(line), Answerable(i), ReadHashes(i),
           UNCHANGED <<past, connected, faults>>
    PROVE  IInv'
<1> DEFINE D == DOMAIN line[i].view
           R == Rest(i)
<1>1. line[i].kind = "keys" /\ UNCHANGED <<past, connected, table, status, faults>>
  BY DEF ReadHashes
<1>2. /\ R \in Seq(Reply) /\ Len(R) < MaxPending /\ Len(R) <= MaxPending
      /\ LineOk(past, R)
      /\ \A view : SeenOk(past, view, line) => SeenOk(past, view, R)
      /\ \A j \in 1 .. Len(R) : \E a \in 1 .. Len(line) : a # i /\ R[j] = line[a]
  BY TakeLine
<1> HIDE DEF R
<1> USE StateTypes DEF IInv
<1>3. CASE line' = R
  <2>1. TypeOK'
    BY <1>1, <1>2, <1>3 DEF TypeOK
  <2>2. QED BY <1>1, <1>2, <1>3, <2>1
<1>4. ASSUME NEW read, read = [e \in D |-> Hashes[e]],
             line' = Append(R, Command("hashes", line[i].to, read))
      PROVE  IInv'
  <2>1. D \subseteq DOMAIN HashesIn(past)
    BY <1>1 DEF LineOk, PendingOk
  <2>2. /\ DOMAIN read = D /\ read \in View /\ Known(past, read)
        /\ \A A \in View : Known(past, A) /\ DOMAIN A \subseteq D => UpTo(A, read)
    BY <1>4, <2>1, ReadView
  <2> HIDE DEF D
  <2> DEFINE cmd == Command("hashes", line[i].to, read)
  <2>3. cmd \in Reply /\ cmd.kind = "hashes" /\ cmd.view = read /\ line' = Append(R, cmd)
    BY <1>4, <2>2 DEF Command, Reply
  <2> HIDE DEF cmd
  <2>4. PendingOk(past, cmd)
    BY <2>2, <2>3 DEF PendingOk
  <2>5. ASSUME NEW j \in 1 .. Len(R)
        PROVE  /\ R[j].kind = "hashes" => Precedes(R[j].view, cmd)
               /\ R[j].kind = "keys" => Precedes(cmd.view, R[j])
    <3>1. PICK a \in 1 .. Len(line) : a # i /\ R[j] = line[a]
      BY <1>2
    <3>2. ASSUME line[a].kind = "hashes" PROVE Precedes(line[a].view, cmd)
      <4>1. DOMAIN line[a].view \subseteq D
        BY <1>1, <3>2 DEF LineOk, InTurn, Precedes, D
      <4>2. Known(past, line[a].view) /\ line[a].view \in View
        BY <3>2 DEF LineOk, PendingOk
      <4>3. QED BY <2>2, <2>3, <4>1, <4>2 DEF Precedes
    <3>3. ASSUME line[a].kind = "keys" PROVE Precedes(cmd.view, line[a])
      <4>1. i < a
        BY <1>1, <3>1, <3>3, FirstComeFirstServed
      <4>2. D \subseteq DOMAIN line[a].view
        BY <1>1, <3>3, <4>1 DEF LineOk, InTurn, D
      <4>3. QED BY <2>2, <2>3, <3>3, <4>2 DEF Precedes
    <3>4. QED BY <3>1, <3>2, <3>3
  <2>6. MayJoin(cmd, R)
    BY <2>3, <2>5 DEF MayJoin
  <2>7. /\ line' \in Seq(Reply) /\ Len(line') = Len(R) + 1 /\ Len(R) \in Nat
        /\ \A j \in 1 .. Len(line') : line'[j] = cmd \/ \E a \in 1 .. Len(R) : line'[j] = R[a]
    BY <1>2, <2>3, Added
  <2>8. LineOk(past, line')
    BY <1>2, <2>3, <2>4, <2>6, AddOk
  <2>9. ASSUME NEW v \in Clients \cup Pollers PROVE SeenOk(past, status[v], line')
    <3>1. Known(past, status[v]) /\ status[v] \in View /\ SeenOk(past, status[v], R)
      BY <1>2 DEF SeenOk
    <3>2. DOMAIN status[v] \subseteq D
      BY <1>1 DEF SeenOk, Precedes, D
    <3>3. Precedes(status[v], cmd)
      BY <2>2, <2>3, <3>1, <3>2 DEF Precedes
    <3>4. QED BY <2>7, <3>1, <3>3 DEF SeenOk
  <2>10. Len(line') <= MaxPending
    BY <1>2, <2>7, BoundsAssumption
  <2>11. TypeOK'
    BY <1>1, <2>7, <2>10 DEF TypeOK
  <2>12. QED BY <1>1, <2>8, <2>9, <2>11
<1>5. QED BY <1>3, <1>4 DEF ReadHashes, R

LEMMA ShownType ==
    ASSUME IInv, NEW S, NEW view \in View
    PROVE  Shown(S, view) \in [Pages -> View]
BY StateTypes, OverView DEF Shown

(* What is neither keys nor a list for those who watch.                     *)
LEMMA TakeStep ==
    ASSUME IInv, NEW i \in 1 .. Len(line), line' = Rest(i),
           table' \in [Pages -> View], faults' \in Nat, UNCHANGED <<past, connected, status>>
    PROVE  IInv'
<1>1. /\ line' \in Seq(Reply) /\ Len(line') <= MaxPending
      /\ LineOk(past, line')
      /\ \A view : SeenOk(past, view, line) => SeenOk(past, view, line')
  BY TakeLine
<1>2. TypeOK'
  BY <1>1 DEF TypeOK, IInv
<1>3. QED BY <1>1, <1>2 DEF IInv

LEMMA RecordStep ==
    ASSUME IInv, NEW i \in 1 .. Len(line), Record(i), UNCHANGED <<past, connected, faults>>
    PROVE  IInv'
<1> DEFINE cmd == Command("recorded", Everyone, line[i].view)
           R == Rest(i)
<1>1. line' = Append(R, cmd) /\ UNCHANGED <<past, connected, table, status, faults>>
  BY DEF Record
<1>2. cmd \in Reply /\ cmd.kind \notin {"keys", "hashes"}
  BY StateTypes DEF Command, Reply
<1>3. /\ R \in Seq(Reply) /\ Len(R) < MaxPending
      /\ LineOk(past, R)
      /\ \A view : SeenOk(past, view, line) => SeenOk(past, view, R)
  BY TakeLine
<1> HIDE DEF cmd, R
<1> USE StateTypes DEF IInv
<1>4. /\ line' \in Seq(Reply) /\ Len(line') = Len(R) + 1 /\ Len(R) \in Nat
      /\ LineOk(past, line')
      /\ \A view : SeenOk(past, view, R) => SeenOk(past, view, line')
  BY <1>1, <1>2, <1>3, AddOther
<1>5. Len(line') <= MaxPending
  BY <1>3, <1>4, BoundsAssumption
<1>6. TypeOK'
  BY <1>1, <1>4, <1>5 DEF TypeOK
<1>7. QED BY <1>1, <1>3, <1>4, <1>6

(* A list reaches those who watch.                                          *)
Lists(i) ==
    /\ line[i].kind = "hashes"
    /\ line' = Rest(i)
    /\ \E S \in SUBSET (Clients \cup Pollers) :
         S \subseteq connected \cup Pollers /\ status' = Listed(S, line[i].view)
    /\ UNCHANGED <<past, connected, table, faults>>

LEMMA ListsStep ==
    ASSUME IInv, NEW i \in 1 .. Len(line), Answerable(i), Lists(i)
    PROVE  IInv'
<1> DEFINE view == line[i].view
           R == Rest(i)
<1>1. /\ line[i].kind = "hashes" /\ UNCHANGED <<past, connected, table, faults>>
      /\ line' = R
  BY DEF Lists
<1>2. /\ R \in Seq(Reply) /\ Len(R) <= MaxPending
      /\ LineOk(past, R)
      /\ \A A : SeenOk(past, A, line) => SeenOk(past, A, R)
      /\ \A j \in 1 .. Len(R) : \E a \in 1 .. Len(line) : a # i /\ R[j] = line[a]
  BY TakeLine
<1> HIDE DEF R
<1> USE StateTypes DEF IInv
<1>3. SeenOk(past, view, R)
  <2>1. Known(past, view)
    BY <1>1 DEF LineOk, PendingOk
  <2>2. ASSUME NEW j \in 1 .. Len(R) PROVE Precedes(view, R[j])
    <3>1. PICK a \in 1 .. Len(line) : a # i /\ R[j] = line[a]
      BY <1>2
    <3>2. i < a
      BY <1>1, <3>1, FirstComeFirstServed
    <3>3. QED BY <1>1, <3>1, <3>2 DEF LineOk, InTurn
  <2>3. QED BY <2>1, <2>2 DEF SeenOk
<1> HIDE DEF view
<1>4. PICK S \in SUBSET (Clients \cup Pollers) : status' = Listed(S, view)
  BY DEF Lists, view
<1>5. /\ DOMAIN status' = Clients \cup Pollers
      /\ \A v \in Clients \cup Pollers : status'[v] = IF v \in S THEN view ELSE status[v]
  BY <1>4 DEF Listed
<1>6. status' \in [Clients \cup Pollers -> View]
  <2>1. view \in View
    BY DEF view
  <2>2. QED BY <1>4, <2>1 DEF Listed
<1>7. \A v \in Clients \cup Pollers : SeenOk(past, status'[v], line')
  BY <1>1, <1>2, <1>3, <1>5
<1>8. TypeOK'
  BY <1>1, <1>2, <1>6 DEF TypeOK
<1>9. QED BY <1>1, <1>2, <1>7, <1>8

(* What a reply does: it reads, shows a page something, or is a list.       *)
LEMMA HandleCases ==
    ASSUME IInv, NEW i, Handle(i)
    PROVE  /\ i \in 1 .. Len(line) /\ Answerable(i) /\ UNCHANGED <<past, connected, faults>>
           /\ \/ ReadHashes(i)
              \/ Record(i)
              \/ line' = Rest(i) /\ table' \in [Pages -> View] /\ UNCHANGED status
              \/ Lists(i)
<1> USE StateTypes DEF IInv
<1>1. i \in 1 .. Len(line) /\ Answerable(i) /\ UNCHANGED <<past, connected, faults>>
  BY DEF Handle
<1>2. ASSUME SendStates(i) \/ SendHash(i) \/ Announce(i)
      PROVE  line' = Rest(i) /\ table' \in [Pages -> View] /\ UNCHANGED status
  <2>1. line' = Rest(i) /\ UNCHANGED status
    BY <1>2 DEF SendStates, SendHash, Announce
  <2>2. table' = table \/ \E S : table' = Shown(S, line[i].view)
    BY <1>2, Zenon DEF SendStates, SendHash, Announce
  <2>3. QED BY <1>1, <2>1, <2>2, ShownType
<1>3. ASSUME SendStatus(i) PROVE Lists(i)
  <2>1. connected \in SUBSET (Clients \cup Pollers) /\ connected \subseteq connected \cup Pollers
    BY DEF TypeOK
  <2>2. QED BY <1>1, <1>3, <2>1 DEF SendStatus, Lists
<1>4. ASSUME Answer(i) PROVE Lists(i)
  <2>1. /\ {line[i].to} \in SUBSET (Clients \cup Pollers)
        /\ {line[i].to} \subseteq connected \cup Pollers
    BY <1>4 DEF Answer
  <2>2. QED BY <1>1, <1>4, <2>1 DEF Answer, Lists
<1>5. QED BY <1>1, <1>2, <1>3, <1>4 DEF Handle

LEMMA HandleStep ==
    ASSUME IInv, NEW i, Handle(i)
    PROVE  IInv'
<1>1. i \in 1 .. Len(line) /\ Answerable(i) /\ UNCHANGED <<past, connected, faults>>
  BY HandleCases
<1>2. CASE ReadHashes(i)
  BY <1>1, <1>2, ReadHashesStep
<1>3. CASE Record(i)
  BY <1>1, <1>3, RecordStep
<1>4. CASE line' = Rest(i) /\ table' \in [Pages -> View] /\ UNCHANGED status
  <2>1. faults' \in Nat
    BY <1>1 DEF IInv, TypeOK
  <2>2. QED BY <1>1, <1>4, <2>1, TakeStep
<1>5. CASE Lists(i)
  BY <1>1, <1>5, ListsStep
<1>6. QED BY <1>2, <1>3, <1>4, <1>5, HandleCases

LEMMA CommandFaultStep ==
    ASSUME IInv, NEW i, CommandFault(i)
    PROVE  IInv'
<1>1. i \in 1 .. Len(line) /\ line' = Rest(i) /\ UNCHANGED <<past, connected, table, status>>
  BY StateTypes DEF CommandFault
<1>2. faults' \in Nat /\ table' \in [Pages -> View]
  BY <1>1 DEF CommandFault, Fault, IInv, TypeOK
<1>3. QED BY <1>1, <1>2, TakeStep

LEMMA CrashStep ==
    ASSUME IInv, Crash
    PROVE  IInv'
<1> USE DEF IInv
<1>1. line' = <<>> /\ connected' = {} /\ faults' \in Nat /\ UNCHANGED <<past, table, status>>
  BY DEF Crash, Fault, TypeOK
<1>2. line' \in Seq(Reply) /\ Len(line') = 0
  BY <1>1
<1>3. TypeOK'
  BY <1>1, <1>2, BoundsAssumption DEF TypeOK
<1>4. LineOk(past, line') /\ \A view : SeenOk(past, view, line) => SeenOk(past, view, line')
  BY <1>2 DEF LineOk, InTurn, SeenOk
<1>5. QED BY <1>1, <1>3, <1>4

LEMMA NextInv ==
    ASSUME IInv, [Next]_vars
    PROVE  IInv'
<1>1. CASE UNCHANGED vars
  BY <1>1 DEF vars, IInv, TypeOK
<1>2. ASSUME NEW e \in Elevators, Write(e) PROVE IInv'
  BY <1>2, WriteStep
<1>3. ASSUME NEW c \in Clients, Connect(c) PROVE IInv'
  <2>1. /\ AskKeys(c) /\ UNCHANGED <<past, table, status, faults>>
        /\ connected' \subseteq Clients
    BY <1>3 DEF Connect, Register, IInv, TypeOK
  <2>2. QED BY <2>1, AskKeysStep
<1>4. ASSUME NEW c \in Clients, Disconnect(c) PROVE IInv'
  BY <1>4, DisconnectStep
<1>5. ASSUME NEW c \in Clients, NEW e \in Elevators, Subscribe(c, e) PROVE IInv'
  BY <1>5, SubscribeStep
<1>6. ASSUME NEW to \in Pollers \cup {Everyone}, AskKeys(to),
             UNCHANGED <<past, connected, table, status, faults>>
      PROVE  IInv'
  <2>1. connected' \subseteq Clients
    BY <1>6 DEF IInv, TypeOK
  <2>2. QED BY <1>6, <2>1, AskKeysStep
<1>7. ASSUME NEW i, Handle(i) PROVE IInv'
  BY <1>7, HandleStep
<1>8. ASSUME NEW i, CommandFault(i) PROVE IInv'
  BY <1>8, CommandFaultStep
<1>9. CASE Crash
  BY <1>9, CrashStep
<1>10. QED
  BY <1>1, <1>2, <1>3, <1>4, <1>5, <1>6, <1>7, <1>8, <1>9 DEF Next, Tick, Poll

(* Whatever the interleaving: replies, pages and lists hold elevators with  *)
(* the numbers of writes.                                                   *)
THEOREM FeedTypes == Spec => []TypeOK
<1>1. Spec => []IInv
  BY InitInv, NextInv, PTL DEF Spec
<1>2. IInv => TypeOK
  BY DEF IInv
<1>3. QED BY <1>1, <1>2, PTL

-----------------------------------------------------------------------------
(* The state that a list shows.                                             *)

ShownIn(P, view) ==
    LET fits == {m \in DOMAIN P : Fits(P, view, m)} IN
    IF view = Unseen THEN 0
    ELSE IF fits = {} THEN Len(P) + 1
    ELSE CHOOSE m \in fits : \A n \in fits : m <= n

LEMMA LeastNatural ==
    ASSUME NEW S \in SUBSET Nat, S # {}
    PROVE  \E m \in S : \A n \in S : m <= n
<1>1. PICK m \in S : \A n \in S : <<n, m>> \notin OpToRel(<, Nat)
  BY WFMin, NatLessThanWellFounded, Zenon
<1>2. \A n \in S : ~(n < m)
  BY <1>1, Zenon DEF OpToRel
<1>3. \A n \in S : n \in Nat
  OBVIOUS
<1>4. QED BY <1>2, <1>3

LEMMA FirstFit ==
    ASSUME NEW P, Growing(P), NEW view, Known(P, view), view # Unseen,
           NEW k, k = ShownIn(P, view)
    PROVE  /\ k \in 1 .. Len(P) /\ Fits(P, view, k)
           /\ \A n \in 1 .. Len(P) : Fits(P, view, n) => k <= n
<1> DEFINE fits == {m \in DOMAIN P : Fits(P, view, m)}
<1>1. DOMAIN P = 1 .. Len(P) /\ Len(P) \in Nat
  BY PastStates DEF Growing
<1>2. fits # {} /\ fits \in SUBSET Nat
  BY <1>1 DEF Known
<1>3. k = CHOOSE m \in fits : \A n \in fits : m <= n
  BY <1>2, Zenon DEF ShownIn
<1>4. \A m : m \in fits <=> m \in 1 .. Len(P) /\ Fits(P, view, m)
  BY <1>1
<1> HIDE DEF fits
<1>5. \E m \in fits : \A n \in fits : m <= n
  BY <1>2, LeastNatural
<1>6. k \in fits /\ \A n \in fits : k <= n
  BY <1>3, <1>5, Zenon
<1>7. QED BY <1>4, <1>6

(* A list that is no older shows no older a state.                          *)
LEMMA ShownMonotone ==
    ASSUME NEW P, Growing(P), NEW A \in View, NEW B \in View,
           Known(P, A), Known(P, B), UpTo(A, B)
    PROVE  /\ ShownIn(P, A) \in 0 .. Len(P) /\ ShownIn(P, B) \in 0 .. Len(P)
           /\ ShownIn(P, A) <= ShownIn(P, B)
<1> DEFINE a == ShownIn(P, A)
           b == ShownIn(P, B)
<1>1. Len(P) \in Nat /\ \A m \in 1 .. Len(P) : P[m] \in View
  BY PastStates
<1>2. A = Unseen => a = 0
  BY DEF ShownIn
<1>3. B = Unseen => b = 0 /\ A = Unseen
  BY UnseenType DEF ShownIn, UpTo
<1>4. A # Unseen => /\ a \in 1 .. Len(P) /\ Fits(P, A, a)
                    /\ \A n \in 1 .. Len(P) : Fits(P, A, n) => a <= n
  BY FirstFit
<1>5. B # Unseen => b \in 1 .. Len(P) /\ Fits(P, B, b)
  BY FirstFit
<1> HIDE DEF a, b
<1>6. a \in 0 .. Len(P) /\ b \in 0 .. Len(P)
  BY <1>1, <1>2, <1>3, <1>4, <1>5
<1>7. ASSUME A # Unseen, B # Unseen PROVE a <= b
  <2>1. SUFFICES ASSUME b <= a PROVE Fits(P, A, b)
    BY <1>4, <1>5, <1>6, <1>7
  <2>2. UpTo(P[b], P[a]) /\ P[a] \in View /\ P[b] \in View
    BY <1>1, <1>4, <1>5, <1>7, <2>1 DEF Growing
  <2>3. ASSUME NEW e \in DOMAIN A PROVE e \in DOMAIN P[b] /\ P[b][e] = A[e]
    <3>1. e \in DOMAIN B /\ A[e] <= B[e]
      BY DEF UpTo
    <3>2. e \in DOMAIN P[b] /\ P[b][e] = B[e] /\ e \in DOMAIN P[a] /\ P[a][e] = A[e]
      BY <1>4, <1>5, <1>7, <3>1 DEF Fits
    <3>3. P[b][e] <= P[a][e]
      BY <2>2, <3>2 DEF UpTo
    <3>4. A[e] \in Int /\ B[e] \in Int
      BY <3>1, ViewType
    <3>5. QED BY <3>1, <3>2, <3>3, <3>4
  <2>4. QED BY <2>3 DEF Fits
<1>8. a <= b
  BY <1>2, <1>3, <1>6, <1>7
<1>9. QED BY <1>6, <1>8 DEF a, b

LEMMA UpToItself ==
    ASSUME NEW A \in View
    PROVE  UpTo(A, A)
<1>1. \A e \in DOMAIN A : A[e] \in Int
  BY ViewType
<1>2. QED BY <1>1 DEF UpTo

(* A write changes nothing about what was shown.                            *)
LEMMA ShownGrown ==
    ASSUME NEW P, Growing(P), NEW Q, Growing(Q), Longer(P, Q), NEW view, Known(P, view)
    PROVE  ShownIn(Q, view) = ShownIn(P, view)
<1>1. CASE view = Unseen
  BY <1>1 DEF ShownIn
<1>2. CASE view # Unseen
  <2> DEFINE p == ShownIn(P, view)
             q == ShownIn(Q, view)
  <2>1. Len(P) \in Nat
    BY PastStates
  <2>2. /\ p \in 1 .. Len(P) /\ Fits(P, view, p)
        /\ \A n \in 1 .. Len(P) : Fits(P, view, n) => p <= n
    BY <1>2, FirstFit
  <2>3. /\ q \in 1 .. Len(Q) /\ Fits(Q, view, q)
        /\ \A n \in 1 .. Len(Q) : Fits(Q, view, n) => q <= n
    BY <1>2, <2>1, KnownGrows, FirstFit
  <2> HIDE DEF p, q
  <2>4. p \in 1 .. Len(Q) /\ Fits(Q, view, p)
    BY <2>1, <2>2 DEF Fits, Longer
  <2>5. q \in 1 .. Len(P)
    BY <2>1, <2>2, <2>3, <2>4 DEF Longer
  <2>6. Fits(P, view, q)
    BY <2>3, <2>5 DEF Fits, Longer
  <2>7. q = p
    BY <2>1, <2>2, <2>3, <2>4, <2>5, <2>6
  <2>8. QED BY <2>7 DEF p, q
<1>3. QED BY <1>1, <1>2

-----------------------------------------------------------------------------
(* The board.                                                               *)

Viewers == Clients \cup Pollers

LEMMA StateShownIn ==
    /\ \A v : StateShown(status[v]) = ShownIn(past, status[v])
    /\ \A v : StateShown(status[v])' = ShownIn(past', status'[v])
BY DEF StateShown, ShownIn, Fits

LEMMA BoardInit == Init => Board!Init
<1> SUFFICES ASSUME Init PROVE Board!Init
  OBVIOUS
<1>1. Len(past) = 0 /\ connected = {} /\ status = [v \in Viewers |-> Unseen]
  BY DEF Init, Viewers
<1>2. \A v \in Viewers : StateShown(status[v]) = 0
  BY <1>1 DEF StateShown
<1>3. [v \in Viewers |-> StateShown(status[v])] = [v \in Viewers |-> 0]
  BY <1>2
<1>4. QED BY <1>1, <1>3 DEF Board!Init, Viewers

LEMMA BoardWrite ==
    ASSUME IInv, NEW e \in Elevators, Write(e)
    PROVE  Board!Change
<1>1. /\ Len(past) < MaxWrites /\ Growing(past)
      /\ past' = Grown(past, e)
      /\ UNCHANGED <<connected, status>>
  BY StateTypes DEF Write, Grown, IInv
<1>2. Growing(past') /\ Longer(past, past')
  BY <1>1, GrownPast
<1>3. ASSUME NEW v \in Viewers PROVE StateShown(status[v])' = StateShown(status[v])
  <2>1. Known(past, status[v]) /\ status'[v] = status[v]
    BY <1>1 DEF IInv, SeenOk, Viewers
  <2>2. ShownIn(past', status[v]) = ShownIn(past, status[v])
    BY <1>1, <1>2, <2>1, ShownGrown
  <2>3. QED BY <2>1, <2>2, StateShownIn
<1>4. [v \in Viewers |-> StateShown(status[v])]' = [v \in Viewers |-> StateShown(status[v])]
  BY <1>3
<1>5. QED BY <1>1, <1>2, <1>4 DEF Board!Change, Viewers, Longer

LEMMA BoardShow ==
    ASSUME IInv, IInv', NEW i \in 1 .. Len(line), Lists(i)
    PROVE  Board!Show
<1> DEFINE k == ShownIn(past, line[i].view)
           seen == [v \in Viewers |-> StateShown(status[v])]
<1>1. UNCHANGED <<past, connected>> /\ line[i].kind = "hashes" /\ Growing(past)
  BY DEF Lists, IInv
<1>2. PICK S \in SUBSET Viewers :
        S \subseteq connected \cup Pollers /\ status' = Listed(S, line[i].view)
  BY DEF Lists, Viewers
<1>3. \A v \in Viewers : status'[v] = IF v \in S THEN line[i].view ELSE status[v]
  BY <1>2, StateTypes DEF Listed, Viewers
<1>4. ASSUME NEW v \in Viewers
      PROVE  /\ seen[v] = ShownIn(past, status[v])
             /\ seen'[v] = IF v \in S THEN k ELSE ShownIn(past, status[v])
  <2>1. StateShown(status[v])' = ShownIn(past, status'[v])
    BY <1>1, StateShownIn
  <2>2. StateShown(status[v])' = IF v \in S THEN k ELSE ShownIn(past, status[v])
    BY <1>3, <2>1
  <2>3. QED BY <2>2, StateShownIn
<1>5. ASSUME NEW v \in Viewers
      PROVE  k \in 0 .. Len(past) /\ seen[v] \in 0 .. Len(past) /\ seen[v] <= k
  <2>1. status[v] \in View /\ Known(past, status[v]) /\ UpTo(status[v], line[i].view)
    BY <1>1, StateTypes DEF IInv, SeenOk, Precedes, Viewers
  <2>2. line[i].view \in View /\ Known(past, line[i].view)
    BY <1>1, StateTypes DEF IInv, LineOk, PendingOk
  <2>3. QED BY <1>1, <1>4, <2>1, <2>2, ShownMonotone
<1>6. DOMAIN seen' = Viewers /\ seen' = [v \in Viewers |-> seen'[v]]
  OBVIOUS
<1> HIDE DEF k, seen
<1>7. \A v \in Viewers : seen'[v] \in 0 .. Len(past)
  BY <1>4, <1>5
<1>8. seen' \in [Viewers -> 0 .. Len(past)]
  BY <1>6, <1>7
<1>9. ASSUME NEW v \in Viewers, seen'[v] # seen[v]
      PROVE  /\ v \in connected \cup Pollers /\ seen'[v] >= seen[v]
             /\ \A w \in Viewers : seen'[w] # seen[w] => seen'[w] = seen'[v]
  <2>1. v \in S /\ seen'[v] = k
    BY <1>4, <1>9
  <2>2. seen'[v] >= seen[v]
    BY <1>5, <2>1, StateTypes
  <2>3. QED BY <1>2, <1>4, <2>1, <2>2
<1>10. UNCHANGED <<Len(past), connected \cup Pollers>>
  BY <1>1
<1>11. QED BY <1>8, <1>9, <1>10 DEF Board!Show, seen, Viewers

LEMMA BoardTune ==
    ASSUME UNCHANGED <<past, status>>, connected' \subseteq Clients
    PROVE  Board!Tune
<1>1. \A v \in Viewers : StateShown(status[v])' = StateShown(status[v])
  BY StateShownIn
<1>2. [v \in Viewers |-> StateShown(status[v])]' = [v \in Viewers |-> StateShown(status[v])]
  BY <1>1
<1>3. (connected \cup Pollers)' \in SUBSET Viewers
  BY DEF Viewers
<1>4. QED BY <1>2, <1>3 DEF Board!Tune, Viewers

LEMMA BoardStep ==
    ASSUME IInv, IInv', [Next]_vars
    PROVE  Board!Next
<1>1. connected' \subseteq Clients
  BY DEF IInv, TypeOK
<1>2. ASSUME NEW e \in Elevators, Write(e) PROVE Board!Next
  BY <1>2, BoardWrite DEF Board!Next
<1>3. ASSUME NEW i, Handle(i) PROVE Board!Next
  <2>1. CASE Lists(i)
    BY <1>3, <2>1, HandleCases, BoardShow DEF Board!Next
  <2>2. CASE ~Lists(i)
    <3>1. UNCHANGED <<past, status>>
      BY <1>3, <2>2, HandleCases DEF ReadHashes, Record
    <3>2. QED BY <1>1, <3>1, BoardTune DEF Board!Next
  <2>3. QED BY <2>1, <2>2
<1>4. CASE UNCHANGED <<past, status>>
  BY <1>1, <1>4, BoardTune DEF Board!Next
<1>5. ASSUME NEW c \in Clients, Connect(c) \/ Disconnect(c) \/ \E e \in Elevators : Subscribe(c, e)
      PROVE  UNCHANGED <<past, status>>
  BY <1>5 DEF Connect, Disconnect, Subscribe
<1>6. ASSUME Tick \/ (\E p \in Pollers : Poll(p)) \/ (\E i : CommandFault(i)) \/ Crash
             \/ UNCHANGED vars
      PROVE  UNCHANGED <<past, status>>
  BY <1>6 DEF Tick, Poll, CommandFault, Crash, vars
<1>7. QED BY <1>2, <1>3, <1>4, <1>5, <1>6 DEF Next

(* The lists of elevators-status and of GET are a status board, for every   *)
(* number of viewers, overlapping broadcasts, writes, failures and crashes: *)
(* a list shows its elevators as they were at one moment, and no viewer     *)
(* gets an older list after a newer one.                                    *)
THEOREM FeedIsABoard == Spec => ImplementsBoard
<1>1. Spec => []IInv
  BY InitInv, NextInv, PTL DEF Spec
<1>2. Init => Board!Init
  BY BoardInit
<1>3. IInv /\ IInv' /\ [Next]_vars => [Board!Next]_Board!boardVars
  BY BoardStep
<1>4. QED BY <1>1, <1>2, <1>3, PTL DEF Spec, ImplementsBoard, Board!Safety

=============================================================================
