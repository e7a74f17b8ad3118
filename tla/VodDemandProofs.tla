--------------------------- MODULE VodDemandProofs ---------------------------
(***************************************************************************)
(* Proof that judgements of recorded demands which stay the same replace   *)
(* at most one producer, and overtaken requests its successors once for    *)
(* each viewer, for any number of viewers, segments and rounds.            *)
(*                                                                         *)
(* A producer that was started or confirmed by the demands as they are has *)
(* a dominating window: some recorded demand is at its position, and no    *)
(* position has more viewers near it.  #dominantDemand measures the        *)
(* distance from that window, so that it finds the very same position      *)
(* again, and #shouldSwitch does not leave a window for an equal one.  It  *)
(* is so for whoever has noted such a producer, also when it is over.      *)
(***************************************************************************)
EXTENDS VodDemand, FiniteSetTheorems, TLAPS

Demands == [Viewer -> Index \cup {None}]
Round == [at : {"none", "noted", "heard", "start"}, index : Index, current : BOOLEAN,
          past : Producer \cup {None}, heard : Demands \cup {None}]
Refreshing == [heard : Demands, past : Producer \cup {None}]
TypeOK ==
    /\ demand \in Demands
    /\ waiting \in [Viewer -> Index \cup {None}]
    /\ joined \in [Viewer -> BOOLEAN]
    /\ round \in [Viewer -> Round]
    /\ refresh \in Refreshing \cup {None}
    /\ active \in {None} \cup Producer
    /\ active # None => active.head # Segments - 1
    /\ refresh # None => refresh.past # None \/ active # None
    /\ \A v \in Viewer : /\ round[v].current => active # None
                         /\ round[v].at \in {"heard", "start"} => round[v].heard \in Demands
    /\ switches \in 0 .. 2
    /\ strays \subseteq Viewer

\* Position i is recorded, and no recorded position has more viewers near it.
Dominates(D, i) ==
    /\ \E v \in Recorded(D) : D[v] = i
    /\ \A u \in Recorded(D) : ViewersNear(D, D[u]) <= ViewersNear(D, i)

\* A producer is started where the demands that were read dominate.
Chosen == \A v \in Viewer : round[v].at = "start" /\ Recorded(round[v].heard) # {}
                              => Dominates(round[v].heard, round[v].index)

\* The window accepted now is a dominating one, and so is the one of a producer that is
\* over where a viewer has noted it whose request has stopped a successor before.
Calm == switches = 0 /\ strays = {}
Renewed == /\ active # None => Dominates(demand, active.demanded)
           /\ \A v \in strays : round[v].past # None => Dominates(demand, round[v].past.demanded)
Steady == Recorded(demand) # {} => switches <= 1 /\ (Calm \/ Renewed)

IInv == TypeOK /\ Chosen /\ Steady

---------------------------------------------------------------------------
(* The operators.                                                          *)

LEMMA ConstantTypes ==
    /\ Index \subseteq Int
    /\ None \notin Index
    /\ Segments - 1 \in Index
    /\ 0 \in Index
BY DemandAssumption DEF Index

LEMMA ArithmeticTypes ==
    /\ Radius \in Int /\ Radius >= 2
    /\ \A i, j \in Int : Distance(i, j) \in Nat
    /\ \A i \in Int : Distance(i, i) = 0
    /\ \A i, j \in Int : Distance(i, j) = 0 => i = j
<1>1. Ceil(10, segmentDuration) \in Int
  BY DemandAssumption DEF Ceil
<1>2. Radius \in Int /\ Radius >= 2
  BY <1>1 DEF Radius, Least, Greatest
<1> QED BY <1>2 DEF Distance

\* How many viewers are near a position: a number, and not zero at a recorded one.
LEMMA NearTypes ==
    ASSUME NEW D \in Demands
    PROVE  /\ \A i \in Int : ViewersNear(D, i) \in Nat
           /\ \A v \in Recorded(D) : /\ v \in Viewer
                                     /\ D[v] \in Index
                                     /\ ViewersNear(D, D[v]) >= 1
<1>1. ASSUME NEW i \in Int
      PROVE  ViewersNear(D, i) \in Nat
  <2>1. {v \in Recorded(D) : Distance(D[v], i) <= Radius} \subseteq Viewer
    BY DEF Recorded
  <2> QED BY <2>1, DemandAssumption, FS_Subset, FS_CardinalityType DEF ViewersNear
<1>2. ASSUME NEW v \in Recorded(D)
      PROVE  /\ v \in Viewer
             /\ D[v] \in Index
             /\ ViewersNear(D, D[v]) >= 1
  <2> DEFINE crowd == {w \in Recorded(D) : Distance(D[w], D[v]) <= Radius}
  <2>1. v \in Viewer /\ D[v] \in Index
    BY ConstantTypes DEF Demands, Recorded
  <2>2. Distance(D[v], D[v]) <= Radius
    <3>1. D[v] \in Int
      BY <2>1, ConstantTypes
    <3>2. Distance(D[v], D[v]) = 0
      BY <3>1 DEF Distance
    <3>3. Radius \in Int /\ Radius >= 2
      BY ArithmeticTypes
    <3> QED BY <3>2, <3>3
  <2>3. v \in crowd
    BY <2>2
  <2>4. crowd \subseteq Viewer
    BY DEF Recorded
  <2>5. IsFiniteSet(crowd)
    BY <2>4, DemandAssumption, FS_Subset
  <2>6. Cardinality(crowd) \in Nat /\ Cardinality(crowd) # 0
    BY <2>3, <2>5, FS_CardinalityType, FS_EmptySet
  <2> QED BY <2>1, <2>6 DEF ViewersNear
<1> QED BY <1>1, <1>2

\* What #dominantDemand returns while there are demands: a dominating position, with
\* the viewers near it and near the accepted window of the producer.
LEMMA DominantDominates ==
    ASSUME NEW D \in Demands, Recorded(D) # {}, NEW requested \in Index, NEW p,
           NEW d \in Dominant(D, requested, p)
    PROVE  /\ d.index \in Index
           /\ Dominates(D, d.index)
           /\ d.viewers = ViewersNear(D, d.index)
           /\ d.viewers \in Nat /\ d.viewers >= 1
           /\ p # None => d.current = ViewersNear(D, p.demanded)
<1>1. PICK w \in Recorded(D) :
        /\ d = [index |-> D[w], viewers |-> ViewersNear(D, D[w]),
                current |-> IF p = None THEN 0 ELSE ViewersNear(D, p.demanded)]
        /\ \A u \in Recorded(D) : \/ ViewersNear(D, D[u]) < ViewersNear(D, D[w])
                                  \/ ViewersNear(D, D[u]) = ViewersNear(D, D[w])
  BY DEF Dominant
<1>2. /\ D[w] \in Index
      /\ ViewersNear(D, D[w]) \in Nat /\ ViewersNear(D, D[w]) >= 1
  BY NearTypes, ConstantTypes
<1>3. ASSUME NEW u \in Recorded(D)
      PROVE  ViewersNear(D, D[u]) <= ViewersNear(D, D[w])
  <2>1. D[u] \in Int
    BY NearTypes, ConstantTypes
  <2>2. ViewersNear(D, D[u]) \in Nat
    BY <2>1, NearTypes
  <2> QED BY <1>1, <1>2, <2>2
<1>4. d.index = D[w] /\ d.viewers = ViewersNear(D, D[w])
  BY <1>1
<1>5. p # None => d.current = ViewersNear(D, p.demanded)
  BY <1>1
<1> QED BY <1>2, <1>3, <1>4, <1>5 DEF Dominates

\* Without demands, it is the request's own position.
LEMMA DominantAlone ==
    ASSUME NEW D, Recorded(D) = {}, NEW requested \in Index, NEW p, NEW d \in Dominant(D, requested, p)
    PROVE  d.index = requested /\ d.viewers \in Nat
BY DEF Dominant

LEMMA DominantTypes ==
    ASSUME NEW D \in Demands, NEW requested \in Index, NEW p, NEW d \in Dominant(D, requested, p)
    PROVE  d.index \in Index /\ d.viewers \in Nat /\ (Recorded(D) # {} => Dominates(D, d.index))
BY DominantDominates, DominantAlone

\* The tie-break: from a dominating window it is found again.
LEMMA DominantStays ==
    ASSUME NEW D \in Demands, Recorded(D) # {}, NEW p, p # None, Dominates(D, p.demanded),
           NEW requested \in Index, NEW d \in Dominant(D, requested, p)
    PROVE  d.index = p.demanded /\ ~ShouldSwitch(p, d)
<1> DEFINE here == p.demanded
<1>1. PICK v \in Recorded(D) : D[v] = here
  BY DEF Dominates
<1>2. PICK w \in Recorded(D) :
        /\ d.index = D[w]
        /\ \A u \in Recorded(D) :
             \/ ViewersNear(D, D[u]) < ViewersNear(D, D[w])
             \/ /\ ViewersNear(D, D[u]) = ViewersNear(D, D[w])
                /\ Distance(D[w], here) <= Distance(D[u], here)
  BY DEF Dominant
<1>3. D[w] \in Int /\ here \in Int
  BY <1>1, NearTypes, ConstantTypes
<1>4. ViewersNear(D, D[w]) \in Nat /\ ViewersNear(D, here) \in Nat /\ ViewersNear(D, here) >= 1
  BY <1>1, <1>3, NearTypes
<1>5. ViewersNear(D, D[w]) <= ViewersNear(D, here)
  BY DEF Dominates
<1>6. ViewersNear(D, here) = ViewersNear(D, D[w]) /\ Distance(D[w], here) <= Distance(here, here)
  BY <1>1, <1>2, <1>4, <1>5
<1>7. D[w] = here
  BY <1>3, <1>6 DEF Distance
<1>8. d.viewers = d.current /\ d.current # 0 /\ d.current \in Nat
  BY <1>2, <1>4, <1>7, DominantDominates
<1> QED BY <1>2, <1>7, <1>8 DEF ShouldSwitch

LEMMA StartedTypes ==
    ASSUME NEW i \in Index
    PROVE  /\ StartedAt(i) \in Producer
           /\ StartedAt(i).demanded = i
           /\ StartedAt(i).head # Segments - 1
BY ConstantTypes DEF StartedAt, Producer

LEMMA NoRoundType == NoRound \in Round /\ NoRound.at = "none" /\ ~NoRound.current /\ NoRound.past = None
BY ConstantTypes DEF NoRound, Round

---------------------------------------------------------------------------
(* The steps.                                                              *)

\* Steps that leave the demands and the accepted window alone, or end the producer.
LEMMA SteadyKept ==
    ASSUME IInv, demand' = demand, switches' = switches, strays' = strays,
           active' # None => active # None /\ active'.demanded = active.demanded,
           \A v \in Viewer : round'[v].past # None =>
              \/ round'[v].past = round[v].past
              \/ active # None /\ round'[v].past.demanded = active.demanded
    PROVE  Steady'
<1>1. CASE Recorded(demand) = {} \/ Calm
  BY <1>1 DEF IInv, Steady, Calm
<1>2. CASE Recorded(demand) # {} /\ Renewed
  <2>1. \A v \in strays : v \in Viewer
    BY DEF IInv, TypeOK
  <2> QED BY <1>2, <2>1 DEF IInv, Steady, Renewed
<1> QED BY <1>1, <1>2 DEF IInv, Steady

\* The rounds after the producer is over.
LEMMA OverRounds ==
    ASSUME TypeOK, NEW R \in [Viewer -> Round], Over(R),
           \A v \in Viewer : R[v].current => active # None
    PROVE  /\ round' \in [Viewer -> Round] /\ joined' \in [Viewer -> BOOLEAN]
           /\ active' = None
           /\ refresh' \in Refreshing \cup {None} /\ (refresh' # None => refresh'.past # None)
           /\ \A v \in Viewer :
                /\ ~round'[v].current /\ round'[v].at = R[v].at /\ round'[v].index = R[v].index
                /\ round'[v].heard = R[v].heard
                /\ round'[v].past = R[v].past \/ (active # None /\ round'[v].past.demanded = active.demanded)
                /\ ~R[v].current => round'[v].past = R[v].past
<1> DEFINE rest(v) == IF R[v].current THEN [R[v] EXCEPT !.current = FALSE, !.past = Ended] ELSE R[v]
<1>1. /\ round' = [v \in Viewer |-> rest(v)]
      /\ active' = None /\ joined' = Nobody
      /\ \/ refresh' = refresh
         \/ refresh # None /\ active # None /\ refresh' = [refresh EXCEPT !.past = Ended]
         \/ refresh' = None
      /\ refresh' = refresh => refresh = None \/ active = None \/ refresh.past # None
  <2>1. round' = [v \in Viewer |-> rest(v)] /\ active' = None /\ joined' = Nobody
    BY DEF Over
  <2>2. CASE refresh # None /\ active # None /\ refresh.past = None
    <3>1. refresh' = [refresh EXCEPT !.past = Ended] \/ refresh' = None
      BY <2>2 DEF Over
    <3>2. refresh' # refresh
      <4>1. refresh \in Refreshing /\ Ended # None
        BY <2>2, NoneAssumption DEF TypeOK, Producer, Ended
      <4>2. [refresh EXCEPT !.past = Ended].past = Ended
        BY <4>1 DEF Refreshing
      <4> QED BY <2>2, <3>1, <4>1, <4>2
    <3> QED BY <2>1, <2>2, <3>1, <3>2
  <2>3. CASE ~(refresh # None /\ active # None /\ refresh.past = None)
    <3>1. refresh' = refresh
      BY <2>3 DEF Over
    <3> QED BY <2>1, <2>3, <3>1
  <2> QED BY <2>2, <2>3
<1>2. active # None => Ended \in Producer /\ Ended.demanded = active.demanded
  BY DEF TypeOK, Producer, Ended
<1>3. ASSUME NEW v \in Viewer
      PROVE  /\ rest(v) \in Round /\ ~rest(v).current /\ rest(v).at = R[v].at /\ rest(v).index = R[v].index
             /\ rest(v).heard = R[v].heard
             /\ rest(v).past = R[v].past \/ (active # None /\ rest(v).past.demanded = active.demanded)
             /\ ~R[v].current => rest(v).past = R[v].past
  BY <1>2 DEF Round
<1> HIDE DEF rest
<1>4. \A v \in Viewer : round'[v] = rest(v)
  BY <1>1
<1>5. joined' \in [Viewer -> BOOLEAN]
  BY <1>1 DEF Nobody
<1>6. refresh' \in Refreshing \cup {None} /\ (refresh' # None => refresh'.past # None)
  <2>1. CASE refresh' = refresh
    BY <1>1, <2>1 DEF TypeOK
  <2>2. CASE refresh # None /\ active # None /\ refresh' = [refresh EXCEPT !.past = Ended]
    <3>1. refresh \in Refreshing /\ Ended \in Producer /\ Ended # None
      BY <1>2, <2>2, NoneAssumption DEF TypeOK
    <3> QED BY <2>2, <3>1 DEF Refreshing
  <2>3. CASE refresh' = None
    BY <2>3
  <2> QED BY <1>1, <2>1, <2>2, <2>3
<1> QED BY <1>1, <1>3, <1>4, <1>5, <1>6

\* The rounds after the accepted window of a producer that is over has become i.
LEMMA ShiftRounds ==
    ASSUME NEW R \in [Viewer -> Round], NEW p \in Producer, NEW i \in Index, Shift(R, p, i)
    PROVE  /\ round' \in [Viewer -> Round]
           /\ \A v \in Viewer :
                /\ round'[v].current = R[v].current /\ round'[v].at = R[v].at
                /\ round'[v].index = R[v].index /\ round'[v].heard = R[v].heard
                /\ round'[v].past = R[v].past \/ round'[v].past.demanded = i
                /\ R[v].past = None => round'[v].past = None
<1>1. PICK U \in SUBSET {v \in Viewer : R[v].past = p} :
        round' = [v \in Viewer |-> IF v \in U THEN [R[v] EXCEPT !.past.demanded = i] ELSE R[v]]
  BY DEF Shift
<1>2. ASSUME NEW v \in Viewer
      PROVE  /\ round'[v] \in Round /\ round'[v].current = R[v].current /\ round'[v].at = R[v].at
             /\ round'[v].index = R[v].index /\ round'[v].heard = R[v].heard
             /\ round'[v].past = R[v].past \/ round'[v].past.demanded = i
             /\ R[v].past = None => round'[v].past = None
  <2>1. CASE v \in U
    <3> DEFINE q == [p EXCEPT !.demanded = i]
    <3>1. R[v].past = p /\ R[v] \in Round /\ R[v].past # None
      BY <1>1, <2>1, NoneAssumption
    <3>2. round'[v] = [R[v] EXCEPT !.past = q]
      BY <1>1, <2>1, <3>1
    <3>3. q \in Producer /\ q.demanded = i
      BY DEF Producer
    <3> HIDE DEF q
    <3> QED BY <3>1, <3>2, <3>3 DEF Round
  <2>2. CASE v \notin U
    BY <1>1, <2>2
  <2> QED BY <2>1, <2>2
<1>3. round' = [v \in Viewer |-> round'[v]]
  BY <1>1
<1> QED BY <1>2, <1>3

LEMMA InitIInv == Init => IInv
BY ConstantTypes, NoRoundType DEF Init, IInv, TypeOK, Demands, Chosen, Steady, Recorded

LEMMA AskIInv ==
    ASSUME IInv, NEW v \in Viewer, NEW i \in Asked, Ask(v, i)
    PROVE  IInv'
<1>1. TypeOK'
  <2>1. demand \in Demands /\ waiting \in [Viewer -> Index \cup {None}] /\ joined \in [Viewer -> BOOLEAN]
    BY DEF IInv, TypeOK
  <2>2. i \in Index /\ demand' \in Demands
    BY <2>1, DemandAssumption DEF Ask, Demands
  <2>3. waiting' \in [Viewer -> Index \cup {None}] /\ joined' \in [Viewer -> BOOLEAN]
    BY <2>1, <2>2 DEF Ask
  <2>4. switches' \in 0 .. 2 /\ strays' \subseteq Viewer
    BY DEF IInv, TypeOK, Ask, history
  <2> QED BY <2>2, <2>3, <2>4 DEF IInv, TypeOK, Ask
<1>2. Chosen'
  BY DEF IInv, Ask, Chosen
<1>3. CASE demand[v] = i
  <2>1. demand' = demand /\ UNCHANGED <<switches, strays, active, round>>
    BY <1>3 DEF Ask, IInv, TypeOK, Demands, history
  <2> QED BY <1>1, <1>2, <2>1, SteadyKept DEF IInv
<1>4. CASE demand[v] # i
  BY <1>1, <1>2, <1>4 DEF IInv, Ask, Steady, Calm
<1> QED BY <1>3, <1>4

\* A round goes on before it is judged.
LEMMA RoundIInv ==
    ASSUME IInv, NEW v \in Viewer, Note(v) \/ Listen(v)
    PROVE  IInv'
<1> DEFINE op == round'[v]
<1>1. TypeOK /\ round \in [Viewer -> Round] /\ round[v] \in Round /\ demand \in Demands
  BY DEF IInv, TypeOK
<1>2. UNCHANGED <<demand, waiting, joined, refresh, active, switches, strays>>
  BY DEF Note, Listen, history
<1>3. /\ round' \in [Viewer -> Round] /\ \A u \in Viewer \ {v} : round'[u] = round[u]
      /\ op.at \in {"noted", "heard"} /\ (op.at = "heard" => op.heard \in Demands)
      /\ op.current => active # None
      /\ op.past \in {None, round[v].past}
  <2>1. CASE Note(v)
    <3> DEFINE r == [NoRound EXCEPT !.at = "noted", !.index = waiting[v], !.current = active # None]
    <3>1. round' = [round EXCEPT ![v] = r] /\ waiting[v] \in Index
      BY <1>1, <2>1 DEF Note, TypeOK
    <3>2. (active # None) \in BOOLEAN
      OBVIOUS
    <3>3. r \in Round /\ r.at = "noted" /\ r.past = None /\ (r.current => active # None)
      BY <3>1, <3>2, NoRoundType DEF Round
    <3> HIDE DEF r
    <3> QED BY <1>1, <3>1, <3>3
  <2>2. CASE Listen(v)
    <3> DEFINE r == [round[v] EXCEPT !.at = "heard", !.heard = demand]
    <3>1. round' = [round EXCEPT ![v] = r]
      BY <2>2 DEF Listen
    <3>2. r \in Round /\ r.at = "heard" /\ r.heard = demand /\ r.past = round[v].past
          /\ r.current = round[v].current
      BY <1>1 DEF Round
    <3> HIDE DEF r
    <3> QED BY <1>1, <3>1, <3>2 DEF TypeOK
  <2> QED BY <2>1, <2>2
<1>4. TypeOK'
  BY <1>1, <1>2, <1>3 DEF TypeOK
<1>5. Chosen'
  BY <1>3 DEF IInv, Chosen
<1>6. Steady'
  BY <1>2, <1>3, SteadyKept
<1> QED BY <1>4, <1>5, <1>6 DEF IInv

\* What is done by demands that have changed begins the account anew.
LEMMA AccountAnew ==
    ASSUME IInv, NEW v \in Viewer, round[v].heard # demand, NEW s, NEW t, Account(v, s, t)
    PROVE  Steady'
BY DEF Account, Steady, Calm

\* A round joins the producer that it has noted.
LEMMA JoinsIInv ==
    ASSUME IInv, NEW v \in Viewer, Judge(v),
           NEW d \in Dominant(round[v].heard, round[v].index, Noted(v)), Joins(v, d)
    PROVE  IInv'
<1>1. /\ TypeOK /\ round \in [Viewer -> Round] /\ round[v] \in Round /\ round[v].heard \in Demands
      /\ round[v].index \in Index /\ round[v].at = "heard"
      /\ UNCHANGED <<demand, waiting, published, refresh>>
  BY DEF IInv, TypeOK, Judge, Joins, Round, In
<1>2. d.index \in Index /\ (Recorded(round[v].heard) # {} => Dominates(round[v].heard, d.index))
  BY <1>1, DominantTypes
<1>3. switches' \in 0 .. 2 /\ strays' \subseteq Viewer
  BY <1>1 DEF Joins, Account, TypeOK, history
<1>4. CASE waiting[v] # None /\ round[v].current
  <2>1. active # None /\ active \in Producer /\ active.head # Segments - 1
    BY <1>1, <1>4 DEF TypeOK
  <2>2. /\ active' = [active EXCEPT !.demanded = d.index]
        /\ joined' = [joined EXCEPT ![v] = TRUE]
        /\ round' = [round EXCEPT ![v] = NoRound] /\ Account(v, switches, strays)
    BY <1>4 DEF Joins
  <2>3. active' \in Producer /\ active'.head # Segments - 1 /\ active'.demanded = d.index /\ active' # None
    <3>1. active' \in Producer /\ active'.head = active.head /\ active'.demanded = d.index
      BY <2>1, <2>2, <1>2 DEF Producer
    <3>2. active' # None
      BY <2>1, <2>2, <3>1, NoneAssumption
    <3> QED BY <2>1, <3>1, <3>2
  <2>4. /\ round' \in [Viewer -> Round] /\ round'[v] = NoRound
        /\ \A u \in Viewer \ {v} : round'[u] = round[u]
    BY <1>1, <2>2, NoRoundType
  <2>5. joined' \in [Viewer -> BOOLEAN]
    BY <1>1, <2>2 DEF TypeOK
  <2>6. TypeOK'
    BY <1>1, <1>3, <2>1, <2>3, <2>4, <2>5, NoRoundType DEF TypeOK
  <2>7. Chosen'
    BY <2>4, NoRoundType DEF IInv, Chosen
  <2>8. Steady'
    <3>1. CASE round[v].heard # demand
      BY <2>2, <3>1, AccountAnew
    <3>2. CASE round[v].heard = demand /\ Recorded(demand) # {}
      <4>1. switches' = switches /\ strays' = strays /\ Dominates(demand, active'.demanded)
        BY <1>2, <2>2, <2>3, <3>2 DEF Account
      <4>2. Renewed => Renewed'
        BY <1>1, <2>4, <4>1, NoRoundType DEF Renewed, TypeOK
      <4> QED BY <1>1, <3>2, <4>1, <4>2 DEF IInv, Steady, Calm
    <3>3. CASE Recorded(demand) = {}
      BY <1>1, <3>3 DEF Steady
    <3> QED BY <3>1, <3>2, <3>3
  <2> QED BY <2>6, <2>7, <2>8 DEF IInv
<1>5. CASE waiting[v] # None /\ ~round[v].current
  <2> DEFINE R == [round EXCEPT ![v] = NoRound]
  <2>1. /\ active' = active /\ joined' = joined /\ round[v].past \in Producer
        /\ Account(v, switches, strays) /\ Shift(R, round[v].past, d.index)
    BY <1>1, <1>5 DEF Joins, Noted, Round
  <2>2. R \in [Viewer -> Round] /\ R[v] = NoRound /\ \A u \in Viewer \ {v} : R[u] = round[u]
    BY <1>1, NoRoundType
  <2> HIDE DEF R
  <2>3. /\ round' \in [Viewer -> Round]
        /\ \A u \in Viewer :
             /\ round'[u].current = R[u].current /\ round'[u].at = R[u].at
             /\ round'[u].index = R[u].index /\ round'[u].heard = R[u].heard
             /\ round'[u].past = R[u].past \/ round'[u].past.demanded = d.index
             /\ R[u].past = None => round'[u].past = None
    BY <1>2, <2>1, <2>2, ShiftRounds
  <2>4. TypeOK'
    <3>1. \A u \in Viewer : /\ round'[u].current => active # None
                            /\ round'[u].at \in {"heard", "start"} => round'[u].heard \in Demands
      BY <1>1, <2>2, <2>3, NoRoundType DEF TypeOK
    <3> QED BY <1>1, <1>3, <2>1, <2>3, <3>1 DEF TypeOK
  <2>5. Chosen'
    BY <2>2, <2>3, NoRoundType DEF IInv, Chosen
  <2>6. Steady'
    <3>1. CASE round[v].heard # demand
      BY <2>1, <3>1, AccountAnew
    <3>2. CASE round[v].heard = demand /\ Recorded(demand) # {}
      <4>1. switches' = switches /\ strays' = strays /\ Dominates(demand, d.index)
        BY <1>2, <2>1, <3>2 DEF Account
      <4>2. Renewed => Renewed'
        BY <1>1, <2>1, <2>2, <2>3, <4>1, NoRoundType DEF Renewed, TypeOK
      <4> QED BY <1>1, <3>2, <4>1, <4>2 DEF IInv, Steady, Calm
    <3>3. CASE Recorded(demand) = {}
      BY <1>1, <3>3 DEF Steady
    <3> QED BY <3>1, <3>2, <3>3
  <2> QED BY <2>4, <2>5, <2>6 DEF IInv
<1>6. CASE waiting[v] = None
  <2>1. UNCHANGED <<active, joined, switches, strays>> /\ round' = [round EXCEPT ![v] = NoRound]
    BY <1>6 DEF Joins, history
  <2>2. /\ round' \in [Viewer -> Round] /\ round'[v] = NoRound
        /\ \A u \in Viewer \ {v} : round'[u] = round[u]
    BY <1>1, <2>1, NoRoundType
  <2>3. TypeOK' /\ Chosen'
    BY <1>1, <2>1, <2>2, NoRoundType DEF IInv, TypeOK, Chosen
  <2>4. Steady'
    BY <1>1, <2>1, <2>2, NoRoundType, SteadyKept
  <2> QED BY <2>3, <2>4 DEF IInv
<1> QED BY <1>4, <1>5, <1>6

\* A round finds that the producer it has noted is to be replaced.
LEMMA StopsIInv ==
    ASSUME IInv, NEW v \in Viewer, Judge(v),
           NEW d \in Dominant(round[v].heard, round[v].index, Noted(v)), Stops(v, d)
    PROVE  IInv'
<1> DEFINE r == [NoRound EXCEPT !.at = "start", !.index = d.index, !.heard = round[v].heard]
           R == [round EXCEPT ![v] = r]
<1>1. /\ TypeOK /\ round \in [Viewer -> Round] /\ round[v] \in Round /\ round[v].heard \in Demands
      /\ round[v].index \in Index /\ UNCHANGED <<demand, waiting, published>>
  BY DEF IInv, TypeOK, Judge, Round, In
<1>2. d.index \in Index /\ (Recorded(round[v].heard) # {} => Dominates(round[v].heard, d.index))
  BY <1>1, DominantTypes
<1>3. /\ r \in Round /\ r.at = "start" /\ r.index = d.index /\ r.heard = round[v].heard
      /\ ~r.current /\ r.past = None
  BY <1>1, <1>2, NoRoundType DEF Round
<1>4. Over(R) /\ Noted(v) # None /\ ShouldSwitch(Noted(v), d)
  BY DEF Stops
<1> HIDE DEF r
<1>5. R \in [Viewer -> Round] /\ R[v] = r /\ \A u \in Viewer \ {v} : R[u] = round[u]
  BY <1>1, <1>3
<1> HIDE DEF R
<1>6. \A u \in Viewer : R[u].current => active # None
  BY <1>1, <1>3, <1>5 DEF TypeOK
<1>7. /\ round' \in [Viewer -> Round] /\ joined' \in [Viewer -> BOOLEAN]
      /\ active' = None
      /\ refresh' \in Refreshing \cup {None} /\ (refresh' # None => refresh'.past # None)
      /\ \A u \in Viewer :
           /\ ~round'[u].current /\ round'[u].at = R[u].at /\ round'[u].index = R[u].index
           /\ round'[u].heard = R[u].heard
           /\ round'[u].past = R[u].past \/ (active # None /\ round'[u].past.demanded = active.demanded)
           /\ ~R[u].current => round'[u].past = R[u].past
  BY <1>1, <1>4, <1>5, <1>6, OverRounds
<1>8. switches' \in 0 .. 2 /\ strays' \subseteq Viewer
  <2>1. Switched \in 0 .. 2
    BY <1>1 DEF Switched, TypeOK
  <2> QED BY <1>1, <2>1 DEF Stops, Account, TypeOK, history
<1>9. TypeOK'
  <2>1. \A u \in Viewer : round'[u].at \in {"heard", "start"} => round'[u].heard \in Demands
    BY <1>1, <1>3, <1>5, <1>7 DEF TypeOK
  <2> QED BY <1>1, <1>7, <1>8, <2>1 DEF TypeOK
<1>10. Chosen'
  BY <1>2, <1>3, <1>5, <1>7 DEF IInv, Chosen
<1>11. Steady'
  <2>1. CASE round[v].heard # demand /\ active # None
    BY <2>1 DEF Stops, Account, Steady, Calm
  <2>2. CASE Recorded(demand) = {}
    BY <1>1, <2>2 DEF Steady
  <2>3. CASE active = None
    <3>1. switches' = switches /\ strays' = strays
      BY <2>3 DEF Stops, history
    <3> QED BY <1>1, <1>3, <1>5, <1>7, <2>3, <3>1, SteadyKept
  <2>4. CASE round[v].heard = demand /\ Recorded(demand) # {} /\ active # None
    <3>1. switches <= 1 /\ (Calm \/ Renewed)
      BY <2>4 DEF IInv, Steady
    <3>2. ASSUME Dominates(demand, Noted(v).demanded)
          PROVE  FALSE
      BY <1>1, <1>4, <2>4, <3>2, DominantStays
    <3>3. \A u \in strays : u \in Viewer
      BY <1>1 DEF TypeOK
    <3>4. Renewed => \A u \in strays : round'[u].past # None => Dominates(demand, round'[u].past.demanded)
      BY <1>3, <1>5, <1>7, <3>3 DEF Renewed
    <3>6. CASE active # None /\ round[v].current
      <4>1. ~Renewed
        BY <3>2, <3>6 DEF Renewed, Noted
      <4>2. switches' = 1 /\ strays' = {}
        BY <2>4, <3>1, <3>6, <4>1 DEF Stops, Account, Calm, Switched
      <4> QED BY <1>7, <4>2 DEF Steady, Renewed
    <3>7. CASE active # None /\ ~round[v].current /\ v \in strays
      <4>1. Renewed /\ Noted(v) = round[v].past
        BY <3>1, <3>7 DEF Calm, Noted
      <4> QED BY <1>4, <3>2, <3>7, <4>1 DEF Renewed
    <3>8. CASE active # None /\ ~round[v].current /\ v \notin strays
      <4>1. switches' = switches /\ strays' = strays \cup {v}
        BY <2>4, <3>8 DEF Stops, Account
      <4>2. round'[v].past = None
        BY <1>3, <1>5, <1>7
      <4>3. \A u \in strays : round'[u].past # None => Dominates(demand, round'[u].past.demanded)
        BY <3>1, <3>4 DEF Calm
      <4> QED BY <1>1, <1>7, <3>1, <4>1, <4>2, <4>3 DEF Steady, Renewed
    <3> QED BY <2>4, <3>6, <3>7, <3>8
  <2> QED BY <2>1, <2>2, <2>3, <2>4
<1> QED BY <1>9, <1>10, <1>11 DEF IInv

LEMMA JudgeIInv ==
    ASSUME IInv, NEW v \in Viewer, Judge(v)
    PROVE  IInv'
<1>1. PICK d \in Dominant(round[v].heard, round[v].index, Noted(v)) :
        \/ Joins(v, d) \/ Stops(v, d)
        \/ /\ Noted(v) = None
           /\ round' = [round EXCEPT ![v].at = "start", ![v].index = d.index]
           /\ UNCHANGED <<joined, active, refresh, history>>
  BY DEF Judge
<1>2. CASE Joins(v, d)
  BY <1>2, JoinsIInv
<1>3. CASE Stops(v, d)
  BY <1>3, StopsIInv
<1>4. CASE /\ Noted(v) = None
           /\ round' = [round EXCEPT ![v].at = "start", ![v].index = d.index]
           /\ UNCHANGED <<joined, active, refresh, history>>
  <2> DEFINE r == [round[v] EXCEPT !.at = "start", !.index = d.index]
  <2>1. /\ TypeOK /\ round \in [Viewer -> Round] /\ round[v] \in Round /\ round[v].heard \in Demands
        /\ round[v].index \in Index /\ UNCHANGED <<demand, waiting, published>>
    BY DEF IInv, TypeOK, Judge, Round, In
  <2>2. d.index \in Index /\ (Recorded(round[v].heard) # {} => Dominates(round[v].heard, d.index))
    BY <2>1, DominantTypes
  <2>3. /\ r \in Round /\ r.at = "start" /\ r.index = d.index /\ r.heard = round[v].heard
        /\ r.current = round[v].current /\ r.past = round[v].past
    BY <2>1, <2>2 DEF Round
  <2>4. round' = [round EXCEPT ![v] = r]
    BY <1>4
  <2> HIDE DEF r
  <2>5. round' \in [Viewer -> Round] /\ round'[v] = r /\ \A u \in Viewer \ {v} : round'[u] = round[u]
    BY <2>1, <2>3, <2>4
  <2>6. switches' \in 0 .. 2 /\ strays' \subseteq Viewer
    BY <1>4, <2>1 DEF history, TypeOK
  <2>7. TypeOK'
    BY <1>4, <2>1, <2>3, <2>5, <2>6 DEF TypeOK
  <2>8. Chosen'
    BY <2>2, <2>3, <2>5 DEF IInv, Chosen
  <2>9. Steady'
    BY <1>4, <2>1, <2>3, <2>5, SteadyKept DEF history
  <2> QED BY <2>7, <2>8, <2>9 DEF IInv
<1> QED BY <1>1, <1>2, <1>3, <1>4

LEMMA StartIInv ==
    ASSUME IInv, NEW v \in Viewer, Start(v)
    PROVE  IInv'
<1>1. /\ TypeOK /\ round \in [Viewer -> Round] /\ round[v] \in Round /\ round[v].heard \in Demands
      /\ round[v].index \in Index /\ round[v].at = "start"
      /\ round' = [round EXCEPT ![v] = NoRound]
      /\ UNCHANGED <<demand, waiting, refresh, published>>
  BY DEF IInv, TypeOK, Start, Round, In
<1>2. /\ round' \in [Viewer -> Round] /\ round'[v] = NoRound
      /\ \A u \in Viewer \ {v} : round'[u] = round[u]
  BY <1>1, NoRoundType
<1>3. switches' \in 0 .. 2 /\ strays' \subseteq Viewer
  BY <1>1 DEF Start, Account, TypeOK, history
<1>4. /\ active' \in {None} \cup Producer /\ (active' # None => active'.head # Segments - 1)
      /\ active # None => active' # None
      /\ active' = active \/ (active' # None /\ active'.demanded = round[v].index)
      /\ joined' \in [Viewer -> BOOLEAN]
      /\ Account(v, switches, strays) \/ UNCHANGED <<active, switches, strays>>
  <2>1. CASE active = None /\ active' = StartedAt(round[v].index)
             /\ joined' = [joined EXCEPT ![v] = waiting[v] # None]
             /\ Account(v, switches, strays)
    <3>1. joined' \in [Viewer -> BOOLEAN]
      BY <1>1, <2>1 DEF TypeOK
    <3> QED BY <1>1, <2>1, <3>1, StartedTypes, NoneAssumption
  <2>2. CASE active # None /\ active.head = None
             /\ active' = [active EXCEPT !.demanded = round[v].index]
             /\ joined' = [joined EXCEPT ![v] = TRUE]
             /\ Account(v, switches, strays)
    <3>1. active \in Producer /\ active.head # Segments - 1
      BY <1>1, <2>2 DEF TypeOK
    <3>2. active' \in Producer /\ active'.head = active.head /\ active'.demanded = round[v].index
      BY <1>1, <2>2, <3>1 DEF Producer
    <3>3. joined' \in [Viewer -> BOOLEAN]
      BY <1>1, <2>2 DEF TypeOK
    <3> QED BY <2>2, <3>1, <3>2, <3>3, NoneAssumption
  <2>3. CASE active # None /\ UNCHANGED <<active, joined, history>>
    BY <1>1, <2>3 DEF TypeOK, history
  <2> QED BY <2>1, <2>2, <2>3 DEF Start
<1>5. TypeOK'
  BY <1>1, <1>2, <1>3, <1>4, NoRoundType DEF TypeOK
<1>6. Chosen'
  BY <1>2, NoRoundType DEF IInv, Chosen
<1>7. Steady'
  <2>1. CASE UNCHANGED <<active, switches, strays>>
    BY <1>1, <1>2, <2>1, NoRoundType, SteadyKept
  <2>2. CASE Account(v, switches, strays) /\ round[v].heard # demand
    BY <2>2, AccountAnew
  <2>3. CASE Account(v, switches, strays) /\ round[v].heard = demand /\ Recorded(demand) # {}
    <3>1. switches' = switches /\ strays' = strays
      BY <2>3 DEF Account
    <3>2. Dominates(demand, round[v].index)
      BY <1>1, <2>3 DEF IInv, Chosen
    <3>3. Renewed => Renewed'
      <4>1. \A u \in strays : u \in Viewer
        BY <1>1 DEF TypeOK
      <4> QED BY <1>1, <1>2, <1>4, <3>1, <3>2, <4>1, NoRoundType DEF Renewed
    <3> QED BY <1>1, <2>3, <3>1, <3>3 DEF IInv, Steady, Calm
  <2>4. CASE Recorded(demand) = {}
    BY <1>1, <2>4 DEF Steady
  <2> QED BY <1>4, <2>1, <2>2, <2>3, <2>4
<1> QED BY <1>5, <1>6, <1>7 DEF IInv

LEMMA ListenAgainIInv ==
    ASSUME IInv, ListenAgain
    PROVE  IInv'
<1>1. TypeOK' /\ Chosen'
  <2>1. refresh' \in Refreshing /\ active # None /\ demand \in Demands
    BY DEF IInv, ListenAgain, TypeOK, Refreshing
  <2> QED BY <2>1 DEF IInv, ListenAgain, TypeOK, Chosen, history
<1>2. Steady'
  BY SteadyKept DEF ListenAgain, history
<1> QED BY <1>1, <1>2 DEF IInv

\* The producer is over, and nothing is counted.
LEMMA OverIInv ==
    ASSUME IInv, Over(round), demand' = demand, waiting' \in [Viewer -> Index \cup {None}]
    PROVE  /\ switches' \in 0 .. 2 /\ strays' \subseteq Viewer => TypeOK'
           /\ Chosen'
           /\ switches' <= 1 /\ strays' = {} => Steady'
           /\ UNCHANGED history => Steady'
<1>1. TypeOK /\ round \in [Viewer -> Round] /\ (\A v \in Viewer : round[v].current => active # None)
  BY DEF IInv, TypeOK
<1>2. /\ round' \in [Viewer -> Round] /\ joined' \in [Viewer -> BOOLEAN]
      /\ active' = None
      /\ refresh' \in Refreshing \cup {None} /\ (refresh' # None => refresh'.past # None)
      /\ \A v \in Viewer :
           /\ ~round'[v].current /\ round'[v].at = round[v].at /\ round'[v].index = round[v].index
           /\ round'[v].heard = round[v].heard
           /\ round'[v].past = round[v].past \/ (active # None /\ round'[v].past.demanded = active.demanded)
  BY <1>1, OverRounds
<1>3. ASSUME switches' \in 0 .. 2, strays' \subseteq Viewer
      PROVE  TypeOK'
  BY <1>1, <1>2, <1>3 DEF TypeOK
<1>4. Chosen'
  BY <1>2 DEF IInv, Chosen
<1>5. ASSUME UNCHANGED history
      PROVE  Steady'
  BY <1>2, <1>5, SteadyKept DEF history
<1>6. ASSUME switches' <= 1, strays' = {}
      PROVE  Steady'
  BY <1>2, <1>6 DEF Steady, Renewed
<1> QED BY <1>3, <1>4, <1>5, <1>6

LEMMA RefreshIInv ==
    ASSUME IInv, RefreshActive
    PROVE  IInv'
<1>1. /\ TypeOK /\ refresh.heard \in Demands /\ active # None /\ active \in Producer
      /\ active.head # Segments - 1 /\ active.demanded \in Index
      /\ UNCHANGED <<demand, waiting, published>> /\ waiting' \in [Viewer -> Index \cup {None}]
  BY DEF IInv, TypeOK, RefreshActive, Refreshing, Producer
<1>2. PICK d \in Dominant(refresh.heard, active.demanded, active) :
         \/ /\ ~ShouldSwitch(active, d)
            /\ active' = [active EXCEPT !.candidate = NoCandidate, !.demanded = d.index]
            /\ refresh' = None
            /\ IF refresh.heard # demand THEN switches' = 0 /\ strays' = {} ELSE UNCHANGED history
            /\ UNCHANGED <<joined, round>>
         \/ /\ ShouldSwitch(active, d)
            /\ Over(round)
            /\ IF refresh.heard # demand THEN switches' = 0 /\ strays' = {}
               ELSE switches' = Switched /\ UNCHANGED strays
         \/ /\ ShouldSwitch(active, d)
            /\ active' = [active EXCEPT !.candidate = [index |-> d.index, viewers |-> d.viewers]]
            /\ refresh' = None
            /\ UNCHANGED <<joined, round, history>>
  BY DEF RefreshActive
<1>3. d.index \in Index /\ d.viewers \in Nat /\ (Recorded(refresh.heard) # {} => Dominates(refresh.heard, d.index))
  BY <1>1, DominantTypes
<1>4. CASE /\ active' = [active EXCEPT !.candidate = NoCandidate, !.demanded = d.index]
           /\ refresh' = None
           /\ IF refresh.heard # demand THEN switches' = 0 /\ strays' = {} ELSE UNCHANGED history
           /\ UNCHANGED <<joined, round>>
  <2>1. active' \in Producer /\ active'.head = active.head /\ active'.demanded = d.index
    BY <1>1, <1>3, <1>4 DEF Producer
  <2>2. switches' \in 0 .. 2 /\ strays' \subseteq Viewer
    BY <1>1, <1>4 DEF TypeOK, history
  <2>3. TypeOK' /\ Chosen'
    BY <1>1, <1>4, <2>1, <2>2, NoneAssumption DEF IInv, TypeOK, Chosen
  <2>4. Steady'
    <3>1. CASE refresh.heard # demand
      BY <1>4, <3>1 DEF Steady, Calm
    <3>2. CASE refresh.heard = demand
      <4>1. switches' = switches /\ strays' = strays
        BY <1>4, <3>2 DEF history
      <4>2. Recorded(demand) # {} /\ Renewed => Renewed'
        BY <1>1, <1>3, <1>4, <2>1, <3>2, <4>1 DEF Renewed, TypeOK
      <4> QED BY <1>1, <4>1, <4>2 DEF IInv, Steady, Calm
    <3> QED BY <3>1, <3>2
  <2> QED BY <2>3, <2>4 DEF IInv
<1>5. CASE /\ ShouldSwitch(active, d) /\ Over(round)
           /\ IF refresh.heard # demand THEN switches' = 0 /\ strays' = {}
              ELSE switches' = Switched /\ UNCHANGED strays
  <2>1. Switched \in 0 .. 2
    BY <1>1 DEF Switched, TypeOK
  <2>2. switches' \in 0 .. 2 /\ strays' \subseteq Viewer
    BY <1>1, <1>5, <2>1 DEF TypeOK
  <2>3. Steady'
    <3>1. CASE refresh.heard # demand
      BY <1>5, <3>1 DEF Steady, Calm
    <3>2. CASE refresh.heard = demand /\ Recorded(demand) # {}
      <4>1. ~Renewed
        BY <1>1, <1>5, <3>2, DominantStays DEF Renewed
      <4>2. switches' = 1 /\ strays' = {}
        BY <1>5, <3>2, <4>1 DEF IInv, Steady, Calm, Switched
      <4> QED BY <1>1, <1>5, <4>2, OverIInv
    <3>3. CASE Recorded(demand) = {}
      BY <1>1, <3>3 DEF Steady
    <3> QED BY <3>1, <3>2, <3>3
  <2> QED BY <1>1, <1>5, <2>2, <2>3, OverIInv DEF IInv
<1>6. CASE /\ active' = [active EXCEPT !.candidate = [index |-> d.index, viewers |-> d.viewers]]
           /\ refresh' = None
           /\ UNCHANGED <<joined, round, history>>
  <2>1. active' \in Producer /\ active'.head = active.head /\ active'.demanded = active.demanded
    BY <1>1, <1>3, <1>6 DEF Producer
  <2>2. TypeOK' /\ Chosen'
    BY <1>1, <1>6, <2>1, NoneAssumption DEF IInv, TypeOK, Chosen, history
  <2>3. Steady'
    BY <1>1, <1>6, <2>1, SteadyKept DEF history
  <2> QED BY <2>2, <2>3 DEF IInv
<1> QED BY <1>2, <1>4, <1>5, <1>6

\* The producer was over before the demands were judged.
LEMMA RefreshLateIInv ==
    ASSUME IInv, RefreshLate
    PROVE  IInv'
<1>1. /\ TypeOK /\ refresh.heard \in Demands /\ refresh.past \in Producer
      /\ refresh.past.demanded \in Index /\ round \in [Viewer -> Round]
      /\ UNCHANGED <<demand, waiting, joined, active, published>> /\ refresh' = None
  BY DEF IInv, TypeOK, RefreshLate, Refreshing, Producer
<1>2. PICK d \in Dominant(refresh.heard, refresh.past.demanded, refresh.past) :
        \/ /\ Shift(round, refresh.past, d.index)
           /\ IF refresh.heard # demand THEN switches' = 0 /\ strays' = {} ELSE UNCHANGED history
        \/ UNCHANGED <<round, history>>
  BY DEF RefreshLate
<1>3. d.index \in Index /\ (Recorded(refresh.heard) # {} => Dominates(refresh.heard, d.index))
  BY <1>1, DominantTypes
<1>4. CASE UNCHANGED <<round, history>>
  <2>1. TypeOK' /\ Chosen'
    BY <1>1, <1>4 DEF IInv, TypeOK, Chosen, history
  <2>2. Steady'
    BY <1>1, <1>4, SteadyKept DEF history
  <2> QED BY <2>1, <2>2 DEF IInv
<1>5. CASE /\ Shift(round, refresh.past, d.index)
           /\ IF refresh.heard # demand THEN switches' = 0 /\ strays' = {} ELSE UNCHANGED history
  <2>1. /\ round' \in [Viewer -> Round]
        /\ \A v \in Viewer :
             /\ round'[v].current = round[v].current /\ round'[v].at = round[v].at
             /\ round'[v].index = round[v].index /\ round'[v].heard = round[v].heard
             /\ round'[v].past = round[v].past \/ round'[v].past.demanded = d.index
             /\ round[v].past = None => round'[v].past = None
    BY <1>1, <1>3, <1>5, ShiftRounds
  <2>2. switches' \in 0 .. 2 /\ strays' \subseteq Viewer
    BY <1>1, <1>5 DEF TypeOK, history
  <2>3. TypeOK' /\ Chosen'
    BY <1>1, <2>1, <2>2 DEF IInv, TypeOK, Chosen
  <2>4. Steady'
    <3>1. CASE refresh.heard # demand
      BY <1>5, <3>1 DEF Steady, Calm
    <3>2. CASE refresh.heard = demand
      <4>1. switches' = switches /\ strays' = strays
        BY <1>5, <3>2 DEF history
      <4>2. Recorded(demand) # {} /\ Renewed => Renewed'
        BY <1>1, <1>3, <2>1, <3>2, <4>1 DEF Renewed, TypeOK
      <4> QED BY <1>1, <4>1, <4>2 DEF IInv, Steady, Calm
    <3> QED BY <3>1, <3>2
  <2> QED BY <2>3, <2>4 DEF IInv
<1> QED BY <1>2, <1>4, <1>5

\* Steps that end the producer without a judgement, or go on with it.
LEMMA ProducerIInv ==
    ASSUME IInv, Idle \/ Publish \/ Stall
    PROVE  IInv'
<1>1. /\ TypeOK /\ active \in Producer /\ active # None /\ active.head # Segments - 1
      /\ UNCHANGED <<demand, waiting, history>> /\ waiting' \in [Viewer -> Index \cup {None}]
      /\ switches' \in 0 .. 2 /\ strays' \subseteq Viewer
  BY DEF IInv, TypeOK, Idle, Publish, Stall, history
<1>2. CASE Over(round)
  BY <1>1, <1>2, OverIInv DEF IInv
<1>3. CASE Publish /\ ~Over(round)
  <2> DEFINE next == IF active.head = None THEN active.start ELSE active.head + 1
  <2>1. next # Segments - 1 /\ active' = [active EXCEPT !.head = next] /\ UNCHANGED <<joined, round, refresh>>
    BY <1>3 DEF Publish
  <2>2. next \in Index
    BY <1>1, DemandAssumption DEF Producer, Index
  <2>3. active' \in Producer /\ active'.head = next /\ active'.demanded = active.demanded
    BY <1>1, <2>1, <2>2 DEF Producer
  <2> HIDE DEF next
  <2>4. TypeOK' /\ Chosen'
    BY <1>1, <2>1, <2>3, NoneAssumption DEF IInv, TypeOK, Chosen
  <2>5. Steady'
    BY <1>1, <2>1, <2>3, SteadyKept DEF history
  <2> QED BY <2>4, <2>5 DEF IInv
<1> QED BY <1>2, <1>3 DEF Idle, Stall

\* A request ends.
LEMMA EndIInv ==
    ASSUME IInv, NEW v \in Viewer, Serve(v) \/ Leave(v)
    PROVE  IInv'
<1>1. UNCHANGED <<demand, round, refresh, active, switches, strays>>
  BY DEF Serve, Leave, history
<1>2. waiting' \in [Viewer -> Index \cup {None}] /\ joined' \in [Viewer -> BOOLEAN]
  BY DEF IInv, TypeOK, Serve, Leave
<1>3. TypeOK' /\ Chosen'
  BY <1>1, <1>2 DEF IInv, TypeOK, Chosen
<1>4. Steady'
  BY <1>1, SteadyKept
<1> QED BY <1>3, <1>4 DEF IInv

LEMMA AgeIInv ==
    ASSUME IInv, NEW v \in Viewer, Age(v)
    PROVE  IInv'
<1>1. demand' \in Demands
  BY DEF IInv, TypeOK, Age, Demands
<1>2. switches' = 0 /\ strays' = {} /\ UNCHANGED <<waiting, joined, round, refresh, active>>
  BY DEF Age
<1>3. TypeOK' /\ Chosen'
  BY <1>1, <1>2 DEF IInv, TypeOK, Chosen
<1>4. Steady'
  BY <1>2 DEF Steady, Calm
<1> QED BY <1>3, <1>4 DEF IInv

LEMMA NextIInv == IInv /\ [Next]_vars => IInv'
<1> SUFFICES ASSUME IInv, [Next]_vars
             PROVE  IInv'
  OBVIOUS
<1>1. CASE \E v \in Viewer, i \in Asked : Ask(v, i)
  BY <1>1, AskIInv
<1>2. ASSUME NEW v \in Viewer, Ensure(v)
      PROVE  IInv'
  BY <1>2, RoundIInv, JudgeIInv, StartIInv, EndIInv DEF Ensure
<1>3. CASE \E v \in Viewer : Leave(v) \/ Age(v)
  BY <1>3, EndIInv, AgeIInv
<1>4. CASE ListenAgain \/ Refresh
  BY <1>4, ListenAgainIInv, RefreshIInv, RefreshLateIInv DEF Refresh
<1>5. CASE Idle \/ Publish \/ Stall
  BY <1>5, ProducerIInv
<1>6. CASE UNCHANGED vars
  <2>1. TypeOK' /\ Chosen'
    BY <1>6 DEF vars, IInv, TypeOK, Chosen
  <2>2. Steady'
    BY <1>6, SteadyKept DEF vars
  <2> QED BY <2>1, <2>2 DEF IInv
<1> QED BY <1>1, <1>2, <1>3, <1>4, <1>5, <1>6 DEF Next

---------------------------------------------------------------------------
\* The whole inductive invariant.
LEMMA DemandInvariant == Spec => []IInv
<1>1. Init => IInv
  BY InitIInv
<1>2. IInv /\ [Next]_vars => IInv'
  BY NextIInv
<1> QED BY <1>1, <1>2, PTL DEF Spec

\* For any number of viewers, segments, requests and rounds of #ensureRequest and
\* #refreshDemand that interleave at each of their awaits: while the recorded demands
\* stay the same, the judgements of them replace at most one producer, and a request
\* that another has overtaken stops at most one successor more.
THEOREM NoThrashing == Spec => []AtMostOneSwitch
<1>1. IInv => AtMostOneSwitch
  BY DEF IInv, Steady, AtMostOneSwitch
<1> QED BY <1>1, DemandInvariant, PTL

=============================================================================
