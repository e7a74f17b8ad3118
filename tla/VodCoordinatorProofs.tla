------------------------ MODULE VodCoordinatorProofs ------------------------
(***************************************************************************)
(* What holds of module VodCoordinator for every number of sessions,       *)
(* requests, stops and attempts: no producer outlives the stop or the      *)
(* close that was to end it, and the coordinator's maps say what is going  *)
(* on.  The invariant has four parts.  AttemptsInv: the maps know every    *)
(* attempt, and one lease per session keeps #active from being             *)
(* overwritten.  ChainInv: the stops of a session can be numbered so that  *)
(* each waits for one that is not before its predecessors, hence only the  *)
(* first of them is past its wait.  FencesInv: pendingEnsures counts the   *)
(* requests inside ensure, so that a fence is dropped only when none of    *)
(* them could have noted it, and a request whose fence stands has seen     *)
(* every stop.  AwaitInv: a stop, and a close, awaits all that lives.      *)
(***************************************************************************)
EXTENDS VodCoordinator, FiniteSetTheorems, TLAPS

---------------------------------------------------------------------------
(* The inductive invariant.                                                *)

Outcomes == {"pending", "none", "error", "handed"}
Awaited == [start : Attempt \cup {None}, producers : SUBSET Attempt]
AttemptTypes ==
    /\ starting \in [Session -> Attempt \cup {None}]
    /\ active \in [Session -> Attempt \cup {None}]
    /\ phase \in [Attempt -> Phases] /\ for \in [Attempt -> Session \cup {None}]
    /\ result \in [Attempt -> Outcomes]
FenceTypes ==
    /\ sessionFences \in [Session -> Nat] /\ pendingEnsures \in [Session -> Nat]
    /\ rpc \in [Request -> RequestPcs] /\ fence \in [Request -> Nat \X Nat]
StopTypes ==
    /\ stopOperations \in [Session -> Stopper \cup {None}]
    /\ kpc \in [Stopper -> {"idle", "called", "stopping", "done"}]
    /\ previous \in [Stopper -> Stopper \cup {None}]
OtherTypes ==
    /\ lifecycleFence \in Nat
    /\ stopping \in [Caller -> Awaited]
    /\ stops \in [Session -> Nat] /\ epoch \in [Request \cup Attempt -> Nat]

\* Where the maps have an attempt, by how far it got; and one lease per session.
Begun == {"claiming", "starting"}
AttemptInv(i) ==
    /\ phase[i] # "unused" => for[i] \in Session
    /\ phase[i] \in Begun => starting[for[i]] = i
    /\ phase[i] \in Running => active[for[i]] = i
    /\ i \in reserved => phase[i] \in Begun
    /\ phase[i] \in Begun \cup {"unused"} => result[i] = "pending"
    /\ i \in grants => i \in acquired
    /\ i \in acquired => phase[i] \in {"producing", "catching", "removed", "cleaning"}
OneLease ==
    \A i, j \in Attempt :
        i # j /\ phase[i] \in Leasing /\ phase[j] \in Leasing => for[i] # for[j]
AttemptsInv == AttemptTypes /\ (\A i \in Attempt : AttemptInv(i)) /\ OneLease

\* pendingEnsures counts the requests inside ensure.
Inside(r) == rpc[r] \notin {"idle", "refused"}
Within(s) == {r \in Request : SessionOf[r] = s /\ Inside(r)}
Counted == \A s \in Session : pendingEnsures[s] = Cardinality(Within(s))

\* The stops of a session wait for one another in the order they were called in,
\* and stopOperations has the last of them.
InProgress(k) == kpc[k] \in {"called", "stopping"}
Rivals(k, j) == k # j /\ InProgress(k) /\ InProgress(j) /\ StopSession[k] = StopSession[j]
Ordered(order) ==
    /\ \A k, j \in Stopper : Rivals(k, j) => order[k] # order[j]
    /\ \A k, j \in Stopper : Rivals(k, j) /\ stopOperations[StopSession[j]] = j =>
         order[k] < order[j]
    /\ \A k, j \in Stopper : Rivals(k, j) /\ order[k] < order[j] =>
         /\ kpc[j] = "called" /\ previous[j] \in Stopper /\ InProgress(previous[j])
         /\ StopSession[previous[j]] = StopSession[j] /\ order[k] <= order[previous[j]]
ChainInv ==
    /\ StopTypes
    /\ \E order \in [Stopper -> Nat] : Ordered(order)
    /\ \A s \in Session : LET k == stopOperations[s] IN
         k # None => StopSession[k] = s /\ InProgress(k)
    /\ \A k \in Stopper : InProgress(k) => stopOperations[StopSession[k]] # None

\* A request whose fence still stands has seen every stop that got past its own.
FenceInv(r) ==
    LET s == SessionOf[r] IN
    Inside(r) =>
      /\ fence[r][2] <= sessionFences[s]
      /\ fence[r][2] = sessionFences[s] =>
           /\ epoch[r] = stops[s]
           /\ \A k \in Stopper : StopSession[k] = s => kpc[k] # "stopping"

FencesInv ==
    FenceTypes /\ Counted /\ FencesCollected /\ \A r \in Request : FenceInv(r)

\* A stop, and a close, awaits whatever lives of its session.
Awaits(c, s) ==
    \A i \in Attempt : Live(i) /\ for[i] = s =>
      i = stopping[c].start \/ i \in stopping[c].producers
AwaitInv ==
    /\ \A k \in Stopper : kpc[k] = "stopping" => Awaits(k, StopSession[k])
    /\ closed => \A s \in Session : Awaits(s, s)

IInv == OtherTypes /\ AttemptsInv /\ ChainInv /\ FencesInv /\ AwaitInv /\ StopIsFinal
---------------------------------------------------------------------------
(* Fences.                                                                 *)

\* Only finitely many requests are inside ensure.
LEMMA WithinFinite == \A s \in Session : IsFiniteSet(Within(s))
<1>1. IsFiniteSet(Request) BY CoordinatorAssumption
<1>2. \A s \in Session : Within(s) \subseteq Request BY DEF Within
<1> QED BY <1>1, <1>2, FS_Subset

\* A request that stays inside ensure leaves the fences as they are.
LEMMA FencesStay ==
  ASSUME FencesInv, UNCHANGED <<sessionFences, pendingEnsures, stopOperations, fence, stops>>,
         rpc' \in [Request -> RequestPcs], \A q \in Request : Inside(q)' <=> Inside(q),
         \A q \in Request : epoch'[q] = epoch[q],
         \A k \in Stopper : kpc'[k] = "stopping" => kpc[k] = "stopping"
  PROVE  FencesInv'
<1>1. \A s \in Session : Within(s)' = Within(s) BY DEF Within
<1>2. Counted' BY <1>1 DEF FencesInv, Counted
<1>3. FenceTypes' /\ FencesCollected' BY DEF FencesInv, FenceTypes, FencesCollected
<1>4. \A q \in Request : FenceInv(q)' BY DEF FencesInv, FenceInv
<1> QED BY <1>2, <1>3, <1>4 DEF FencesInv

\* The finally block of ensure.
LEMMA LeaveKeepsFences ==
  ASSUME FencesInv, NEW r \in Request, NEW l \in {"idle", "refused"}, Inside(r), Leave(r, l),
         UNCHANGED <<stops, kpc>>, \A q \in Request : epoch'[q] = epoch[q]
  PROVE  FencesInv'
<1> DEFINE s == SessionOf[r]
<1>0. s \in Session BY CoordinatorAssumption
<1>1. FenceTypes /\ Counted /\ FencesCollected BY DEF FencesInv
<1>2. Within(s)' = Within(s) \ {r} /\ r \in Within(s)
  BY <1>1 DEF Leave, Within, Inside, FenceTypes
<1>3. \A t \in Session \ {s} : Within(t)' = Within(t)
  BY <1>1 DEF Leave, Within, Inside, FenceTypes
<1>4. /\ Cardinality(Within(s)') = Cardinality(Within(s)) - 1
      /\ Cardinality(Within(s)) \in Nat \ {0}
      /\ Cardinality(Within(s)) = 1 => Within(s) = {r}
  <2>1. IsFiniteSet(Within(s)) BY <1>0, WithinFinite
  <2>2. Cardinality(Within(s)) \in Nat BY <2>1, FS_CardinalityType
  <2>3. Cardinality(Within(s) \ {r}) = Cardinality(Within(s)) - 1
    BY <1>2, <2>1, FS_RemoveElement
  <2>4. Within(s) # {} BY <1>2
  <2>5. Cardinality(Within(s)) # 0 BY <2>1, <2>4, FS_EmptySet
  <2>6. Cardinality(Within(s)) = 1 => Within(s) = {r}
    <3>1. Cardinality(Within(s)) = 1 => \E x : Within(s) = {x} BY <2>1, FS_Singleton
    <3> QED BY <1>2, <3>1
  <2> QED BY <1>2, <2>2, <2>3, <2>5, <2>6
<1>5. pendingEnsures[s] = Cardinality(Within(s)) BY <1>0, <1>1 DEF Counted
<1>6. /\ pendingEnsures'[s] = pendingEnsures[s] - 1
      /\ \A t \in Session \ {s} : /\ pendingEnsures'[t] = pendingEnsures[t]
                                  /\ sessionFences'[t] = sessionFences[t]
      /\ sessionFences'[s] =
           IF pendingEnsures[s] = 1 /\ stopOperations[s] = None THEN 0 ELSE sessionFences[s]
      /\ stopOperations' = stopOperations
  BY <1>0, <1>1 DEF Leave, FenceTypes
<1>7. FenceTypes'
  <2>1. pendingEnsures[s] - 1 \in Nat BY <1>4, <1>5
  <2>2. pendingEnsures' \in [Session -> Nat] BY <1>0, <1>1, <2>1 DEF Leave, FenceTypes
  <2>3. sessionFences' \in [Session -> Nat]
    <3>1. (IF pendingEnsures[s] = 1 /\ stopOperations[s] = None THEN 0 ELSE sessionFences[s]) \in Nat
      BY <1>0, <1>1 DEF FenceTypes
    <3> QED BY <1>0, <1>1, <3>1 DEF Leave, FenceTypes
  <2>4. rpc' \in [Request -> RequestPcs] BY <1>1 DEF Leave, FenceTypes, RequestPcs
  <2>5. fence' \in [Request -> Nat \X Nat]
    <3>1. <<0, 0>> \in Nat \X Nat OBVIOUS
    <3> QED BY <1>1, <3>1 DEF Leave, FenceTypes
  <2> QED BY <2>2, <2>3, <2>4, <2>5 DEF FenceTypes
<1>8. Counted'
  <2>1. pendingEnsures'[s] = Cardinality(Within(s)') BY <1>4, <1>5, <1>6
  <2>2. ASSUME NEW t \in Session \ {s} PROVE pendingEnsures'[t] = Cardinality(Within(t)')
    BY <1>1, <1>3, <1>6 DEF Counted
  <2> QED BY <2>1, <2>2 DEF Counted
<1>9. FencesCollected' BY <1>0, <1>1, <1>4, <1>5, <1>6 DEF FencesCollected
<1>10. ASSUME NEW q \in Request PROVE FenceInv(q)'
  <2>1. CASE q = r BY <1>1, <2>1 DEF FenceInv, Inside, Leave, FenceTypes
  <2>2. CASE q # r /\ Inside(q)
    <3>1. FenceInv(q) /\ SessionOf[q] \in Session
      BY CoordinatorAssumption DEF FencesInv
    <3>2. fence'[q] = fence[q] BY <1>1, <2>2 DEF Leave, FenceTypes
    <3>3. sessionFences'[SessionOf[q]] = sessionFences[SessionOf[q]]
      <4>1. CASE SessionOf[q] = s
        <5>1. q \in Within(s) BY <2>2, <4>1 DEF Within
        <5> QED BY <1>4, <1>5, <1>6, <2>2, <4>1, <5>1
      <4>2. CASE SessionOf[q] # s BY <1>6, <3>1, <4>2
      <4> QED BY <4>1, <4>2
    <3> QED BY <2>2, <3>1, <3>2, <3>3 DEF FenceInv
  <2>3. CASE q # r /\ ~Inside(q) BY <1>1, <2>3 DEF FenceInv, Inside, Leave, FenceTypes
  <2> QED BY <2>1, <2>2, <2>3
<1> QED BY <1>7, <1>8, <1>9, <1>10 DEF FencesInv

\* Goto stays inside.
LEMMA GotoKeepsFences ==
  ASSUME FencesInv, NEW r \in Request, NEW l \in RequestPcs \ {"idle", "refused"}, NEW i,
         Inside(r), Goto(r, l, i),
         UNCHANGED <<stops, kpc>>, \A q \in Request : epoch'[q] = epoch[q]
  PROVE  FencesInv'
<1>1. rpc \in [Request -> RequestPcs] BY DEF FencesInv, FenceTypes
<1>2. rpc' \in [Request -> RequestPcs] BY <1>1 DEF Goto
<1>3. \A q \in Request : Inside(q)' <=> Inside(q) BY <1>1 DEF Goto, Inside
<1>4. UNCHANGED <<sessionFences, pendingEnsures, stopOperations, fence>>
  BY DEF Goto, fenceVars
<1> QED BY <1>2, <1>3, <1>4, FencesStay

\* ensure notes the fences as they are, while no stop is in progress.
LEMMA EnterKeepsFences ==
  ASSUME FencesInv, ChainInv, OtherTypes, NEW r \in Request, Enter(r)
  PROVE  FencesInv'
<1> DEFINE s == SessionOf[r]
<1>0. s \in Session /\ Attempt \cap Request = {} BY CoordinatorAssumption
<1>1. FenceTypes /\ Counted /\ FencesCollected BY DEF FencesInv
<1>2. Within(s)' = Within(s) \cup {r} /\ r \notin Within(s)
  BY <1>1 DEF Enter, Within, Inside, FenceTypes
<1>3. \A t \in Session \ {s} : Within(t)' = Within(t)
  BY <1>1 DEF Enter, Within, Inside, FenceTypes
<1>4. /\ pendingEnsures'[s] = pendingEnsures[s] + 1
      /\ \A t \in Session \ {s} : pendingEnsures'[t] = pendingEnsures[t]
      /\ sessionFences' = sessionFences /\ stopOperations' = stopOperations
      /\ stops' = stops /\ kpc' = kpc /\ stopOperations[s] = None
  BY <1>0, <1>1 DEF Enter, FenceTypes, stopVars
<1>5. FenceTypes'
  <2>1. pendingEnsures' \in [Session -> Nat] BY <1>0, <1>1 DEF Enter, FenceTypes
  <2>2. rpc' \in [Request -> RequestPcs] BY <1>1 DEF Enter, FenceTypes, RequestPcs
  <2>3. <<lifecycleFence, sessionFences[s]>> \in Nat \X Nat
    BY <1>0, <1>1 DEF FenceTypes, OtherTypes
  <2>4. fence' \in [Request -> Nat \X Nat] BY <1>1, <2>3 DEF Enter, FenceTypes
  <2> QED BY <1>1, <1>4, <2>1, <2>2, <2>4 DEF FenceTypes
<1>6. Counted'
  <2>1. IsFiniteSet(Within(s)) BY <1>0, WithinFinite
  <2>2. Cardinality(Within(s)') = Cardinality(Within(s)) + 1 BY <1>2, <2>1, FS_AddElement
  <2>3. pendingEnsures'[s] = Cardinality(Within(s)') BY <1>0, <1>1, <1>4, <2>2 DEF Counted
  <2>4. ASSUME NEW t \in Session \ {s} PROVE pendingEnsures'[t] = Cardinality(Within(t)')
    BY <1>1, <1>3, <1>4 DEF Counted
  <2> QED BY <2>3, <2>4 DEF Counted
<1>7. FencesCollected'
  <2>1. pendingEnsures'[s] # 0 BY <1>0, <1>1, <1>4 DEF FenceTypes
  <2> QED BY <1>0, <1>1, <1>4, <2>1 DEF FencesCollected
<1>8. ASSUME NEW q \in Request PROVE FenceInv(q)'
  <2>1. CASE q = r
    <3>1. fence'[r] = <<lifecycleFence, sessionFences[s]>> BY <1>1 DEF Enter, FenceTypes
    <3>2. epoch'[r] = stops[s] BY DEF Enter, OtherTypes
    <3>3. \A k \in Stopper : StopSession[k] = s => kpc[k] # "stopping"
      BY <1>0, <1>4 DEF ChainInv, InProgress
    <3>4. sessionFences[s] \in Nat BY <1>0, <1>1 DEF FenceTypes
    <3> QED BY <1>4, <2>1, <3>1, <3>2, <3>3, <3>4 DEF FenceInv
  <2>2. CASE q # r
    <3>1. fence'[q] = fence[q] /\ rpc'[q] = rpc[q] /\ epoch'[q] = epoch[q]
      BY <1>1, <2>2 DEF Enter, FenceTypes, OtherTypes
    <3>2. FenceInv(q) BY DEF FencesInv
    <3> QED BY <1>4, <3>1, <3>2 DEF FenceInv, Inside
  <2> QED BY <2>1, <2>2
<1> QED BY <1>5, <1>6, <1>7, <1>8 DEF FencesInv
---------------------------------------------------------------------------
(* The steps of a request.                                                 *)

\* A step of a request touches no stop, no drain and no close; what it starts, it
\* starts behind a fence that still stands.
LEMMA RequestPart ==
  ASSUME IInv, NEW r \in Request,
         UNCHANGED <<closed, lifecycleFence, stopOperations, kpc, previous, stops>>,
         stopping' \in [Caller -> Awaited],
         \A c \in Stopper \cup Session : stopping'[c] = stopping[c],
         epoch' \in [Request \cup Attempt -> Nat], AttemptsInv', FencesInv',
         \A i \in Attempt : Live(i)' =>
           \/ Live(i) /\ for'[i] = for[i] /\ epoch'[i] = epoch[i]
           \/ Inside(r) /\ NotFenced(r) /\ for'[i] = SessionOf[r] /\ epoch'[i] = epoch[r]
  PROVE  IInv'
<1>1. OtherTypes' BY DEF IInv, OtherTypes
<1>2. ChainInv' BY DEF IInv, ChainInv, StopTypes, Ordered, Rivals, InProgress
<1>3. NotFenced(r) /\ Inside(r) =>
        /\ ~closed /\ epoch[r] = stops[SessionOf[r]]
        /\ \A k \in Stopper : StopSession[k] = SessionOf[r] => kpc[k] # "stopping"
  <2>1. FenceInv(r) BY DEF IInv, FencesInv
  <2> QED BY <2>1 DEF NotFenced, FenceInv
<1>4. AwaitInv'
  <2>1. ASSUME NEW k \in Stopper, kpc[k] = "stopping" PROVE Awaits(k, StopSession[k])'
    <3>1. Awaits(k, StopSession[k]) BY <2>1 DEF IInv, AwaitInv
    <3> QED BY <1>3, <2>1, <3>1 DEF Awaits
  <2>2. ASSUME closed, NEW s \in Session PROVE Awaits(s, s)'
    <3>1. Awaits(s, s) BY <2>2 DEF IInv, AwaitInv
    <3> QED BY <1>3, <2>2, <3>1 DEF Awaits
  <2> QED BY <2>1, <2>2 DEF AwaitInv
<1>5. StopIsFinal'
  <2>1. SessionOf[r] \in Session BY CoordinatorAssumption
  <2>2. stops[SessionOf[r]] \in Nat BY <2>1 DEF IInv, OtherTypes
  <2>3. StopIsFinal BY DEF IInv
  <2> QED BY <1>3, <2>2, <2>3 DEF StopIsFinal
<1> QED BY <1>1, <1>2, <1>4, <1>5 DEF IInv

\* A step that starts and stops nothing.
LEMMA IdleRequestPart ==
  ASSUME IInv, NEW r \in Request, UNCHANGED <<lifecycleVars, attemptVars, stopVars, stopping, stops>>,
         stopOperations' = stopOperations, epoch' \in [Request \cup Attempt -> Nat],
         \A i \in Attempt : epoch'[i] = epoch[i], FencesInv'
  PROVE  IInv'
<1>1. UNCHANGED <<closed, lifecycleFence, kpc, previous, stops, starting, active, reserved, phase,
                  for, result, acquired, grants>>
  BY DEF lifecycleVars, attemptVars, stopVars, grantVars
<1>2. stopping' \in [Caller -> Awaited] BY DEF IInv, OtherTypes
<1>3. AttemptsInv' BY <1>1 DEF IInv, AttemptsInv, AttemptTypes, AttemptInv, OneLease
<1>4. \A i \in Attempt : Live(i)' => Live(i) BY <1>1 DEF Live
<1> QED BY <1>1, <1>2, <1>3, <1>4, RequestPart

\* A request leaves ensure, on whichever way out.
LEMMA LeaveKeeps ==
  ASSUME IInv, NEW r \in Request, NEW l \in {"idle", "refused"}, Inside(r), Leave(r, l),
         UNCHANGED <<lifecycleVars, attemptVars, stopVars, stopping, stops, epoch>>
  PROVE  IInv'
<1>1. FencesInv' BY LeaveKeepsFences DEF IInv, stopVars
<1>2. epoch' \in [Request \cup Attempt -> Nat] /\ stopOperations' = stopOperations
  BY DEF IInv, OtherTypes, Leave
<1> QED BY <1>1, <1>2, IdleRequestPart

\* A request goes on to its next await.
LEMMA GotoKeeps ==
  ASSUME IInv, NEW r \in Request, NEW l \in RequestPcs \ {"idle", "refused"}, NEW i,
         Inside(r), Goto(r, l, i),
         UNCHANGED <<lifecycleVars, attemptVars, stopVars, stopping, stops, epoch>>
  PROVE  IInv'
<1>1. FencesInv' BY GotoKeepsFences DEF IInv, stopVars
<1>2. epoch' \in [Request \cup Attempt -> Nat] /\ stopOperations' = stopOperations
  BY DEF IInv, OtherTypes, Goto, fenceVars
<1> QED BY <1>1, <1>2, IdleRequestPart

\* A request enters ensure.
LEMMA EnterKeeps == ASSUME IInv, NEW r \in Request, Enter(r) PROVE IInv'
<1>1. FencesInv' BY EnterKeepsFences DEF IInv
<1>2. SessionOf[r] \in Session /\ Attempt \cap Request = {} BY CoordinatorAssumption
<1>3. epoch' \in [Request \cup Attempt -> Nat] /\ \A i \in Attempt : epoch'[i] = epoch[i]
  BY <1>2 DEF IInv, OtherTypes, Enter
<1>4. stopOperations' = stopOperations BY DEF Enter
<1>5. UNCHANGED <<lifecycleVars, attemptVars, stopVars, stopping, stops>> BY DEF Enter
<1> QED BY <1>1, <1>3, <1>4, <1>5, IdleRequestPart

\* A step that calls #stopProducer.
LEMMA StopProducerKeeps ==
  ASSUME IInv, NEW r \in Request, NEW l \in RequestPcs \ {"idle", "refused"}, NEW i,
         Inside(r), Goto(r, l, i), StopProducer(r, SessionOf[r]),
         UNCHANGED <<lifecycleVars, starting, active, reserved, phase, for, result, grantVars,
                     stopVars, stops, epoch>>
  PROVE  IInv'
<1>1. FencesInv' BY GotoKeepsFences DEF IInv, stopVars
<1>2. epoch' \in [Request \cup Attempt -> Nat] /\ stopOperations' = stopOperations
  BY DEF IInv, OtherTypes, Goto, fenceVars
<1>3. /\ SessionOf[r] \in Session /\ Session \cap Request = {} /\ Request \cap Stopper = {}
  BY CoordinatorAssumption
<1>4. starting[SessionOf[r]] \in Attempt \cup {None} /\ {active[SessionOf[r]]} \ {None} \subseteq Attempt
  BY <1>3 DEF IInv, AttemptsInv, AttemptTypes
<1>5. [start |-> starting[SessionOf[r]], producers |-> {active[SessionOf[r]]} \ {None}] \in Awaited
  BY <1>4 DEF Awaited
<1>6. r \in Caller /\ r \notin Stopper \cup Session BY <1>3 DEF Caller
<1>7. stopping' \in [Caller -> Awaited] /\ \A c \in Stopper \cup Session : stopping'[c] = stopping[c]
  BY <1>5, <1>6 DEF IInv, OtherTypes, StopProducer, Caller
<1>8. UNCHANGED <<closed, lifecycleFence, kpc, previous, stops, starting, active, reserved, phase,
                  for, result, acquired, grants>>
  BY DEF lifecycleVars, stopVars, grantVars
<1>9. AttemptsInv' BY <1>8 DEF IInv, AttemptsInv, AttemptTypes, AttemptInv, OneLease
<1>10. \A j \in Attempt : Live(j)' => Live(j) BY <1>8 DEF Live
<1> QED BY <1>1, <1>2, <1>7, <1>8, <1>9, <1>10, RequestPart

\* A new attempt takes the place that #starting has free.
LEMMA BeginKeepsAttempts ==
  ASSUME AttemptsInv, NEW s \in Session, NEW i \in Attempt, phase[i] = "unused",
         starting[s] = None, reserved' = reserved \cup {i},
         starting' = [starting EXCEPT ![s] = i], phase' = [phase EXCEPT ![i] = "claiming"],
         for' = [for EXCEPT ![i] = s], UNCHANGED <<active, result, acquired, grants>>
  PROVE  AttemptsInv' /\ \A j \in Attempt \ {i} : for'[j] = for[j] /\ phase'[j] = phase[j]
<1>1. AttemptTypes BY DEF AttemptsInv
<1>2. None \notin Attempt BY CoordinatorAssumption
<1>3. /\ phase'[i] = "claiming" /\ for'[i] = s
      /\ \A j \in Attempt \ {i} : for'[j] = for[j] /\ phase'[j] = phase[j]
  BY <1>1 DEF AttemptTypes
<1>4. starting'[s] = i /\ \A t \in Session \ {s} : starting'[t] = starting[t]
  BY <1>1 DEF AttemptTypes
<1>5. AttemptTypes' BY <1>1 DEF AttemptTypes, Phases
<1>6. ASSUME NEW j \in Attempt PROVE AttemptInv(j)'
  <2>0. AttemptInv(j) BY DEF AttemptsInv
  <2>1. CASE j = i BY <1>3, <1>4, <2>0, <2>1 DEF AttemptInv, Begun, Running
  <2>2. CASE j # i
    <3>1. phase[j] \in Begun => for[j] \in Session /\ for[j] # s
      BY <1>2, <2>0 DEF AttemptInv, Begun
    <3> QED BY <1>3, <1>4, <2>0, <2>2, <3>1 DEF AttemptInv
  <2> QED BY <2>1, <2>2
<1>7. OneLease' BY <1>3 DEF AttemptsInv, OneLease, Leasing
<1> QED BY <1>3, <1>5, <1>6, <1>7 DEF AttemptsInv

\* #start, behind a fence that stands.
LEMMA StartKeeps ==
  ASSUME IInv, NEW r \in Request, Inside(r), NotFenced(r), Start(r),
         UNCHANGED <<lifecycleVars, stopVars, stops, stopping>>
  PROVE  IInv'
<1> DEFINE s == SessionOf[r]
<1>0. s \in Session BY CoordinatorAssumption
<1>1. CASE Goto(r, "joining", starting[s]) /\ UNCHANGED <<attemptVars, epoch>>
  BY <1>1, GotoKeeps DEF RequestPcs
<1>2. CASE Goto(r, "session", None) /\ UNCHANGED <<attemptVars, epoch>>
  BY <1>2, GotoKeeps DEF RequestPcs
<1>3. CASE Leave(r, "refused") /\ UNCHANGED <<attemptVars, epoch>> BY <1>3, LeaveKeeps
<1>4. ASSUME NEW i \in Attempt, starting[s] = None, phase[i] = "unused", Goto(r, "joining", i),
             reserved' = reserved \cup {i}, starting' = [starting EXCEPT ![s] = i],
             phase' = [phase EXCEPT ![i] = "claiming"], for' = [for EXCEPT ![i] = s],
             epoch' = [epoch EXCEPT ![i] = epoch[r]],
             UNCHANGED <<active, aborted, result, grantVars>>
      PROVE  IInv'
  <2>1. AttemptsInv' /\ \A j \in Attempt \ {i} : for'[j] = for[j] /\ phase'[j] = phase[j]
    BY <1>0, <1>4, BeginKeepsAttempts DEF IInv, grantVars
  <2>2. Attempt \cap Request = {} BY CoordinatorAssumption
  <2>3. epoch' \in [Request \cup Attempt -> Nat] BY <1>4 DEF IInv, OtherTypes
  <2>4. \A q \in Request : epoch'[q] = epoch[q] BY <1>4, <2>2 DEF IInv, OtherTypes
  <2>5. epoch'[i] = epoch[r] /\ \A j \in Attempt \ {i} : epoch'[j] = epoch[j]
    BY <1>4 DEF IInv, OtherTypes
  <2>6. FencesInv' BY <1>4, <2>4, GotoKeepsFences DEF IInv, stopVars, RequestPcs
  <2>7. for'[i] = s BY <1>4 DEF IInv, AttemptsInv, AttemptTypes
  <2>8. \A j \in Attempt : Live(j)' =>
          \/ Live(j) /\ for'[j] = for[j] /\ epoch'[j] = epoch[j]
          \/ Inside(r) /\ NotFenced(r) /\ for'[j] = s /\ epoch'[j] = epoch[r]
    BY <2>1, <2>5, <2>7 DEF Live
  <2>9. /\ UNCHANGED <<closed, lifecycleFence, stopOperations, kpc, previous, stops>>
        /\ stopping' \in [Caller -> Awaited]
        /\ \A c \in Stopper \cup Session : stopping'[c] = stopping[c]
    BY <1>4 DEF lifecycleVars, stopVars, Goto, fenceVars, IInv, OtherTypes
  <2> QED BY <2>1, <2>3, <2>6, <2>8, <2>9, RequestPart
<1> QED BY <1>1, <1>2, <1>3, <1>4 DEF Start

\* Every step of a request keeps the invariant.
LEMMA RequestKeeps == ASSUME IInv, NEW r \in Request, RequestStep(r) PROVE IInv'
<1> USE DEF RequestPcs
<1>1. CASE Enter(r) BY <1>1, EnterKeeps
<1>2. CASE ReadSession(r)
  <2>1. Inside(r) BY <1>2 DEF ReadSession, Inside
  <2> QED BY <1>2, <2>1, LeaveKeeps, GotoKeeps DEF ReadSession
<1>3. CASE SessionEnded(r)
  <2>1. Inside(r) BY <1>3 DEF SessionEnded, Inside
  <2> QED BY <1>3, <2>1, StopProducerKeeps DEF SessionEnded
<1>4. CASE Judge(r)
  <2>1. Inside(r) BY <1>4 DEF Judge, Inside
  <2>2. CASE Leave(r, "idle") /\ UNCHANGED <<attemptVars, stopping, epoch>>
    BY <1>4, <2>1, <2>2, LeaveKeeps DEF Judge
  <2>3. CASE Goto(r, "wait", mine[r]) /\ UNCHANGED <<attemptVars, stopping, epoch>>
    BY <1>4, <2>1, <2>3, GotoKeeps DEF Judge
  <2>4. CASE /\ StopProducer(r, SessionOf[r]) /\ Goto(r, "switching", mine[r])
             /\ UNCHANGED <<starting, active, reserved, phase, for, result, epoch, grantVars>>
    BY <1>4, <2>1, <2>4, StopProducerKeeps DEF Judge
  <2>5. CASE NotFenced(r) /\ Start(r) /\ UNCHANGED stopping
    BY <1>4, <2>1, <2>5, StartKeeps DEF Judge
  <2> QED BY <1>4, <2>2, <2>3, <2>4, <2>5 DEF Judge
<1>5. CASE Replaced(r)
  <2>1. Inside(r) BY <1>5 DEF Replaced, Inside
  <2>2. CASE NotFenced(r) BY <1>5, <2>1, <2>2, StartKeeps DEF Replaced
  <2>3. CASE ~NotFenced(r) BY <1>5, <2>1, <2>3, LeaveKeeps DEF Replaced
  <2> QED BY <2>2, <2>3
<1>6. CASE Ended(r)
  <2>1. Inside(r) BY <1>6 DEF Ended, Inside
  <2> QED BY <1>6, <2>1, LeaveKeeps DEF Ended
<1>7. CASE Joined(r)
  <2>1. Inside(r) BY <1>7 DEF Joined, Inside
  <2>2. CASE Leave(r, "idle") BY <1>7, <2>1, <2>2, LeaveKeeps DEF Joined
  <2>3. CASE Goto(r, "session", None) BY <1>7, <2>1, <2>3, GotoKeeps DEF Joined
  <2>4. CASE Goto(r, "wait", mine[r]) BY <1>7, <2>1, <2>4, GotoKeeps DEF Joined
  <2> QED BY <1>7, <2>2, <2>3, <2>4 DEF Joined
<1>8. CASE WaitOver(r)
  <2>1. Inside(r) BY <1>8 DEF WaitOver, Inside
  <2> QED BY <1>8, <2>1, LeaveKeeps, GotoKeeps DEF WaitOver
<1>9. CASE Served(r)
  <2>1. Inside(r) BY <1>9 DEF Served, Inside
  <2> QED BY <1>9, <2>1, LeaveKeeps DEF Served
<1> QED BY <1>1, <1>2, <1>3, <1>4, <1>5, <1>6, <1>7, <1>8, <1>9 DEF RequestStep
---------------------------------------------------------------------------
(* The steps of an attempt, once it has begun.                             *)

\* A step of an attempt starts nothing, and leaves requests and stops as they are.
LEMMA AttemptPart ==
  ASSUME IInv, UNCHANGED <<lifecycleVars, fenceVars, requestVars, stopVars, stopping, stops, epoch>>,
         AttemptsInv', \A i \in Attempt : Live(i)' => Live(i) /\ for'[i] = for[i]
  PROVE  IInv'
<1>1. UNCHANGED <<closed, lifecycleFence, stopOperations, sessionFences, pendingEnsures, rpc, fence,
                  kpc, previous>>
  BY DEF lifecycleVars, fenceVars, requestVars, stopVars
<1>2. OtherTypes' BY <1>1 DEF IInv, OtherTypes
<1>3. ChainInv' BY <1>1 DEF IInv, ChainInv, StopTypes, Ordered, Rivals, InProgress
<1>4. FencesInv'
  <2>1. rpc' \in [Request -> RequestPcs] /\ \A q \in Request : Inside(q)' <=> Inside(q)
    BY <1>1 DEF IInv, FencesInv, FenceTypes, Inside
  <2>2. FencesInv BY DEF IInv
  <2> QED BY <1>1, <2>1, <2>2, FencesStay
<1>5. AwaitInv'
  <2>1. ASSUME NEW c, NEW s, Awaits(c, s) PROVE Awaits(c, s)' BY <2>1 DEF Awaits
  <2> QED BY <1>1, <2>1 DEF IInv, AwaitInv
<1>6. StopIsFinal' BY DEF IInv, StopIsFinal
<1> QED BY <1>2, <1>3, <1>4, <1>5, <1>6, <1>1 DEF IInv

\* The lease is granted while no other attempt of the session has it.
LEMMA ClaimKeeps == ASSUME IInv, NEW i \in Attempt, Claim(i) PROVE IInv'
<1>1. AttemptTypes /\ (\A j \in Attempt : AttemptInv(j)) /\ OneLease BY DEF IInv, AttemptsInv
<1>2. /\ phase[i] = "claiming" /\ phase'[i] = "starting"
      /\ \A j \in Attempt \ {i} : phase'[j] = phase[j]
      /\ UNCHANGED <<starting, active, reserved, for, result, acquired, grants>>
  BY <1>1 DEF Claim, AttemptTypes, grantVars
<1>3. AttemptTypes' BY <1>1 DEF Claim, AttemptTypes, Phases, grantVars
<1>4. \A j \in Attempt : AttemptInv(j)' BY <1>1, <1>2 DEF AttemptInv, Begun, Running
<1>5. OneLease' BY <1>1, <1>2 DEF OneLease, Claim
<1>6. \A j \in Attempt : Live(j)' => Live(j) /\ for'[j] = for[j] BY <1>2 DEF Live
<1> QED BY <1>3, <1>4, <1>5, <1>6, AttemptPart DEF Claim, AttemptsInv

\* A start that ends without a producer gives its place and its reservation back.
LEMMA StartFailsKeeps == ASSUME IInv, NEW i \in Attempt, StartFails(i) PROVE IInv'
<1>1. AttemptTypes /\ (\A j \in Attempt : AttemptInv(j)) /\ OneLease BY DEF IInv, AttemptsInv
<1>2. PICK outcome \in {"none", "error"} : SettleStart(i, outcome) BY DEF StartFails
<1>3. phase[i] \in Begun /\ for[i] \in Session
  BY <1>1 DEF StartFails, Begun, AttemptInv
<1>4. /\ phase'[i] = "over" /\ result'[i] = outcome
      /\ \A j \in Attempt \ {i} : phase'[j] = phase[j] /\ result'[j] = result[j]
      /\ UNCHANGED <<active, for, acquired, grants>>
  BY <1>1, <1>2 DEF StartFails, SettleStart, AttemptTypes, grantVars
<1>5. /\ reserved' = reserved \ {i}
      /\ \A s \in Session : starting[s] # i => starting'[s] = starting[s]
  BY <1>1, <1>2 DEF SettleStart, AttemptTypes
<1>6. AttemptTypes'
  <2>1. starting' \in [Session -> Attempt \cup {None}] BY <1>1, <1>2 DEF SettleStart, AttemptTypes
  <2>2. result' \in [Attempt -> Outcomes] BY <1>1, <1>2 DEF SettleStart, AttemptTypes, Outcomes
  <2>3. phase' \in [Attempt -> Phases] BY <1>1 DEF StartFails, AttemptTypes, Phases
  <2> QED BY <1>1, <1>4, <2>1, <2>2, <2>3 DEF AttemptTypes
<1>7. ASSUME NEW j \in Attempt PROVE AttemptInv(j)'
  <2>1. CASE j = i BY <1>1, <1>3, <1>4, <1>5, <2>1 DEF AttemptInv, Begun, Running
  <2>2. CASE j # i
    <3>1. AttemptInv(j) BY <1>1
    <3> QED BY <1>4, <1>5, <2>2, <3>1 DEF AttemptInv, Begun
  <2> QED BY <2>1, <2>2
<1>8. OneLease' BY <1>1, <1>4 DEF OneLease, Leasing
<1>9. \A j \in Attempt : Live(j)' => Live(j) /\ for'[j] = for[j] BY <1>4 DEF Live, Running
<1> QED BY <1>6, <1>7, <1>8, <1>9, AttemptPart DEF StartFails, AttemptsInv

\* A start hands its producer over from #starting to #active in one step.
LEMMA HandOffKeeps == ASSUME IInv, NEW i \in Attempt, HandOff(i) PROVE IInv'
<1>1. AttemptTypes /\ (\A j \in Attempt : AttemptInv(j)) /\ OneLease BY DEF IInv, AttemptsInv
<1>2. SettleStart(i, "handed") BY DEF HandOff
<1>3. phase[i] = "starting" /\ for[i] \in Session
  BY <1>1 DEF HandOff, AttemptInv
<1>4. /\ phase'[i] = "running" /\ result'[i] = "handed"
      /\ \A j \in Attempt \ {i} : phase'[j] = phase[j] /\ result'[j] = result[j]
      /\ UNCHANGED <<for, acquired, grants>>
  BY <1>1, <1>2 DEF HandOff, SettleStart, AttemptTypes, grantVars
<1>5. /\ reserved' = reserved \ {i}
      /\ \A s \in Session : starting[s] # i => starting'[s] = starting[s]
      /\ active'[for[i]] = i /\ \A s \in Session \ {for[i]} : active'[s] = active[s]
  BY <1>1, <1>2, <1>3 DEF SettleStart, AttemptTypes, HandOff
<1>6. AttemptTypes'
  <2>1. starting' \in [Session -> Attempt \cup {None}] BY <1>1, <1>2 DEF SettleStart, AttemptTypes
  <2>2. result' \in [Attempt -> Outcomes] BY <1>1, <1>2 DEF SettleStart, AttemptTypes, Outcomes
  <2>3. phase' \in [Attempt -> Phases] BY <1>1 DEF HandOff, AttemptTypes, Phases
  <2>4. active' \in [Session -> Attempt \cup {None}] BY <1>1 DEF HandOff, AttemptTypes
  <2> QED BY <1>1, <1>4, <2>1, <2>2, <2>3, <2>4 DEF AttemptTypes
<1>7. ASSUME NEW j \in Attempt PROVE AttemptInv(j)'
  <2>1. CASE j = i BY <1>1, <1>3, <1>4, <1>5, <2>1 DEF AttemptInv, Begun, Running
  <2>2. CASE j # i
    <3>1. AttemptInv(j) BY <1>1
    <3>2. phase[j] \in Running => for[j] \in Session \ {for[i]}
      BY <1>1, <1>3, <2>2, <3>1 DEF OneLease, Leasing, Running, AttemptInv
    <3> QED BY <1>4, <1>5, <2>2, <3>1, <3>2 DEF AttemptInv, Begun
  <2> QED BY <2>1, <2>2
<1>8. OneLease' BY <1>1, <1>3, <1>4 DEF OneLease, Leasing
<1>9. \A j \in Attempt : Live(j)' => Live(j) /\ for'[j] = for[j] BY <1>3, <1>4 DEF Live, Running
<1> QED BY <1>6, <1>7, <1>8, <1>9, AttemptPart DEF HandOff, AttemptsInv

\* A producer gets its slot and its source grant.
LEMMA ProduceKeeps == ASSUME IInv, NEW i \in Attempt, Produce(i) PROVE IInv'
<1>1. AttemptTypes /\ (\A j \in Attempt : AttemptInv(j)) /\ OneLease BY DEF IInv, AttemptsInv
<1>2. /\ phase[i] = "running" /\ phase'[i] = "producing"
      /\ \A j \in Attempt \ {i} : phase'[j] = phase[j]
      /\ acquired' = acquired \cup {i} /\ grants' = grants \cup {i}
      /\ UNCHANGED <<starting, active, reserved, for, result>>
  BY <1>1 DEF Produce, AttemptTypes
<1>3. AttemptTypes' BY <1>1 DEF Produce, AttemptTypes, Phases
<1>4. \A j \in Attempt : AttemptInv(j)' BY <1>1, <1>2 DEF AttemptInv, Begun, Running
<1>5. OneLease' BY <1>1, <1>2 DEF OneLease, Leasing
<1>6. \A j \in Attempt : Live(j)' => Live(j) /\ for'[j] = for[j] BY <1>2 DEF Live, Running
<1> QED BY <1>3, <1>4, <1>5, <1>6, AttemptPart DEF Produce, AttemptsInv

\* An abort alone changes nothing the invariant speaks of.
LEMMA SelfAbortKeeps == ASSUME IInv, NEW i \in Attempt, SelfAbort(i) PROVE IInv'
<1>1. UNCHANGED <<starting, active, reserved, phase, for, result, acquired, grants>>
  BY DEF SelfAbort, grantVars
<1>2. AttemptsInv' BY <1>1 DEF IInv, AttemptsInv, AttemptTypes, AttemptInv, OneLease
<1>3. \A j \in Attempt : Live(j)' => Live(j) /\ for'[j] = for[j] BY <1>1 DEF Live
<1> QED BY <1>2, <1>3, AttemptPart DEF SelfAbort

\* #run leaves its body: nothing else of the attempt changes.
LEMMA RunEndsKeeps == ASSUME IInv, NEW i \in Attempt, RunEnds(i) PROVE IInv'
<1>1. AttemptTypes /\ (\A j \in Attempt : AttemptInv(j)) /\ OneLease BY DEF IInv, AttemptsInv
<1>2. /\ phase[i] \in {"running", "producing"} /\ phase'[i] = "catching"
      /\ \A j \in Attempt \ {i} : phase'[j] = phase[j]
      /\ UNCHANGED <<starting, active, reserved, for, result, acquired, grants>>
  BY <1>1 DEF RunEnds, AttemptTypes, grantVars
<1>3. AttemptTypes' BY <1>1 DEF RunEnds, AttemptTypes, Phases, grantVars
<1>4. \A j \in Attempt : AttemptInv(j)' BY <1>1, <1>2 DEF AttemptInv, Begun, Running
<1>5. OneLease' BY <1>1, <1>2 DEF OneLease, Leasing
<1>6. \A j \in Attempt : Live(j)' => Live(j) /\ for'[j] = for[j] BY <1>2 DEF Live, Running
<1> QED BY <1>3, <1>4, <1>5, <1>6, AttemptPart DEF RunEnds, AttemptsInv

\* The finally block removes its own entry of #active, and no other.
LEMMA RunRemovedKeeps == ASSUME IInv, NEW i \in Attempt, RunRemoved(i) PROVE IInv'
<1>1. AttemptTypes /\ (\A j \in Attempt : AttemptInv(j)) /\ OneLease BY DEF IInv, AttemptsInv
<1>2. /\ phase[i] = "catching" /\ phase'[i] = "removed" /\ for[i] \in Session
      /\ \A j \in Attempt \ {i} : phase'[j] = phase[j]
      /\ \A s \in Session : active[s] # i => active'[s] = active[s]
      /\ UNCHANGED <<starting, reserved, for, result, acquired, grants>>
  BY <1>1 DEF RunRemoved, AttemptTypes, grantVars, AttemptInv
<1>3. AttemptTypes' BY <1>1 DEF RunRemoved, AttemptTypes, Phases, grantVars
<1>4. \A j \in Attempt : AttemptInv(j)' BY <1>1, <1>2 DEF AttemptInv, Begun, Running
<1>5. OneLease' BY <1>1, <1>2 DEF OneLease, Leasing
<1>6. \A j \in Attempt : Live(j)' => Live(j) /\ for'[j] = for[j] BY <1>2 DEF Live, Running
<1> QED BY <1>3, <1>4, <1>5, <1>6, AttemptPart DEF RunRemoved, AttemptsInv

\* The finally block releases the lease.
LEMMA LeaseReleasedKeeps == ASSUME IInv, NEW i \in Attempt, LeaseReleased(i) PROVE IInv'
<1>1. AttemptTypes /\ (\A j \in Attempt : AttemptInv(j)) /\ OneLease BY DEF IInv, AttemptsInv
<1>2. /\ phase[i] = "removed" /\ phase'[i] = "cleaning"
      /\ \A j \in Attempt \ {i} : phase'[j] = phase[j]
      /\ UNCHANGED <<starting, active, reserved, for, result, acquired, grants>>
  BY <1>1 DEF LeaseReleased, AttemptTypes, grantVars
<1>3. AttemptTypes' BY <1>1 DEF LeaseReleased, AttemptTypes, Phases, grantVars
<1>4. \A j \in Attempt : AttemptInv(j)' BY <1>1, <1>2 DEF AttemptInv, Begun, Running
<1>5. OneLease' BY <1>1, <1>2 DEF OneLease, Leasing
<1>6. \A j \in Attempt : Live(j)' => Live(j) /\ for'[j] = for[j] BY <1>2 DEF Live, Running
<1> QED BY <1>3, <1>4, <1>5, <1>6, AttemptPart DEF LeaseReleased, AttemptsInv

\* The grants of the whole session go; whoever still has one loses it, never the
\* attempt that is over keeps it.
LEMMA RunReleasedKeeps == ASSUME IInv, NEW i \in Attempt, RunReleased(i) PROVE IInv'
<1>1. AttemptTypes /\ (\A j \in Attempt : AttemptInv(j)) /\ OneLease BY DEF IInv, AttemptsInv
<1>2. /\ phase[i] = "cleaning" /\ phase'[i] = "over"
      /\ \A j \in Attempt \ {i} : phase'[j] = phase[j]
      /\ acquired' = acquired \ {i} /\ grants' \subseteq grants \ {i}
      /\ UNCHANGED <<starting, active, reserved, for, result>>
  BY <1>1 DEF RunReleased, AttemptTypes, AttemptInv
<1>3. AttemptTypes' BY <1>1 DEF RunReleased, AttemptTypes, Phases
<1>4. \A j \in Attempt : AttemptInv(j)' BY <1>1, <1>2 DEF AttemptInv, Begun, Running
<1>5. OneLease' BY <1>1, <1>2 DEF OneLease, Leasing
<1>6. \A j \in Attempt : Live(j)' => Live(j) /\ for'[j] = for[j] BY <1>2 DEF Live, Running
<1> QED BY <1>3, <1>4, <1>5, <1>6, AttemptPart DEF RunReleased, AttemptsInv

\* Every step of an attempt keeps the invariant.
LEMMA AttemptKeeps == ASSUME IInv, NEW i \in Attempt, AttemptStep(i) PROVE IInv'
BY ClaimKeeps, StartFailsKeeps, HandOffKeeps, ProduceKeeps, SelfAbortKeeps, RunEndsKeeps,
   RunRemovedKeeps, LeaseReleasedKeeps, RunReleasedKeeps DEF AttemptStep
---------------------------------------------------------------------------
(* #stopProducer, drain and close.                                         *)

\* Only what is awaited changes, or nothing the invariant speaks of.
LEMMA StoppingPart ==
  ASSUME IInv, lifecycleFence' \in Nat, stopping' \in [Caller -> Awaited], AwaitInv',
         UNCHANGED <<fenceVars, starting, active, reserved, phase, for, result, grantVars,
                     requestVars, stopVars, stops, epoch>>
  PROVE  IInv'
<1>1. UNCHANGED <<stopOperations, sessionFences, pendingEnsures, acquired, grants, rpc, fence, kpc,
                  previous>>
  BY DEF fenceVars, grantVars, requestVars, stopVars
<1>2. OtherTypes' BY DEF IInv, OtherTypes
<1>3. AttemptsInv' BY <1>1 DEF IInv, AttemptsInv, AttemptTypes, AttemptInv, OneLease
<1>4. ChainInv' BY <1>1 DEF IInv, ChainInv, StopTypes, Ordered, Rivals, InProgress
<1>5. FencesInv'
  <2>1. rpc' \in [Request -> RequestPcs] /\ \A q \in Request : Inside(q)' <=> Inside(q)
    BY <1>1 DEF IInv, FencesInv, FenceTypes, Inside
  <2>2. FencesInv BY DEF IInv
  <2> QED BY <1>1, <2>1, <2>2, FencesStay
<1>6. StopIsFinal' BY DEF IInv, StopIsFinal, Live
<1> QED BY <1>2, <1>3, <1>4, <1>5, <1>6 DEF IInv

\* Whoever calls #stopProducer awaits all that lives of the session.
LEMMA StopAwaits ==
  ASSUME AttemptsInv, NEW s \in Session, NEW i \in Attempt, Live(i), for[i] = s
  PROVE  i = starting[s] \/ i \in {active[s]} \ {None}
<1>1. AttemptInv(i) /\ None \notin Attempt BY CoordinatorAssumption DEF AttemptsInv
<1> QED BY <1>1 DEF AttemptInv, Live, Begun

\* A start that settled while it was awaited is over, or is now the active producer.
LEMMA StartSettledKeeps == ASSUME IInv, NEW c \in Caller, StartSettled(c) PROVE IInv'
<1> DEFINE i == stopping[c].start
           after == {active[for[i]]} \ {None}
<1>1. AttemptTypes /\ AttemptsInv /\ None \notin Attempt /\ stopping \in [Caller -> Awaited]
  BY CoordinatorAssumption DEF IInv, AttemptsInv, OtherTypes
<1>2. i \in Attempt /\ result[i] # "pending" /\ stopping[c].producers \subseteq Attempt
  BY <1>1 DEF StartSettled, Awaited
<1>3. AttemptInv(i) BY <1>1, <1>2 DEF AttemptsInv
<1>4. for[i] \in Session /\ (Live(i) => active[for[i]] = i)
  BY <1>2, <1>3 DEF AttemptInv, Live, Begun
<1>5. after \subseteq Attempt BY <1>1, <1>4 DEF AttemptTypes
<1>6. [start |-> None, producers |-> stopping[c].producers \cup after] \in Awaited
  BY <1>2, <1>5 DEF Awaited
<1>7. /\ stopping' = [stopping EXCEPT ![c] = [start |-> None,
                                            producers |-> stopping[c].producers \cup after]]
      /\ UNCHANGED <<closed, lifecycleFence, phase, for, kpc>>
  BY DEF StartSettled, lifecycleVars, stopVars
<1>8. stopping' \in [Caller -> Awaited] BY <1>1, <1>6, <1>7
<1>9. /\ stopping'[c].producers = stopping[c].producers \cup after
      /\ \A d \in Caller \ {c} : stopping'[d] = stopping[d]
  BY <1>1, <1>7
<1>10. ASSUME NEW d \in Caller, NEW s, Awaits(d, s) PROVE Awaits(d, s)'
  <2> SUFFICES ASSUME NEW j \in Attempt, Live(j), for[j] = s
               PROVE  j = stopping'[d].start \/ j \in stopping'[d].producers
    BY <1>7 DEF Awaits, Live
  <2>1. j = stopping[d].start \/ j \in stopping[d].producers BY <1>10 DEF Awaits
  <2>2. CASE d # c BY <1>9, <2>1, <2>2
  <2>3. CASE d = c /\ j = i
    <3>1. j \in after BY <1>1, <1>4, <2>3
    <3> QED BY <1>9, <2>3, <3>1
  <2>4. CASE d = c /\ j # i BY <1>9, <2>1, <2>4
  <2> QED BY <2>2, <2>3, <2>4
<1>11. AwaitInv' BY <1>7, <1>10 DEF IInv, AwaitInv, Caller
<1>12. lifecycleFence' \in Nat BY <1>7 DEF IInv, OtherTypes
<1> QED BY <1>8, <1>11, <1>12, StoppingPart DEF StartSettled

\* Once the awaited producers have ended, nothing awaited is alive.
LEMMA ProducersEndedKeeps == ASSUME IInv, NEW c \in Caller, ProducersEnded(c) PROVE IInv'
<1>1. stopping \in [Caller -> Awaited] /\ None \notin Attempt
  BY CoordinatorAssumption DEF IInv, OtherTypes
<1>2. /\ stopping' = [stopping EXCEPT ![c] = NotStopping] /\ stopping[c].start = None
      /\ \A j \in stopping[c].producers : phase[j] = "over"
      /\ UNCHANGED <<closed, lifecycleFence, phase, for, kpc>>
  BY DEF ProducersEnded, lifecycleVars, attemptVars, stopVars
<1>3. stopping' \in [Caller -> Awaited] BY <1>1, <1>2 DEF NotStopping, Awaited
<1>4. ASSUME NEW d \in Caller, NEW s, Awaits(d, s) PROVE Awaits(d, s)'
  <2>1. CASE d # c BY <1>1, <1>2, <1>4, <2>1 DEF Awaits, Live
  <2>2. CASE d = c
    <3>1. \A j \in Attempt : for[j] = s => ~Live(j)
      BY <1>1, <1>2, <1>4, <2>2 DEF Awaits, Live, Running
    <3> QED BY <1>2, <3>1 DEF Awaits, Live
  <2> QED BY <2>1, <2>2
<1>5. AwaitInv' BY <1>2, <1>4 DEF IInv, AwaitInv, Caller
<1>6. lifecycleFence' \in Nat BY <1>2 DEF IInv, OtherTypes
<1> QED BY <1>3, <1>5, <1>6, StoppingPart DEF ProducersEnded, attemptVars

\* Drain and close await whatever the two maps know.
LEMMA StopEverythingAwaits ==
  ASSUME IInv, StopEverything, UNCHANGED <<starting, active, phase, for>>
  PROVE  /\ stopping' \in [Caller -> Awaited]
         /\ \A s \in Session : Awaits(s, s)'
         /\ \A k \in Stopper : stopping'[k] = stopping[k]
<1>1. /\ stopping \in [Caller -> Awaited] /\ AttemptTypes /\ AttemptsInv
      /\ Session \cap (Request \cup Stopper) = {} /\ None \notin Attempt
  BY CoordinatorAssumption DEF IInv, OtherTypes, AttemptsInv
<1>2. ASSUME NEW c \in Caller
      PROVE  stopping'[c] = IF c \in Session
                              THEN [start |-> starting[c],
                                    producers |-> stopping[c].producers \cup ({active[c]} \ {None})]
                              ELSE stopping[c]
  BY DEF StopEverything
<1>3. ASSUME NEW s \in Session
      PROVE  /\ stopping'[s].start = starting[s] /\ stopping'[s] \in Awaited
             /\ {active[s]} \ {None} \subseteq stopping'[s].producers
  <2>1. s \in Caller BY DEF Caller
  <2>2. starting[s] \in Attempt \cup {None} /\ {active[s]} \ {None} \subseteq Attempt
    BY <1>1 DEF AttemptTypes
  <2>3. stopping[s].producers \subseteq Attempt BY <1>1, <2>1 DEF Awaited
  <2>4. stopping'[s] = [start |-> starting[s],
                        producers |-> stopping[s].producers \cup ({active[s]} \ {None})]
    BY <1>2, <2>1
  <2> QED BY <2>2, <2>3, <2>4 DEF Awaited
<1>4. \A c \in Caller : stopping'[c] \in Awaited BY <1>1, <1>2, <1>3
<1>5. stopping' \in [Caller -> Awaited] BY <1>4 DEF StopEverything
<1>6. \A s \in Session : Awaits(s, s)' BY <1>1, <1>3, StopAwaits DEF Awaits, Live
<1>7. \A k \in Stopper : stopping'[k] = stopping[k] BY <1>1, <1>2 DEF Caller
<1> QED BY <1>5, <1>6, <1>7

\* Drain and close keep the invariant.
LEMMA LifecycleKeeps == ASSUME IInv, Drain \/ Close PROVE IInv'
<1>1. /\ StopEverything /\ lifecycleFence' = lifecycleFence + 1
      /\ UNCHANGED <<fenceVars, starting, active, reserved, phase, for, result, grantVars,
                     requestVars, stopVars, stops, epoch>>
  BY DEF Drain, Close
<1>2. /\ stopping' \in [Caller -> Awaited] /\ \A s \in Session : Awaits(s, s)'
      /\ \A k \in Stopper : stopping'[k] = stopping[k]
  BY <1>1, StopEverythingAwaits
<1>3. \A k \in Stopper : kpc'[k] = "stopping" => Awaits(k, StopSession[k])'
  BY <1>1, <1>2 DEF IInv, AwaitInv, Awaits, Live, stopVars
<1>4. AwaitInv' BY <1>2, <1>3 DEF AwaitInv
<1>5. lifecycleFence' \in Nat BY <1>1 DEF IInv, OtherTypes
<1> QED BY <1>1, <1>2, <1>4, <1>5, StoppingPart

\* So does what starts, stops and awaits nothing.
LEMMA QuietKeeps ==
  ASSUME IInv, Drained \/ (\E s \in Session : RetryDue(s)) \/ UNCHANGED vars PROVE IInv'
<1>1. /\ UNCHANGED <<closed, lifecycleFence, fenceVars, starting, active, reserved, phase, for,
                     result, grantVars, requestVars, stopVars, stopping, stops, epoch>>
  BY DEF Drained, RetryDue, vars, lifecycleVars, attemptVars
<1>2. AwaitInv' BY <1>1 DEF IInv, AwaitInv, Awaits, Live, stopVars
<1> QED BY <1>1, <1>2, StoppingPart DEF IInv, OtherTypes
---------------------------------------------------------------------------
(* stop.                                                                   *)

\* A stop that is called queues behind the latest one of its session.
LEMMA StopCalledOrders ==
  ASSUME ChainInv, NEW k \in Stopper, StopCalled(k)
  PROVE  \E order \in [Stopper -> Nat] : Ordered(order)'
<1> DEFINE s == StopSession[k]
           p == stopOperations[s]
<1>1. PICK order \in [Stopper -> Nat] : Ordered(order) BY DEF ChainInv
<1>2. StopTypes /\ s \in Session /\ None \notin Stopper
  BY CoordinatorAssumption DEF ChainInv
<1>3. /\ kpc[k] = "idle" /\ kpc'[k] = "called" /\ previous'[k] = p
      /\ \A j \in Stopper \ {k} : kpc'[j] = kpc[j] /\ previous'[j] = previous[j]
      /\ stopOperations'[s] = k
      /\ \A t \in Session \ {s} : stopOperations'[t] = stopOperations[t]
  BY <1>2 DEF StopCalled, StopTypes
<1>4. p \in Stopper \cup {None} BY <1>2 DEF StopTypes
<1>5. p # None => p \in Stopper \ {k} /\ StopSession[p] = s /\ InProgress(p)
  BY <1>2, <1>3, <1>4 DEF ChainInv, InProgress
<1>6. ASSUME NEW j \in Stopper \ {k}, InProgress(j), StopSession[j] = s
      PROVE  p # None /\ order[j] <= order[p]
  <2>1. p # None BY <1>2, <1>6 DEF ChainInv
  <2>2. j = p \/ Rivals(j, p) BY <1>5, <1>6, <2>1 DEF Rivals
  <2>3. order[j] \in Nat /\ order[p] \in Nat BY <1>1, <1>5, <2>1
  <2>4. CASE j = p BY <2>1, <2>3, <2>4
  <2>5. CASE Rivals(j, p)
    <3>1. order[j] < order[p] BY <1>1, <1>5, <1>6, <2>1, <2>5 DEF Ordered
    <3> QED BY <2>1, <2>3, <3>1
  <2> QED BY <2>2, <2>4, <2>5
<1>7. PICK n \in Nat : n = IF p = None THEN 0 ELSE order[p] + 1 BY <1>1, <1>4
<1>8. PICK next \in [Stopper -> Nat] : next[k] = n /\ \A j \in Stopper \ {k} : next[j] = order[j]
  <2>1. [order EXCEPT ![k] = n] \in [Stopper -> Nat] BY <1>1, <1>7
  <2> QED BY <1>1, <2>1
<1>9. ASSUME NEW j \in Stopper, Rivals(j, k)' PROVE next[j] < next[k] /\ next[j] <= next[p] /\ p # None
  <2>1. j # k /\ InProgress(j) /\ StopSession[j] = s
    BY <1>3, <1>9 DEF Rivals, InProgress
  <2>2. p # None /\ order[j] <= order[p] BY <1>6, <2>1
  <2>3. order[j] \in Nat /\ order[p] \in Nat /\ next[p] = order[p] BY <1>1, <1>5, <1>8, <2>2
  <2> QED BY <1>7, <1>8, <2>1, <2>2, <2>3
<1>10. ASSUME NEW a \in Stopper \ {k}, NEW b \in Stopper \ {k}, Rivals(a, b)' PROVE Rivals(a, b)
  BY <1>3, <1>10 DEF Rivals, InProgress
<1>11. ASSUME NEW a \in Stopper, NEW b \in Stopper, Rivals(a, b)' PROVE next[a] # next[b]
  <2>0. a # b /\ (Rivals(a, k)' \/ a = k \/ b # k) BY <1>11 DEF Rivals
  <2>1. CASE b = k
    <3>1. next[a] < next[k] BY <1>9, <1>11, <2>1
    <3> QED BY <1>8, <2>1, <3>1
  <2>2. CASE a = k
    <3>1. Rivals(b, k)' BY <1>11, <2>2 DEF Rivals, InProgress
    <3>2. next[b] < next[k] BY <1>9, <3>1
    <3> QED BY <1>8, <2>2, <3>2
  <2>3. CASE a # k /\ b # k BY <1>1, <1>8, <1>10, <1>11, <2>3 DEF Ordered
  <2> QED BY <2>1, <2>2, <2>3
<1>12. ASSUME NEW a \in Stopper, NEW b \in Stopper, Rivals(a, b)',
              stopOperations'[StopSession[b]] = b
       PROVE  next[a] < next[b]
  <2>1. CASE b = k BY <1>9, <1>12, <2>1
  <2>2. CASE b # k
    <3>1. StopSession[b] \in Session /\ StopSession[b] # s
      BY <1>3, <1>12, <2>2, CoordinatorAssumption
    <3>2. stopOperations[StopSession[b]] = b /\ a # k
      BY <1>3, <1>12, <3>1 DEF Rivals
    <3> QED BY <1>1, <1>8, <1>10, <1>12, <2>2, <3>2 DEF Ordered
  <2> QED BY <2>1, <2>2
<1>13. ASSUME NEW a \in Stopper, NEW b \in Stopper, Rivals(a, b)', next[a] < next[b]
       PROVE  /\ kpc'[b] = "called" /\ previous'[b] \in Stopper /\ kpc'[previous'[b]] \in {"called", "stopping"}
              /\ StopSession[previous'[b]] = StopSession[b] /\ next[a] <= next[previous'[b]]
  <2>1. CASE b = k
    <3>1. next[a] <= next[p] /\ p # None BY <1>9, <1>13, <2>1
    <3> QED BY <1>3, <1>5, <2>1, <3>1 DEF InProgress
  <2>2. CASE a = k
    <3>1. Rivals(b, k)' BY <1>13, <2>2 DEF Rivals, InProgress
    <3>2. next[b] < next[k] BY <1>9, <3>1
    <3>3. next[a] \in Nat /\ next[b] \in Nat BY <1>8
    <3> QED BY <1>13, <2>2, <3>2, <3>3
  <2>3. CASE a # k /\ b # k
    <3>1. Rivals(a, b) /\ order[a] < order[b] BY <1>8, <1>10, <1>13, <2>3
    <3>2. /\ kpc[b] = "called" /\ previous[b] \in Stopper /\ InProgress(previous[b])
          /\ StopSession[previous[b]] = StopSession[b] /\ order[a] <= order[previous[b]]
      BY <1>1, <3>1 DEF Ordered
    <3>3. previous[b] # k BY <1>3, <3>2 DEF InProgress
    <3> QED BY <1>3, <1>8, <2>3, <3>2, <3>3 DEF InProgress
  <2> QED BY <2>1, <2>2, <2>3
<1>14. Ordered(next)' BY <1>11, <1>12, <1>13 DEF Ordered, InProgress
<1> QED BY <1>8, <1>14

\* A stop that is called closes the session to requests at once.
LEMMA StopCalledKeeps == ASSUME IInv, NEW k \in Stopper, StopCalled(k) PROVE IInv'
<1> DEFINE s == StopSession[k]
<1>1. ChainInv /\ StopTypes /\ FencesInv /\ FenceTypes /\ s \in Session /\ None \notin Stopper
  BY CoordinatorAssumption DEF IInv, ChainInv, FencesInv
<1>2. /\ kpc'[k] = "called" /\ previous'[k] = stopOperations[s]
      /\ \A j \in Stopper \ {k} : kpc'[j] = kpc[j]
      /\ stopOperations'[s] = k
      /\ \A t \in Session \ {s} : stopOperations'[t] = stopOperations[t]
      /\ UNCHANGED <<closed, lifecycleFence, sessionFences, pendingEnsures, starting, active,
                     reserved, phase, for, result, acquired, grants, rpc, fence, stopping, stops, epoch>>
  BY <1>1 DEF StopCalled, StopTypes, lifecycleVars, attemptVars, grantVars, requestVars
<1>3. OtherTypes' BY <1>2 DEF IInv, OtherTypes
<1>4. AttemptsInv' BY <1>2 DEF IInv, AttemptsInv, AttemptTypes, AttemptInv, OneLease
<1>5. StopTypes' BY <1>1 DEF StopCalled, StopTypes
<1>6. \E order \in [Stopper -> Nat] : Ordered(order)' BY <1>1, StopCalledOrders
<1>7. /\ \A t \in Session : LET j == stopOperations'[t] IN
            j # None => StopSession[j] = t /\ kpc'[j] \in {"called", "stopping"}
      /\ \A j \in Stopper : InProgress(j)' => stopOperations'[StopSession[j]] # None
  <2>1. ASSUME NEW t \in Session, stopOperations'[t] # None
        PROVE  StopSession[stopOperations'[t]] = t /\ kpc'[stopOperations'[t]] \in {"called", "stopping"}
    <3>1. CASE t = s BY <1>2, <3>1 DEF InProgress
    <3>2. CASE t # s
      <4>1. StopSession[stopOperations[t]] = t /\ InProgress(stopOperations[t])
        BY <1>1, <1>2, <2>1, <3>2 DEF ChainInv
      <4>2. stopOperations[t] \in Stopper \ {k}
        BY <1>1, <1>2, <2>1, <3>2, <4>1 DEF StopTypes
      <4> QED BY <1>2, <3>2, <4>1, <4>2 DEF InProgress
    <3> QED BY <3>1, <3>2
  <2>2. ASSUME NEW j \in Stopper, InProgress(j)' PROVE stopOperations'[StopSession[j]] # None
    <3>1. CASE StopSession[j] = s BY <1>1, <1>2, <3>1
    <3>2. CASE StopSession[j] # s
      <4>1. StopSession[j] \in Session /\ InProgress(j)
        BY <1>2, <2>2, <3>2, CoordinatorAssumption DEF InProgress
      <4> QED BY <1>1, <1>2, <3>2, <4>1 DEF ChainInv
    <3> QED BY <3>1, <3>2
  <2> QED BY <2>1, <2>2
<1>8. ChainInv' BY <1>5, <1>6, <1>7 DEF ChainInv, InProgress
<1>9. \A j \in Stopper : kpc'[j] = "stopping" => kpc[j] = "stopping" BY <1>2
<1>10. FencesInv'
  <2>1. FenceTypes' BY <1>1, <1>2 DEF FenceTypes
  <2>2. Counted' BY <1>1, <1>2 DEF FencesInv, Counted, Within, Inside
  <2>3. FencesCollected' BY <1>1, <1>2 DEF FencesInv, FencesCollected
  <2>4. ASSUME NEW q \in Request PROVE FenceInv(q)'
    <3>1. FenceInv(q) BY <1>1 DEF FencesInv
    <3> QED BY <1>2, <1>9, <3>1 DEF FenceInv, Inside
  <2> QED BY <2>1, <2>2, <2>3, <2>4 DEF FencesInv
<1>11. AwaitInv' BY <1>2, <1>9 DEF IInv, AwaitInv, Awaits, Live
<1>12. StopIsFinal' BY <1>2 DEF IInv, StopIsFinal, Live
<1> QED BY <1>3, <1>4, <1>8, <1>10, <1>11, <1>12 DEF IInv

\* No stop fences while an earlier one of its session is in progress.
LEMMA StopFencesKeeps == ASSUME IInv, NEW k \in Stopper, StopFences(k) PROVE IInv'
<1> DEFINE s == StopSession[k]
<1>1. /\ ChainInv /\ StopTypes /\ FencesInv /\ FenceTypes /\ AttemptsInv /\ AttemptTypes
      /\ s \in Session /\ None \notin Stopper /\ Session \cap Stopper = {} /\ None \notin Attempt
  BY CoordinatorAssumption DEF IInv, ChainInv, FencesInv, AttemptsInv
<1>2. /\ kpc[k] = "called" /\ kpc'[k] = "stopping"
      /\ \A j \in Stopper \ {k} : kpc'[j] = kpc[j]
      /\ sessionFences'[s] = sessionFences[s] + 1
      /\ \A t \in Session \ {s} : sessionFences'[t] = sessionFences[t]
      /\ UNCHANGED <<closed, lifecycleFence, stopOperations, pendingEnsures, starting, active,
                     reserved, phase, for, result, acquired, grants, rpc, fence, previous, stops,
                     epoch>>
  BY <1>1 DEF StopFences, StopTypes, FenceTypes, lifecycleVars, grantVars, requestVars
<1>3. /\ stopping' = [stopping EXCEPT ![k] = [start |-> starting[s],
                                            producers |-> {active[s]} \ {None}]]
      /\ stopping \in [Caller -> Awaited] /\ k \in Caller
  BY DEF StopFences, StopProducer, IInv, OtherTypes, Caller
<1>4. stopping' \in [Caller -> Awaited]
  <2>1. [start |-> starting[s], producers |-> {active[s]} \ {None}] \in Awaited
    BY <1>1 DEF AttemptTypes, Awaited
  <2> QED BY <1>3, <2>1
<1>5. OtherTypes' BY <1>2, <1>4 DEF IInv, OtherTypes
<1>6. AttemptsInv' BY <1>1, <1>2 DEF AttemptsInv, AttemptTypes, AttemptInv, OneLease
<1>7. StopTypes' BY <1>1, <1>2 DEF StopFences, StopTypes
<1>8. \A j \in Stopper : InProgress(j)' <=> InProgress(j) BY <1>2 DEF InProgress
<1>9. \E order \in [Stopper -> Nat] : Ordered(order)'
  <2>1. PICK order \in [Stopper -> Nat] : Ordered(order) BY <1>1 DEF ChainInv
  <2>2. \A a, b \in Stopper : Rivals(a, b)' <=> Rivals(a, b) BY <1>8 DEF Rivals
  <2>3. ASSUME NEW a \in Stopper, NEW b \in Stopper, Rivals(a, b), order[a] < order[b]
        PROVE  /\ kpc'[b] = "called" /\ previous[b] \in Stopper /\ kpc'[previous[b]] \in {"called", "stopping"}
               /\ StopSession[previous[b]] = StopSession[b] /\ order[a] <= order[previous[b]]
    <3>1. /\ kpc[b] = "called" /\ previous[b] \in Stopper /\ InProgress(previous[b])
          /\ StopSession[previous[b]] = StopSession[b] /\ order[a] <= order[previous[b]]
      BY <2>1, <2>3 DEF Ordered
    <3>2. b # k
      <4>1. previous[b] # None /\ kpc[previous[b]] # "done" BY <1>1, <3>1 DEF InProgress
      <4> QED BY <4>1 DEF StopFences
    <3>3. kpc'[previous[b]] \in {"called", "stopping"} BY <1>2, <1>8, <3>1 DEF InProgress
    <3> QED BY <1>2, <3>1, <3>2, <3>3
  <2>4. Ordered(order)' BY <1>2, <2>1, <2>2, <2>3 DEF Ordered, InProgress
  <2> QED BY <2>4
<1>10. ChainInv'
  <2>1. ASSUME NEW t \in Session, stopOperations[t] # None
        PROVE  StopSession[stopOperations[t]] = t /\ kpc'[stopOperations[t]] \in {"called", "stopping"}
    BY <1>1, <1>2, <1>8, <2>1 DEF ChainInv, StopTypes, InProgress
  <2>2. \A t \in Session : LET j == stopOperations'[t] IN
          j # None => StopSession[j] = t /\ kpc'[j] \in {"called", "stopping"}
    BY <1>2, <2>1
  <2>3. \A j \in Stopper : InProgress(j)' => stopOperations'[StopSession[j]] # None
    BY <1>1, <1>2, <1>8 DEF ChainInv
  <2> QED BY <1>7, <1>9, <2>2, <2>3 DEF ChainInv, InProgress
<1>11. FencesInv'
  <2>0. sessionFences[s] \in Nat BY <1>1 DEF FenceTypes
  <2>1. FenceTypes'
    <3>1. sessionFences' \in [Session -> Nat] BY <1>1 DEF StopFences, FenceTypes
    <3> QED BY <1>1, <1>2, <3>1 DEF FenceTypes
  <2>2. Counted' BY <1>1, <1>2 DEF FencesInv, Counted, Within, Inside
  <2>3. FencesCollected'
    <3>1. stopOperations[s] # None BY <1>1, <1>2 DEF ChainInv, InProgress
    <3> QED BY <1>1, <1>2, <3>1 DEF FencesInv, FencesCollected
  <2>4. ASSUME NEW q \in Request PROVE FenceInv(q)'
    <3>1. FenceInv(q) /\ SessionOf[q] \in Session /\ fence[q][2] \in Nat
      BY <1>1, CoordinatorAssumption DEF FencesInv, FenceTypes
    <3>2. CASE SessionOf[q] = s BY <1>2, <2>0, <3>1, <3>2 DEF FenceInv, Inside
    <3>3. CASE SessionOf[q] # s BY <1>2, <3>1, <3>3 DEF FenceInv, Inside
    <3> QED BY <3>2, <3>3
  <2> QED BY <2>1, <2>2, <2>3, <2>4 DEF FencesInv
<1>12. AwaitInv'
  <2>1. ASSUME NEW j \in Stopper, kpc'[j] = "stopping" PROVE Awaits(j, StopSession[j])'
    <3>1. CASE j = k
      <4>1. stopping'[k] = [start |-> starting[s], producers |-> {active[s]} \ {None}]
        BY <1>3
      <4>2. \A i \in Attempt : Live(i) /\ for[i] = s =>
              i = stopping'[k].start \/ i \in stopping'[k].producers
        BY <1>1, <4>1, StopAwaits
      <4> QED BY <1>2, <3>1, <4>2 DEF Awaits, Live
    <3>2. CASE j # k
      <4>1. stopping'[j] = stopping[j] BY <1>3, <3>2 DEF Caller
      <4>2. Awaits(j, StopSession[j]) BY <1>2, <2>1, <3>2 DEF IInv, AwaitInv
      <4> QED BY <1>2, <4>1, <4>2 DEF Awaits, Live
    <3> QED BY <3>1, <3>2
  <2>2. ASSUME closed', NEW t \in Session PROVE Awaits(t, t)'
    <3>1. stopping'[t] = stopping[t] /\ Awaits(t, t)
      BY <1>1, <1>2, <1>3, <2>2 DEF Caller, IInv, AwaitInv
    <3> QED BY <1>2, <3>1 DEF Awaits, Live
  <2> QED BY <2>1, <2>2 DEF AwaitInv
<1>13. StopIsFinal' BY <1>2 DEF IInv, StopIsFinal, Live
<1> QED BY <1>5, <1>6, <1>10, <1>11, <1>12, <1>13 DEF IInv

\* What a stop awaited is over when it completes, the fence it put up is kept for
\* as long as a request is inside, and it was the first of its session's stops.
LEMMA StopDoneKeeps == ASSUME IInv, NEW k \in Stopper, StopDone(k) PROVE IInv'
<1> DEFINE s == StopSession[k]
<1>1. /\ ChainInv /\ StopTypes /\ FencesInv /\ FenceTypes /\ AttemptsInv /\ OtherTypes
      /\ s \in Session /\ None \notin Stopper /\ None \notin Attempt
  BY CoordinatorAssumption DEF IInv, ChainInv, FencesInv
<1>2. /\ kpc[k] = "stopping" /\ kpc'[k] = "done"
      /\ \A j \in Stopper \ {k} : kpc'[j] = kpc[j]
      /\ stops'[s] = stops[s] + 1
      /\ \A t \in Session \ {s} : stops'[t] = stops[t]
      /\ UNCHANGED <<closed, lifecycleFence, pendingEnsures, starting, active, reserved, phase, for,
                     result, acquired, grants, rpc, fence, previous, stopping, epoch>>
  BY <1>1 DEF StopDone, StopTypes, OtherTypes, lifecycleVars, attemptVars, grantVars, requestVars
<1>3. /\ \A t \in Session \ {s} : /\ stopOperations'[t] = stopOperations[t]
                                  /\ sessionFences'[t] = sessionFences[t]
      /\ stopOperations'[s] = IF stopOperations[s] = k THEN None ELSE stopOperations[s]
      /\ sessionFences'[s] = IF stopOperations[s] = k /\ pendingEnsures[s] = 0
                               THEN 0 ELSE sessionFences[s]
  BY <1>1 DEF StopDone, StopTypes, FenceTypes
<1>4. \A i \in Attempt : Live(i) => for[i] # s
  <2>1. Awaits(k, s) BY <1>2 DEF IInv, AwaitInv
  <2>2. stopping[k].start = None /\ stopping[k].producers = {}
    BY DEF StopDone, Stopped, NotStopping
  <2> QED BY <1>1, <2>1, <2>2 DEF Awaits
<1>5. ASSUME NEW j \in Stopper
      PROVE  /\ InProgress(j)' <=> j # k /\ InProgress(j)
             /\ kpc'[j] = "stopping" => j # k /\ kpc[j] = "stopping"
  BY <1>2 DEF InProgress
<1>6. OtherTypes'
  <2>1. stops' \in [Session -> Nat] BY <1>1 DEF StopDone, OtherTypes
  <2> QED BY <1>1, <1>2, <2>1 DEF OtherTypes
<1>7. AttemptsInv' BY <1>1, <1>2 DEF AttemptsInv, AttemptTypes, AttemptInv, OneLease
<1>8. StopTypes' BY <1>1 DEF StopDone, StopTypes
<1>9. PICK order \in [Stopper -> Nat] : Ordered(order) BY <1>1 DEF ChainInv
<1>10. ASSUME NEW j \in Stopper, Rivals(j, k) PROVE order[k] < order[j] /\ stopOperations[s] # k
  <2>1. order[j] \in Nat /\ order[k] \in Nat BY <1>9
  <2>2. order[j] # order[k] BY <1>9, <1>10 DEF Ordered
  <2>3. ~(order[j] < order[k]) BY <1>2, <1>9, <1>10 DEF Ordered
  <2>4. stopOperations[s] # k BY <1>9, <1>10, <2>3 DEF Ordered
  <2> QED BY <2>1, <2>2, <2>3, <2>4
<1>11. ASSUME NEW a \in Stopper, NEW b \in Stopper, Rivals(a, b)'
       PROVE  Rivals(a, b) /\ a # k /\ b # k
  BY <1>5, <1>11 DEF Rivals
<1>12. Ordered(order)'
  <2>1. ASSUME NEW a \in Stopper, NEW b \in Stopper, Rivals(a, b)' PROVE order[a] # order[b]
    BY <1>9, <1>11, <2>1 DEF Ordered
  <2>2. ASSUME NEW a \in Stopper, NEW b \in Stopper, Rivals(a, b)',
               stopOperations'[StopSession[b]] = b
        PROVE  order[a] < order[b]
    <3>1. StopSession[b] \in Session BY CoordinatorAssumption
    <3>2. stopOperations[StopSession[b]] = b BY <1>1, <1>3, <2>2, <3>1
    <3> QED BY <1>9, <1>11, <2>2, <3>2 DEF Ordered
  <2>3. ASSUME NEW a \in Stopper, NEW b \in Stopper, Rivals(a, b)', order[a] < order[b]
        PROVE  /\ kpc'[b] = "called" /\ previous[b] \in Stopper /\ kpc'[previous[b]] \in {"called", "stopping"}
               /\ StopSession[previous[b]] = StopSession[b] /\ order[a] <= order[previous[b]]
    <3>1. Rivals(a, b) /\ a # k /\ b # k BY <1>11, <2>3
    <3>2. /\ kpc[b] = "called" /\ previous[b] \in Stopper /\ InProgress(previous[b])
          /\ StopSession[previous[b]] = StopSession[b] /\ order[a] <= order[previous[b]]
      BY <1>9, <2>3, <3>1 DEF Ordered
    <3>3. previous[b] # k
      <4>1. SUFFICES ASSUME previous[b] = k PROVE FALSE OBVIOUS
      <4>2. Rivals(a, k) BY <3>1, <3>2, <4>1 DEF Rivals
      <4>3. order[k] < order[a] BY <1>10, <4>2
      <4>4. order[a] \in Nat /\ order[k] \in Nat BY <1>9
      <4> QED BY <3>2, <4>1, <4>3, <4>4
    <3>4. kpc'[previous[b]] \in {"called", "stopping"} BY <1>2, <3>2, <3>3 DEF InProgress
    <3> QED BY <1>2, <3>1, <3>2, <3>4
  <2> QED BY <1>2, <2>1, <2>2, <2>3 DEF Ordered, InProgress
<1>13. ASSUME NEW t \in Session, stopOperations'[t] # None
       PROVE  StopSession[stopOperations'[t]] = t /\ kpc'[stopOperations'[t]] \in {"called", "stopping"}
  <2>1. stopOperations'[t] = stopOperations[t] /\ stopOperations[t] # None BY <1>3, <1>13
  <2>2. /\ stopOperations[t] \in Stopper /\ StopSession[stopOperations[t]] = t
        /\ InProgress(stopOperations[t])
    BY <1>1, <2>1 DEF ChainInv, StopTypes
  <2>3. stopOperations[t] # k BY <1>3, <1>13, <2>1, <2>2
  <2> QED BY <1>2, <2>1, <2>2, <2>3 DEF InProgress
<1>14. ASSUME NEW j \in Stopper, InProgress(j)' PROVE stopOperations'[StopSession[j]] # None
  <2>1. j # k /\ InProgress(j) /\ StopSession[j] \in Session BY <1>5, <1>14, CoordinatorAssumption
  <2>2. stopOperations[StopSession[j]] # None BY <1>1, <2>1 DEF ChainInv
  <2>3. CASE StopSession[j] # s BY <1>3, <2>1, <2>2, <2>3
  <2>4. CASE StopSession[j] = s
    <3>1. Rivals(j, k) BY <1>2, <2>1, <2>4 DEF Rivals, InProgress
    <3>2. stopOperations[s] # k BY <1>10, <3>1
    <3> QED BY <1>3, <2>2, <2>4, <3>2
  <2> QED BY <2>3, <2>4
<1>15. ChainInv'
  <2>1. \A t \in Session : LET j == stopOperations'[t] IN
          j # None => StopSession[j] = t /\ kpc'[j] \in {"called", "stopping"}
    BY <1>13
  <2> QED BY <1>8, <1>9, <1>12, <1>14, <2>1 DEF ChainInv, InProgress
<1>16. FencesInv'
  <2>1. FenceTypes'
    <3>1. sessionFences' \in [Session -> Nat] BY <1>1 DEF StopDone, FenceTypes
    <3> QED BY <1>1, <1>2, <3>1 DEF FenceTypes
  <2>2. Counted' BY <1>1, <1>2 DEF FencesInv, Counted, Within, Inside
  <2>3. FencesCollected'
    <3>1. ASSUME NEW t \in Session, pendingEnsures[t] = 0, stopOperations'[t] = None
          PROVE  sessionFences'[t] = 0
      <4>1. CASE t = s /\ stopOperations[s] = k BY <1>3, <3>1, <4>1
      <4>2. CASE ~(t = s /\ stopOperations[s] = k)
        BY <1>1, <1>3, <3>1, <4>2 DEF FencesInv, FencesCollected
      <4> QED BY <4>1, <4>2
    <3> QED BY <1>2, <3>1 DEF FencesCollected
  <2>4. ASSUME NEW q \in Request, Inside(q) PROVE FenceInv(q)'
    <3>1. FenceInv(q) /\ SessionOf[q] \in Session /\ fence[q][2] \in Nat
      BY <1>1, CoordinatorAssumption DEF FencesInv, FenceTypes
    <3>2. CASE SessionOf[q] = s
      <4>1. sessionFences[s] \in Nat BY <1>1 DEF FenceTypes
      <4>2. fence[q][2] < sessionFences[s] BY <1>2, <2>4, <3>1, <3>2, <4>1 DEF FenceInv
      <4>3. pendingEnsures[s] # 0
        <5>1. q \in Within(s) BY <2>4, <3>2 DEF Within
        <5>2. IsFiniteSet(Within(s)) BY <1>1, WithinFinite
        <5>3. Cardinality(Within(s)) # 0 BY <5>1, <5>2, FS_EmptySet
        <5> QED BY <1>1, <5>3 DEF FencesInv, Counted
      <4> QED BY <1>2, <1>3, <3>1, <3>2, <4>1, <4>2, <4>3 DEF FenceInv
    <3>3. CASE SessionOf[q] # s BY <1>2, <1>3, <1>5, <3>1, <3>3 DEF FenceInv, Inside
    <3> QED BY <3>2, <3>3
  <2>5. ASSUME NEW q \in Request, ~Inside(q) PROVE FenceInv(q)' BY <1>2, <2>5 DEF FenceInv, Inside
  <2> QED BY <2>1, <2>2, <2>3, <2>4, <2>5 DEF FencesInv
<1>17. AwaitInv' BY <1>2, <1>5 DEF IInv, AwaitInv, Awaits, Live
<1>18. StopIsFinal'
  <2>1. ASSUME NEW i \in Attempt, Live(i) PROVE epoch[i] >= stops'[for[i]]
    <3>1. AttemptInv(i) /\ StopIsFinal BY <1>1 DEF AttemptsInv, IInv
    <3>2. for[i] \in Session \ {s}
      BY <1>4, <2>1, <3>1 DEF AttemptInv, Live, Running
    <3> QED BY <1>2, <2>1, <3>1, <3>2 DEF StopIsFinal
  <2> QED BY <1>2, <2>1 DEF StopIsFinal, Live
<1> QED BY <1>6, <1>7, <1>15, <1>16, <1>17, <1>18 DEF IInv
---------------------------------------------------------------------------
(* The theorems.                                                           *)

\* The invariant holds of a coordinator that has just been made.
LEMMA InitIInv == Init => IInv
<1> SUFFICES ASSUME Init PROVE IInv OBVIOUS
<1>0. None \notin Attempt /\ None \notin Session BY CoordinatorAssumption
<1>1. OtherTypes BY DEF Init, OtherTypes, NotStopping, Awaited
<1>2. AttemptsInv
  BY <1>0 DEF Init, AttemptsInv, AttemptTypes, AttemptInv, OneLease, Outcomes, Phases, Begun,
              Running, Leasing
<1>3. ChainInv
  <2>1. [k \in Stopper |-> 0] \in [Stopper -> Nat] OBVIOUS
  <2>2. Ordered([k \in Stopper |-> 0]) BY DEF Init, Ordered, Rivals, InProgress
  <2> QED BY <2>1, <2>2 DEF Init, ChainInv, StopTypes, InProgress
<1>4. FencesInv
  <2>1. \A s \in Session : Within(s) = {} BY DEF Init, Within, Inside
  <2>2. Counted BY <2>1, FS_EmptySet DEF Init, Counted
  <2> QED BY <2>2 DEF Init, FencesInv, FenceTypes, RequestPcs, FencesCollected, FenceInv, Inside
<1>5. AwaitInv /\ StopIsFinal BY DEF Init, AwaitInv, StopIsFinal, Live, Running
<1> QED BY <1>1, <1>2, <1>3, <1>4, <1>5 DEF IInv

\* Every step keeps the invariant.
LEMMA NextIInv == IInv /\ [Next]_vars => IInv'
BY RequestKeeps, AttemptKeeps, StartSettledKeeps, ProducersEndedKeeps, StopCalledKeeps,
   StopFencesKeeps, StopDoneKeeps, LifecycleKeeps, QuietKeeps DEF Next

\* The inductive invariant holds of every reachable state.
THEOREM CoordinatorInvariant == Spec => []IInv
BY InitIInv, NextIInv, PTL DEF Spec

\* No producer outlives the stop or the close that was to end it (stop, close,
\* #assertRequestNotFenced).
THEOREM StopsHold == Spec => []StopsAreFinal
<1>1. IInv => StopsAreFinal
  <2> SUFFICES ASSUME IInv PROVE StopsAreFinal OBVIOUS
  <2>1. ASSUME closed, \A s \in Session : Stopped(s), NEW i \in Attempt, Live(i) PROVE FALSE
    <3>1. AttemptInv(i) /\ None \notin Attempt
      BY CoordinatorAssumption DEF IInv, AttemptsInv
    <3>2. for[i] \in Session BY <2>1, <3>1 DEF AttemptInv, Live, Running
    <3>3. Awaits(for[i], for[i]) BY <2>1, <3>2 DEF IInv, AwaitInv
    <3>4. stopping[for[i]].start = None /\ stopping[for[i]].producers = {}
      BY <2>1, <3>2 DEF Stopped, NotStopping
    <3> QED BY <2>1, <3>1, <3>3, <3>4 DEF Awaits
  <2> QED BY <2>1 DEF IInv, StopsAreFinal, CloseIsFinal
<1> QED BY <1>1, CoordinatorInvariant, PTL

\* #active and #starting miss no attempt, and reservations, source grants and
\* fences are given back (#startExclusive, #run, ensure).
THEOREM MapsTellTheTruth == Spec => []MapsExact
<1>1. IInv => MapsExact
  BY DEF IInv, AttemptsInv, AttemptInv, FencesInv, MapsExact, Tracked, Begun
<1> QED BY <1>1, CoordinatorInvariant, PTL

=============================================================================
