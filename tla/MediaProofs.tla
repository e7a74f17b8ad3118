----------------------------- MODULE MediaProofs -----------------------------
(***************************************************************************)
(* Proofs about what one process keeps running (module MCMedia), for any   *)
(* number of callers, slots, viewers and range requests.                   *)
(*                                                                         *)
(* Each component has an inductive invariant of its own, proved for its    *)
(* own steps; a step of the composition is a step of one component and     *)
(* leaves the variables of the others alone (ComponentSteps).              *)
(***************************************************************************)
EXTENDS MCMedia, FiniteSetTheorems, SequenceTheorems, TLAPS

---------------------------------------------------------------------------
(* The transcode slots (WorkerPool).                                       *)

Count(f, s) == Cardinality({r \in Acquirer : f[r] = s})

LEMMA CountType ==
    ASSUME NEW f, NEW s
    PROVE  Count(f, s) \in Nat /\ IsFiniteSet({r \in Acquirer : f[r] = s})
<1>1. {r \in Acquirer : f[r] = s} \subseteq Acquirer
  OBVIOUS
<1> QED BY <1>1, MediaAssumption, FS_Subset, FS_CardinalityType DEF Count

\* A caller that moves is one more where it goes, one less where it was.
LEMMA CountUp ==
    ASSUME NEW f \in [Acquirer -> P!States], NEW r \in Acquirer, NEW s, f[r] # s
    PROVE  Count([f EXCEPT ![r] = s], s) = Count(f, s) + 1
<1> DEFINE was == {x \in Acquirer : f[x] = s}
<1>1. {x \in Acquirer : [f EXCEPT ![r] = s][x] = s} = was \cup {r}
  OBVIOUS
<1>2. IsFiniteSet(was) /\ r \notin was
  BY CountType
<1>3. Cardinality(was \cup {r}) = Cardinality(was) + 1
  BY <1>2, FS_AddElement
<1> QED BY <1>1, <1>3 DEF Count

LEMMA CountDown ==
    ASSUME NEW f \in [Acquirer -> P!States], NEW r \in Acquirer, NEW s, NEW t, f[r] = s, t # s
    PROVE  /\ Count([f EXCEPT ![r] = t], s) = Count(f, s) - 1
           /\ Count(f, s) >= 1
<1> DEFINE was == {x \in Acquirer : f[x] = s}
<1>1. {x \in Acquirer : [f EXCEPT ![r] = t][x] = s} = was \ {r}
  OBVIOUS
<1>2. IsFiniteSet(was) /\ r \in was
  BY CountType
<1>3. Cardinality(was \ {r}) = Cardinality(was) - 1
  BY <1>2, FS_RemoveElement
<1>4. Cardinality(was \ {r}) \in Nat /\ Cardinality(was) \in Nat
  BY <1>2, FS_RemoveElement, FS_CardinalityType
<1> QED BY <1>1, <1>3, <1>4 DEF Count

LEMMA CountSame ==
    ASSUME NEW f \in [Acquirer -> P!States], NEW r \in Acquirer, NEW s, NEW t, f[r] # s, t # s
    PROVE  Count([f EXCEPT ![r] = t], s) = Count(f, s)
<1>1. {x \in Acquirer : [f EXCEPT ![r] = t][x] = s} = {x \in Acquirer : f[x] = s}
  OBVIOUS
<1> QED BY <1>1 DEF Count

\* The queue holds each caller that waits, once, and entries that aborted callers left.
PoolEntries ==
    /\ \A i \in 1 .. Len(waiters) : st[waiters[i]] = "waiting" \/ st[waiters[i]] = "rejected"
    /\ \A i, j \in 1 .. Len(waiters) : waiters[i] = waiters[j] => i = j
    /\ \A r \in Acquirer : st[r] = "waiting" => \E i \in 1 .. Len(waiters) : waiters[i] = r

\* While anyone waits the slots are held, promised or lost with a wake-up, and no more are
\* given than there are, but for those that newcomers took: then there is none to spare.
PoolGiven == activeWorkers + Count(st, "woken")
PoolSlots ==
    /\ (\E r \in Acquirer : st[r] = "waiting") => PoolGiven + swallowed >= maxWorkers
    /\ PoolGiven <= maxWorkers + overtaken
    /\ overtaken > 0 => PoolGiven = maxWorkers + overtaken

PoolTypes ==
    /\ st \in [Acquirer -> P!States]
    /\ waiters \in Seq(Acquirer)
    /\ aborted \in BOOLEAN
    /\ swallowed \in Nat
    /\ overtaken \in Nat
    /\ activeWorkers = Count(st, "holding")

PoolInv == PoolTypes /\ PoolEntries /\ PoolSlots

LEMMA PoolCardinality == \A X : P!Cardinality(X) = Cardinality(X)
BY DEF P!Cardinality, Cardinality

LEMMA PoolGave == P!Given = PoolGiven
BY PoolCardinality DEF P!Given, P!In, PoolGiven, Count

\* What each step starts from.
LEMMA PoolFacts ==
    ASSUME PoolInv
    PROVE  /\ activeWorkers \in Nat /\ Count(st, "woken") \in Nat /\ PoolGiven \in Nat
           /\ PoolGiven = activeWorkers + Count(st, "woken")
           /\ maxWorkers \in Nat /\ swallowed \in Nat /\ overtaken \in Nat
           /\ st \in [Acquirer -> P!States] /\ waiters \in Seq(Acquirer) /\ Len(waiters) \in Nat
           /\ \A i \in 1 .. Len(waiters) : waiters[i] \in Acquirer
           /\ activeWorkers = Count(st, "holding")
<1>1. PoolTypes
  BY DEF PoolInv
<1>2. waiters \in Seq(Acquirer) /\ Len(waiters) \in Nat /\ \A i \in 1 .. Len(waiters) : waiters[i] \in Acquirer
  BY <1>1 DEF PoolTypes
<1>3. activeWorkers \in Nat /\ Count(st, "woken") \in Nat
  BY <1>1, CountType DEF PoolTypes
<1> QED BY <1>1, <1>2, <1>3, MediaAssumption DEF PoolTypes, PoolGiven

\* A step that keeps who waits and who gave up among the queued keeps the entries.
LEMMA EntriesSame ==
    ASSUME PoolInv, waiters' = waiters,
           \A x \in Acquirer : st'[x] = "waiting" <=> st[x] = "waiting",
           \A x \in Acquirer : st[x] = "rejected" => st'[x] = "rejected" \/ \A i \in 1 .. Len(waiters) : waiters[i] # x
    PROVE  PoolEntries'
BY PoolFacts DEF PoolInv, PoolEntries

\* Slots: what a step must show of the two sums.
LEMMA SlotsMove ==
    ASSUME NEW given \in Nat, NEW lost \in Nat, NEW over \in Nat,
           PoolGiven' = given, swallowed' = lost, overtaken' = over, maxWorkers \in Nat,
           (\E x \in Acquirer : st'[x] = "waiting") => given + lost >= maxWorkers,
           given <= maxWorkers + over,
           over > 0 => given = maxWorkers + over
    PROVE  PoolSlots'
BY DEF PoolSlots

LEMMA PoolInit == P!Init => PoolInv
<1> SUFFICES ASSUME P!Init PROVE PoolInv
  OBVIOUS
<1>1. st \in [Acquirer -> P!States] /\ \A r \in Acquirer : st[r] = "new"
  BY DEF P!Init, P!States
<1>2. {r \in Acquirer : st[r] = "holding"} = {} /\ {r \in Acquirer : st[r] = "woken"} = {}
  BY <1>1
<1>3. Count(st, "holding") = 0 /\ Count(st, "woken") = 0
  BY <1>2, FS_EmptySet DEF Count
<1>4. waiters = <<>> /\ Len(waiters) = 0 /\ waiters \in Seq(Acquirer)
  BY DEF P!Init
<1>5. activeWorkers = 0 /\ aborted = FALSE /\ swallowed = 0 /\ overtaken = 0
  BY DEF P!Init
<1>6. PoolEntries
  BY <1>1, <1>4 DEF PoolEntries
<1>7. PoolSlots
  BY <1>1, <1>3, <1>5, MediaAssumption DEF PoolSlots, PoolGiven
<1> QED BY <1>1, <1>3, <1>4, <1>5, <1>6, <1>7 DEF PoolInv, PoolTypes

LEMMA PoolAcquire ==
    ASSUME PoolInv, NEW r \in Acquirer, P!Acquire(r)
    PROVE  PoolInv'
<1>1. st[r] = "new" /\ aborted' = aborted /\ aborted \in BOOLEAN
  BY DEF PoolInv, PoolTypes, P!Acquire
<1>2. /\ activeWorkers \in Nat /\ Count(st, "woken") \in Nat /\ PoolGiven \in Nat
      /\ PoolGiven = activeWorkers + Count(st, "woken")
      /\ maxWorkers \in Nat /\ swallowed \in Nat /\ overtaken \in Nat
      /\ st \in [Acquirer -> P!States] /\ waiters \in Seq(Acquirer) /\ Len(waiters) \in Nat
      /\ \A i \in 1 .. Len(waiters) : waiters[i] \in Acquirer
      /\ activeWorkers = Count(st, "holding")
  BY PoolFacts
<1>3. \A i \in 1 .. Len(waiters) : waiters[i] # r
  BY <1>1, <1>2 DEF PoolInv, PoolEntries
<1>4. CASE /\ activeWorkers' = activeWorkers + 1 /\ P!Goto(r, "holding") /\ waiters' = waiters
           /\ IF P!Given < maxWorkers THEN swallowed' = P!Less(swallowed) /\ UNCHANGED overtaken
                                      ELSE overtaken' = overtaken + 1 /\ UNCHANGED swallowed
  <2>1. st' = [st EXCEPT ![r] = "holding"]
    BY <1>4 DEF P!Goto
  <2>2. st' \in [Acquirer -> P!States] /\ \A x \in Acquirer : st'[x] = "waiting" <=> st[x] = "waiting"
    BY <1>1, <1>2, <2>1 DEF P!States
  <2>3. Count(st', "holding") = Count(st, "holding") + 1 /\ Count(st', "woken") = Count(st, "woken")
    <3>1. st[r] # "holding" /\ st[r] # "woken" /\ "holding" # "woken"
      BY <1>1
    <3>2. Count(st', "holding") = Count(st, "holding") + 1
      BY <1>2, <2>1, <3>1, CountUp
    <3>3. Count(st', "woken") = Count(st, "woken")
      BY <1>2, <2>1, <3>1, CountSame, Zenon
    <3> QED BY <3>2, <3>3
  <2>4. PoolGiven' = PoolGiven + 1
    BY <1>2, <1>4, <2>3 DEF PoolGiven, Count
  <2>5. PoolEntries'
    BY <1>2, <1>3, <1>4, <2>1, <2>2, EntriesSame
  <2>6. swallowed' \in Nat /\ overtaken' \in Nat
    BY <1>2, <1>4 DEF P!Less
  <2>7. PoolTypes'
    BY <1>1, <1>2, <1>4, <2>2, <2>3, <2>6 DEF PoolTypes, Count
  <2>8. CASE PoolGiven < maxWorkers
    <3>1. swallowed' = P!Less(swallowed) /\ overtaken' = overtaken
      BY <1>4, <2>8, PoolGave
    <3>2. P!Less(swallowed) \in Nat /\ P!Less(swallowed) + 1 >= swallowed
      BY <1>2 DEF P!Less
    <3>3. overtaken = 0
      BY <1>2, <2>8 DEF PoolInv, PoolSlots
    <3>4. (\E x \in Acquirer : st'[x] = "waiting") => (PoolGiven + 1) + P!Less(swallowed) >= maxWorkers
      <4> SUFFICES ASSUME NEW x \in Acquirer, st'[x] = "waiting"
                   PROVE  (PoolGiven + 1) + P!Less(swallowed) >= maxWorkers
        OBVIOUS
      <4>1. st[x] = "waiting"
        BY <2>2
      <4>2. PoolGiven + swallowed >= maxWorkers
        BY <4>1 DEF PoolInv, PoolSlots
      <4> DEFINE less == P!Less(swallowed)
      <4>3. less \in Nat /\ less + 1 >= swallowed
        BY <3>2
      <4>4. swallowed \in Nat /\ PoolGiven \in Nat /\ maxWorkers \in Nat
        BY <1>2
      <4>5. (PoolGiven + 1) + less >= maxWorkers
        <5> HIDE DEF less
        <5> QED BY <4>2, <4>3, <4>4
      <4> QED BY <4>5
    <3>5. PoolSlots'
      BY <1>2, <2>4, <2>8, <3>1, <3>2, <3>3, <3>4, SlotsMove
    <3> QED BY <2>5, <2>7, <3>5 DEF PoolInv
  <2>9. CASE PoolGiven >= maxWorkers
    <3>1. swallowed' = swallowed /\ overtaken' = overtaken + 1
      BY <1>2, <1>4, <2>9, PoolGave
    <3>2. PoolGiven = maxWorkers + overtaken
      BY <1>2, <2>9 DEF PoolInv, PoolSlots
    <3>3. (PoolGiven + 1) + swallowed >= maxWorkers
      BY <1>2, <2>9
    <3>4. PoolSlots'
      BY <1>2, <2>4, <3>1, <3>2, <3>3, SlotsMove
    <3> QED BY <2>5, <2>7, <3>4 DEF PoolInv
  <2> QED BY <1>2, <2>8, <2>9
<1>5. CASE P!Goto(r, "rejected") /\ UNCHANGED <<activeWorkers, waiters, P!account>>
  <2>1. st' = [st EXCEPT ![r] = "rejected"] /\ activeWorkers' = activeWorkers /\ waiters' = waiters
        /\ swallowed' = swallowed /\ overtaken' = overtaken
    BY <1>5 DEF P!Goto, P!account
  <2>0. /\ st[r] # "holding" /\ "rejected" # "holding"
        /\ st[r] # "woken" /\ "rejected" # "woken"
    BY <1>1
  <2>2. /\ st' \in [Acquirer -> P!States] /\ \A x \in Acquirer : st'[x] = "waiting" <=> st[x] = "waiting"
        /\ \A x \in Acquirer : st[x] = "rejected" => st'[x] = "rejected"
    BY <1>1, <1>2, <2>1 DEF P!States
  <2>3. Count(st', "holding") = Count(st, "holding") /\ Count(st', "woken") = Count(st, "woken")
    BY <1>2, <2>0, <2>1, CountSame, Zenon
  <2>4. PoolGiven' = PoolGiven
    BY <2>1, <2>3 DEF PoolGiven, Count
  <2>5. PoolEntries'
    BY <1>2, <2>1, <2>2, EntriesSame
  <2>6. PoolSlots'
    BY <2>1, <2>2, <2>4 DEF PoolInv, PoolSlots
  <2> QED BY <1>1, <1>2, <2>1, <2>2, <2>3, <2>5, <2>6 DEF PoolInv, PoolTypes, Count
<1>6. CASE /\ activeWorkers >= maxWorkers
           /\ waiters' = Append(waiters, r) /\ P!Goto(r, "waiting")
           /\ UNCHANGED <<activeWorkers, P!account>>
  <2>1. st' = [st EXCEPT ![r] = "waiting"] /\ activeWorkers' = activeWorkers
        /\ swallowed' = swallowed /\ overtaken' = overtaken
    BY <1>6 DEF P!Goto, P!account
  <2>0. /\ st[r] # "holding" /\ "waiting" # "holding"
        /\ st[r] # "woken" /\ "waiting" # "woken"
    BY <1>1
  <2>2. /\ st' \in [Acquirer -> P!States]
        /\ \A x \in Acquirer : st'[x] = "waiting" <=> st[x] = "waiting" \/ x = r
        /\ \A x \in Acquirer : st[x] = "rejected" => st'[x] = "rejected"
    BY <1>1, <1>2, <2>1 DEF P!States
  <2>3. Count(st', "holding") = Count(st, "holding") /\ Count(st', "woken") = Count(st, "woken")
    BY <1>2, <2>0, <2>1, CountSame, Zenon
  <2>4. PoolGiven' = PoolGiven
    BY <2>1, <2>3 DEF PoolGiven, Count
  <2>5. /\ waiters' \in Seq(Acquirer) /\ Len(waiters') = Len(waiters) + 1
        /\ waiters'[Len(waiters) + 1] = r
        /\ \A i \in 1 .. Len(waiters) : waiters'[i] = waiters[i] /\ waiters[i] \in Acquirer
    BY <1>2, <1>6
  <2>6. PoolEntries'
    <3>0. /\ Len(waiters) \in Nat /\ Len(waiters) + 1 \in 1 .. Len(waiters')
          /\ \A i \in 1 .. Len(waiters') : i \in 1 .. Len(waiters) \/ i = Len(waiters) + 1
          /\ \A i \in 1 .. Len(waiters) : i \in 1 .. Len(waiters') /\ i # Len(waiters) + 1
      BY <1>2, <2>5
    <3>5. /\ \A i \in 1 .. Len(waiters) : st[waiters[i]] = "waiting" \/ st[waiters[i]] = "rejected"
          /\ \A i, j \in 1 .. Len(waiters) : waiters[i] = waiters[j] => i = j
          /\ \A x \in Acquirer : st[x] = "waiting" => \E i \in 1 .. Len(waiters) : waiters[i] = x
      BY DEF PoolInv, PoolEntries
    <3>1. \A i \in 1 .. Len(waiters') : st'[waiters'[i]] = "waiting" \/ st'[waiters'[i]] = "rejected"
      BY <2>2, <2>5, <3>0, <3>5, Zenon
    <3>2. \A i, j \in 1 .. Len(waiters') : waiters'[i] = waiters'[j] => i = j
      <4> SUFFICES ASSUME NEW i \in 1 .. Len(waiters'), NEW j \in 1 .. Len(waiters'),
                          waiters'[i] = waiters'[j]
                   PROVE  i = j
        OBVIOUS
      <4>1. CASE i \in 1 .. Len(waiters) /\ j \in 1 .. Len(waiters)
        BY <2>5, <3>5, <4>1
      <4>2. CASE i = Len(waiters) + 1 \/ j = Len(waiters) + 1
        BY <1>3, <2>5, <3>0, <4>2
      <4> QED BY <3>0, <4>1, <4>2
    <3>3. \A x \in Acquirer : st'[x] = "waiting" => \E i \in 1 .. Len(waiters') : waiters'[i] = x
      <4> SUFFICES ASSUME NEW x \in Acquirer, st'[x] = "waiting"
                   PROVE  \E i \in 1 .. Len(waiters') : waiters'[i] = x
        OBVIOUS
      <4>1. CASE x = r
        BY <2>5, <3>0, <4>1
      <4>2. CASE x # r
        <5>1. PICK i \in 1 .. Len(waiters) : waiters[i] = x
          BY <2>2, <3>5, <4>2
        <5> QED BY <2>5, <3>0, <5>1
      <4> QED BY <4>1, <4>2
    <3> QED BY <3>1, <3>2, <3>3 DEF PoolEntries
  <2>7. PoolGiven + swallowed >= maxWorkers
    BY <1>2, <1>6
  <2>8. PoolSlots'
    BY <1>2, <2>1, <2>4, <2>7 DEF PoolInv, PoolSlots
  <2> QED BY <1>1, <1>2, <2>1, <2>2, <2>3, <2>5, <2>6, <2>8 DEF PoolInv, PoolTypes, Count
<1> QED BY <1>4, <1>5, <1>6 DEF P!Acquire

\* The entry of the caller stays in the queue.
LEMMA PoolAbort ==
    ASSUME PoolInv, NEW r \in Acquirer, P!Abort(r)
    PROVE  PoolInv'
<1>1. /\ st[r] = "waiting" /\ st' = [st EXCEPT ![r] = "rejected"] /\ aborted' = TRUE
      /\ activeWorkers' = activeWorkers /\ waiters' = waiters
      /\ swallowed' = swallowed /\ overtaken' = overtaken
  BY DEF P!Abort, P!Goto, P!account
<1>2. /\ st \in [Acquirer -> P!States] /\ waiters \in Seq(Acquirer)
      /\ \A i \in 1 .. Len(waiters) : waiters[i] \in Acquirer
      /\ swallowed \in Nat /\ overtaken \in Nat /\ activeWorkers = Count(st, "holding")
  BY PoolFacts
<1>3. Count(st', "holding") = Count(st, "holding") /\ Count(st', "woken") = Count(st, "woken")
  <2>1. /\ st[r] # "holding" /\ "rejected" # "holding"
        /\ st[r] # "woken" /\ "rejected" # "woken"
    BY <1>1
  <2> QED BY <1>1, <1>2, <2>1, CountSame, Zenon
<1>4. /\ st' \in [Acquirer -> P!States]
      /\ \A x \in Acquirer : st'[x] = "waiting" => st[x] = "waiting"
      /\ \A x \in Acquirer : st[x] = "waiting" \/ st[x] = "rejected" => st'[x] = "waiting" \/ st'[x] = "rejected"
  BY <1>1, <1>2 DEF P!States
<1>5. PoolEntries'
  BY <1>1, <1>2, <1>4 DEF PoolInv, PoolEntries
<1>6. PoolGiven' = PoolGiven
  BY <1>1, <1>3 DEF PoolGiven, Count
<1>7. PoolSlots'
  BY <1>1, <1>4, <1>6 DEF PoolInv, PoolSlots
<1> QED BY <1>1, <1>2, <1>3, <1>4, <1>5, <1>7 DEF PoolInv, PoolTypes, Count

LEMMA PoolResume ==
    ASSUME PoolInv, NEW r \in Acquirer, P!Resume(r)
    PROVE  PoolInv'
<1>1. /\ st[r] = "woken" /\ st' = [st EXCEPT ![r] = "holding"] /\ aborted' = aborted
      /\ activeWorkers' = activeWorkers + 1 /\ waiters' = waiters
      /\ swallowed' = swallowed /\ overtaken' = overtaken
  BY DEF P!Resume, P!Goto, P!account
<1>2. /\ st \in [Acquirer -> P!States] /\ waiters \in Seq(Acquirer)
      /\ \A i \in 1 .. Len(waiters) : waiters[i] \in Acquirer
      /\ activeWorkers \in Nat /\ Count(st, "woken") \in Nat
      /\ swallowed \in Nat /\ overtaken \in Nat /\ activeWorkers = Count(st, "holding")
      /\ aborted \in BOOLEAN
  BY PoolFacts DEF PoolInv, PoolTypes
<1>3. Count(st', "holding") = Count(st, "holding") + 1
  BY <1>1, <1>2, CountUp
<1>4. Count(st', "woken") = Count(st, "woken") - 1
  <2>1. "holding" # "woken"
    OBVIOUS
  <2> QED BY <1>1, <1>2, <2>1, CountDown, Zenon
<1>5. /\ st' \in [Acquirer -> P!States] /\ \A x \in Acquirer : st'[x] = "waiting" <=> st[x] = "waiting"
      /\ \A x \in Acquirer : st[x] = "rejected" => st'[x] = "rejected"
  BY <1>1, <1>2 DEF P!States
<1>6. PoolGiven' = PoolGiven
  BY <1>1, <1>2, <1>4 DEF PoolGiven, Count
<1>7. PoolEntries'
  BY <1>1, <1>2, <1>5, EntriesSame
<1>8. PoolSlots'
  BY <1>1, <1>5, <1>6 DEF PoolInv, PoolSlots
<1> QED BY <1>1, <1>2, <1>3, <1>5, <1>7, <1>8 DEF PoolInv, PoolTypes, Count

\* The slot is free, or promised to the first of the queue if it still waits.
LEMMA PoolRelease ==
    ASSUME PoolInv, NEW r \in Acquirer, P!Release(r)
    PROVE  PoolInv'
<1> DEFINE released == [st EXCEPT ![r] = "done"]
<1>1. st[r] = "holding" /\ aborted' = aborted /\ aborted \in BOOLEAN
  BY DEF PoolInv, PoolTypes, P!Release
<1>2. /\ activeWorkers \in Nat /\ Count(st, "woken") \in Nat /\ PoolGiven \in Nat
      /\ PoolGiven = activeWorkers + Count(st, "woken")
      /\ maxWorkers \in Nat /\ swallowed \in Nat /\ overtaken \in Nat
      /\ st \in [Acquirer -> P!States] /\ waiters \in Seq(Acquirer) /\ Len(waiters) \in Nat
      /\ \A i \in 1 .. Len(waiters) : waiters[i] \in Acquirer
      /\ activeWorkers = Count(st, "holding")
  BY PoolFacts
<1>3. Count(released, "holding") = activeWorkers - 1 /\ activeWorkers >= 1
  <2>1. "done" # "holding"
    OBVIOUS
  <2> QED BY <1>1, <1>2, <2>1, CountDown
<1>4. Count(released, "woken") = Count(st, "woken")
  <2>1. st[r] # "woken" /\ "done" # "woken"
    BY <1>1
  <2> QED BY <1>1, <1>2, <2>1, CountSame, Zenon
<1>5. /\ released \in [Acquirer -> P!States]
      /\ \A x \in Acquirer : released[x] = "waiting" <=> st[x] = "waiting"
      /\ \A x \in Acquirer : released[x] = "rejected" <=> st[x] = "rejected"
  BY <1>1, <1>2 DEF P!States
<1>6. activeWorkers' = activeWorkers - 1
  BY <1>2, <1>3 DEF P!Release, P!Less
<1>7. CASE waiters = <<>>
  <2>1. st' = released /\ waiters' = waiters /\ Len(waiters) = 0
        /\ overtaken' = P!Less(overtaken) /\ swallowed' = swallowed
    BY <1>7 DEF P!Release
  <2>2. P!Less(overtaken) \in Nat /\ overtaken = 0 => P!Less(overtaken) = 0
    BY <1>2 DEF P!Less
  <2>9. P!Less(overtaken) \in Nat /\ (overtaken > 0 => P!Less(overtaken) = overtaken - 1)
    BY <1>2 DEF P!Less
  <2>3. PoolGiven' = PoolGiven - 1 /\ PoolGiven - 1 \in Nat
    BY <1>2, <1>3, <1>4, <1>6, <2>1 DEF PoolGiven, Count
  <2>4. PoolEntries'
    BY <1>5, <2>1 DEF PoolInv, PoolEntries
  <2>5. \A x \in Acquirer : st'[x] # "waiting"
    BY <1>5, <2>1 DEF PoolInv, PoolEntries
  <2>6. /\ PoolGiven - 1 <= maxWorkers + P!Less(overtaken)
        /\ P!Less(overtaken) > 0 => PoolGiven - 1 = maxWorkers + P!Less(overtaken)
    BY <1>2, <2>2, <2>9 DEF PoolInv, PoolSlots
  <2>7. PoolSlots'
    BY <1>2, <2>1, <2>3, <2>5, <2>6, <2>9, SlotsMove
  <2>8. PoolTypes'
    BY <1>1, <1>2, <1>3, <1>5, <1>6, <2>1, <2>9 DEF PoolTypes, Count
  <2> QED BY <2>4, <2>7, <2>8 DEF PoolInv
<1>8. CASE waiters # <<>>
  <2> DEFINE w == Head(waiters)
  <2>1. st' = P!Woken(w, released) /\ waiters' = Tail(waiters)
        /\ \/ st[w] = "waiting" /\ swallowed' = swallowed /\ overtaken' = overtaken
           \/ /\ st[w] # "waiting" /\ overtaken' = P!Less(overtaken)
              /\ swallowed' = IF overtaken = 0 THEN swallowed + 1 ELSE swallowed
    BY <1>8 DEF P!Release, P!account
  <2>2. /\ w = waiters[1] /\ w \in Acquirer /\ Len(waiters) \in Nat /\ Len(waiters) >= 1
        /\ waiters' \in Seq(Acquirer) /\ Len(waiters') = Len(waiters) - 1
        /\ \A i \in 1 .. Len(waiters') : /\ waiters'[i] = waiters[i + 1]
                                        /\ i + 1 \in 1 .. Len(waiters)
        /\ \A i \in 1 .. Len(waiters) : waiters[i] \in Acquirer
    BY <1>2, <1>8, <2>1
  <2>3. \A i \in 1 .. Len(waiters') : waiters'[i] # w
    BY <2>2 DEF PoolInv, PoolEntries
  <2>4. \A i, j \in 1 .. Len(waiters') : waiters'[i] = waiters'[j] => i = j
    <3> SUFFICES ASSUME NEW i \in 1 .. Len(waiters'), NEW j \in 1 .. Len(waiters'),
                        waiters'[i] = waiters'[j]
                 PROVE  i = j
      OBVIOUS
    <3>1. i + 1 \in 1 .. Len(waiters) /\ j + 1 \in 1 .. Len(waiters)
          /\ waiters[i + 1] = waiters[j + 1]
      BY <2>2
    <3>2. i + 1 = j + 1
      BY <3>1 DEF PoolInv, PoolEntries
    <3> QED BY <2>2, <3>2
  <2>5. /\ \A x \in Acquirer : st'[x] = "waiting" <=> st[x] = "waiting" /\ x # w
        /\ \A x \in Acquirer : x # w /\ st[x] = "rejected" => st'[x] = "rejected"
        /\ st' \in [Acquirer -> P!States]
    <3>1. CASE released[w] = "waiting"
      <4>1. st' = [released EXCEPT ![w] = "woken"]
        BY <2>1, <3>1 DEF P!Woken
      <4> QED BY <1>5, <2>2, <4>1 DEF P!States
    <3>2. CASE released[w] # "waiting"
      <4>1. st' = released
        BY <2>1, <3>2 DEF P!Woken
      <4> QED BY <1>5, <2>2, <3>2, <4>1
    <3> QED BY <3>1, <3>2
  <2>6. PoolEntries'
    <3>1. \A i \in 1 .. Len(waiters') : st'[waiters'[i]] = "waiting" \/ st'[waiters'[i]] = "rejected"
      BY <2>2, <2>3, <2>5 DEF PoolInv, PoolEntries
    <3>2. ASSUME NEW x \in Acquirer, st'[x] = "waiting"
          PROVE  \E i \in 1 .. Len(waiters') : waiters'[i] = x
      <4>1. st[x] = "waiting" /\ x # w
        BY <2>5, <3>2
      <4>2. PICK i \in 1 .. Len(waiters) : waiters[i] = x
        BY <4>1 DEF PoolInv, PoolEntries
      <4>3. i - 1 \in 1 .. Len(waiters') /\ (i - 1) + 1 = i
        BY <2>2, <4>1, <4>2
      <4> QED BY <2>2, <4>2, <4>3
    <3> QED BY <2>4, <3>1, <3>2 DEF PoolEntries
  <2>7. CASE released[w] = "waiting"
    <3>1. st' = [released EXCEPT ![w] = "woken"]
      BY <2>1, <2>7 DEF P!Woken
    <3>5. st[w] = "waiting" /\ swallowed' = swallowed /\ overtaken' = overtaken
      BY <1>5, <2>1, <2>2, <2>7
    <3> HIDE DEF released
    <3>8. released \in [Acquirer -> P!States] /\ w \in Acquirer
      BY <1>5, <2>2
    <3>2. Count(st', "holding") = Count(released, "holding")
      <4>1. released[w] # "holding" /\ "woken" # "holding"
        BY <2>7
      <4> QED BY <3>1, <3>8, <4>1, CountSame, Zenon
    <3>3. Count(st', "woken") = Count(released, "woken") + 1
      <4>1. released[w] # "woken"
        BY <2>7
      <4>2. Count([released EXCEPT ![w] = "woken"], "woken") = Count(released, "woken") + 1
        <5> HIDE DEF w
        <5> QED BY <3>8, <4>1, CountUp
      <4> QED BY <3>1, <4>2
    <3>4. PoolGiven' = PoolGiven
      BY <1>2, <1>4, <1>6, <3>3 DEF PoolGiven, Count
    <3>6. PoolSlots'
      BY <2>2, <2>5, <3>4, <3>5 DEF PoolInv, PoolSlots
    <3>7. PoolTypes'
      BY <1>1, <1>2, <1>3, <1>6, <2>2, <2>5, <3>2, <3>5 DEF PoolTypes, Count
    <3> QED BY <2>6, <3>6, <3>7 DEF PoolInv
  <2>8. CASE released[w] # "waiting"
    <3>1. st' = released
      BY <2>1, <2>8 DEF P!Woken
    <3>2. /\ overtaken' = P!Less(overtaken)
          /\ swallowed' = IF overtaken = 0 THEN swallowed + 1 ELSE swallowed
      BY <1>5, <2>1, <2>2, <2>8
    <3> HIDE DEF released
    <3>3. PoolGiven' = PoolGiven - 1 /\ PoolGiven - 1 \in Nat
      BY <1>2, <1>3, <1>4, <1>6, <3>1 DEF PoolGiven, Count
    <3>8. (\E x \in Acquirer : st'[x] = "waiting") => \E x \in Acquirer : st[x] = "waiting"
      BY <2>5
    <3>6. PoolSlots'
      <4>1. CASE overtaken = 0
        <5>1. overtaken' = 0 /\ swallowed' = swallowed + 1 /\ swallowed + 1 \in Nat
          BY <1>2, <3>2, <4>1 DEF P!Less
        <5>2. (\E x \in Acquirer : st'[x] = "waiting") => (PoolGiven - 1) + (swallowed + 1) >= maxWorkers
          <6> SUFFICES ASSUME NEW x \in Acquirer, st'[x] = "waiting"
                       PROVE  (PoolGiven - 1) + (swallowed + 1) >= maxWorkers
            OBVIOUS
          <6>1. PoolGiven + swallowed >= maxWorkers
            BY <3>8 DEF PoolInv, PoolSlots
          <6> QED BY <1>2, <6>1
        <5>3. PoolGiven - 1 <= maxWorkers + 0
          BY <1>2, <4>1 DEF PoolInv, PoolSlots
        <5> QED BY <1>2, <3>3, <5>1, <5>2, <5>3, SlotsMove
      <4>2. CASE overtaken # 0
        <5>1. overtaken' = overtaken - 1 /\ swallowed' = swallowed /\ overtaken - 1 \in Nat
          BY <1>2, <3>2, <4>2 DEF P!Less
        <5>2. PoolGiven = maxWorkers + overtaken
          BY <1>2, <4>2 DEF PoolInv, PoolSlots
        <5>3. /\ (PoolGiven - 1) + swallowed >= maxWorkers
              /\ PoolGiven - 1 <= maxWorkers + (overtaken - 1)
              /\ PoolGiven - 1 = maxWorkers + (overtaken - 1)
          BY <1>2, <4>2, <5>2
        <5> QED BY <1>2, <3>3, <5>1, <5>3, SlotsMove
      <4> QED BY <4>1, <4>2
    <3>9. swallowed' \in Nat /\ overtaken' \in Nat
      BY <1>2, <3>2 DEF P!Less
    <3>7. PoolTypes'
      BY <1>1, <1>2, <1>3, <1>6, <2>2, <2>5, <3>1, <3>9 DEF PoolTypes, Count
    <3> QED BY <2>6, <3>6, <3>7 DEF PoolInv
  <2> QED BY <2>7, <2>8
<1> QED BY <1>7, <1>8

LEMMA PoolAgain ==
    ASSUME PoolInv, NEW r \in Acquirer, P!Again(r)
    PROVE  PoolInv'
<1>1. /\ st[r] = "rejected" \/ st[r] = "done"
      /\ st' = [st EXCEPT ![r] = "new"] /\ aborted' = aborted
      /\ activeWorkers' = activeWorkers /\ waiters' = waiters
      /\ swallowed' = swallowed /\ overtaken' = overtaken
  BY DEF P!Again, P!Goto, P!account
<1>2. /\ st \in [Acquirer -> P!States] /\ waiters \in Seq(Acquirer)
      /\ Len(waiters) \in Nat /\ \A i \in 1 .. Len(waiters) : waiters[i] \in Acquirer
      /\ swallowed \in Nat /\ overtaken \in Nat /\ activeWorkers = Count(st, "holding")
      /\ aborted \in BOOLEAN
  BY PoolFacts DEF PoolInv, PoolTypes
<1>3. \A i \in 1 .. Len(waiters) : waiters[i] # r
  <2>1. r \notin Range(waiters)
    BY DEF P!Again, P!Range, Range
  <2> QED BY <1>2, <2>1 DEF Range
<1>4. Count(st', "holding") = Count(st, "holding") /\ Count(st', "woken") = Count(st, "woken")
  <2>1. /\ st[r] # "holding" /\ "new" # "holding"
        /\ st[r] # "woken" /\ "new" # "woken"
    BY <1>1
  <2> QED BY <1>1, <1>2, <2>1, CountSame, Zenon
<1>5. /\ st' \in [Acquirer -> P!States] /\ \A x \in Acquirer : st'[x] = "waiting" <=> st[x] = "waiting"
      /\ \A x \in Acquirer : st[x] = "rejected" => st'[x] = "rejected" \/ x = r
  BY <1>1, <1>2 DEF P!States
<1>6. PoolGiven' = PoolGiven
  BY <1>1, <1>4 DEF PoolGiven, Count
<1>7. PoolEntries'
  BY <1>1, <1>3, <1>5, EntriesSame
<1>8. PoolSlots'
  BY <1>1, <1>5, <1>6 DEF PoolInv, PoolSlots
<1> QED BY <1>1, <1>2, <1>4, <1>5, <1>7, <1>8 DEF PoolInv, PoolTypes, Count

LEMMA PoolStep ==
    ASSUME PoolInv, P!Next \/ UNCHANGED pvars
    PROVE  PoolInv'
<1>1. CASE P!Next
  BY <1>1, PoolAcquire, PoolAbort, PoolResume, PoolRelease, PoolAgain DEF P!Next
<1>2. CASE UNCHANGED pvars
  BY <1>2 DEF PoolInv, PoolTypes, PoolEntries, PoolSlots, PoolGiven, Count, pvars
<1> QED BY <1>1, <1>2

LEMMA PoolSafe ==
    ASSUME PoolInv
    PROVE  P!SlotsConserved /\ P!NoSlotTwice /\ P!NoIdleSlot
<1>1. P!In("holding") = {r \in Acquirer : st[r] = "holding"}
  BY DEF P!In
<1>2. P!In("waiting") # {} => \E r \in Acquirer : st[r] = "waiting"
  BY DEF P!In
<1>3. P!SlotsConserved
  BY <1>1, PoolCardinality DEF PoolInv, PoolTypes, Count, P!SlotsConserved
<1>4. P!NoSlotTwice
  BY PoolGave DEF PoolInv, PoolSlots, P!NoSlotTwice
<1>5. P!NoIdleSlot
  BY <1>2, PoolGave DEF PoolInv, PoolSlots, P!NoIdleSlot
<1> QED BY <1>3, <1>4, <1>5

---------------------------------------------------------------------------
(* Access to the source (SourceAccess).                                    *)

\* A credential came with a command of the controller.  Once no command runs, it is that
\* of an attempt that has its slot, unless a command left early.
CredentialKept ==
    credential =>
        /\ worker
        /\ \/ \E c \in Viewer : asked[c] # "idle"
           \/ \E a \in Attempt : pc[a] \in {"preparing", "resolving", "running", "ending"}
           \/ early

\* A range request that is open is in a map; while the session exists, in the current one.
BooksKept ==
    /\ link \in [RangeRequest -> S!Token \cup {"none"}]
    /\ \A r \in RangeRequest : link[r] = "none" <=> book[r] = 0
    /\ halt.what = "forget" => deleted
    /\ ~deleted => /\ \A r \in RangeRequest : book[r] # 0 => book[r] = current
                   /\ count = Cardinality({r \in RangeRequest : link[r] # "none"})

AccessInv == S!TypeOK /\ S!GrantsEnd /\ CredentialKept /\ BooksKept

LEMMA SourceCardinality == \A X : S!Cardinality(X) = Cardinality(X)
BY DEF S!Cardinality, Cardinality

\* A request and an attempt are not the same transcoder.
LEMMA Transcoders ==
    /\ \A c \in Viewer : c \notin Attempt /\ c \in S!Token
    /\ \A a \in Attempt : a \in S!Token
    /\ \A t \in S!Token : t # "none"
BY MediaAssumption DEF S!Token

LEMMA RequestsCounted ==
    ASSUME NEW X \in SUBSET RangeRequest
    PROVE  /\ IsFiniteSet(X) /\ Cardinality(X) \in 0 .. Cardinality(RangeRequest)
           /\ \A r \in RangeRequest \ X : Cardinality(X \cup {r}) = Cardinality(X) + 1
           /\ \A r \in RangeRequest \ X : Cardinality(X) + 1 \in 0 .. Cardinality(RangeRequest)
<1>1. ASSUME NEW U \in SUBSET RangeRequest
      PROVE  IsFiniteSet(U) /\ Cardinality(U) \in 0 .. Cardinality(RangeRequest)
  <2>1. /\ IsFiniteSet(U) /\ Cardinality(U) \in Nat /\ Cardinality(RangeRequest) \in Nat
        /\ Cardinality(U) <= Cardinality(RangeRequest)
    BY MediaAssumption, FS_Subset, FS_CardinalityType
  <2> QED BY <2>1
<1>2. ASSUME NEW r \in RangeRequest \ X
      PROVE  Cardinality(X \cup {r}) = Cardinality(X) + 1
  BY <1>1, FS_AddElement
<1>3. ASSUME NEW r \in RangeRequest \ X
      PROVE  Cardinality(X) + 1 \in 0 .. Cardinality(RangeRequest)
  <2>1. X \cup {r} \in SUBSET RangeRequest
    OBVIOUS
  <2> QED BY <1>1, <1>2, <2>1
<1> QED BY <1>1, <1>2, <1>3

LEMMA AccessInit == S!Init => AccessInv
<1> SUFFICES ASSUME S!Init PROVE AccessInv
  OBVIOUS
<1>1. {r \in RangeRequest : link[r] # "none"} = {} /\ count = 0
  BY DEF S!Init
<1>2. count = Cardinality({r \in RangeRequest : link[r] # "none"})
  BY <1>1, FS_EmptySet
<1>3. count \in 0 .. S!Cardinality(RangeRequest)
  BY <1>1, RequestsCounted, SourceCardinality
<1>4. S!TypeOK
  <2>1. {credential, early, deleted} \subseteq BOOLEAN
    BY DEF S!Init
  <2>2. book \in [RangeRequest -> 0 .. MaxBooks] /\ current \in 0 .. MaxBooks
    BY MediaAssumption DEF S!Init
  <2> QED BY <1>3, <2>1, <2>2 DEF S!Init, S!TypeOK
<1>5. S!GrantsEnd
  BY Transcoders DEF S!Init, S!GrantsEnd
<1>6. BooksKept
  BY <1>2 DEF S!Init, S!Idle, BooksKept
<1> QED BY <1>4, <1>5, <1>6 DEF S!Init, AccessInv, CredentialKept

\* The finally block of a command: the credential stays for an attempt only.
LEMMA AccessFinally ==
    ASSUME AccessInv, S!Finally, pc' = pc
    PROVE  /\ {credential', early'} \subseteq BOOLEAN
           /\ grant' \in [S!Token -> {"none", "ordinary", "expired", "producer"}]
           /\ \A t \in S!Token : grant'[t] # "none" => grant[t] # "none"
           /\ credential' => /\ worker
                             /\ \/ \E a \in Attempt : pc[a] \in {"preparing", "resolving", "running", "ending"}
                                \/ early'
<1>1. CASE ~worker
  <2>1. ~credential
    BY <1>1 DEF AccessInv, CredentialKept
  <2> QED BY <1>1, <2>1 DEF S!Finally, S!access, AccessInv, S!TypeOK
<1>2. CASE worker /\ ~S!isActive
  <2>1. /\ credential' = FALSE /\ early' = FALSE
        /\ grant' = [t \in S!Token |-> "none"]
    BY <1>2 DEF S!Finally, S!Withdraw, S!deleteSourceGrants
  <2> QED BY <2>1
<1>3. CASE worker /\ S!isActive
  <2>1. /\ early' = (early \/ \E a \in Attempt : pc[a] \in {"starting", "waiting"})
        /\ credential' = credential /\ grant' = grant
    BY <1>3 DEF S!Finally
  <2>2. PICK a \in Attempt : pc[a] \in {"starting", "waiting", "preparing", "resolving", "running"}
    BY <1>3 DEF S!isActive, S!Starting, S!Active
  <2>3. early' \in BOOLEAN
    BY <2>1 DEF AccessInv, S!TypeOK
  <2> QED BY <1>3, <2>1, <2>2, <2>3 DEF AccessInv, S!TypeOK
<1> QED BY <1>1, <1>2, <1>3

\* Steps of the requests and of their transcoders.
LEMMA AccessOfRequest ==
    ASSUME AccessInv, NEW c \in Viewer,
           \/ S!executeRemoteSegment(c) \/ S!load(c) \/ S!ensured(c)
           \/ S!execute(c) \/ S!generateSegment(c) \/ S!grantExpires(c)
    PROVE  AccessInv'
<1>1. /\ pc' = pc /\ deleted' = deleted /\ halt' = halt /\ link' = link /\ book' = book
      /\ current' = current /\ count' = count /\ worker' = worker
  BY DEF S!executeRemoteSegment, S!load, S!ensured, S!execute, S!generateSegment, S!grantExpires,
         S!books, S!fixed
<1>2. BooksKept'
  BY <1>1 DEF AccessInv, BooksKept
<1>3. S!TypeOK' /\ S!GrantsEnd' /\ CredentialKept' => AccessInv'
  BY <1>2 DEF AccessInv
<1>4. CASE S!executeRemoteSegment(c)
  <2>1. asked' = [asked EXCEPT ![c] = "loading"] /\ trans' = trans
        /\ credential' = (credential \/ S!remoteSegmentCommand)
        /\ grant' = grant /\ early' = early
    BY <1>4 DEF S!executeRemoteSegment
  <2>2. asked'[c] = "loading" /\ credential' \in BOOLEAN
    BY <2>1 DEF AccessInv, S!TypeOK
  <2>3. CredentialKept'
    BY <1>1, <2>1, <2>2 DEF AccessInv, CredentialKept, S!remoteSegmentCommand
  <2> QED BY <1>1, <1>3, <2>1, <2>2, <2>3 DEF AccessInv, S!TypeOK, S!GrantsEnd
<1>5. CASE S!Finally /\ asked' = [asked EXCEPT ![c] = "idle"]
           /\ trans' \in {trans, [trans EXCEPT ![c] = "job"]}
  <2>1. CredentialKept'
    BY <1>1, <1>5, AccessFinally DEF CredentialKept
  <2>2. S!GrantsEnd'
    BY <1>1, <1>5, AccessFinally, Transcoders DEF AccessInv, S!GrantsEnd
  <2>3. S!TypeOK'
    BY <1>1, <1>5, AccessFinally DEF AccessInv, S!TypeOK
  <2> QED BY <1>3, <2>1, <2>2, <2>3
<1>6. CASE asked' = [asked EXCEPT ![c] = "ensuring"] /\ UNCHANGED <<S!access, trans>>
  <2>1. credential' = credential /\ early' = early /\ grant' = grant /\ asked'[c] = "ensuring"
    BY <1>6 DEF S!access, AccessInv, S!TypeOK
  <2>2. CredentialKept'
    BY <1>1, <2>1 DEF AccessInv, CredentialKept
  <2> QED BY <1>1, <1>3, <1>6, <2>1, <2>2 DEF AccessInv, S!TypeOK, S!GrantsEnd
<1>7. CASE S!execute(c) \/ S!generateSegment(c) \/ S!grantExpires(c)
  <2>1. /\ credential' = credential /\ early' = early /\ asked' = asked
        /\ trans' \in [Viewer -> {"idle", "job", "slot", "resolving", "running"}]
        /\ \/ grant' = grant
           \/ grant' = [grant EXCEPT ![c] = "ordinary"]
           \/ grant' = [grant EXCEPT ![c] = "expired"]
    BY <1>7 DEF S!execute, S!generateSegment, S!grantExpires, S!access, AccessInv, S!TypeOK
  <2>2. grant' \in [S!Token -> {"none", "ordinary", "expired", "producer"}]
    BY <2>1 DEF AccessInv, S!TypeOK
  <2>3. \A a \in Attempt : grant'[a] = grant[a]
    BY <2>1, Transcoders DEF AccessInv, S!TypeOK
  <2>4. S!TypeOK'
    BY <1>1, <2>1, <2>2 DEF AccessInv, S!TypeOK
  <2> QED BY <1>1, <1>3, <2>1, <2>3, <2>4 DEF AccessInv, S!GrantsEnd, CredentialKept
<1>8. S!load(c) => \/ /\ S!Finally /\ asked' = [asked EXCEPT ![c] = "idle"]
                      /\ trans' \in {trans, [trans EXCEPT ![c] = "job"]}
                   \/ asked' = [asked EXCEPT ![c] = "ensuring"] /\ UNCHANGED <<S!access, trans>>
  BY DEF S!load
<1>9. S!ensured(c) => /\ S!Finally /\ asked' = [asked EXCEPT ![c] = "idle"]
                      /\ trans' \in {trans, [trans EXCEPT ![c] = "job"]}
  BY DEF S!ensured
<1> QED BY <1>4, <1>5, <1>6, <1>7, <1>8, <1>9

\* Steps of the attempts: the grant comes with "running" and goes when they are released.
LEMMA AccessOfAttempt ==
    ASSUME AccessInv, NEW a \in Attempt,
           \/ S!start(a) \/ S!startFails(a) \/ S!handOff(a) \/ S!acquire(a) \/ S!prepare(a)
           \/ S!proxySource(a) \/ S!produced(a) \/ S!released(a)
    PROVE  AccessInv'
<1>1. /\ asked' = asked /\ trans' = trans /\ deleted' = deleted /\ halt' = halt /\ link' = link
      /\ book' = book /\ current' = current /\ count' = count /\ worker' = worker
  BY DEF S!start, S!startFails, S!handOff, S!acquire, S!prepare, S!proxySource, S!produced, S!released,
         S!books, S!fixed
<1>2. BooksKept'
  BY <1>1 DEF AccessInv, BooksKept
<1>3. CASE S!released(a)
  <2>1. /\ credential' = FALSE /\ early' = FALSE
        /\ grant' = [t \in S!Token |-> "none"]
        /\ pc' = [pc EXCEPT ![a] = "done"]
    BY <1>3 DEF S!released, S!Withdraw, S!deleteSourceGrants, S!Move
  <2>2. S!TypeOK'
    BY <1>1, <2>1 DEF AccessInv, S!TypeOK
  <2>3. S!GrantsEnd'
    BY <2>1, Transcoders DEF S!GrantsEnd
  <2> QED BY <1>2, <2>1, <2>2, <2>3 DEF AccessInv, CredentialKept
<1>4. CASE S!proxySource(a)
  <2>1. /\ credential' = credential /\ early' = early /\ pc[a] = "resolving"
        /\ grant' = [grant EXCEPT ![a] = "producer"] /\ pc' = [pc EXCEPT ![a] = "running"]
    BY <1>4 DEF S!proxySource, S!Move
  <2>2. S!TypeOK' /\ pc'[a] = "running"
    BY <1>1, <2>1 DEF AccessInv, S!TypeOK
  <2>3. S!GrantsEnd'
    BY <2>1, <2>2, Transcoders DEF AccessInv, S!GrantsEnd, S!TypeOK
  <2>4. CredentialKept'
    BY <1>1, <2>1, <2>2 DEF AccessInv, CredentialKept
  <2> QED BY <1>2, <2>2, <2>3, <2>4 DEF AccessInv
<1>5. ASSUME NEW place \in {"starting", "waiting", "preparing", "resolving", "ending", "done"},
             pc' = [pc EXCEPT ![a] = place], UNCHANGED S!access,
             pc[a] = "running" => place = "ending", pc[a] # "ending",
             pc[a] \in {"preparing", "resolving"} => place \in {"resolving", "ending"}
      PROVE  AccessInv'
  <2>1. credential' = credential /\ early' = early /\ grant' = grant
    BY <1>5 DEF S!access
  <2>2. S!TypeOK' /\ pc'[a] = place /\ \A b \in Attempt \ {a} : pc'[b] = pc[b]
    BY <1>1, <1>5, <2>1 DEF AccessInv, S!TypeOK
  <2>3. S!GrantsEnd'
    BY <1>5, <2>1, <2>2 DEF AccessInv, S!GrantsEnd
  <2>4. (\E b \in Attempt : pc[b] \in {"preparing", "resolving", "running", "ending"})
          => \E b \in Attempt : pc'[b] \in {"preparing", "resolving", "running", "ending"}
    BY <1>5, <2>2
  <2>5. CredentialKept'
    BY <1>1, <2>1, <2>4 DEF AccessInv, CredentialKept
  <2> QED BY <1>2, <2>2, <2>3, <2>5 DEF AccessInv
<1>6. CASE S!start(a)
  BY <1>5, <1>6 DEF S!start, S!Move
<1>7. CASE S!startFails(a)
  BY <1>5, <1>7 DEF S!startFails, S!Move
<1>8. CASE S!handOff(a)
  BY <1>5, <1>8 DEF S!handOff, S!Move
<1>9. CASE S!acquire(a)
  BY <1>5, <1>9 DEF S!acquire, S!Move
<1>10. CASE S!prepare(a)
  BY <1>5, <1>10 DEF S!prepare, S!Move
<1>11. CASE S!produced(a)
  BY <1>5, <1>11 DEF S!produced, S!Move
<1> QED BY <1>3, <1>4, <1>6, <1>7, <1>8, <1>9, <1>10, <1>11

\* Stops, and the collection of expired grants.
LEMMA AccessOfStop ==
    ASSUME AccessInv,
           \/ \E what \in {"stop", "drain", "delete"} : S!stopProducer(what)
           \/ S!cleanupExpired \/ S!stopped \/ S!forget
    PROVE  AccessInv'
<1>1. CASE \E what \in {"stop", "drain", "delete"} : S!stopProducer(what)
  <2>1. halt'.what \in {"stop", "drain", "delete"}
    BY <1>1 DEF S!stopProducer
  <2>2. /\ UNCHANGED <<worker, credential, grant, early, asked, trans, pc, deleted>>
        /\ UNCHANGED <<link, book, current, count>>
    BY <1>1 DEF S!stopProducer, S!fixed, S!access, S!books
  <2> QED BY <2>1, <2>2 DEF AccessInv, S!TypeOK, S!GrantsEnd, CredentialKept, BooksKept
<1>2. CASE S!cleanupExpired
  <2>1. /\ grant' = [t \in S!Token |-> IF grant[t] = "expired" THEN "none" ELSE grant[t]]
        /\ UNCHANGED <<worker, credential, early, asked, trans, pc, deleted, halt>>
        /\ UNCHANGED <<link, book, current, count>>
    BY <1>2 DEF S!cleanupExpired, S!fixed, S!books
  <2>2. /\ grant' \in [S!Token -> {"none", "ordinary", "expired", "producer"}]
        /\ \A t \in S!Token : grant'[t] # "none" => grant[t] # "none"
    BY <2>1 DEF AccessInv, S!TypeOK
  <2>3. S!TypeOK'
    BY <2>1, <2>2 DEF AccessInv, S!TypeOK
  <2>4. S!GrantsEnd'
    BY <2>1, <2>2, Transcoders DEF AccessInv, S!GrantsEnd
  <2> QED BY <2>1, <2>3, <2>4 DEF AccessInv, CredentialKept, BooksKept
<1>3. CASE S!stopped
  <2>1. /\ UNCHANGED <<worker, asked, trans, pc>>
        /\ UNCHANGED <<link, book, current, count>>
        /\ \/ credential' = FALSE /\ early' = FALSE /\ grant' = [t \in S!Token |-> "none"]
           \/ UNCHANGED <<credential, early, grant>>
        /\ \/ halt'.what = "forget" /\ deleted' = TRUE
           \/ halt'.what = "none" /\ deleted' = deleted
    BY <1>3 DEF S!stopped, S!fixed, S!access, S!books, S!Withdraw, S!deleteSourceGrants, S!Idle
  <2>2. S!TypeOK'
    BY <2>1 DEF AccessInv, S!TypeOK
  <2>3. S!GrantsEnd'
    BY <2>1, Transcoders DEF AccessInv, S!GrantsEnd
  <2>4. CredentialKept'
    <3>1. CASE credential' = FALSE
      BY <3>1 DEF CredentialKept
    <3>2. CASE credential' = credential /\ early' = early
      BY <2>1, <3>2 DEF AccessInv, CredentialKept
    <3> QED BY <2>1, <3>1, <3>2
  <2>5. BooksKept'
    BY <2>1 DEF AccessInv, BooksKept
  <2> QED BY <2>2, <2>3, <2>4, <2>5 DEF AccessInv
<1>4. CASE S!forget
  <2>1. /\ UNCHANGED <<worker, credential, grant, early, asked, trans, pc, deleted, link, book>>
        /\ current' = 0 /\ count' = 0 /\ halt'.what = "none" /\ halt.what = "forget"
    BY <1>4 DEF S!forget, S!fixed, S!access, S!Idle
  <2>2. deleted
    BY <2>1 DEF AccessInv, BooksKept
  <2>3. count' \in 0 .. S!Cardinality(RangeRequest) /\ current' \in 0 .. MaxBooks
    BY <2>1, RequestsCounted, SourceCardinality, MediaAssumption
  <2>4. S!TypeOK'
    BY <2>1, <2>3 DEF AccessInv, S!TypeOK
  <2> QED BY <2>1, <2>2, <2>4 DEF AccessInv, S!GrantsEnd, CredentialKept, BooksKept
<1> QED BY <1>1, <1>2, <1>3, <1>4

\* A range request enters the current map, or a new one.
LEMMA AccessOpened ==
    ASSUME AccessInv, NEW r \in RangeRequest, NEW t \in S!Token, S!openSourceProxy(r, t)
    PROVE  AccessInv'
<1>1. /\ UNCHANGED <<worker, credential, early, asked, trans, pc, halt, deleted>>
      /\ link[r] = "none" /\ book[r] = 0
  BY DEF S!openSourceProxy, S!fixed, AccessInv, BooksKept
<1>2. CASE grant' = [grant EXCEPT ![t] = "none"] /\ UNCHANGED S!books
  <2>1. UNCHANGED <<link, book, current, count>>
    BY <1>2 DEF S!books
  <2>2. S!TypeOK'
    BY <1>1, <1>2, <2>1 DEF AccessInv, S!TypeOK
  <2>3. S!GrantsEnd'
    BY <1>1, <1>2, Transcoders DEF AccessInv, S!GrantsEnd, S!TypeOK
  <2> QED BY <1>1, <2>1, <2>2, <2>3 DEF AccessInv, CredentialKept, BooksKept
<1>3. CASE S!openTrackedSource(r, t) /\ grant' = grant
  <2> DEFINE n == S!NewBook
             opened == {x \in RangeRequest : link[x] # "none"}
  <2>1. /\ link' = [link EXCEPT ![r] = t] /\ book' = [book EXCEPT ![r] = n] /\ current' = n
        /\ count' = Cardinality(S!In(n)) + 1
        /\ \E k \in 1 .. MaxBooks : S!In(k) = {} \/ k = current
    BY <1>3, SourceCardinality DEF S!openTrackedSource, S!setSourceConnectionCount
  <2>2. n \in 1 .. MaxBooks /\ (current # 0 => n = current)
    <3>1. CASE current # 0
      BY <3>1 DEF S!NewBook, AccessInv, S!TypeOK
    <3>2. CASE current = 0
      <4>1. \E k \in 1 .. MaxBooks : S!In(k) = {}
        BY <2>1, <3>2, MediaAssumption
      <4> QED BY <3>2, <4>1 DEF S!NewBook
    <3> QED BY <3>1, <3>2
  <2>3. S!In(n) = {x \in RangeRequest : book[x] = n} /\ n # 0 /\ r \notin S!In(n)
    BY <1>1, <2>2 DEF S!In
  <2>4. count' \in 0 .. S!Cardinality(RangeRequest)
    BY <2>1, <2>3, RequestsCounted, SourceCardinality
  <2>5. S!TypeOK'
    BY <1>1, <1>3, <2>1, <2>2, <2>4 DEF AccessInv, S!TypeOK
  <2>6. ASSUME NEW x \in RangeRequest
        PROVE  link'[x] = "none" <=> book'[x] = 0
    <3>1. CASE x = r
      BY <2>1, <2>3, <3>1, Transcoders DEF AccessInv, S!TypeOK, BooksKept
    <3>2. CASE x # r
      BY <2>1, <3>2 DEF AccessInv, BooksKept
    <3> QED BY <3>1, <3>2
  <2>7. ASSUME ~deleted
        PROVE  /\ \A x \in RangeRequest : book'[x] # 0 => book'[x] = current'
               /\ count' = Cardinality({x \in RangeRequest : link'[x] # "none"})
    <3>1. \A x \in RangeRequest : book[x] # 0 => book[x] = current
      BY <2>7 DEF AccessInv, BooksKept
    <3>2. \A x \in RangeRequest : book[x] # 0 => book[x] = n
      BY <2>2, <3>1
    <3>3. \A x \in RangeRequest : book'[x] # 0 => book'[x] = current'
      BY <2>1, <3>2 DEF AccessInv, S!TypeOK
    <3>4. S!In(n) = opened
      BY <2>3, <3>2 DEF AccessInv, BooksKept
    <3>5. {x \in RangeRequest : link'[x] # "none"} = opened \cup {r}
      BY <2>1, <2>3, <2>6, Transcoders DEF AccessInv, BooksKept, S!TypeOK
    <3>6. opened \in SUBSET RangeRequest /\ r \notin opened
      BY <1>1
    <3>7. Cardinality(opened \cup {r}) = Cardinality(opened) + 1
      BY <3>6, RequestsCounted
    <3> QED BY <2>1, <3>3, <3>4, <3>5, <3>7
  <2>8. link' \in [RangeRequest -> S!Token \cup {"none"}]
    BY <2>1 DEF AccessInv, BooksKept
  <2>9. BooksKept'
    BY <1>1, <2>6, <2>7, <2>8 DEF AccessInv, BooksKept
  <2> QED BY <1>1, <1>3, <2>5, <2>9 DEF AccessInv, S!GrantsEnd, CredentialKept
<1> QED BY <1>2, <1>3 DEF S!openSourceProxy

\* It leaves its map, the last one with the map.
LEMMA AccessClosed ==
    ASSUME AccessInv, NEW r \in RangeRequest, S!sourceEnds(r)
    PROVE  AccessInv'
<1> DEFINE left == S!In(book[r]) \ {r}
           opened == {x \in RangeRequest : link[x] # "none"}
<1>1. /\ UNCHANGED <<worker, credential, grant, early, asked, trans, pc, halt, deleted>>
      /\ link[r] # "none" /\ book[r] # 0
      /\ link' = [link EXCEPT ![r] = "none"] /\ book' = [book EXCEPT ![r] = 0]
      /\ current' = (IF left = {} THEN 0 ELSE current)
      /\ count' = Cardinality(left)
  BY SourceCardinality
  DEF S!sourceEnds, S!finish, S!setSourceConnectionCount, S!fixed, S!access, AccessInv, BooksKept
<1>2. left = {x \in RangeRequest : book[x] = book[r]} \ {r}
  BY <1>1 DEF S!In
<1>3. count' \in 0 .. S!Cardinality(RangeRequest)
  BY <1>1, <1>2, RequestsCounted, SourceCardinality
<1>4. S!TypeOK'
  BY <1>1, <1>3, MediaAssumption DEF AccessInv, S!TypeOK
<1>5. ASSUME NEW x \in RangeRequest
      PROVE  link'[x] = "none" <=> book'[x] = 0
  <2>1. CASE x = r
    BY <1>1, <2>1 DEF AccessInv, S!TypeOK, BooksKept
  <2>2. CASE x # r
    BY <1>1, <2>2 DEF AccessInv, BooksKept
  <2> QED BY <2>1, <2>2
<1>6. ASSUME ~deleted
      PROVE  /\ \A x \in RangeRequest : book'[x] # 0 => book'[x] = current'
             /\ count' = Cardinality({x \in RangeRequest : link'[x] # "none"})
  <2>1. \A x \in RangeRequest : book[x] # 0 => book[x] = current
    BY <1>6 DEF AccessInv, BooksKept
  <2>2. left = {x \in RangeRequest : book[x] # 0} \ {r}
    BY <1>1, <1>2, <2>1
  <2>3. \A x \in RangeRequest : book'[x] # 0 => x # r /\ book'[x] = book[x]
    BY <1>1 DEF AccessInv, S!TypeOK
  <2>4. \A x \in RangeRequest : book'[x] # 0 => book'[x] = current'
    BY <1>1, <2>1, <2>2, <2>3
  <2>5. {x \in RangeRequest : link'[x] # "none"} = {x \in RangeRequest : book'[x] # 0}
    BY <1>5
  <2>6. {x \in RangeRequest : book'[x] # 0} = left
    BY <1>1, <2>2 DEF AccessInv, S!TypeOK
  <2> QED BY <1>1, <2>4, <2>5, <2>6
<1>7. BooksKept'
  <2>1. link' \in [RangeRequest -> S!Token \cup {"none"}]
    BY <1>1 DEF AccessInv, BooksKept
  <2> QED BY <1>1, <1>5, <1>6, <2>1 DEF AccessInv, BooksKept
<1> QED BY <1>1, <1>4, <1>7 DEF AccessInv, S!GrantsEnd, CredentialKept

LEMMA AccessStep ==
    ASSUME AccessInv, S!Next \/ UNCHANGED svars
    PROVE  AccessInv'
<1>1. CASE S!Next
  BY <1>1, AccessOfRequest, AccessOfAttempt, AccessOfStop, AccessOpened, AccessClosed DEF S!Next
<1>2. CASE UNCHANGED svars
  BY <1>2 DEF svars, AccessInv, S!TypeOK, S!GrantsEnd, CredentialKept, BooksKept
<1> QED BY <1>1, <1>2

LEMMA AccessHolds ==
    ASSUME AccessInv
    PROVE  S!TypeOK /\ S!AccessSafe
<1>1. S!CredentialEnds
  BY DEF AccessInv, CredentialKept, S!CredentialEnds, S!isActive, S!Starting, S!Active
<1>2. S!ConnectionsCounted
  <2> SUFFICES ASSUME ~deleted
               PROVE  LET opened == {r \in RangeRequest : link[r] # "none"} IN
                      S!Cardinality(opened) = count /\ opened = S!In(current)
    BY DEF S!ConnectionsCounted
  <2>1. {r \in RangeRequest : link[r] # "none"} = S!In(current)
    BY DEF AccessInv, BooksKept, S!In
  <2> QED BY <2>1, SourceCardinality DEF AccessInv, BooksKept
<1> QED BY <1>1, <1>2 DEF AccessInv, S!AccessSafe

---------------------------------------------------------------------------
(* The live paths of an edge (EdgePaths).                                  *)

Owns(a) == act[a].call \in {"add", "replace", "delete"}

\* Whoever has a call to MediaMTX under way, or awaits one, finds an entry that is not
\* ready; one caller at most has one.  Nothing is late unless a call has failed.
EdgeInv ==
    /\ entry \in [in : BOOLEAN, ready : BOOLEAN] /\ (entry.ready => entry.in)
    /\ act \in [E!Caller ->
                  [at : {"idle", "ensure1", "ensure2", "fetch1", "fetch2", "delete1", "delete2"},
                   call : {"none", "await", "add", "replace", "delete"}]]
    /\ losses \in Nat /\ configured \in BOOLEAN
    /\ \A a \in E!Caller : act[a].call # "none" => act[a].at \in {"ensure1", "ensure2", "delete1", "delete2"}
    /\ \A a, b \in E!Caller : Owns(a) /\ Owns(b) => a = b
    /\ (\E a \in E!Caller : act[a].call # "none") => entry.in /\ ~entry.ready
    /\ losses = 0 => late = {} /\ (configured = entry.ready \/ (entry.in /\ ~entry.ready))

LEMMA EdgeInit == E!Init => EdgeInv
<1> SUFFICES ASSUME E!Init PROVE EdgeInv
  OBVIOUS
<1>1. /\ entry = [in |-> FALSE, ready |-> FALSE]
      /\ act = [a \in E!Caller |-> [at |-> "idle", call |-> "none"]]
      /\ losses = 0 /\ late = {} /\ configured = FALSE
  BY DEF E!Init, E!Absent, E!Done
<1>2. \A a \in E!Caller : act[a] = [at |-> "idle", call |-> "none"]
  BY <1>1
<1> QED BY <1>1, <1>2 DEF EdgeInv, Owns

\* A caller whose place changes and that neither had nor gets a call.
LEMMA EdgeMoves ==
    ASSUME EdgeInv, NEW a \in E!Caller, NEW place \in {"idle", "fetch1", "delete1", "delete2"},
           act[a].call = "none",
           act' = [act EXCEPT ![a] = [at |-> place, call |-> "none"]],
           UNCHANGED <<entry, configured, late, losses>>
    PROVE  EdgeInv'
<1>1. \A b \in E!Caller : act'[b].call = act[b].call
  BY DEF EdgeInv
<1>2. act' \in [E!Caller ->
                  [at : {"idle", "ensure1", "ensure2", "fetch1", "fetch2", "delete1", "delete2"},
                   call : {"none", "await", "add", "replace", "delete"}]]
  BY DEF EdgeInv
<1> QED BY <1>1, <1>2 DEF EdgeInv, Owns

\* One that begins to await the call of another, or takes the entry for a call of its own.
LEMMA EdgeJoins ==
    ASSUME EdgeInv, NEW a \in E!Caller, NEW step \in [at : {"ensure1", "delete1", "delete2"}, call : {"await", "add", "delete"}],
           act' = [act EXCEPT ![a] = step],
           act[a].call = "none",
           UNCHANGED <<configured, late, losses>>,
           \/ step.call = "await" /\ entry.in /\ ~entry.ready /\ entry' = entry
           \/ /\ ~entry.in \/ entry.ready
              /\ entry' = [in |-> TRUE, ready |-> FALSE]
    PROVE  EdgeInv'
<1>1. act' \in [E!Caller ->
                  [at : {"idle", "ensure1", "ensure2", "fetch1", "fetch2", "delete1", "delete2"},
                   call : {"none", "await", "add", "replace", "delete"}]]
      /\ act'[a] = step /\ \A b \in E!Caller \ {a} : act'[b] = act[b]
  BY DEF EdgeInv
<1>2. entry' \in [in : BOOLEAN, ready : BOOLEAN] /\ entry'.in /\ ~entry'.ready
  <2>1. CASE entry' = entry /\ entry.in /\ ~entry.ready
    BY <2>1 DEF EdgeInv
  <2>2. CASE entry' = [in |-> TRUE, ready |-> FALSE]
    BY <2>2
  <2> QED BY <2>1, <2>2
<1>3. \A b, c \in E!Caller : Owns(b)' /\ Owns(c)' => b = c
  BY <1>1 DEF EdgeInv, Owns
<1> QED BY <1>1, <1>2, <1>3 DEF EdgeInv

\* Steps of a caller that does not await.
LEMMA EdgeFetches ==
    ASSUME EdgeInv, NEW v \in Viewer, E!fetchHls(v) \/ E!fetch(v)
    PROVE  EdgeInv'
<1>1. v \in E!Caller
  BY DEF E!Caller
<1>2. act[v].call = "none"
  BY <1>1 DEF EdgeInv, E!fetchHls, E!fetch
<1>3. EdgeInv'
  <2>1. CASE E!fetch(v)
    <3>1. UNCHANGED <<entry, configured, late, losses>>
      BY <2>1 DEF E!fetch
    <3>2. PICK place \in {"idle", "delete1", "delete2"} :
            act' = [act EXCEPT ![v] = [at |-> place, call |-> "none"]]
      BY <1>1, <2>1 DEF E!fetch, E!Step, E!Done, EdgeInv
    <3> QED BY <1>1, <1>2, <3>1, <3>2, EdgeMoves
  <2>2. CASE E!fetchHls(v) /\ entry.ready
    <3>1. act' = [act EXCEPT ![v] = [at |-> "fetch1", call |-> "none"]]
          /\ UNCHANGED <<entry, configured, late, losses>>
      BY <2>2 DEF E!fetchHls, E!Step, EdgeInv
    <3> QED BY <1>1, <1>2, <3>1, EdgeMoves
  <2>3. CASE E!fetchHls(v) /\ entry.in /\ ~entry.ready
    <3> DEFINE step == [at |-> "ensure1", call |-> "await"]
    <3>1. act' = [act EXCEPT ![v] = step] /\ UNCHANGED <<entry, configured, late, losses>>
      BY <2>3 DEF E!fetchHls, E!Step
    <3>2. step \in [at : {"ensure1", "delete1", "delete2"}, call : {"await", "add", "delete"}]
          /\ step.call = "await"
      OBVIOUS
    <3> QED BY <1>1, <1>2, <2>3, <3>1, <3>2, EdgeJoins
  <2>4. CASE E!fetchHls(v) /\ ~entry.in
    <3> DEFINE step == [at |-> "ensure1", call |-> "add"]
    <3>1. act' = [act EXCEPT ![v] = step] /\ UNCHANGED <<configured, late, losses>>
          /\ entry' = [in |-> TRUE, ready |-> FALSE]
      BY <2>4 DEF E!fetchHls, E!Step, EdgeInv
    <3>2. step \in [at : {"ensure1", "delete1", "delete2"}, call : {"await", "add", "delete"}]
      OBVIOUS
    <3> QED BY <1>1, <1>2, <2>4, <3>1, <3>2, EdgeJoins
  <2> QED BY <2>1, <2>2, <2>3, <2>4
<1> QED BY <1>3

LEMMA EdgeDeletes ==
    ASSUME EdgeInv, NEW a \in E!Caller, E!delete(a)
    PROVE  EdgeInv'
<1> DEFINE step == [act[a] EXCEPT !.call = IF entry.in /\ ~entry.ready THEN "await" ELSE "delete"]
<1>1. act[a].at \in {"delete1", "delete2"} /\ act[a].call = "none"
  BY DEF E!delete
<1>2. act' = [act EXCEPT ![a] = step] /\ UNCHANGED <<configured, late, losses>>
      /\ \/ entry.in /\ ~entry.ready /\ entry' = entry
         \/ /\ ~entry.in \/ entry.ready
            /\ entry' = [in |-> TRUE, ready |-> FALSE]
  BY DEF E!delete, EdgeInv
<1>3. step \in [at : {"ensure1", "delete1", "delete2"}, call : {"await", "add", "delete"}]
      /\ (entry.in /\ ~entry.ready => step.call = "await")
  BY <1>1 DEF EdgeInv
<1> QED BY <1>1, <1>2, <1>3, EdgeJoins

LEMMA EdgePrunes ==
    ASSUME EdgeInv, E!pruneStale
    PROVE  EdgeInv'
<1>1. pruner \in E!Caller /\ act[pruner].call = "none"
      /\ act' = [act EXCEPT ![pruner] = [at |-> "delete2", call |-> "none"]]
      /\ UNCHANGED <<entry, configured, late, losses>>
  BY DEF E!pruneStale, E!Step, E!Caller, EdgeInv
<1> QED BY <1>1, EdgeMoves

\* The owner of the call is through, and so are those who awaited it.
LEMMA EdgeResolves ==
    ASSUME EdgeInv, NEW a \in E!Caller, Owns(a),
           act' \in [E!Caller ->
                       [at : {"idle", "ensure1", "ensure2", "fetch1", "fetch2", "delete1", "delete2"},
                        call : {"none", "await", "add", "replace", "delete"}]],
           \A b \in E!Caller : IF b \in E!Waiting \cup {a} THEN act'[b].call = "none" ELSE act'[b] = act[b],
           entry' \in [in : BOOLEAN, ready : BOOLEAN], entry'.ready => entry'.in,
           losses' \in Nat, configured' \in BOOLEAN,
           losses' = 0 => late' = {} /\ (configured' = entry'.ready \/ (entry'.in /\ ~entry'.ready))
    PROVE  EdgeInv'
<1>1. \A b \in E!Caller : act'[b].call = "none"
  BY DEF EdgeInv, Owns, E!Waiting
<1> QED BY <1>1 DEF EdgeInv, Owns

LEMMA EdgeConfigured ==
    ASSUME EdgeInv, NEW v \in Viewer, E!addAnswered(v) \/ E!replaceAnswered(v)
    PROVE  EdgeInv'
<1>1. v \in E!Caller /\ Owns(v) /\ act[v].call \in {"add", "replace"}
  BY DEF E!Caller, E!addAnswered, E!replaceAnswered, Owns
<1>2. CASE E!Configured(v)
  <2>1. act' \in [E!Caller ->
                    [at : {"idle", "ensure1", "ensure2", "fetch1", "fetch2", "delete1", "delete2"},
                     call : {"none", "await", "add", "replace", "delete"}]]
    BY <1>2 DEF E!Configured, E!Done, E!Step, E!Fetches, EdgeInv
  <2>2. \A b \in E!Caller : IF b \in E!Waiting \cup {v} THEN act'[b].call = "none" ELSE act'[b] = act[b]
    BY <1>2 DEF E!Configured, E!Done, E!Step
  <2>3. /\ entry' = [in |-> TRUE, ready |-> TRUE] /\ configured' = TRUE
        /\ losses' = losses /\ late' = late
    BY <1>2 DEF E!Configured
  <2>4. /\ entry' \in [in : BOOLEAN, ready : BOOLEAN] /\ entry'.ready /\ entry'.in
        /\ losses' \in Nat /\ configured' \in BOOLEAN
        /\ losses' = 0 => late' = {}
    BY <2>3 DEF EdgeInv
  <2> QED BY <1>1, <2>1, <2>2, <2>3, <2>4, EdgeResolves
<1>3. CASE configured /\ act' = [act EXCEPT ![v].call = "replace"]
           /\ UNCHANGED <<entry, wasReady, configured, late, losses>>
  <2>1. act' \in [E!Caller ->
                    [at : {"idle", "ensure1", "ensure2", "fetch1", "fetch2", "delete1", "delete2"},
                     call : {"none", "await", "add", "replace", "delete"}]]
        /\ act'[v].call = "replace" /\ act'[v].at = act[v].at
        /\ \A b \in E!Caller \ {v} : act'[b] = act[b]
    BY <1>1, <1>3 DEF EdgeInv
  <2>2. \A b \in E!Caller : Owns(b)' <=> Owns(b)
    BY <1>1, <2>1 DEF Owns
  <2> QED BY <1>1, <1>3, <2>1, <2>2 DEF EdgeInv
<1>4. CASE ~configured /\ entry' = E!Absent /\ act' = E!Thrown(v)
           /\ UNCHANGED <<wasReady, configured, late, losses>>
  <2>1. act' \in [E!Caller ->
                    [at : {"idle", "ensure1", "ensure2", "fetch1", "fetch2", "delete1", "delete2"},
                     call : {"none", "await", "add", "replace", "delete"}]]
    BY <1>4 DEF E!Thrown, E!Done, EdgeInv
  <2>2. \A b \in E!Caller : IF b \in E!Waiting \cup {v} THEN act'[b].call = "none" ELSE act'[b] = act[b]
    BY <1>4 DEF E!Thrown, E!Done
  <2>3. /\ entry' \in [in : BOOLEAN, ready : BOOLEAN] /\ ~entry'.ready /\ configured' = FALSE
        /\ losses' \in Nat /\ (losses' = 0 => late' = {})
    BY <1>4 DEF E!Absent, EdgeInv
  <2> QED BY <1>1, <2>1, <2>2, <2>3, EdgeResolves
<1> QED BY <1>2, <1>3, <1>4 DEF E!addAnswered, E!replaceAnswered

LEMMA EdgeFails ==
    ASSUME EdgeInv, NEW a \in E!Caller, E!CallFails(a)
    PROVE  EdgeInv'
<1>1. Owns(a) /\ act' = E!Thrown(a) /\ losses' = losses + 1 /\ configured' = configured
  BY DEF E!CallFails, Owns
<1>2. act' \in [E!Caller ->
                  [at : {"idle", "ensure1", "ensure2", "fetch1", "fetch2", "delete1", "delete2"},
                   call : {"none", "await", "add", "replace", "delete"}]]
  BY <1>1 DEF E!Thrown, E!Done, EdgeInv
<1>3. \A b \in E!Caller : IF b \in E!Waiting \cup {a} THEN act'[b].call = "none" ELSE act'[b] = act[b]
  BY <1>1 DEF E!Thrown, E!Done
<1>4. entry' \in [in : BOOLEAN, ready : BOOLEAN] /\ (entry'.ready => entry'.in)
  BY DEF E!CallFails, E!Absent
<1>5. losses' \in Nat /\ losses' # 0 /\ configured' \in BOOLEAN
  BY <1>1 DEF EdgeInv
<1> QED BY <1>1, <1>2, <1>3, <1>4, <1>5, EdgeResolves

\* After a delete one of those who want the path owns its next call.
LEMMA EdgeDeleted ==
    ASSUME EdgeInv, NEW a \in E!Caller, E!deleteAnswered(a)
    PROVE  EdgeInv'
<1>1. /\ Owns(a) /\ configured' = FALSE /\ losses' = losses /\ late' = late
      /\ entry' = [in |-> E!Wanting(a) # {}, ready |-> FALSE]
  BY DEF E!deleteAnswered, Owns
<1>2. PICK b \in IF E!Wanting(a) = {} THEN {a} ELSE E!First(a) :
        act' = [c \in E!Caller |->
                  CASE c \in E!Wanting(a) ->
                         E!Step(E!Ensures(act[c].at), IF c = b THEN "add" ELSE "await")
                    [] c \in (E!Waiting \cup {a}) \ E!Wanting(a) -> E!Done
                    [] OTHER -> act[c]]
  BY DEF E!deleteAnswered
<1>3. E!Wanting(a) \subseteq E!Waiting \cup {a} /\ E!Waiting \subseteq E!Caller
      /\ \A c \in E!Wanting(a) : act[c].at # "delete2"
  BY DEF E!Wanting, E!Waiting
<1>4. \A c \in E!Caller : c \notin E!Waiting \cup {a} => act[c].call = "none"
  BY <1>1 DEF EdgeInv, Owns, E!Waiting
<1>5. \A c \in E!Wanting(a) : E!Ensures(act[c].at) \in {"ensure1", "ensure2"}
  BY <1>1, <1>3 DEF EdgeInv, E!Ensures, E!Waiting, Owns
<1>6. \A c \in E!Caller :
        /\ c \in E!Wanting(a) =>
             act'[c] = [at |-> E!Ensures(act[c].at), call |-> IF c = b THEN "add" ELSE "await"]
        /\ c \in (E!Waiting \cup {a}) \ E!Wanting(a) => act'[c] = [at |-> "idle", call |-> "none"]
        /\ c \notin E!Waiting \cup {a} => act'[c] = act[c]
  BY <1>2, <1>3 DEF E!Step, E!Done
<1>7. act' \in [E!Caller ->
                  [at : {"idle", "ensure1", "ensure2", "fetch1", "fetch2", "delete1", "delete2"},
                   call : {"none", "await", "add", "replace", "delete"}]]
  <2>1. ASSUME NEW c \in E!Caller
        PROVE  act'[c] \in
                  [at : {"idle", "ensure1", "ensure2", "fetch1", "fetch2", "delete1", "delete2"},
                   call : {"none", "await", "add", "replace", "delete"}]
    <3>1. CASE c \in E!Wanting(a)
      <4>1. act'[c] = [at |-> E!Ensures(act[c].at), call |-> IF c = b THEN "add" ELSE "await"]
        BY <1>6, <3>1
      <4>2. E!Ensures(act[c].at) \in {"ensure1", "ensure2"}
        BY <1>5, <3>1
      <4> QED BY <4>1, <4>2
    <3>2. CASE c \in (E!Waiting \cup {a}) \ E!Wanting(a)
      <4>1. act'[c] = [at |-> "idle", call |-> "none"]
        BY <1>6, <3>2
      <4> QED BY <4>1
    <3>3. CASE c \notin E!Waiting \cup {a}
      BY <1>6, <3>3 DEF EdgeInv
    <3> QED BY <1>3, <3>1, <3>2, <3>3
  <2> QED BY <1>2, <2>1
<1>8. ASSUME NEW c \in E!Caller
      PROVE  /\ act'[c].call # "none" => c \in E!Wanting(a)
             /\ Owns(c)' => c = b
             /\ act'[c].call # "none" => act'[c].at \in {"ensure1", "ensure2"}
  <2>1. CASE c \in E!Wanting(a)
    <3>1. act'[c] = [at |-> E!Ensures(act[c].at), call |-> IF c = b THEN "add" ELSE "await"]
      BY <1>6, <2>1
    <3>2. E!Ensures(act[c].at) \in {"ensure1", "ensure2"}
      BY <1>5, <2>1
    <3> QED BY <2>1, <3>1, <3>2 DEF Owns
  <2>2. CASE c \in (E!Waiting \cup {a}) \ E!Wanting(a)
    <3>1. act'[c] = [at |-> "idle", call |-> "none"]
      BY <1>6, <2>2
    <3> QED BY <3>1 DEF Owns
  <2>3. CASE c \notin E!Waiting \cup {a}
    BY <1>4, <1>6, <2>3 DEF Owns
  <2> QED BY <1>3, <2>1, <2>2, <2>3
<1>9. /\ entry' \in [in : BOOLEAN, ready : BOOLEAN] /\ ~entry'.ready /\ configured' = FALSE
      /\ (E!Wanting(a) # {} => entry'.in)
  BY <1>1
<1> QED BY <1>1, <1>7, <1>8, <1>9 DEF EdgeInv

LEMMA EdgeStep ==
    ASSUME EdgeInv, E!Next \/ UNCHANGED evars
    PROVE  EdgeInv'
<1>1. CASE UNCHANGED evars
  BY <1>1 DEF evars, EdgeInv, Owns
<1>2. ASSUME NEW c \in late, E!TakesEffect(c)
      PROVE  EdgeInv'
  <2>1. losses # 0 /\ losses' = losses /\ entry' = entry /\ act' = act /\ configured' \in BOOLEAN
    BY <1>2 DEF EdgeInv, E!TakesEffect
  <2> QED BY <2>1 DEF EdgeInv, Owns
<1>3. \A v \in Viewer : v \in E!Caller
  BY DEF E!Caller
<1> QED
  BY <1>1, <1>2, <1>3, EdgeFetches, EdgeDeletes, EdgePrunes, EdgeConfigured, EdgeFails, EdgeDeleted
  DEF E!Next, E!Going

LEMMA EdgeSafe == EdgeInv => E!SharedSetup
<1> SUFFICES ASSUME EdgeInv PROVE E!SharedSetup
  OBVIOUS
<1> DEFINE owners == {a \in E!Caller : act[a].call \in {"add", "replace", "delete"}}
<1>1. \A X : E!Cardinality(X) = Cardinality(X)
  BY DEF E!Cardinality, Cardinality
<1>2. Cardinality(owners) <= 1
  <2>1. CASE owners = {}
    <3>1. Cardinality({}) = 0
      BY FS_EmptySet
    <3> HIDE DEF owners
    <3> QED BY <2>1, <3>1
  <2>2. CASE owners # {}
    <3>1. PICK a \in owners : TRUE
      BY <2>2
    <3>2. owners = {a}
      BY <3>1 DEF EdgeInv, Owns
    <3>3. Cardinality({a}) = 1
      BY FS_Singleton
    <3> HIDE DEF owners
    <3> QED BY <3>2, <3>3
  <2> QED BY <2>1, <2>2
<1> QED BY <1>1, <1>2 DEF EdgeInv, E!SharedSetup

---------------------------------------------------------------------------
(* The live channel (LivePublishing).                                      *)

ChannelRow == [exists : BOOLEAN, rev : Nat, state : {"offline", "online", "reconnecting"},
               primary : Nat, replacement : Nat, profile : BOOLEAN]

ClaimCall == [at : {"idle", "claim", "write", "accepted"}, seen : ChannelRow, token : Nat,
              tries : Nat]
PollRound == [at : {"idle", "read", "write", "profile", "starting", "stopping"},
              seen : ChannelRow, ready : BOOLEAN, child : 0 .. MaxChildren]
DeleteCall == [at : {"idle", "sessions", "delete"}, seen : ChannelRow, child : 0 .. MaxChildren]
CreateCall == [at : {"idle", "claim", "commit"}, seen : ChannelRow, tries : Nat]

LiveTypes ==
    /\ row \in ChannelRow /\ session \in BOOLEAN /\ issued \in Nat
    /\ claim \in [Publisher -> ClaimCall]
    /\ poll \in PollRound /\ del \in DeleteCall /\ make \in CreateCall
    /\ process \in 0 .. MaxChildren
    /\ child \in [L!Children -> {"gone", "starting", "running", "stopping"}]
    /\ backoff \in BOOLEAN

\* What was read and is still current is the row.
Snapshot(seen) ==
    seen.exists /\ seen.rev <= row.rev /\ (seen.rev = row.rev /\ row.exists => seen = row)

\* Reads that are about to be written back; a claim was not refused on what it read.
ReadsKept ==
    /\ \A p \in Publisher : claim[p].at = "write" =>
         Snapshot(claim[p].seen) /\ ~L!Refused(claim[p].token, claim[p].seen)
    /\ poll.at = "write" => Snapshot(poll.seen)
    /\ del.at # "idle" => del.seen.rev <= row.rev

\* Tokens are issued in order, the replacement after the primary one.
TokensKept ==
    /\ 1 <= row.primary /\ row.primary <= issued
    /\ row.replacement = 0 \/ (row.primary < row.replacement /\ row.replacement <= issued)
    /\ \A p \in Publisher : claim[p].at # "idle" => claim[p].token # 0

\* A round of the poll that is about to start a child finds the channel taken: only the
\* poll itself writes it offline.  The deletion stops the child and finds the row as it
\* read it, offline, only if no child was started since.
ChildrenKept ==
    /\ L!Alive \subseteq {process}
    /\ ~row.exists => L!Alive = {}
    /\ poll.at = "profile" /\ poll.ready => row.exists /\ row.state # "offline"
    /\ del.at = "delete" /\ L!Current(del.seen) /\ row.state = "offline" => L!Alive = {}

LiveInv == LiveTypes /\ ReadsKept /\ TokensKept /\ ChildrenKept

LEMMA LiveChildren == L!Children = 1 .. MaxChildren /\ 0 \notin L!Children /\ 0 \in 0 .. MaxChildren
BY MediaAssumption DEF L!Children

LEMMA NewRowTypes == L!NewRow \in ChannelRow /\ [L!NewRow EXCEPT !.profile = TRUE] \in ChannelRow
BY DEF L!NewRow, ChannelRow

LEMMA LiveInit == L!Init => LiveInv
<1> SUFFICES ASSUME L!Init PROVE LiveInv
  OBVIOUS
<1>1. /\ row \in ChannelRow /\ row.primary = 1 /\ row.replacement = 0 /\ row.exists
      /\ session \in BOOLEAN
  <2>1. CASE row = L!NewRow /\ session = FALSE
    BY <2>1, NewRowTypes DEF L!NewRow
  <2>2. CASE row = [L!NewRow EXCEPT !.profile = TRUE] /\ session \in BOOLEAN
    BY <2>2, NewRowTypes DEF L!NewRow
  <2> QED BY <2>1, <2>2 DEF L!Init
<1>2. claim \in [Publisher -> ClaimCall] /\ \A p \in Publisher : claim[p].at = "idle"
  BY NewRowTypes DEF L!Init, L!NoClaim, ClaimCall
<1>3. /\ poll \in PollRound /\ del \in DeleteCall /\ make \in CreateCall
      /\ poll.at = "idle" /\ del.at = "idle"
  BY NewRowTypes, LiveChildren
  DEF L!Init, L!NoPoll, L!NoDelete, L!NoCreate, PollRound, DeleteCall, CreateCall
<1>4. /\ process = 0 /\ child = [c \in L!Children |-> "gone"] /\ issued = 1 /\ backoff = FALSE
  BY DEF L!Init
<1>5. L!Alive = {}
  BY <1>4 DEF L!Alive
<1>6. LiveTypes
  BY <1>1, <1>2, <1>3, <1>4, LiveChildren DEF LiveTypes
<1> QED BY <1>1, <1>2, <1>3, <1>4, <1>5, <1>6 DEF LiveInv, ReadsKept, TokensKept, ChildrenKept

\* A write gives the row a revision that nothing read before has.
LEMMA WriteTypes ==
    ASSUME LiveTypes, NEW new \in ChannelRow, L!Write(new)
    PROVE  /\ row' \in ChannelRow /\ row'.rev = row.rev + 1 /\ row'.rev > row.rev
           /\ row'.exists = new.exists /\ row'.state = new.state /\ row'.profile = new.profile
           /\ row'.primary = new.primary /\ row'.replacement = new.replacement
BY DEF LiveTypes, L!Write, ChannelRow

\* Snapshots stay snapshots through a write.
LEMMA SnapshotKept ==
    ASSUME LiveTypes, row' \in ChannelRow, row'.rev > row.rev, NEW seen \in ChannelRow, Snapshot(seen)
    PROVE  seen.exists /\ seen.rev <= row'.rev /\ seen.rev # row'.rev
BY DEF LiveTypes, Snapshot, ChannelRow

\* The claims and the deletion after a write of anybody else.
LEMMA ReadsAfterWrite ==
    ASSUME LiveInv, row' \in ChannelRow, row'.rev > row.rev,
           \A p \in Publisher : claim'[p].at = "write" => claim[p].at = "write" /\ claim'[p] = claim[p],
           poll'.at = "write" => poll.at = "write" /\ poll'.seen = poll.seen,
           del'.at # "idle" => del.at # "idle" /\ del'.seen = del.seen
    PROVE  ReadsKept'
<1>1. ASSUME NEW p \in Publisher, claim'[p].at = "write"
      PROVE  Snapshot(claim[p].seen)' /\ ~L!Refused(claim'[p].token, claim'[p].seen)
  <2>1. claim[p].at = "write" /\ claim'[p] = claim[p] /\ claim[p].seen \in ChannelRow
    BY <1>1 DEF LiveInv, LiveTypes, ClaimCall
  <2>2. Snapshot(claim[p].seen) /\ ~L!Refused(claim[p].token, claim[p].seen)
    BY <2>1 DEF LiveInv, ReadsKept
  <2> QED BY <2>1, <2>2, SnapshotKept DEF LiveInv, Snapshot
<1>2. ASSUME poll'.at = "write"
      PROVE  Snapshot(poll.seen)'
  <2>1. Snapshot(poll.seen) /\ poll.seen \in ChannelRow
    BY <1>2 DEF LiveInv, LiveTypes, ReadsKept, PollRound
  <2> QED BY <1>2, <2>1, SnapshotKept DEF LiveInv, Snapshot
<1>3. ASSUME del'.at # "idle"
      PROVE  del'.seen.rev <= row'.rev
  <2>1. del.seen.rev <= row.rev /\ del'.seen = del.seen /\ del.seen.rev \in Nat
    BY <1>3 DEF LiveInv, LiveTypes, ReadsKept, DeleteCall, ChannelRow
  <2> QED BY <2>1 DEF LiveInv, LiveTypes, ChannelRow
<1> QED BY <1>1, <1>2, <1>3 DEF ReadsKept, L!Refused, L!Matches

\* The children after a write that is not the poll's and does not free the channel.
LEMMA ChildrenAfterWrite ==
    ASSUME LiveInv, row' \in ChannelRow, row'.rev > row.rev, row'.exists,
           UNCHANGED <<del, process, child>>,
           \/ row'.state = row.state /\ row.exists /\ poll' = poll
           \/ row'.state # "offline" /\ poll' = poll
           \/ poll'.at # "profile"
           \/ ~poll'.ready
           \/ poll'.ready /\ row'.state = "online"
    PROVE  ChildrenKept'
<1>1. L!Alive' = L!Alive
  BY DEF L!Alive
<1>2. del.at = "delete" => del.seen.rev # row'.rev
  BY DEF LiveInv, LiveTypes, ReadsKept, DeleteCall, ChannelRow
<1> QED BY <1>1, <1>2 DEF LiveInv, ChildrenKept, L!Current

\* What moves without the row and the children: a claim, or the rest.
LEMMA ClaimMoves ==
    ASSUME LiveInv, NEW p \in Publisher, NEW c \in ClaimCall, claim' = [claim EXCEPT ![p] = c],
           c.at = "write" => Snapshot(c.seen) /\ ~L!Refused(c.token, c.seen),
           c.at # "idle" => c.token # 0,
           UNCHANGED <<row, session, issued, poll, del, make, process, child, backoff>>
    PROVE  LiveInv'
<1>1. /\ claim' \in [Publisher -> ClaimCall] /\ claim'[p] = c
      /\ \A q \in Publisher \ {p} : claim'[q] = claim[q]
  BY DEF LiveInv, LiveTypes
<1>2. LiveTypes'
  BY <1>1 DEF LiveInv, LiveTypes
<1>3. ReadsKept'
  <2>1. ASSUME NEW q \in Publisher, claim'[q].at = "write"
        PROVE  Snapshot(claim[q].seen)' /\ ~L!Refused(claim'[q].token, claim'[q].seen)
    <3>1. CASE q = p
      BY <1>1, <2>1, <3>1 DEF Snapshot
    <3>2. CASE q # p
      <4>1. claim'[q] = claim[q]
        BY <1>1, <3>2
      <4>2. Snapshot(claim[q].seen) /\ ~L!Refused(claim[q].token, claim[q].seen)
        BY <2>1, <4>1 DEF LiveInv, ReadsKept
      <4> QED BY <4>1, <4>2 DEF Snapshot
    <3> QED BY <3>1, <3>2
  <2> QED BY <2>1 DEF LiveInv, ReadsKept, Snapshot, L!Refused, L!Matches
<1>4. TokensKept'
  BY <1>1 DEF LiveInv, TokensKept
<1>5. ChildrenKept'
  BY DEF LiveInv, ChildrenKept, L!Alive, L!Current
<1> QED BY <1>2, <1>3, <1>4, <1>5 DEF LiveInv

LEMMA OthersMove ==
    ASSUME LiveInv, session' \in BOOLEAN, make' \in CreateCall, backoff' \in BOOLEAN,
           UNCHANGED <<row, issued, claim, poll, del, process, child>>
    PROVE  LiveInv'
<1>1. LiveTypes'
  BY DEF LiveInv, LiveTypes
<1>2. ReadsKept'
  BY DEF LiveInv, ReadsKept, Snapshot, L!Refused, L!Matches
<1>3. TokensKept' /\ ChildrenKept'
  BY DEF LiveInv, TokensKept, ChildrenKept, L!Alive, L!Current
<1> QED BY <1>1, <1>2, <1>3 DEF LiveInv

\* The poll, the deletion and the children, while the row stays.
LEMMA ChildrenMove ==
    ASSUME LiveInv, UNCHANGED <<row, session, issued, claim, make>>,
           poll' \in PollRound, poll'.at = "write" => Snapshot(poll'.seen),
           del' \in DeleteCall, del'.at # "idle" => del'.seen.rev <= row.rev,
           process' \in 0 .. MaxChildren, backoff' \in BOOLEAN,
           child' \in [L!Children -> {"gone", "starting", "running", "stopping"}],
           ChildrenKept'
    PROVE  LiveInv'
<1>1. LiveTypes'
  BY DEF LiveInv, LiveTypes
<1>2. ReadsKept'
  BY DEF LiveInv, ReadsKept, Snapshot, L!Refused, L!Matches
<1>3. TokensKept'
  BY DEF LiveInv, TokensKept
<1> QED BY <1>1, <1>2, <1>3 DEF LiveInv

\* A write of the row.
LEMMA RowMoves ==
    ASSUME LiveInv, NEW new \in ChannelRow, L!Write(new), new.exists,
           session' \in BOOLEAN, issued' \in Nat, make' \in CreateCall,
           claim' \in [Publisher -> ClaimCall], poll' \in PollRound,
           \A p \in Publisher : /\ claim'[p].at = "write" => claim[p].at = "write" /\ claim'[p] = claim[p]
                                /\ claim'[p].at # "idle" => claim'[p].token # 0,
           poll'.at = "write" => poll.at = "write" /\ poll'.seen = poll.seen,
           UNCHANGED <<del, process, child, backoff>>,
           1 <= new.primary, new.primary <= issued',
           new.replacement = 0 \/ (new.primary < new.replacement /\ new.replacement <= issued'),
           \/ new.state = row.state /\ row.exists /\ poll' = poll
           \/ new.state # "offline" /\ poll' = poll
           \/ poll'.at # "profile"
           \/ ~poll'.ready
           \/ poll'.ready /\ new.state = "online"
    PROVE  LiveInv'
<1>1. /\ row' \in ChannelRow /\ row'.rev > row.rev
      /\ row'.exists = new.exists /\ row'.state = new.state
      /\ row'.primary = new.primary /\ row'.replacement = new.replacement
  BY WriteTypes DEF LiveInv
<1>2. LiveTypes'
  BY <1>1 DEF LiveInv, LiveTypes
<1>3. ReadsKept'
  BY <1>1, ReadsAfterWrite
<1>4. TokensKept'
  BY <1>1 DEF TokensKept
<1>5. ChildrenKept'
  BY <1>1, ChildrenAfterWrite
<1> QED BY <1>2, <1>3, <1>4, <1>5 DEF LiveInv

LEMMA NoClaimTypes == L!NoClaim \in ClaimCall /\ L!NoClaim.at = "idle"
BY NewRowTypes DEF L!NoClaim, ClaimCall

LEMMA ClaimAsked ==
    ASSUME NEW c \in ClaimCall, NEW t \in Nat
    PROVE  LET d == [c EXCEPT !.at = "claim", !.token = t] IN
           d \in ClaimCall /\ d.at = "claim" /\ d.token = t
BY DEF ClaimCall

LEMMA ClaimRetried ==
    ASSUME NEW c \in ClaimCall
    PROVE  LET d == [c EXCEPT !.at = "claim", !.tries = c.tries + 1] IN
           d \in ClaimCall /\ d.at = "claim" /\ d.token = c.token
<1>1. ASSUME NEW n \in Nat
      PROVE  LET d == [c EXCEPT !.at = "claim", !.tries = n] IN
             d \in ClaimCall /\ d.at = "claim" /\ d.token = c.token
  BY DEF ClaimCall
<1>2. c.tries + 1 \in Nat
  BY DEF ClaimCall
<1> QED BY <1>1, <1>2

\* MediaMTX asks for a publisher; the publisher reads, claims and publishes.
LEMMA LiveAsked ==
    ASSUME LiveInv, NEW p \in Publisher, NEW t \in 1 .. issued, L!authorizeMediaMtx(p, t)
    PROVE  LiveInv'
<1> DEFINE c == [L!NoClaim EXCEPT !.at = "claim", !.token = t]
<1>1. c \in ClaimCall /\ c.at = "claim" /\ c.token # 0
  <2>1. t \in Nat /\ t # 0
    BY DEF LiveInv, LiveTypes
  <2> QED BY <2>1, NoClaimTypes, ClaimAsked
<1>2. claim' = [claim EXCEPT ![p] = c]
  BY DEF L!authorizeMediaMtx
<1>3. UNCHANGED <<row, session, issued, poll, del, make, process, child, backoff>>
  BY DEF L!authorizeMediaMtx
<1> HIDE DEF c
<1> QED BY <1>1, <1>2, <1>3, ClaimMoves

LEMMA LiveClaimRead ==
    ASSUME LiveInv, NEW p \in Publisher, L!claimRead(p)
    PROVE  LiveInv'
<1>1. UNCHANGED <<row, session, issued, poll, del, make, process, child, backoff>>
  BY DEF L!claimRead
<1>2. claim[p] \in ClaimCall /\ claim[p].token # 0 /\ row \in ChannelRow
  BY DEF LiveInv, LiveTypes, TokensKept, L!claimRead
<1>3. CASE ~row.exists \/ L!Refused(claim[p].token, row)
  <2>1. claim' = [claim EXCEPT ![p] = L!NoClaim]
    BY <1>3 DEF L!claimRead
  <2> QED BY <1>1, <2>1, NoClaimTypes, ClaimMoves
<1>4. CASE row.exists /\ ~L!Refused(claim[p].token, row)
  <2> DEFINE c == [claim[p] EXCEPT !.at = "write", !.seen = row]
  <2>1. claim' = [claim EXCEPT ![p] = c]
    BY <1>4 DEF L!claimRead
  <2>2. c \in ClaimCall /\ c.seen = row /\ c.token = claim[p].token
    BY <1>2 DEF ClaimCall
  <2>3. Snapshot(row)
    BY <1>2, <1>4 DEF Snapshot, ChannelRow
  <2> HIDE DEF c
  <2> QED BY <1>1, <1>2, <1>4, <2>1, <2>2, <2>3, ClaimMoves
<1> QED BY <1>3, <1>4

\* The claim that wins writes the row it read: its token becomes or stays the primary one.
LEMMA ClaimWins ==
    ASSUME LiveInv, NEW p \in Publisher, claim[p].at = "write", L!Current(claim[p].seen)
    PROVE  /\ claim[p].seen = row /\ row.exists /\ ~L!Refused(claim[p].token, row)
           /\ claim[p].token # 0
           /\ claim[p].token = row.primary \/ claim[p].token = row.replacement
           /\ claim[p].token = row.primary => row.replacement = 0
<1>1. Snapshot(claim[p].seen) /\ ~L!Refused(claim[p].token, claim[p].seen) /\ claim[p].token # 0
  BY DEF LiveInv, ReadsKept, TokensKept
<1>2. claim[p].seen = row /\ row.exists
  BY <1>1 DEF Snapshot, L!Current
<1> QED BY <1>1, <1>2 DEF L!Refused, L!Matches

LEMMA PromotedRow ==
    ASSUME LiveInv, NEW t \in Nat, t # 0, t = row.primary \/ t = row.replacement,
           t = row.primary => row.replacement = 0
    PROVE  LET new == [L!Promoted(row, t) EXCEPT !.state = "reconnecting"] IN
           /\ new \in ChannelRow /\ new.state = "reconnecting" /\ new.exists = row.exists
           /\ new.primary = t /\ new.replacement = 0
<1>1. row \in ChannelRow /\ row.primary # row.replacement
  BY DEF LiveInv, LiveTypes, TokensKept, ChannelRow
<1>2. CASE t = row.replacement
  BY <1>1, <1>2 DEF L!Promoted, ChannelRow
<1>3. CASE t # row.replacement
  BY <1>1, <1>3 DEF L!Promoted, ChannelRow
<1> QED BY <1>2, <1>3

LEMMA LiveClaimWrite ==
    ASSUME LiveInv, NEW p \in Publisher, L!claimWrite(p)
    PROVE  LiveInv'
<1>1. UNCHANGED <<session, issued, poll, del, make, process, child, backoff>> /\ claim[p].at = "write"
  BY DEF L!claimWrite
<1>2. claim[p] \in ClaimCall /\ claim[p].token # 0 /\ claim \in [Publisher -> ClaimCall]
  BY <1>1 DEF LiveInv, LiveTypes, TokensKept
<1>3. CASE /\ L!Current(claim[p].seen)
           /\ L!Write([L!Promoted(claim[p].seen, claim[p].token) EXCEPT !.state = "reconnecting"])
           /\ claim' = [claim EXCEPT ![p].at = "accepted"]
  <2> DEFINE new == [L!Promoted(row, claim[p].token) EXCEPT !.state = "reconnecting"]
  <2>1. /\ claim[p].seen = row /\ row.exists
        /\ claim[p].token = row.primary \/ claim[p].token = row.replacement
        /\ claim[p].token = row.primary => row.replacement = 0
    BY <1>1, <1>3, ClaimWins
  <2>2. /\ new \in ChannelRow /\ new.state = "reconnecting" /\ new.exists
        /\ new.primary = claim[p].token /\ new.replacement = 0
    BY <1>2, <2>1, PromotedRow DEF ClaimCall
  <2>3. L!Write(new)
    BY <1>3, <2>1
  <2>4. 1 <= new.primary /\ new.primary <= issued
    BY <1>2, <2>1, <2>2 DEF LiveInv, LiveTypes, TokensKept, ChannelRow, ClaimCall
  <2>5. /\ claim' \in [Publisher -> ClaimCall] /\ claim'[p].at = "accepted"
        /\ claim'[p].token = claim[p].token
        /\ \A q \in Publisher \ {p} : claim'[q] = claim[q]
    BY <1>2, <1>3 DEF ClaimCall
  <2>6. \A q \in Publisher :
          /\ claim'[q].at = "write" => claim[q].at = "write" /\ claim'[q] = claim[q]
          /\ claim'[q].at # "idle" => claim'[q].token # 0
    BY <1>2, <2>5 DEF LiveInv, TokensKept
  <2>7. /\ session' \in BOOLEAN /\ issued' = issued /\ issued' \in Nat /\ make' \in CreateCall
        /\ poll' \in PollRound
    BY <1>1 DEF LiveInv, LiveTypes
  <2> HIDE DEF new
  <2> QED BY <1>1, <2>2, <2>3, <2>4, <2>5, <2>6, <2>7, RowMoves
<1>4. CASE /\ ~L!Current(claim[p].seen) /\ row' = row
           /\ claim' = [claim EXCEPT ![p] =
                IF @.tries + 1 = MaxAttempts THEN L!NoClaim
                ELSE [@ EXCEPT !.at = "claim", !.tries = claim[p].tries + 1]]
  <2>1. CASE claim[p].tries + 1 = MaxAttempts
    <3>1. claim' = [claim EXCEPT ![p] = L!NoClaim]
      BY <1>4, <2>1
    <3> QED BY <1>1, <1>4, <3>1, NoClaimTypes, ClaimMoves
  <2>2. CASE claim[p].tries + 1 # MaxAttempts
    <3> DEFINE c == [claim[p] EXCEPT !.at = "claim", !.tries = claim[p].tries + 1]
    <3>1. claim' = [claim EXCEPT ![p] = c]
      BY <1>4, <2>2
    <3>2. c \in ClaimCall /\ c.at = "claim" /\ c.token # 0
      BY <1>2, ClaimRetried
    <3> HIDE DEF c
    <3> QED BY <1>1, <1>4, <3>1, <3>2, ClaimMoves
  <2> QED BY <2>1, <2>2
<1> QED BY <1>3, <1>4 DEF L!claimWrite

LEMMA LivePublishes ==
    ASSUME LiveInv, NEW p \in Publisher, L!PublishStarts(p)
    PROVE  LiveInv'
<1>1. /\ claim' = [claim EXCEPT ![p] = L!NoClaim]
      /\ UNCHANGED <<row, session, issued, poll, del, make, process, child, backoff>>
  BY DEF L!PublishStarts
<1> QED BY <1>1, NoClaimTypes, ClaimMoves

LEMMA LiveReplaced ==
    ASSUME LiveInv, L!replacePublisher
    PROVE  LiveInv'
<1> DEFINE new == [row EXCEPT !.replacement = issued + 1]
<1>1. /\ row.exists /\ issued' = issued + 1 /\ L!Write(new)
      /\ UNCHANGED <<session, claim, poll, del, make, process, child, backoff>>
  BY DEF L!replacePublisher
<1>2. row \in ChannelRow /\ issued \in Nat /\ 1 <= row.primary /\ row.primary <= issued
  BY DEF LiveInv, LiveTypes, TokensKept
<1>3. /\ new \in ChannelRow /\ new.exists /\ new.state = row.state
      /\ new.primary = row.primary /\ new.replacement = issued + 1
  BY <1>1, <1>2 DEF ChannelRow
<1>4. /\ session' \in BOOLEAN /\ issued' \in Nat /\ make' \in CreateCall
      /\ claim' \in [Publisher -> ClaimCall] /\ poll' \in PollRound
  BY <1>1 DEF LiveInv, LiveTypes
<1>5. \A p \in Publisher : claim'[p] = claim[p] /\ (claim'[p].at # "idle" => claim'[p].token # 0)
  BY <1>1 DEF LiveInv, TokensKept
<1>6. /\ 1 <= new.primary /\ new.primary <= issued'
      /\ new.primary < new.replacement /\ new.replacement <= issued'
  BY <1>1, <1>2, <1>3 DEF ChannelRow
<1> HIDE DEF new
<1> QED BY <1>1, <1>3, <1>4, <1>5, <1>6, RowMoves

\* A child ends, is told to stop or starts.
LEMMA LiveChildExits ==
    ASSUME LiveInv, NEW c \in L!Children, L!ChildExits(c)
    PROVE  LiveInv'
<1>1. /\ child' = [child EXCEPT ![c] = "gone"]
      /\ process' = IF process = c THEN 0 ELSE process
      /\ backoff' = (backoff \/ process = c)
      /\ UNCHANGED <<row, session, issued, claim, make, poll, del>>
  BY DEF L!ChildExits
<1>2. /\ child' \in [L!Children -> {"gone", "starting", "running", "stopping"}]
      /\ process' \in 0 .. MaxChildren /\ backoff' \in BOOLEAN
      /\ poll' \in PollRound /\ del' \in DeleteCall
  BY <1>1, LiveChildren DEF LiveInv, LiveTypes
<1>3. L!Alive' \subseteq L!Alive \ {c}
  BY <1>1 DEF L!Alive, LiveInv, LiveTypes
<1>4. ChildrenKept'
  BY <1>1, <1>3 DEF LiveInv, ChildrenKept, L!Current
<1>5. (poll'.at = "write" => Snapshot(poll'.seen)) /\ (del'.at # "idle" => del'.seen.rev <= row.rev)
  BY <1>1 DEF LiveInv, ReadsKept
<1> QED BY <1>1, <1>2, <1>4, <1>5, ChildrenMove

LEMMA StopsChild ==
    ASSUME LiveInv, L!stopChild
    PROVE  /\ child' \in [L!Children -> {"gone", "starting", "running", "stopping"}]
           /\ process' = 0 /\ process' \in 0 .. MaxChildren /\ backoff' = FALSE
           /\ L!Alive' = {}
<1>1. child' = L!Told(process) /\ process' = 0 /\ backoff' = FALSE
  BY DEF L!stopChild
<1>2. child' \in [L!Children -> {"gone", "starting", "running", "stopping"}]
  BY <1>1 DEF LiveInv, LiveTypes, L!Told
<1>3. ASSUME NEW c \in L!Children, child'[c] \in {"starting", "running"}
      PROVE  FALSE
  <2>1. child[c] \in {"starting", "running"}
    BY <1>1, <1>3 DEF LiveInv, LiveTypes, L!Told
  <2>2. c = process /\ c # 0
    BY <2>1, LiveChildren DEF LiveInv, ChildrenKept, L!Alive
  <2>3. child' = [child EXCEPT ![process] = "stopping"]
    BY <1>1, <2>1, <2>2 DEF L!Told
  <2> QED BY <1>3, <2>2, <2>3 DEF LiveInv, LiveTypes
<1> QED BY <1>1, <1>2, <1>3, LiveChildren DEF L!Alive

LEMMA StartsChild ==
    ASSUME LiveInv, process = 0, NEW c \in L!Children, L!startChild(c)
    PROVE  /\ child' \in [L!Children -> {"gone", "starting", "running", "stopping"}]
           /\ process' = c /\ process' \in 0 .. MaxChildren /\ backoff' = backoff
           /\ L!Alive' \subseteq {c}
<1>1. /\ process' = c /\ child' = [child EXCEPT ![c] = "starting"] /\ backoff' = backoff
  BY DEF L!startChild
<1>2. L!Alive = {}
  BY LiveChildren DEF LiveInv, ChildrenKept, L!Alive
<1> QED BY <1>1, <1>2, LiveChildren DEF L!Alive, LiveInv, LiveTypes

\* The rounds of the poll.
LEMMA NoPollTypes == /\ L!NoPoll \in PollRound /\ L!NoPoll.at = "idle"
                     /\ L!NoDelete \in DeleteCall /\ L!NoDelete.at = "idle"
                     /\ L!NoCreate \in CreateCall
BY NewRowTypes, LiveChildren
DEF L!NoPoll, L!NoDelete, L!NoCreate, PollRound, DeleteCall, CreateCall

LEMMA PollMoves ==
    ASSUME LiveInv, poll' \in PollRound, poll'.at = "write" => Snapshot(poll'.seen),
           poll'.at = "profile" /\ poll'.ready => row.exists /\ row.state # "offline",
           UNCHANGED <<row, session, issued, claim, del, make, process, child, backoff>>
    PROVE  LiveInv'
<1>1. ChildrenKept'
  BY DEF LiveInv, ChildrenKept, L!Alive, L!Current
<1>2. /\ child' \in [L!Children -> {"gone", "starting", "running", "stopping"}]
      /\ process' \in 0 .. MaxChildren /\ backoff' \in BOOLEAN /\ del' \in DeleteCall
  BY DEF LiveInv, LiveTypes
<1>3. del'.at # "idle" => del'.seen.rev <= row.rev
  BY DEF LiveInv, ReadsKept
<1> QED BY <1>1, <1>2, <1>3, ChildrenMove

LEMMA LivePollFetch == LiveInv /\ L!pollFetch => LiveInv'
<1> SUFFICES ASSUME LiveInv, L!pollFetch PROVE LiveInv'
  OBVIOUS
<1>1. poll' = [poll EXCEPT !.at = "read", !.ready = stream # None]
  BY DEF L!pollFetch
<1>2. poll' \in PollRound /\ poll'.at = "read"
  BY <1>1 DEF LiveInv, LiveTypes, PollRound
<1>3. UNCHANGED <<row, session, issued, claim, del, make, process, child, backoff>>
  BY DEF L!pollFetch
<1> QED BY <1>2, <1>3, PollMoves

LEMMA LivePollRead == LiveInv /\ L!pollRead => LiveInv'
<1> SUFFICES ASSUME LiveInv, L!pollRead PROVE LiveInv'
  OBVIOUS
<1>1. UNCHANGED <<row, session, issued, claim, del, make, process, child, backoff>>
  BY DEF L!pollRead
<1>2. CASE ~row.exists
  <2>1. poll' = L!NoPoll
    BY <1>2 DEF L!pollRead
  <2> QED BY <1>1, <2>1, NoPollTypes, PollMoves
<1>3. CASE row.exists /\ row.state = L!Wanted(poll.ready)
  <2>1. poll' = [poll EXCEPT !.seen = row, !.at = "profile"]
    BY <1>3 DEF L!pollRead
  <2>2. poll' \in PollRound /\ poll'.at = "profile" /\ poll'.ready = poll.ready
    BY <2>1 DEF LiveInv, LiveTypes, PollRound
  <2> QED BY <1>1, <1>3, <2>2, PollMoves DEF L!Wanted
<1>4. CASE row.exists /\ row.state # L!Wanted(poll.ready)
  <2>1. poll' = [poll EXCEPT !.seen = row, !.at = "write"]
    BY <1>4 DEF L!pollRead
  <2>2. poll' \in PollRound /\ poll'.at = "write" /\ poll'.seen = row
    BY <2>1 DEF LiveInv, LiveTypes, PollRound
  <2>3. Snapshot(row)
    BY <1>4 DEF Snapshot, LiveInv, LiveTypes, ChannelRow
  <2> QED BY <1>1, <2>2, <2>3, PollMoves
<1> QED BY <1>2, <1>3, <1>4

LEMMA LivePollWrite == LiveInv /\ L!pollWrite => LiveInv'
<1> SUFFICES ASSUME LiveInv, L!pollWrite PROVE LiveInv'
  OBVIOUS
<1>1. UNCHANGED <<session, issued, claim, del, make, process, child, backoff>> /\ poll.at = "write"
  BY DEF L!pollWrite
<1>2. poll \in PollRound /\ row \in ChannelRow /\ issued \in Nat
  BY DEF LiveInv, LiveTypes
<1>3. CASE /\ L!Current(poll.seen)
           /\ L!Write([poll.seen EXCEPT !.state = L!Wanted(poll.ready)])
           /\ poll' = [poll EXCEPT !.at = "profile", !.seen = row']
  <2> DEFINE new == [row EXCEPT !.state = L!Wanted(poll.ready)]
  <2>1. poll.seen = row /\ row.exists
    BY <1>1, <1>3 DEF LiveInv, ReadsKept, Snapshot, L!Current
  <2>2. /\ new \in ChannelRow /\ new.exists /\ new.state = L!Wanted(poll.ready)
        /\ new.primary = row.primary /\ new.replacement = row.replacement
    BY <1>2, <2>1 DEF L!Wanted, ChannelRow
  <2>3. L!Write(new)
    BY <1>3, <2>1
  <2>4. row' \in ChannelRow
    BY <2>2, <2>3, WriteTypes DEF LiveInv
  <2>5. poll' \in PollRound /\ poll'.at = "profile" /\ poll'.ready = poll.ready
    BY <1>2, <1>3, <2>4 DEF PollRound
  <2>6. /\ 1 <= new.primary /\ new.primary <= issued
        /\ new.replacement = 0 \/ (new.primary < new.replacement /\ new.replacement <= issued)
    BY <2>2 DEF LiveInv, TokensKept
  <2>7. /\ session' \in BOOLEAN /\ issued' = issued /\ issued' \in Nat /\ make' \in CreateCall
        /\ claim' \in [Publisher -> ClaimCall]
    BY <1>1 DEF LiveInv, LiveTypes
  <2>8. \A p \in Publisher : claim'[p] = claim[p] /\ (claim'[p].at # "idle" => claim'[p].token # 0)
    BY <1>1 DEF LiveInv, TokensKept
  <2>9. ~poll'.ready \/ (poll'.ready /\ new.state = "online")
    BY <2>2, <2>5 DEF L!Wanted
  <2> HIDE DEF new
  <2> QED BY <1>1, <2>2, <2>3, <2>5, <2>6, <2>7, <2>8, <2>9, RowMoves
<1>4. CASE poll' = L!NoPoll /\ row' = row
  BY <1>1, <1>4, NoPollTypes, PollMoves
<1> QED BY <1>3, <1>4 DEF L!pollWrite

LEMMA LivePollNormalize == LiveInv /\ L!pollNormalize => LiveInv'
<1> SUFFICES ASSUME LiveInv, L!pollNormalize PROVE LiveInv'
  OBVIOUS
<1>1. UNCHANGED <<row, session, issued, claim, del, make>> /\ poll.at = "profile"
  BY DEF L!pollNormalize
<1>2. poll \in PollRound /\ process \in 0 .. MaxChildren /\ del' \in DeleteCall
  BY <1>1 DEF LiveInv, LiveTypes
<1>3. del'.at # "idle" => del'.seen.rev <= row.rev
  BY <1>1 DEF LiveInv, ReadsKept
<1>4. CASE L!stopChild /\ poll' = [poll EXCEPT !.at = "stopping", !.child = process]
  <2>1. poll' \in PollRound /\ poll'.at = "stopping"
    BY <1>2, <1>4 DEF PollRound
  <2>2. ChildrenKept'
    BY <1>1, <1>4, <2>1, StopsChild DEF ChildrenKept
  <2> QED BY <1>1, <1>3, <1>2, <1>4, <2>1, <2>2, StopsChild, ChildrenMove
<1>5. ASSUME process = 0, poll.ready, NEW c \in L!Children, L!startChild(c),
             poll' = [poll EXCEPT !.at = "starting", !.child = process']
      PROVE  LiveInv'
  <2>1. row.exists /\ row.state # "offline"
    BY <1>1, <1>5 DEF LiveInv, ChildrenKept
  <2>2. /\ child' \in [L!Children -> {"gone", "starting", "running", "stopping"}]
        /\ process' = c /\ process' \in 0 .. MaxChildren /\ backoff' \in BOOLEAN
        /\ L!Alive' \subseteq {c}
    BY <1>5, StartsChild DEF LiveInv, LiveTypes
  <2>3. poll' \in PollRound /\ poll'.at = "starting"
    BY <1>2, <1>5, <2>2 DEF PollRound
  <2>4. ChildrenKept'
    BY <1>1, <2>1, <2>2, <2>3 DEF ChildrenKept
  <2> QED BY <1>1, <1>2, <1>3, <2>2, <2>3, <2>4, ChildrenMove
<1>6. CASE poll' = L!NoPoll /\ UNCHANGED <<process, child, backoff>>
  BY <1>1, <1>6, NoPollTypes, PollMoves
<1> QED BY <1>4, <1>5, <1>6 DEF L!pollNormalize

LEMMA LivePollEnds ==
    ASSUME LiveInv, L!pollStarted \/ L!pollStopped
    PROVE  LiveInv'
<1>1. /\ UNCHANGED <<row, session, issued, claim, del, make, process, backoff>> /\ poll' = L!NoPoll
      /\ \/ child' = child
         \/ child[poll.child] = "starting" /\ child' = [child EXCEPT ![poll.child] = "running"]
  BY DEF L!pollStarted, L!pollStopped
<1>2. /\ child' \in [L!Children -> {"gone", "starting", "running", "stopping"}]
      /\ process' \in 0 .. MaxChildren /\ backoff' \in BOOLEAN /\ del' \in DeleteCall
  BY <1>1 DEF LiveInv, LiveTypes
<1>3. L!Alive' = L!Alive
  BY <1>1 DEF LiveInv, LiveTypes, L!Alive
<1>4. ChildrenKept'
  BY <1>1, <1>3, NoPollTypes DEF LiveInv, ChildrenKept, L!Current
<1>5. del'.at # "idle" => del'.seen.rev <= row.rev
  BY <1>1 DEF LiveInv, ReadsKept
<1> QED BY <1>1, <1>2, <1>4, <1>5, NoPollTypes, ChildrenMove

\* The deletion, the creation of a session and the shutdown.
LEMMA LiveDeleteRead == LiveInv /\ L!deleteRead => LiveInv'
<1> SUFFICES ASSUME LiveInv, L!deleteRead PROVE LiveInv'
  OBVIOUS
<1>1. /\ UNCHANGED <<row, session, issued, claim, make, poll, process, child, backoff>>
      /\ del' = [del EXCEPT !.at = "sessions", !.seen = row]
  BY DEF L!deleteRead
<1>2. del' \in DeleteCall /\ del'.at = "sessions" /\ del'.seen = row /\ row.rev \in Nat
  BY <1>1 DEF LiveInv, LiveTypes, DeleteCall, ChannelRow
<1>3. ChildrenKept'
  BY <1>1, <1>2 DEF LiveInv, ChildrenKept, L!Alive
<1>4. /\ child' \in [L!Children -> {"gone", "starting", "running", "stopping"}]
      /\ process' \in 0 .. MaxChildren /\ backoff' \in BOOLEAN /\ poll' \in PollRound
  BY <1>1 DEF LiveInv, LiveTypes
<1>5. poll'.at = "write" => Snapshot(poll'.seen)
  BY <1>1 DEF LiveInv, ReadsKept
<1> QED BY <1>1, <1>2, <1>3, <1>4, <1>5, ChildrenMove

LEMMA LiveDeleteStop == LiveInv /\ L!deleteStop => LiveInv'
<1> SUFFICES ASSUME LiveInv, L!deleteStop PROVE LiveInv'
  OBVIOUS
<1>1. UNCHANGED <<row, session, issued, claim, make, poll>> /\ del.at = "sessions"
  BY DEF L!deleteStop
<1>2. /\ del \in DeleteCall /\ process \in 0 .. MaxChildren /\ poll' \in PollRound
      /\ del.seen.rev <= row.rev
  BY <1>1 DEF LiveInv, LiveTypes, ReadsKept
<1>3. poll'.at = "write" => Snapshot(poll'.seen)
  BY <1>1 DEF LiveInv, ReadsKept
<1>4. CASE del' = L!NoDelete /\ UNCHANGED <<process, child, backoff>>
  <2>1. ChildrenKept'
    BY <1>1, <1>4, NoPollTypes DEF LiveInv, ChildrenKept, L!Alive
  <2>2. /\ child' \in [L!Children -> {"gone", "starting", "running", "stopping"}]
        /\ process' \in 0 .. MaxChildren /\ backoff' \in BOOLEAN
    BY <1>4 DEF LiveInv, LiveTypes
  <2> QED BY <1>1, <1>2, <1>3, <1>4, <2>1, <2>2, NoPollTypes, ChildrenMove
<1>5. CASE L!stopChild /\ del' = [del EXCEPT !.at = "delete", !.child = process]
  <2>1. del' \in DeleteCall /\ del'.seen = del.seen
    BY <1>2, <1>5 DEF DeleteCall
  <2>2. ChildrenKept'
    BY <1>1, <1>5, StopsChild DEF LiveInv, ChildrenKept
  <2> QED BY <1>1, <1>2, <1>3, <1>5, <2>1, <2>2, StopsChild, ChildrenMove
<1> QED BY <1>4, <1>5 DEF L!deleteStop

LEMMA LiveDeleteRow == LiveInv /\ L!deleteRow => LiveInv'
<1> SUFFICES ASSUME LiveInv, L!deleteRow PROVE LiveInv'
  OBVIOUS
<1>1. /\ UNCHANGED <<session, issued, claim, make, poll, process, child, backoff>>
      /\ del' = L!NoDelete /\ del.at = "delete"
  BY DEF L!deleteRow
<1>2. CASE row' = row
  <2>1. ChildrenKept'
    BY <1>1, <1>2, NoPollTypes DEF LiveInv, ChildrenKept, L!Alive
  <2>2. /\ child' \in [L!Children -> {"gone", "starting", "running", "stopping"}]
        /\ process' \in 0 .. MaxChildren /\ backoff' \in BOOLEAN /\ poll' \in PollRound
    BY <1>1 DEF LiveInv, LiveTypes
  <2>3. poll'.at = "write" => Snapshot(poll'.seen)
    BY <1>1 DEF LiveInv, ReadsKept
  <2> QED BY <1>1, <1>2, <2>1, <2>2, <2>3, NoPollTypes, ChildrenMove
<1>3. CASE /\ L!Current(del.seen) /\ row.state = "offline"
           /\ row' = [row EXCEPT !.exists = FALSE]
  <2>1. row \in ChannelRow
    BY DEF LiveInv, LiveTypes
  <2>2. /\ row' \in ChannelRow /\ ~row'.exists /\ row'.rev = row.rev
        /\ row'.primary = row.primary /\ row'.replacement = row.replacement
        /\ row'.state = row.state
    BY <1>3, <2>1 DEF ChannelRow
  <2>3. LiveTypes'
    BY <1>1, <2>2, NoPollTypes DEF LiveInv, LiveTypes
  <2>4. TokensKept'
    BY <1>1, <2>2 DEF LiveInv, TokensKept
  <2>5. ReadsKept'
    BY <1>1, <2>2, NoPollTypes DEF LiveInv, ReadsKept, Snapshot, L!Refused, L!Matches
  <2>6. L!Alive = {} /\ ~(poll.at = "profile" /\ poll.ready)
    BY <1>1, <1>3 DEF LiveInv, ChildrenKept
  <2>7. L!Alive' = L!Alive
    BY <1>1 DEF L!Alive
  <2>8. ChildrenKept'
    BY <1>1, <2>6, <2>7, NoPollTypes DEF ChildrenKept
  <2> QED BY <2>3, <2>4, <2>5, <2>8 DEF LiveInv
<1> QED BY <1>2, <1>3 DEF L!deleteRow

LEMMA LiveCreates ==
    ASSUME LiveInv, L!createRead \/ L!createClaim \/ L!createCommit
    PROVE  LiveInv'
<1>0. row \in ChannelRow /\ make \in CreateCall
  BY DEF LiveInv, LiveTypes
<1>1. CASE L!createRead
  <2>1. /\ make' = [at |-> IF row.profile THEN "commit" ELSE "claim", seen |-> row, tries |-> 0]
        /\ UNCHANGED <<row, session, issued, claim, poll, del, process, child, backoff>>
    BY <1>1 DEF L!createRead
  <2>2. make' \in CreateCall
    BY <1>0, <2>1 DEF CreateCall
  <2> QED BY <2>1, <2>2, OthersMove DEF LiveInv, LiveTypes
<1>2. CASE L!createCommit
  <2>1. /\ session' = L!Current(make.seen) /\ make' = L!NoCreate
        /\ UNCHANGED <<row, issued, claim, poll, del, process, child, backoff>>
    BY <1>2 DEF L!createCommit
  <2>2. session' \in BOOLEAN
    BY <2>1 DEF L!Current
  <2> QED BY <2>1, <2>2, NoPollTypes, OthersMove DEF LiveInv, LiveTypes
<1>3. CASE L!createClaim /\ L!Current(make.seen)
  <2> DEFINE new == [row EXCEPT !.profile = TRUE]
  <2>1. /\ L!Write(new) /\ make' = [make EXCEPT !.at = "commit", !.seen = row'] /\ row.exists
        /\ UNCHANGED <<session, issued, claim, poll, del, process, child, backoff>>
    BY <1>3 DEF L!createClaim, L!Current
  <2>2. /\ new \in ChannelRow /\ new.exists = row.exists /\ new.state = row.state
        /\ new.primary = row.primary /\ new.replacement = row.replacement
    BY <1>0 DEF ChannelRow
  <2>3. row' \in ChannelRow
    BY <2>1, <2>2, WriteTypes DEF LiveInv
  <2>4. make' \in CreateCall
    BY <1>0, <2>1, <2>3 DEF CreateCall
  <2>5. /\ 1 <= new.primary /\ new.primary <= issued
        /\ new.replacement = 0 \/ (new.primary < new.replacement /\ new.replacement <= issued)
    BY <2>2 DEF LiveInv, TokensKept
  <2>6. /\ session' \in BOOLEAN /\ issued' = issued /\ issued' \in Nat
        /\ claim' \in [Publisher -> ClaimCall] /\ poll' \in PollRound
    BY <2>1 DEF LiveInv, LiveTypes
  <2>7. \A p \in Publisher : claim'[p] = claim[p] /\ (claim'[p].at # "idle" => claim'[p].token # 0)
    BY <2>1 DEF LiveInv, TokensKept
  <2> HIDE DEF new
  <2> QED BY <2>1, <2>2, <2>4, <2>5, <2>6, <2>7, RowMoves
<1>4. CASE L!createClaim /\ ~L!Current(make.seen)
  <2>1. /\ make' = IF ~row.exists \/ make.tries + 1 = MaxAttempts THEN L!NoCreate
                   ELSE [at |-> IF row.profile THEN "commit" ELSE "claim",
                         seen |-> row, tries |-> make.tries + 1]
        /\ UNCHANGED <<row, session, issued, claim, poll, del, process, child, backoff>>
    BY <1>4 DEF L!createClaim
  <2>2. make' \in CreateCall
    BY <1>0, <2>1, NoPollTypes DEF CreateCall
  <2> QED BY <2>1, <2>2, OthersMove DEF LiveInv, LiveTypes
<1> QED BY <1>1, <1>2, <1>3, <1>4

LEMMA LiveOthers ==
    ASSUME LiveInv, L!PublishEnds \/ L!deleteSession \/ L!BackoffEnds \/ L!clearTimers
    PROVE  LiveInv'
<1>1. /\ session' \in BOOLEAN /\ make' = make /\ backoff' \in BOOLEAN
      /\ UNCHANGED <<row, issued, claim, poll, del, process, child>>
  BY DEF LiveInv, LiveTypes, L!PublishEnds, L!deleteSession, L!BackoffEnds, L!clearTimers
<1> QED BY <1>1, OthersMove DEF LiveInv, LiveTypes

LEMMA LiveStop == LiveInv /\ L!stop => LiveInv'
<1> SUFFICES ASSUME LiveInv, L!stop PROVE LiveInv'
  OBVIOUS
<1>1. UNCHANGED <<row, session, issued, claim, make, poll, del>>
  BY DEF L!stop
<1>2. CASE L!stopChild
  <2>1. ChildrenKept'
    BY <1>1, <1>2, StopsChild DEF LiveInv, ChildrenKept, L!Current
  <2>2. poll' \in PollRound /\ del' \in DeleteCall
    BY <1>1 DEF LiveInv, LiveTypes
  <2>3. (poll'.at = "write" => Snapshot(poll'.seen)) /\ (del'.at # "idle" => del'.seen.rev <= row.rev)
    BY <1>1 DEF LiveInv, ReadsKept
  <2>4. backoff' \in BOOLEAN
    BY <1>2, StopsChild
  <2> QED BY <1>1, <1>2, <2>1, <2>2, <2>3, <2>4, StopsChild, ChildrenMove
<1>3. CASE UNCHANGED <<process, child, backoff>>
  BY <1>1, <1>3, OthersMove DEF LiveInv, LiveTypes
<1> QED BY <1>2, <1>3 DEF L!stop

LEMMA LiveStep ==
    ASSUME LiveInv, L!Next \/ UNCHANGED lvars
    PROVE  LiveInv'
<1>1. CASE UNCHANGED lvars
  BY <1>1, OthersMove DEF lvars, LiveInv, LiveTypes
<1>2. CASE \E p \in Publisher : L!Claiming(p) \/ \E t \in 1 .. issued : L!authorizeMediaMtx(p, t)
  BY <1>2, LiveAsked, LiveClaimRead, LiveClaimWrite, LivePublishes DEF L!Claiming
<1>3. CASE L!Polling
  BY <1>3, LivePollFetch, LivePollRead, LivePollWrite, LivePollNormalize, LivePollEnds DEF L!Polling
<1>4. CASE L!deleteRead \/ L!Deleting
  BY <1>4, LiveDeleteRead, LiveDeleteStop, LiveDeleteRow DEF L!Deleting
<1>5. CASE L!createRead \/ L!Creating
  BY <1>5, LiveCreates DEF L!Creating
<1>6. CASE L!replacePublisher \/ \E c \in L!Children : L!ChildExits(c)
  BY <1>6, LiveReplaced, LiveChildExits
<1>7. CASE L!PublishEnds \/ L!deleteSession \/ L!BackoffEnds \/ L!clearTimers \/ L!stop
  BY <1>7, LiveOthers, LiveStop
<1> QED BY <1>1, <1>2, <1>3, <1>4, <1>5, <1>6, <1>7 DEF L!Next

LEMMA LiveSafe == LiveInv => L!NoStrayNormalizer
BY DEF LiveInv, ChildrenKept, L!NoStrayNormalizer

\* What a step does to the tokens (the action of L!AdmittedOnce).
Admits ==
    /\ \A p \in Publisher :
         claim[p].at # "accepted" /\ claim'[p].at = "accepted" =>
           /\ row.exists /\ ~L!Refused(claim[p].token, row)
           /\ row'.primary = claim[p].token /\ row'.state = "reconnecting"
    /\ row'.primary >= row.primary /\ row'.replacement \in {0} \cup row.primary .. issued'
    /\ row'.primary # row.primary => row'.primary = row.replacement

\* No claim is accepted, the tokens of the row stay.
LEMMA TokensStay ==
    ASSUME LiveInv, row'.primary = row.primary, row'.replacement = row.replacement, issued' = issued,
           \A p \in Publisher : claim'[p].at = "accepted" => claim[p].at = "accepted"
    PROVE  Admits
<1>1. /\ row.primary \in Nat /\ row.replacement \in Nat /\ issued \in Nat
      /\ row.replacement = 0 \/ (row.primary < row.replacement /\ row.replacement <= issued)
  BY DEF LiveInv, LiveTypes, TokensKept, ChannelRow
<1>2. row'.primary >= row.primary /\ row'.replacement \in {0} \cup row.primary .. issued'
  BY <1>1
<1> QED BY <1>2 DEF Admits

LEMMA WinnerAdmitted ==
    ASSUME LiveInv, NEW p \in Publisher, L!claimWrite(p)
    PROVE  Admits
<1>1. claim[p].at = "write" /\ UNCHANGED issued
  BY DEF L!claimWrite
<1>2. claim \in [Publisher -> ClaimCall] /\ claim[p] \in ClaimCall /\ claim[p].token # 0
  BY <1>1 DEF LiveInv, LiveTypes, TokensKept
<1>3. CASE /\ L!Current(claim[p].seen)
           /\ L!Write([L!Promoted(claim[p].seen, claim[p].token) EXCEPT !.state = "reconnecting"])
           /\ claim' = [claim EXCEPT ![p].at = "accepted"]
  <2> DEFINE new == [L!Promoted(row, claim[p].token) EXCEPT !.state = "reconnecting"]
  <2>1. /\ claim[p].seen = row /\ row.exists /\ ~L!Refused(claim[p].token, row)
        /\ claim[p].token = row.primary \/ claim[p].token = row.replacement
        /\ claim[p].token = row.primary => row.replacement = 0
    BY <1>1, <1>3, ClaimWins
  <2>2. /\ new \in ChannelRow /\ new.state = "reconnecting"
        /\ new.primary = claim[p].token /\ new.replacement = 0
    BY <1>2, <2>1, PromotedRow DEF ClaimCall
  <2>3. L!Write(new)
    BY <1>3, <2>1
  <2>4. row'.primary = claim[p].token /\ row'.replacement = 0 /\ row'.state = "reconnecting"
    <3> HIDE DEF new
    <3> QED BY <2>2, <2>3, WriteTypes DEF LiveInv
  <2>5. \A q \in Publisher \ {p} : claim'[q] = claim[q]
    BY <1>2, <1>3
  <2>6. row'.primary >= row.primary
    <3>1. /\ row.primary \in Nat /\ row.replacement \in Nat
          /\ row.replacement = 0 \/ row.primary < row.replacement
      BY DEF LiveInv, LiveTypes, TokensKept, ChannelRow
    <3>2. CASE claim[p].token = row.primary
      BY <2>4, <3>1, <3>2
    <3>3. CASE claim[p].token = row.replacement
      BY <1>2, <2>4, <3>1, <3>3
    <3> QED BY <2>1, <3>2, <3>3
  <2>7. row'.primary # row.primary => row'.primary = row.replacement
    BY <2>1, <2>4
  <2>8. \A q \in Publisher : claim[q].at # "accepted" /\ claim'[q].at = "accepted" => q = p
    BY <2>5
  <2> QED BY <2>1, <2>4, <2>6, <2>7, <2>8 DEF Admits
<1>4. CASE ~L!Current(claim[p].seen)
  <2>1. row' = row /\ \E c \in {"idle", "claim"} : claim'[p].at = c
    <3>1. /\ row' = row
          /\ claim' = [claim EXCEPT ![p] =
                IF @.tries + 1 = MaxAttempts THEN L!NoClaim
                ELSE [@ EXCEPT !.at = "claim", !.tries = claim[p].tries + 1]]
      BY <1>4 DEF L!claimWrite
    <3> QED BY <1>2, <3>1, NoClaimTypes, ClaimRetried
  <2>2. \A q \in Publisher \ {p} : claim'[q] = claim[q]
    BY <1>2, <1>4 DEF L!claimWrite
  <2>3. \A q \in Publisher : claim'[q].at = "accepted" => claim[q].at = "accepted"
    BY <2>1, <2>2
  <2>4. row'.primary = row.primary /\ row'.replacement = row.replacement /\ issued' = issued
    BY <1>1, <2>1
  <2> QED BY <2>3, <2>4, TokensStay
<1> QED BY <1>3, <1>4 DEF L!claimWrite

\* A claim that is asked for, read or answered is not accepted by that.
LEMMA OthersAdmitted ==
    ASSUME LiveInv, NEW p \in Publisher,
           \/ \E t \in 1 .. issued : L!authorizeMediaMtx(p, t)
           \/ L!claimRead(p)
           \/ L!PublishStarts(p)
    PROVE  Admits
<1>1. UNCHANGED <<row, issued>> /\ claim \in [Publisher -> ClaimCall]
  BY DEF LiveInv, LiveTypes, L!authorizeMediaMtx, L!claimRead, L!PublishStarts
<1>2. \A q \in Publisher \ {p} : claim'[q] = claim[q]
  BY <1>1 DEF L!authorizeMediaMtx, L!claimRead, L!PublishStarts
<1>3. claim'[p].at # "accepted"
  <2>1. ASSUME NEW t \in 1 .. issued, L!authorizeMediaMtx(p, t)
        PROVE  claim'[p].at # "accepted"
    <3>1. claim' = [claim EXCEPT ![p] = [L!NoClaim EXCEPT !.at = "claim", !.token = t]]
      BY <2>1 DEF L!authorizeMediaMtx
    <3>2. t \in Nat
      BY DEF LiveInv, LiveTypes
    <3> QED BY <1>1, <3>1, <3>2, NoClaimTypes, ClaimAsked
  <2>2. CASE L!claimRead(p)
    <3>1. claim[p] \in ClaimCall
      BY <1>1
    <3>2. CASE ~row.exists \/ L!Refused(claim[p].token, row)
      BY <1>1, <2>2, <3>2, NoClaimTypes DEF L!claimRead
    <3>3. CASE row.exists /\ ~L!Refused(claim[p].token, row)
      <4>1. claim'[p] = [claim[p] EXCEPT !.at = "write", !.seen = row]
        BY <1>1, <2>2, <3>3 DEF L!claimRead
      <4> QED BY <3>1, <4>1 DEF ClaimCall
    <3> QED BY <3>2, <3>3
  <2>3. CASE L!PublishStarts(p)
    BY <1>1, <2>3, NoClaimTypes DEF L!PublishStarts
  <2> QED BY <2>1, <2>2, <2>3
<1>4. \A q \in Publisher : claim'[q].at = "accepted" => claim[q].at = "accepted"
  BY <1>2, <1>3
<1> QED BY <1>1, <1>4, TokensStay

LEMMA ReplacementAdmitted ==
    ASSUME LiveInv, L!replacePublisher
    PROVE  Admits
<1>1. L!Write([row EXCEPT !.replacement = issued + 1]) /\ issued' = issued + 1 /\ claim' = claim
  BY DEF L!replacePublisher
<1>2. row \in ChannelRow /\ row.primary <= issued /\ issued \in Nat /\ row.primary \in Nat
  BY DEF LiveInv, LiveTypes, TokensKept, ChannelRow
<1>3. row'.primary = row.primary /\ row'.replacement = issued + 1
  <2> DEFINE new == [row EXCEPT !.replacement = issued + 1]
  <2>1. new \in ChannelRow /\ new.primary = row.primary /\ new.replacement = issued + 1
    BY <1>2 DEF ChannelRow
  <2> HIDE DEF new
  <2> QED BY <1>1, <2>1, WriteTypes DEF LiveInv, new
<1>4. row'.replacement \in row.primary .. issued' /\ row'.primary >= row.primary
  BY <1>1, <1>2, <1>3
<1> QED BY <1>1, <1>3, <1>4 DEF Admits

\* The writes of the poll, of a creation and of the deletion leave the tokens alone.
LEMMA WritesAdmitted ==
    ASSUME LiveInv, L!pollWrite \/ L!createClaim \/ L!deleteRow
    PROVE  Admits
<1>1. claim' = claim /\ issued' = issued /\ row \in ChannelRow
  BY DEF LiveInv, LiveTypes, L!pollWrite, L!createClaim, L!deleteRow
<1>2. CASE row' = row
  BY <1>1, <1>2, TokensStay
<1>3. ASSUME NEW new \in ChannelRow, L!Write(new), new.primary = row.primary,
             new.replacement = row.replacement
      PROVE  Admits
  BY <1>1, <1>3, WriteTypes, TokensStay DEF LiveInv
<1>4. CASE row' = [row EXCEPT !.exists = FALSE]
  BY <1>1, <1>4, TokensStay DEF ChannelRow
<1>5. CASE L!Write([row EXCEPT !.profile = TRUE])
  BY <1>1, <1>3, <1>5 DEF ChannelRow
<1>6. CASE /\ poll.at = "write" /\ L!Current(poll.seen)
           /\ L!Write([poll.seen EXCEPT !.state = L!Wanted(poll.ready)])
  <2>1. poll.seen = row
    BY <1>6 DEF LiveInv, ReadsKept, Snapshot, L!Current
  <2>2. L!Wanted(poll.ready) \in {"online", "offline"}
    BY DEF L!Wanted
  <2> QED BY <1>1, <1>3, <1>6, <2>1, <2>2 DEF ChannelRow
<1> QED BY <1>2, <1>4, <1>5, <1>6 DEF L!pollWrite, L!createClaim, L!deleteRow

LEMMA LiveAdmits ==
    ASSUME LiveInv, L!Next \/ UNCHANGED lvars
    PROVE  Admits
<1>1. ASSUME UNCHANGED <<row, claim, issued>>
      PROVE  Admits
  BY <1>1, TokensStay
<1>2. CASE \/ UNCHANGED lvars
           \/ L!pollFetch \/ L!pollRead \/ L!pollNormalize \/ L!pollStarted \/ L!pollStopped
           \/ L!deleteRead \/ L!deleteStop \/ L!createRead \/ L!createCommit
           \/ L!PublishEnds \/ L!deleteSession \/ L!BackoffEnds \/ L!clearTimers \/ L!stop
           \/ \E c \in L!Children : L!ChildExits(c)
  <2>1. UNCHANGED <<row, claim, issued>>
    BY <1>2 DEF lvars, L!pollFetch, L!pollRead, L!pollNormalize, L!pollStarted, L!pollStopped,
       L!deleteRead, L!deleteStop, L!createRead, L!createCommit, L!PublishEnds, L!deleteSession,
       L!BackoffEnds, L!clearTimers, L!stop, L!ChildExits
  <2> QED BY <1>1, <2>1
<1>3. CASE \E p \in Publisher : L!Claiming(p) \/ \E t \in 1 .. issued : L!authorizeMediaMtx(p, t)
  BY <1>3, WinnerAdmitted, OthersAdmitted DEF L!Claiming
<1> QED
  BY <1>2, <1>3, ReplacementAdmitted, WritesAdmitted DEF L!Next, L!Polling, L!Deleting, L!Creating

---------------------------------------------------------------------------
(* The playback cache (SegmentCache).                                      *)

Lookup == [at : {"idle", "access", "stat", "open", "rename", "reference", "generate", "ensure",
                 "joined", "transcode", "putSegment", "putInit", "publish"},
           want : C!File, file : C!File, last : BOOLEAN, copy : {"absent", "whole", "bad"}]
OnDiskFile == [is : {"absent", "whole"}, age : Nat]
StoredObject == [is : {"absent", "whole", "bad"}, age : Nat]

\* The directory never has a damaged file; one viewer at most generates.
CacheInv ==
    /\ disk \in [C!File -> OnDiskFile] /\ store \in [C!File -> StoredObject]
    /\ req \in [Viewer -> Lookup]
    /\ \A u, v \in Viewer : req[u].at \in C!Generating /\ req[v].at \in C!Generating => u = v

LEMMA CacheFiles == /\ C!Gone \in OnDiskFile /\ C!Fresh \in OnDiskFile
                    /\ C!Gone \in StoredObject /\ C!Fresh \in StoredObject
                    /\ C!NoRequest \in Lookup /\ C!NoRequest.at = "idle"
                    /\ "segment" \in C!File /\ "init" \in C!File
BY DEF C!Gone, C!Fresh, C!NoRequest, C!File, OnDiskFile, StoredObject, Lookup

LEMMA CacheInit == C!Init => CacheInv
<1> SUFFICES ASSUME C!Init PROVE CacheInv
  OBVIOUS
<1>1. /\ disk = [f \in C!File |-> C!Gone] /\ store = [f \in C!File |-> C!Gone]
      /\ req = [v \in Viewer |-> C!NoRequest]
  BY DEF C!Init
<1>2. \A v \in Viewer : req[v].at = "idle"
  BY <1>1, CacheFiles
<1>3. "idle" \notin C!Generating
  BY DEF C!Generating
<1> QED BY <1>1, <1>2, <1>3, CacheFiles DEF CacheInv

\* A step of one request, which takes it to one of these places.
Moves(v, places) ==
    \E r \in Lookup : r.at \in places /\ req' = [req EXCEPT ![v] = r]

LEMMA GotoMoves ==
    ASSUME CacheInv, NEW v \in Viewer,
           NEW w \in {"idle", "access", "stat", "open", "rename", "reference", "generate", "ensure",
                      "joined", "transcode", "putSegment", "putInit", "publish"},
           C!Goto(v, w)
    PROVE  Moves(v, {w})
<1> DEFINE r == [req[v] EXCEPT !.at = w]
<1>1. r \in Lookup /\ r.at = w
  BY DEF CacheInv, Lookup
<1>2. req' = [req EXCEPT ![v] = r]
  BY DEF C!Goto
<1> HIDE DEF r
<1> QED BY <1>1, <1>2 DEF Moves

LEMMA AnsweredMoves ==
    ASSUME NEW v \in Viewer, C!Served(v) \/ C!Failed(v)
    PROVE  Moves(v, {"idle"})
BY CacheFiles DEF C!Served, C!Failed, Moves

LEMMA GoOnTypes ==
    ASSUME NEW r \in Lookup
    PROVE  C!GoOn(r) \in Lookup /\ C!GoOn(r).at = "access"
BY DEF C!GoOn, Lookup, C!File

LEMMA HitMoves ==
    ASSUME CacheInv, NEW v \in Viewer, C!Hit(v)
    PROVE  Moves(v, {"idle", "access"})
<1>1. CASE req[v].file = req[v].want
  <2>1. Moves(v, {"idle"})
    BY <1>1, AnsweredMoves DEF C!Hit
  <2> QED BY <2>1 DEF Moves
<1>2. CASE req[v].file # req[v].want
  <2>1. req' = [req EXCEPT ![v] = C!GoOn(req[v])] /\ req[v] \in Lookup
    BY <1>2 DEF C!Hit, CacheInv
  <2> QED BY <2>1, GoOnTypes DEF Moves
<1> QED BY <1>1, <1>2

LEMMA MissedMoves ==
    ASSUME CacheInv, NEW v \in Viewer, C!Missed(v)
    PROVE  Moves(v, {"idle", "generate", "access"})
<1>1. CASE C!Failed(v)
  <2>1. Moves(v, {"idle"})
    BY <1>1, AnsweredMoves
  <2> QED BY <2>1 DEF Moves
<1>2. CASE ~C!Failed(v) /\ req[v].file = "segment"
  <2> DEFINE r == [req[v] EXCEPT !.at = "generate"]
  <2>1. r \in Lookup /\ r.at = "generate"
    BY DEF CacheInv, Lookup
  <2>2. req' = [req EXCEPT ![v] = r]
    BY <1>2 DEF C!Missed
  <2> HIDE DEF r
  <2> QED BY <2>1, <2>2 DEF Moves
<1>3. CASE ~C!Failed(v) /\ req[v].file # "segment"
  <2> DEFINE r == [req[v] EXCEPT !.at = "access", !.file = "segment"]
  <2>1. r \in Lookup /\ r.at = "access"
    BY DEF CacheInv, Lookup, C!File
  <2>2. req' = [req EXCEPT ![v] = r]
    BY <1>3 DEF C!Missed
  <2> HIDE DEF r
  <2> QED BY <2>1, <2>2 DEF Moves
<1> QED BY <1>1, <1>2, <1>3

\* One that does not begin to generate while another does keeps the invariant.
LEMMA MovesKeep ==
    ASSUME CacheInv, NEW v \in Viewer, NEW places, Moves(v, places),
           \/ places \cap C!Generating = {}
           \/ req[v].at \in C!Generating
           \/ C!Flight = {},
           disk' \in [C!File -> OnDiskFile], store' \in [C!File -> StoredObject]
    PROVE  CacheInv'
<1>1. PICK r \in Lookup : r.at \in places /\ req' = [req EXCEPT ![v] = r]
  BY DEF Moves
<1>2. req' \in [Viewer -> Lookup] /\ req'[v] = r /\ \A u \in Viewer \ {v} : req'[u] = req[u]
  BY <1>1 DEF CacheInv
<1>3. ASSUME NEW u \in Viewer, NEW w \in Viewer,
             req'[u].at \in C!Generating, req'[w].at \in C!Generating
      PROVE  u = w
  <2>1. CASE u # v /\ w # v
    BY <1>2, <1>3, <2>1 DEF CacheInv
  <2>2. ASSUME NEW x \in Viewer, x # v, req'[x].at \in C!Generating, req'[v].at \in C!Generating
        PROVE  FALSE
    <3>1. req[x].at \in C!Generating /\ r.at \in C!Generating
      BY <1>2, <2>2
    <3>2. x \in C!Flight
      BY <3>1 DEF C!Flight
    <3>3. req[v].at \in C!Generating
      BY <1>1, <3>1, <3>2
    <3> QED BY <2>2, <3>1, <3>3 DEF CacheInv
  <2> QED BY <1>3, <2>1, <2>2
<1> QED BY <1>2, <1>3 DEF CacheInv

LEMMA CacheLooksUp ==
    ASSUME CacheInv, NEW v \in Viewer,
           C!Ask(v) \/ C!access(v) \/ C!stat(v) \/ C!open(v) \/ C!restored(v)
    PROVE  CacheInv'
<1>0. req[v] \in Lookup /\ req[v].file \in C!File
  BY DEF CacheInv, Lookup
<1>1. ASSUME Moves(v, {"idle", "access", "generate", "stat", "open", "rename"}),
             disk' \in [C!File -> OnDiskFile], store' \in [C!File -> StoredObject]
      PROVE  CacheInv'
  <2>1. {"idle", "access", "generate", "stat", "open", "rename"} \cap C!Generating = {}
    BY DEF C!Generating
  <2> QED BY <1>1, <2>1, MovesKeep
<1>2. CASE C!Ask(v)
  <2>1. PICK f \in C!File : req' = [req EXCEPT ![v] =
                              [C!NoRequest EXCEPT !.at = "access", !.want = f, !.file = f]]
    BY <1>2 DEF C!Ask
  <2>2. [C!NoRequest EXCEPT !.at = "access", !.want = f, !.file = f] \in Lookup
    BY DEF C!NoRequest, Lookup
  <2>3. [C!NoRequest EXCEPT !.at = "access", !.want = f, !.file = f].at = "access"
    BY CacheFiles DEF Lookup
  <2>4. Moves(v, {"idle", "access", "generate", "stat", "open", "rename"})
    BY <2>1, <2>2, <2>3 DEF Moves
  <2>5. disk' = disk /\ store' = store
    BY <1>2 DEF C!Ask
  <2> QED BY <1>1, <2>4, <2>5 DEF CacheInv
<1>3. CASE C!access(v)
  <2>1. store' = store /\ disk' \in [C!File -> OnDiskFile]
    BY <1>0, <1>3 DEF C!access, CacheInv, OnDiskFile
  <2>2. Moves(v, {"idle", "access"}) \/ Moves(v, {"stat"})
    BY <1>3, HitMoves, GotoMoves DEF C!access
  <2>3. Moves(v, {"idle", "access", "generate", "stat", "open", "rename"})
    BY <2>2 DEF Moves
  <2> QED BY <1>1, <2>1, <2>3 DEF CacheInv
<1>4. CASE C!stat(v)
  <2>1. disk' = disk /\ store' \in [C!File -> StoredObject]
    BY <1>4, CacheFiles DEF C!stat, CacheInv
  <2>2. Moves(v, {"idle", "generate", "access"}) \/ Moves(v, {"open"})
    BY <1>4, MissedMoves, GotoMoves DEF C!stat
  <2>3. Moves(v, {"idle", "access", "generate", "stat", "open", "rename"})
    BY <2>2 DEF Moves
  <2> QED BY <1>1, <2>1, <2>3 DEF CacheInv
<1>5. CASE C!open(v)
  <2>1. disk' = disk /\ store' = store
    BY <1>5 DEF C!open
  <2>2. CASE C!Missed(v)
    <3>1. Moves(v, {"idle", "generate", "access"})
      BY <2>2, MissedMoves
    <3>2. Moves(v, {"idle", "access", "generate", "stat", "open", "rename"})
      BY <3>1 DEF Moves
    <3> QED BY <1>1, <2>1, <3>2 DEF CacheInv
  <2>3. CASE ~C!Missed(v)
    <3> DEFINE r == [req[v] EXCEPT !.at = "rename", !.copy = store[req[v].file].is]
    <3>1. req' = [req EXCEPT ![v].at = "rename", ![v].copy = store[req[v].file].is]
      BY <1>5, <2>3 DEF C!open
    <3>2. req' = [req EXCEPT ![v] = r]
      BY <3>1 DEF CacheInv
    <3>3. store[req[v].file].is \in {"absent", "whole", "bad"}
      BY <1>0 DEF CacheInv, StoredObject
    <3>4. r \in Lookup /\ r.at = "rename"
      BY <1>0, <3>3 DEF Lookup
    <3>5. Moves(v, {"idle", "access", "generate", "stat", "open", "rename"})
      <4> HIDE DEF r
      <4> QED BY <3>2, <3>4 DEF Moves
    <3> QED BY <1>1, <2>1, <3>5 DEF CacheInv
  <2> QED BY <2>2, <2>3
<1>6. CASE C!restored(v)
  <2>1. store' = store /\ disk' = [g \in C!File |-> C!Cleaned(g, {req[v].file})]
    BY <1>6 DEF C!restored
  <2>2. disk' \in [C!File -> OnDiskFile]
    BY <2>1, CacheFiles DEF CacheInv, C!Cleaned
  <2>3. Moves(v, {"idle", "access"})
    BY <1>6, HitMoves DEF C!restored
  <2>4. Moves(v, {"idle", "access", "generate", "stat", "open", "rename"})
    BY <2>3 DEF Moves
  <2> QED BY <1>1, <2>1, <2>2, <2>4 DEF CacheInv
<1> QED BY <1>2, <1>3, <1>4, <1>5, <1>6

\* The copy that is renamed into place has the hash of the object.
LEMMA CacheRestores ==
    ASSUME CacheInv, NEW v \in Viewer, C!restore(v)
    PROVE  CacheInv'
<1>0. req[v].file \in C!File
  BY DEF CacheInv, Lookup
<1>1. CASE C!Intact(v)
  <2>1. disk' = [disk EXCEPT ![req[v].file] = C!Fresh] /\ store' = store /\ C!Goto(v, "reference")
    BY <1>1 DEF C!restore
  <2>2. disk' \in [C!File -> OnDiskFile]
    BY <2>1, CacheFiles DEF CacheInv
  <2>3. {"reference"} \cap C!Generating = {}
    BY DEF C!Generating
  <2>4. Moves(v, {"reference"})
    BY <2>1, GotoMoves
  <2> QED BY <2>1, <2>2, <2>3, <2>4, MovesKeep DEF CacheInv
<1>2. CASE ~C!Intact(v)
  <2>1. disk' = disk /\ store' = [store EXCEPT ![req[v].file] = C!Gone] /\ C!Missed(v)
    BY <1>2 DEF C!restore
  <2>2. store' \in [C!File -> StoredObject]
    BY <2>1, CacheFiles DEF CacheInv
  <2>3. {"idle", "generate", "access"} \cap C!Generating = {}
    BY DEF C!Generating
  <2>4. Moves(v, {"idle", "generate", "access"})
    BY <2>1, MissedMoves
  <2> QED BY <2>1, <2>2, <2>3, <2>4, MovesKeep DEF CacheInv
<1> QED BY <1>1, <1>2

\* Whoever generates ends, and all who joined with it.
LEMMA FinishKeeps ==
    ASSUME CacheInv, NEW v \in Viewer, NEW ok \in BOOLEAN, C!Finish(v, ok),
           disk' \in [C!File -> OnDiskFile], store' \in [C!File -> StoredObject]
    PROVE  CacheInv'
<1>1. \A u \in Viewer : req[u] \in Lookup
  BY DEF CacheInv
<1>2. ASSUME NEW u \in Viewer
      PROVE  /\ req'[u] \in Lookup
             /\ req'[u] = req[u] \/ req'[u].at \in {"idle", "access"}
  BY <1>1, CacheFiles, GoOnTypes DEF C!Finish
<1>3. req' \in [Viewer -> Lookup]
  BY <1>2 DEF C!Finish
<1>4. {"idle", "access"} \cap C!Generating = {}
  BY DEF C!Generating
<1> QED BY <1>2, <1>3, <1>4 DEF CacheInv

LEMMA CacheGenerates ==
    ASSUME CacheInv, NEW v \in Viewer,
           C!generate(v) \/ C!ensure(v) \/ C!transcode(v) \/ C!put(v) \/ C!publish(v)
    PROVE  CacheInv'
<1>1. CASE C!generate(v)
  <2>1. disk' = disk /\ store' = store
    BY <1>1 DEF C!generate
  <2>2. CASE local /\ C!Flight = {}
    <3>1. Moves(v, {"transcode"})
      BY <1>1, <2>2, GotoMoves DEF C!generate
    <3> QED BY <2>1, <2>2, <3>1, MovesKeep DEF CacheInv
  <2>3. CASE ~(local /\ C!Flight = {})
    <3>1. Moves(v, {"ensure"}) \/ Moves(v, {"joined"})
      BY <1>1, <2>3, GotoMoves DEF C!generate
    <3>2. {"ensure"} \cap C!Generating = {} /\ {"joined"} \cap C!Generating = {}
      BY DEF C!Generating
    <3> QED BY <2>1, <3>1, <3>2, MovesKeep DEF CacheInv
  <2> QED BY <2>2, <2>3
<1>2. CASE C!ensure(v)
  <2> DEFINE r == [req[v] EXCEPT !.at = "stat", !.last = TRUE]
  <2>1. disk' = disk /\ store' \in [C!File -> StoredObject]
    BY <1>2, CacheFiles DEF C!ensure
  <2>2. req' = [req EXCEPT ![v].at = "stat", ![v].last = TRUE]
    BY <1>2 DEF C!ensure
  <2>3. req' = [req EXCEPT ![v] = r]
    BY <2>2 DEF CacheInv
  <2>4. r \in Lookup /\ r.at = "stat"
    BY DEF CacheInv, Lookup
  <2>5. Moves(v, {"stat"})
    <3> HIDE DEF r
    <3> QED BY <2>3, <2>4 DEF Moves
  <2>6. {"stat"} \cap C!Generating = {}
    BY DEF C!Generating
  <2> QED BY <2>1, <2>5, <2>6, MovesKeep DEF CacheInv
<1>3. CASE C!transcode(v)
  <2>1. disk' \in [C!File -> OnDiskFile] /\ store' = store
    BY <1>3, CacheFiles DEF C!transcode
  <2>2. Moves(v, {"putSegment"}) /\ req[v].at \in C!Generating
    BY <1>3, GotoMoves DEF C!transcode, C!Generating
  <2> QED BY <2>1, <2>2, MovesKeep DEF CacheInv
<1>4. CASE C!put(v)
  <2>1. disk' = disk /\ req[v].at \in C!Generating
    BY <1>4 DEF C!put, C!Generating
  <2>2. CASE C!Finish(v, FALSE) /\ store' = store
    BY <2>1, <2>2, FinishKeeps DEF CacheInv
  <2>3. CASE ~(C!Finish(v, FALSE) /\ store' = store)
    <3>1. store' \in [C!File -> StoredObject]
      BY <1>4, <2>3, CacheFiles DEF C!put, CacheInv
    <3>2. Moves(v, {"putInit"}) \/ Moves(v, {"publish"})
      BY <1>4, <2>3, GotoMoves DEF C!put
    <3> QED BY <2>1, <3>1, <3>2, MovesKeep DEF CacheInv
  <2> QED BY <2>2, <2>3
<1>5. CASE C!publish(v)
  <2>1. disk' = disk /\ store' = store /\ C!Finish(v, TRUE)
    BY <1>5 DEF C!publish
  <2> QED BY <2>1, FinishKeeps DEF CacheInv
<1> QED BY <1>1, <1>2, <1>3, <1>4, <1>5

\* Cleaning, eviction, the passing of time, damage in the store and a crash.
LEMMA CacheOthers ==
    ASSUME CacheInv,
           \/ C!cleanupExpired \/ C!evictAll \/ C!evictNext \/ C!Tick \/ C!Crash
           \/ \E f \in C!File : C!Damage(f)
    PROVE  CacheInv'
<1>1. CASE C!cleanupExpired
  <2>1. disk' \in [C!File -> OnDiskFile] /\ store' = store /\ req' = req
    BY <1>1, CacheFiles DEF C!cleanupExpired, CacheInv
  <2> QED BY <2>1 DEF CacheInv
<1>2. CASE C!evictAll
  BY <1>2 DEF C!evictAll, CacheInv
<1>3. CASE C!evictNext
  <2>1. disk' \in [C!File -> OnDiskFile] /\ store' \in [C!File -> StoredObject] /\ req' = req
    BY <1>3, CacheFiles DEF C!evictNext, CacheInv
  <2> QED BY <2>1 DEF CacheInv
<1>4. CASE C!Tick
  <2>1. req' = req
    BY <1>4 DEF C!Tick
  <2>2. disk' \in [C!File -> OnDiskFile]
    BY <1>4 DEF C!Tick, CacheInv, OnDiskFile
  <2>3. store' \in [C!File -> StoredObject]
    BY <1>4 DEF C!Tick, CacheInv, StoredObject
  <2> QED BY <2>1, <2>2, <2>3 DEF CacheInv
<1>5. CASE C!Crash
  <2>1. disk' = disk /\ store' = store /\ req' = [v \in Viewer |-> C!NoRequest]
    BY <1>5 DEF C!Crash
  <2>2. "idle" \notin C!Generating
    BY DEF C!Generating
  <2>3. \A v \in Viewer : req'[v].at = "idle"
    BY <2>1, CacheFiles
  <2> QED BY <2>1, <2>2, <2>3, CacheFiles DEF CacheInv
<1>6. ASSUME NEW f \in C!File, C!Damage(f)
      PROVE  CacheInv'
  <2>1. store' \in [C!File -> StoredObject] /\ disk' = disk /\ req' = req
    BY <1>6 DEF C!Damage, CacheInv, StoredObject
  <2> QED BY <2>1 DEF CacheInv
<1> QED BY <1>1, <1>2, <1>3, <1>4, <1>5, <1>6

\* A failing call leaves the files alone.
LEMMA CacheFails ==
    ASSUME CacheInv, NEW v \in Viewer, C!fail(v)
    PROVE  CacheInv'
<1>1. /\ disk' = disk /\ store' = store
      /\ disk' \in [C!File -> OnDiskFile] /\ store' \in [C!File -> StoredObject]
  BY DEF C!fail, CacheInv
<1>2. CASE C!Failed(v)
  <2>1. {"idle"} \cap C!Generating = {}
    BY DEF C!Generating
  <2> QED BY <1>1, <1>2, <2>1, AnsweredMoves, MovesKeep
<1>3. CASE C!Finish(v, FALSE)
  BY <1>1, <1>3, FinishKeeps
<1> QED BY <1>2, <1>3 DEF C!fail

LEMMA CacheStep ==
    ASSUME CacheInv, C!Next \/ UNCHANGED cvars
    PROVE  CacheInv'
<1>1. CASE UNCHANGED cvars
  BY <1>1 DEF cvars, CacheInv
<1>2. CASE C!Next
  BY <1>2, CacheLooksUp, CacheRestores, CacheGenerates, CacheFails, CacheOthers DEF C!Next, C!Serving
<1> QED BY <1>1, <1>2

LEMMA CacheSafe == CacheInv => C!CacheSound
<1> SUFFICES ASSUME CacheInv PROVE C!CacheSound
  OBVIOUS
<1>1. \A f \in C!File : disk[f].is # "bad"
  BY DEF CacheInv, OnDiskFile
<1>2. \A X : C!Cardinality(X) = Cardinality(X)
  BY DEF C!Cardinality, Cardinality
<1>3. Cardinality(C!Flight) <= 1
  <2>1. CASE C!Flight = {}
    <3>1. Cardinality({}) = 0
      BY FS_EmptySet
    <3> QED BY <2>1, <3>1
  <2>2. CASE C!Flight # {}
    <3>1. PICK v \in C!Flight : TRUE
      BY <2>2
    <3>2. C!Flight = {v}
      BY <3>1 DEF CacheInv, C!Flight
    <3>3. Cardinality({v}) = 1
      BY FS_Singleton
    <3> QED BY <3>2, <3>3
  <2> QED BY <2>1, <2>2
<1> QED BY <1>1, <1>2, <1>3 DEF C!CacheSound

---------------------------------------------------------------------------
(* What is taken from FFmpeg (TranscoderOutput).                           *)

NotStarted == {"idle", "asked", "probe", "capture", "arguments"}
Publishing == {"publish", "put", "publish last", "put last"}
Scanning == Publishing \cup {"scan", "final"}
Settled == {"abort", "threw"}

Calls == {"idle", "asked", "probe", "capture", "arguments", "scan", "publish", "put", "final",
          "publish last", "put last", "segment", "init", "abort", "returned", "threw"}

OutTypes ==
    /\ mode \in {"produceVod", "generateSegment"} /\ profile.fmp4 \in BOOLEAN
    /\ profile.codec \in T!Codec
    /\ call \in Calls
    /\ ffmpeg \in {"none", "running", "term", "kill", "gone"}
    /\ run \in {"none", "pending", "resolved", "rejected"}
    /\ files \subseteq 0 .. Last /\ cut \subseteq 0 .. Last
    /\ initFile \in BOOLEAN /\ temporary \in {"none", "part", "whole"}
    /\ destination \in {"none", "part", "whole"}
    /\ ready \in Seq(Nat) /\ published \in Seq(Nat)
    /\ signalled \in BOOLEAN /\ disturbed \in BOOLEAN /\ spoilt \in Nat

\* FFmpeg and the promise of #run, by where the call stands.
ChildKept ==
    /\ call \in NotStarted => run = "none" /\ encoder = None
    /\ run = "none" => /\ ffmpeg = "none" /\ call \in NotStarted \cup {"threw"}
                       /\ files = {} /\ cut = {} /\ published = <<>> /\ destination = "none"
    /\ run = "pending" => ffmpeg \in {"running", "term", "kill"}
    /\ run = "resolved" => ffmpeg = "gone"
    /\ run = "rejected" => ffmpeg = "gone" \/ (ffmpeg = "kill" /\ spoilt # 0)
    /\ call \in {"final", "publish last", "put last", "threw"} => run # "pending"
    /\ call \in {"init", "returned"} => run = "resolved"
    /\ call \in {"segment", "init"} => mode = "generateSegment"
    /\ call \in Scanning \cup {"abort"} => mode = "produceVod"
    /\ ffmpeg \in {"term", "kill"} => signalled \/ call \in Settled
    /\ call = "abort" => ffmpeg # "running"

\* A name in the directory stands for a whole file, unless FFmpeg was disturbed.
MadeKept ==
    /\ destination \in {"none", "whole"} \/ disturbed
    /\ mode = "generateSegment" /\ call = "segment" /\ run = "resolved" => temporary = "whole" \/ disturbed
    /\ mode = "generateSegment" => files = {} /\ published = <<>>
    /\ mode = "generateSegment" /\ call = "returned" /\ profile.fmp4 => initFile
    /\ mode = "produceVod" /\ run = "resolved" /\ profile.fmp4 => initFile \/ disturbed
    /\ profile.fmp4 /\ (published # <<>> \/ (call \in Publishing /\ ready # <<>>)) => initFile
    /\ encoder \notin {None, T!Copy} /\ available # {} => encoder \in build
    /\ available = {} \/ available = build

\* While the call publishes, the directory holds what FFmpeg has written and nobody has
\* taken yet, the segments up to m; the scan is the first of them.
ScanUpto(m) ==
    /\ Len(published) + Len(ready) <= m
    /\ \A i \in DOMAIN ready : ready[i] = Len(published) + i - 1
Upto(m) ==
    /\ Len(published) <= m /\ m <= Last + 1 /\ files = Len(published) .. m - 1
    /\ mode = "produceVod" /\ run = "resolved" => m = Last + 1 \/ disturbed
    /\ call \in Publishing => ScanUpto(m)
    /\ call \in {"publish last", "put last"} /\ run = "resolved" =>
         Len(published) + Len(ready) = Last + 1 \/ disturbed
InOrder ==
    /\ \A i \in DOMAIN published : published[i] = i - 1
    /\ call \in {"put", "put last"} => ready # <<>>
    /\ call \notin Settled => \E m \in Nat : Upto(m)
    /\ call = "returned" /\ mode = "produceVod" => Len(published) = Last + 1 \/ disturbed

\* What is cut short comes after what was published or is about to be: the signal, or
\* the end of the call, was first.
CutKept ==
    \/ disturbed
    \/ /\ \A s \in cut : s >= Len(published)
       /\ cut = {} \/ signalled \/ call \in Settled
       /\ call \in {"put", "put last"} => Head(ready) \notin cut

OutputInv == OutTypes /\ ChildKept /\ MadeKept /\ InOrder /\ CutKept

\* Segments are numbered without a gap.
LEMMA IntervalSize ==
    ASSUME NEW a \in Nat, NEW b \in Nat, a <= b
    PROVE  IsFiniteSet(a .. b - 1) /\ Cardinality(a .. b - 1) = b - a
<1>1. a \in Int /\ b - 1 \in Int
  OBVIOUS
<1>2. /\ IsFiniteSet(a .. b - 1)
      /\ Cardinality(a .. b - 1) = IF a > b - 1 THEN 0 ELSE (b - 1) - a + 1
  BY <1>1, FS_Interval
<1> QED BY <1>2

LEMMA OutputInit == T!Init => OutputInv
<1> SUFFICES ASSUME T!Init PROVE OutputInv
  OBVIOUS
<1>1. OutTypes
  <2>1. mode \in {"produceVod", "generateSegment"} /\ profile.fmp4 \in BOOLEAN /\ profile.codec \in T!Codec
    BY DEF T!Init
  <2>2. /\ call = "idle" /\ ffmpeg = "none" /\ run = "none" /\ files = {} /\ cut = {} /\ initFile = FALSE
        /\ temporary = "none" /\ destination = "none" /\ ready = <<>> /\ published = <<>>
        /\ signalled = FALSE /\ disturbed = FALSE /\ spoilt = 0
    BY DEF T!Init
  <2>3. call \in Calls /\ <<>> \in Seq(Nat)
    BY <2>2 DEF Calls
  <2> QED BY <2>1, <2>2, <2>3 DEF OutTypes
<1>2. ChildKept /\ MadeKept /\ CutKept
  BY DEF T!Init, ChildKept, MadeKept, CutKept, NotStarted, Scanning, Publishing, Settled
<1>3. Upto(0)
  BY MediaAssumption DEF T!Init, Upto, Publishing
<1>4. InOrder
  BY <1>3 DEF T!Init, InOrder, Settled
<1> QED BY <1>1, <1>2, <1>4 DEF OutputInv

\* The number that FFmpeg writes next.
LEMMA NextFree ==
    ASSUME OutTypes, InOrder
    PROVE  /\ T!Next0 \in Nat /\ T!Next0 >= Len(published)
           /\ \A m \in Nat : Upto(m) => T!Next0 = m
<1> DEFINE taken == {published[i] : i \in DOMAIN published}
<1>0. /\ published \in Seq(Nat) /\ Len(published) \in Nat /\ DOMAIN published = 1 .. Len(published)
      /\ \A i \in DOMAIN published : published[i] = i - 1
  <2>1. published \in Seq(Nat)
    BY DEF OutTypes
  <2>2. \A i \in DOMAIN published : published[i] = i - 1
    BY DEF InOrder
  <2> QED BY <2>1, <2>2, LenProperties
<1>1. taken = 0 .. Len(published) - 1
  <2>1. ASSUME NEW s \in 0 .. Len(published) - 1
        PROVE  s \in taken
    <3>1. s + 1 \in DOMAIN published /\ published[s + 1] = s
      BY <1>0, <2>1
    <3> QED BY <3>1
  <2>2. ASSUME NEW s \in taken
        PROVE  s \in 0 .. Len(published) - 1
    <3>1. PICK i \in DOMAIN published : s = published[i]
      BY <2>2
    <3>2. s = i - 1 /\ i \in 1 .. Len(published)
      BY <1>0, <3>1
    <3> QED BY <1>0, <3>2
  <2> QED BY <2>1, <2>2
<1>2. IsFiniteSet(taken) /\ Cardinality(taken) = Len(published)
  <2>1. 0 <= Len(published) /\ 0 \in Nat
    BY <1>0
  <2> HIDE DEF taken
  <2>2. IsFiniteSet(0 .. Len(published) - 1) /\ Cardinality(0 .. Len(published) - 1) = Len(published) - 0
    BY <1>0, <2>1, IntervalSize
  <2> QED BY <1>0, <1>1, <2>2
<1>3. IsFiniteSet(files)
  <2>1. IsFiniteSet(0 .. Last) /\ files \subseteq 0 .. Last
    <3>1. Last \in Int /\ 0 \in Int
      BY MediaAssumption
    <3>2. IsFiniteSet(0 .. Last)
      BY <3>1, FS_Interval
    <3>3. files \subseteq 0 .. Last
      BY DEF OutTypes
    <3> QED BY <3>2, <3>3
  <2> QED BY <2>1, FS_Subset
<1> HIDE DEF taken
<1>4. IsFiniteSet(files \cup taken)
  BY <1>2, <1>3, FS_Union
<1>5. Cardinality(taken) <= Cardinality(files \cup taken) /\ Cardinality(files \cup taken) \in Nat
  BY <1>4, FS_Subset, FS_CardinalityType
<1>6. T!Next0 = Cardinality(files \cup taken)
  BY DEF T!Next0, taken, T!Cardinality, Cardinality
<1>7. ASSUME NEW m \in Nat, Upto(m)
      PROVE  T!Next0 = m
  <2>1. files \cup taken = 0 .. m - 1
    <3>1. files = Len(published) .. m - 1 /\ Len(published) <= m
      BY <1>7 DEF Upto
    <3> QED BY <1>0, <1>1, <3>1
  <2>2. Cardinality(0 .. m - 1) = m - 0 /\ m - 0 = m
    BY IntervalSize
  <2>3. Cardinality(files \cup taken) = m
    BY <2>1, <2>2
  <2> QED BY <1>6, <2>3
<1> QED BY <1>2, <1>5, <1>6, <1>7

\* The scan: the names in their order.
LEMMA SortedInterval ==
    ASSUME NEW a \in Nat, NEW m \in Nat, a <= m
    PROVE  /\ T!Sorted(a .. m - 1) \in Seq(Nat) /\ Len(T!Sorted(a .. m - 1)) = m - a
           /\ \A i \in 1 .. m - a : T!Sorted(a .. m - 1)[i] = a + i - 1
<1> DEFINE I == a .. m - 1
           Below(x) == {y \in I : y < x}
<1>0. \A X : T!Cardinality(X) = Cardinality(X)
  BY DEF T!Cardinality, Cardinality
<1>1. Cardinality(I) = m - a
  BY IntervalSize
<1>2. ASSUME NEW x \in I
      PROVE  Cardinality(Below(x)) = x - a
  <2>1. Below(x) = a .. x - 1
    OBVIOUS
  <2>2. x \in Nat /\ a <= x
    OBVIOUS
  <2>3. Cardinality(a .. x - 1) = x - a
    BY <2>2, IntervalSize
  <2> QED BY <2>1, <2>3
<1>3. T!Sorted(I) = [i \in 1 .. m - a |-> CHOOSE x \in I : Cardinality(Below(x)) = i - 1]
  <2> HIDE DEF I
  <2>1. T!Sorted(I) = [i \in 1 .. T!Cardinality(I) |->
                         CHOOSE x \in I : T!Cardinality({y \in I : y < x}) = i - 1]
    BY DEF T!Sorted
  <2>2. T!Cardinality(I) = m - a
    BY <1>0, <1>1
  <2>3. \A i : (CHOOSE x \in I : T!Cardinality({y \in I : y < x}) = i - 1)
              = (CHOOSE x \in I : Cardinality(Below(x)) = i - 1)
    BY DEF T!Cardinality, Cardinality
  <2> QED BY <2>1, <2>2, <2>3
<1>4. ASSUME NEW i \in 1 .. m - a
      PROVE  (CHOOSE x \in I : Cardinality(Below(x)) = i - 1) = a + i - 1
  <2>1. a + i - 1 \in I
    OBVIOUS
  <2>2. Cardinality(Below(a + i - 1)) = i - 1
    BY <1>2, <2>1
  <2>3. \A x \in I : Cardinality(Below(x)) = i - 1 => x = a + i - 1
    BY <1>2
  <2> HIDE DEF I, Below
  <2> QED BY <2>1, <2>2, <2>3
<1> HIDE DEF I, Below
<1>5. T!Sorted(I) = [i \in 1 .. m - a |-> a + i - 1]
  BY <1>3, <1>4
<1>6. [i \in 1 .. m - a |-> a + i - 1] \in Seq(Nat)
  <2>1. m - a \in Nat /\ \A i \in 1 .. m - a : a + i - 1 \in Nat
    OBVIOUS
  <2> QED BY <2>1, IsASeq
<1>7. Len([i \in 1 .. m - a |-> a + i - 1]) = m - a
  BY <1>6, LenProperties
<1> QED BY <1>5, <1>6, <1>7 DEF I

\* The encoder that is chosen is one of those that there are.
LEMMA FirstChoice ==
    ASSUME NEW choices \in SUBSET T!Backend, choices # {}
    PROVE  T!First(choices) \in choices
<1> DEFINE order == T!automaticOrder
           IsFirst(i) == order[i] \in choices /\ \A j \in 1 .. i - 1 : order[j] \notin choices
<1>1. DOMAIN order = 1 .. 6
  BY DEF T!automaticOrder
<1>2. \E i \in 1 .. 6 : order[i] \in choices
  BY <1>1 DEF T!Backend
<1> HIDE DEF order
<1>3. \E i \in 1 .. 6 : IsFirst(i)
  <2>1. CASE order[1] \in choices
    BY <2>1
  <2>2. CASE order[1] \notin choices /\ order[2] \in choices
    BY <2>2
  <2>3. CASE order[1] \notin choices /\ order[2] \notin choices /\ order[3] \in choices
    BY <2>3
  <2>4. CASE order[1] \notin choices /\ order[2] \notin choices /\ order[3] \notin choices
             /\ order[4] \in choices
    BY <2>4
  <2>5. CASE order[1] \notin choices /\ order[2] \notin choices /\ order[3] \notin choices
             /\ order[4] \notin choices /\ order[5] \in choices
    BY <2>5
  <2>6. CASE order[1] \notin choices /\ order[2] \notin choices /\ order[3] \notin choices
             /\ order[4] \notin choices /\ order[5] \notin choices
    BY <2>6, <1>2
  <2> QED BY <2>1, <2>2, <2>3, <2>4, <2>5, <2>6
<1>4. T!First(choices) = order[CHOOSE i \in 1 .. 6 : IsFirst(i)]
  BY <1>1 DEF T!First, order
<1>5. IsFirst(CHOOSE i \in 1 .. 6 : IsFirst(i))
  <2> HIDE DEF IsFirst
  <2> QED BY <1>3
<1> QED BY <1>4, <1>5

LEMMA EncoderThere ==
    ASSUME T!videoArgs \notin {None, T!Copy}, available # {}, profile.codec \in T!Codec
    PROVE  T!videoArgs \in available
<1> DEFINE codec == profile.codec
           preference == profile.preference
           choices == {b \in T!encoders[codec] : available = {} \/ <<codec, b>> \in available}
<1>0. codec # "copy" /\ T!videoArgs = T!resolveFfmpegVideoEncoder(codec, preference, available)
  BY DEF T!videoArgs
<1>1. CASE preference # "auto"
  BY <1>0, <1>1 DEF T!resolveFfmpegVideoEncoder
<1>2. CASE preference = "auto"
  <2>1. T!videoArgs = IF T!First(choices) = None THEN None ELSE <<codec, T!First(choices)>>
    BY <1>0, <1>2 DEF T!resolveFfmpegVideoEncoder
  <2>2. choices # {}
    BY <2>1 DEF T!First
  <2>3. choices \subseteq T!Backend
    BY <1>0 DEF T!encoders, T!Codec, T!Backend, T!automaticOrder
  <2>4. T!First(choices) \in choices
    BY <2>2, <2>3, FirstChoice
  <2> QED BY <2>1, <2>4
<1> QED BY <1>1, <1>2

\* Discovery and the capabilities, until the call starts FFmpeg or gives up.
LEMMA BeforeStartKeeps ==
    ASSUME OutputInv, T!discover \/ T!Discovered \/ T!probeEncoder \/ T!capture \/ T!captured
    PROVE  OutputInv'
<1>1. /\ call \in NotStarted /\ call' \in NotStarted \cup {"threw"}
      /\ available' \in {available, build} /\ spoilt' \in Nat
  BY DEF OutputInv, OutTypes, NotStarted, MadeKept, T!discover, T!Discovered, T!probeEncoder, T!capture,
         T!captured, T!Fault
<1>2. /\ UNCHANGED <<mode, profile, build, encoder, ffmpeg, run, files, cut, initFile, temporary>>
      /\ UNCHANGED <<destination, ready, published, signalled, disturbed>>
  BY DEF T!discover, T!Discovered, T!probeEncoder, T!capture, T!captured, T!settings, T!output
<1>3. /\ run = "none" /\ encoder = None /\ ffmpeg = "none" /\ files = {} /\ cut = {}
      /\ published = <<>> /\ destination = "none"
  BY <1>1 DEF OutputInv, ChildKept
<1>4. OutTypes'
  <2>1. call' \in Calls
    BY <1>1 DEF Calls, NotStarted
  <2> QED BY <1>1, <1>2, <2>1 DEF OutputInv, OutTypes
<1>5. ChildKept'
  BY <1>1, <1>2, <1>3 DEF ChildKept, NotStarted, Scanning, Publishing
<1>6. MadeKept'
  BY <1>1, <1>2, <1>3 DEF OutputInv, MadeKept, NotStarted, Publishing
<1>7. \A m \in Nat : Upto(m) => Upto(m)'
  BY <1>1, <1>2, <1>3 DEF Upto, ScanUpto, NotStarted, Publishing
<1>8. InOrder'
  BY <1>1, <1>2, <1>3, <1>7 DEF OutputInv, InOrder, NotStarted, Settled
<1>9. CutKept'
  BY <1>1, <1>2, <1>3 DEF OutputInv, CutKept, NotStarted
<1> QED BY <1>4, <1>5, <1>6, <1>8, <1>9 DEF OutputInv

LEMMA StartKeeps ==
    ASSUME OutputInv, T!start
    PROVE  OutputInv'
<1>1. /\ call = "arguments" /\ run = "none" /\ encoder = None /\ ffmpeg = "none" /\ files = {}
      /\ cut = {} /\ published = <<>> /\ destination = "none"
  BY DEF T!start, OutputInv, ChildKept, NotStarted
<1>2. /\ UNCHANGED <<mode, profile, build, available, files, cut, initFile, destination>>
      /\ UNCHANGED <<ready, published, signalled, disturbed, spoilt>>
  BY DEF T!start, T!settings
<1>3. \/ /\ call' = "threw" /\ UNCHANGED <<encoder, ffmpeg, run, temporary>>
      \/ /\ encoder' = T!videoArgs /\ run' = "pending" /\ T!videoArgs # None
         /\ ffmpeg' = IF signalled THEN "term" ELSE "running"
         /\ call' = IF mode = "produceVod" THEN "scan" ELSE "segment"
         /\ temporary' \in {"none", "part"}
  BY DEF T!start
<1>4. OutTypes'
  <2>1. call' \in Calls
    BY <1>3 DEF Calls
  <2> QED BY <1>2, <1>3, <2>1 DEF OutputInv, OutTypes
<1>5. ChildKept'
  BY <1>1, <1>2, <1>3 DEF OutputInv, OutTypes, ChildKept, NotStarted, Scanning, Publishing, Settled
<1>6. MadeKept'
  <2>1. encoder' \notin {None, T!Copy} /\ available' # {} => encoder' \in build'
    <3> SUFFICES ASSUME encoder' \notin {None, T!Copy}, available' # {} PROVE encoder' \in build'
      OBVIOUS
    <3>1. encoder' = T!videoArgs /\ available = build /\ profile.codec \in T!Codec
      BY <1>1, <1>2, <1>3 DEF OutputInv, OutTypes, MadeKept
    <3>2. T!videoArgs \in available
      BY <1>2, <3>1, EncoderThere
    <3> QED BY <1>2, <3>1, <3>2
  <2> QED BY <1>1, <1>2, <1>3, <2>1 DEF OutputInv, MadeKept, Publishing
<1>7. \A m \in Nat : Upto(m) => Upto(m)'
  BY <1>1, <1>2, <1>3 DEF Upto, ScanUpto, Publishing
<1>8. InOrder'
  BY <1>1, <1>2, <1>3, <1>7 DEF OutputInv, InOrder, Settled
<1>9. CutKept'
  BY <1>1, <1>2, <1>3 DEF OutputInv, CutKept
<1> QED BY <1>4, <1>5, <1>6, <1>8, <1>9 DEF OutputInv

\* FFmpeg gives the next segment, or init.mp4, its name.
LEMMA WritesKeeps ==
    ASSUME OutputInv, T!writes
    PROVE  OutputInv'
<1>1. /\ UNCHANGED <<mode, profile, build, available, encoder, call, ffmpeg, run, cut, temporary>>
      /\ UNCHANGED <<destination, ready, published, signalled, disturbed, spoilt>>
  BY DEF T!writes, T!settings
<1>2. ffmpeg = "running" /\ mode = "produceVod" /\ call \notin Settled /\ run # "resolved" /\ run # "none"
  BY DEF T!writes, OutputInv, ChildKept, OutTypes, Settled, Calls
<1>3. PICK m \in Nat : Upto(m)
  BY <1>2 DEF OutputInv, InOrder
<1>4. T!Next0 = m
  BY <1>3, NextFree DEF OutputInv
<1>5. initFile' \in BOOLEAN /\ (initFile => initFile')
  BY DEF T!writes, OutputInv, OutTypes
<1>6. files' = files \/ (m <= Last /\ files' = files \cup {m})
  BY <1>4 DEF T!writes
<1>7. OutTypes'
  <2>1. files' \subseteq 0 .. Last
    <3>1. files \subseteq 0 .. Last /\ Last \in Nat
      BY MediaAssumption DEF OutputInv, OutTypes
    <3>2. m <= Last => m \in 0 .. Last
      BY <3>1
    <3> QED BY <1>6, <3>1, <3>2
  <2> QED BY <1>1, <1>5, <2>1 DEF OutputInv, OutTypes
<1>8. ChildKept'
  BY <1>1, <1>2 DEF OutputInv, ChildKept
<1>9. MadeKept'
  BY <1>1, <1>2, <1>5 DEF OutputInv, MadeKept
<1>10. Len(published) \in Nat /\ Len(ready) \in Nat /\ Last \in Nat
  BY MediaAssumption DEF OutputInv, OutTypes
<1>11. Upto(m)' \/ Upto(m + 1)'
  <2>1. CASE files' = files
    BY <1>1, <1>3, <2>1 DEF Upto, ScanUpto
  <2>2. CASE m <= Last /\ files' = files \cup {m}
    <3>1. files = Len(published) .. m - 1 /\ Len(published) <= m
      BY <1>3 DEF Upto, ScanUpto
    <3>2. files' = Len(published) .. (m + 1) - 1
      BY <1>10, <2>2, <3>1
    <3>3. m + 1 <= Last + 1 /\ Len(published) <= m + 1
      BY <1>10, <2>2, <3>1
    <3>4. call \in Publishing => ScanUpto(m + 1)
      <4>1. call \in Publishing => ScanUpto(m)
        BY <1>3 DEF Upto
      <4>2. Len(published) + Len(ready) <= m => Len(published) + Len(ready) <= m + 1
        BY <1>10
      <4> QED BY <4>1, <4>2 DEF ScanUpto
    <3>5. ScanUpto(m + 1)' <=> ScanUpto(m + 1)
      BY <1>1 DEF ScanUpto
    <3> QED BY <1>1, <1>2, <1>3, <3>2, <3>3, <3>4, <3>5 DEF Upto
  <2> QED BY <1>6, <2>1, <2>2
<1>12. InOrder'
  <2>1. \E k \in Nat : Upto(k)'
    BY <1>11
  <2> QED BY <1>1, <2>1 DEF OutputInv, InOrder
<1>13. CutKept'
  BY <1>1 DEF OutputInv, CutKept
<1> QED BY <1>7, <1>8, <1>9, <1>12, <1>13 DEF OutputInv

\* What matters of the moves of FFmpeg that leave its output alone.
Quiet ==
    /\ UNCHANGED <<mode, profile, build, available, encoder, call, files, cut, initFile, temporary>>
    /\ UNCHANGED <<destination, ready, published, disturbed>>
    /\ ffmpeg' \in {"none", "running", "term", "kill", "gone"} /\ spoilt' \in Nat
    /\ signalled' \in BOOLEAN /\ (signalled => signalled')
    /\ run' = run \/ (run = "pending" /\ run' = "rejected")

LEMMA QuietKeeps ==
    ASSUME OutputInv, Quiet, ChildKept'
    PROVE  OutputInv'
<1>1. run' \in {run, "rejected"} /\ (run' = "none" => run = "none") /\ (run' = "resolved" => run = "resolved")
  BY DEF Quiet
<1>2. OutTypes'
  BY <1>1 DEF OutputInv, OutTypes, Quiet
<1>3. MadeKept'
  BY <1>1 DEF OutputInv, MadeKept, Quiet
<1>4. \A m \in Nat : Upto(m) => Upto(m)'
  <2>1. \A m \in Nat : ScanUpto(m)' <=> ScanUpto(m)
    BY DEF ScanUpto, Quiet
  <2> QED BY <1>1, <2>1 DEF Upto, Quiet
<1>5. InOrder'
  BY <1>4 DEF OutputInv, InOrder, Quiet
<1>6. CutKept'
  BY DEF OutputInv, CutKept, Quiet
<1> QED BY <1>2, <1>3, <1>5, <1>6 DEF OutputInv

\* It fails, is told to stop, or cannot be stopped.
LEMMA StopsKeep ==
    ASSUME OutputInv,
           T!fails \/ T!dies \/ T!terminateChildProcess \/ T!couldNotBeStopped \/ T!abort
    PROVE  OutputInv'
<1>0. OutTypes /\ ChildKept
  BY DEF OutputInv
<1>1. /\ UNCHANGED <<mode, profile, build, available, encoder, call, files, cut, initFile, temporary>>
      /\ UNCHANGED <<destination, ready, published, disturbed>>
  BY DEF T!fails, T!dies, T!terminateChildProcess, T!couldNotBeStopped, T!abort, T!closes, T!settings,
         T!output
<1>2. (ffmpeg = "running" => run = "pending") /\ (ffmpeg # "none" => run # "none")
  BY <1>0 DEF OutTypes, ChildKept
<1>3. spoilt \in Nat /\ signalled \in BOOLEAN
  BY <1>0 DEF OutTypes
<1>4. CASE T!fails \/ T!dies
  <2>1. /\ ffmpeg \in {"running", "kill"} /\ ffmpeg' = "gone" /\ signalled' = signalled
        /\ spoilt' \in Nat /\ run' = IF run # "pending" THEN run ELSE "rejected"
    BY <1>3, <1>4 DEF T!fails, T!dies, T!closes, T!Fault
  <2>2. Quiet
    BY <1>1, <1>3, <2>1 DEF Quiet
  <2>3. ChildKept'
    BY <1>0, <1>1, <1>2, <2>1 DEF ChildKept, OutTypes
  <2> QED BY <2>2, <2>3, QuietKeeps
<1>5. CASE T!terminateChildProcess
  <2>1. ffmpeg = "term" /\ ffmpeg' = "kill" /\ UNCHANGED <<run, signalled, spoilt>>
    BY <1>5 DEF T!terminateChildProcess
  <2>2. Quiet
    BY <1>1, <1>3, <2>1 DEF Quiet
  <2>3. ChildKept'
    BY <1>0, <1>1, <1>2, <2>1 DEF ChildKept, OutTypes
  <2> QED BY <2>2, <2>3, QuietKeeps
<1>6. CASE T!couldNotBeStopped
  <2>1. /\ ffmpeg = "kill" /\ ffmpeg' = ffmpeg /\ run = "pending" /\ run' = "rejected"
        /\ spoilt' = spoilt + 1 /\ signalled' = signalled
    BY <1>6 DEF T!couldNotBeStopped, T!Fault
  <2>2. spoilt' \in Nat /\ spoilt' # 0
    BY <1>3, <2>1
  <2>3. Quiet
    BY <1>1, <1>3, <2>1, <2>2 DEF Quiet
  <2>4. ChildKept'
    BY <1>0, <1>1, <1>2, <2>1, <2>2 DEF ChildKept, OutTypes
  <2> QED BY <2>3, <2>4, QuietKeeps
<1>7. CASE T!abort
  <2>1. /\ ffmpeg' = IF ffmpeg = "running" THEN "term" ELSE ffmpeg
        /\ signalled' = TRUE /\ UNCHANGED <<run, spoilt>>
    BY <1>7 DEF T!abort
  <2>2. Quiet
    BY <1>0, <1>1, <1>3, <2>1 DEF Quiet, OutTypes
  <2>3. ChildKept'
    BY <1>0, <1>1, <1>2, <2>1 DEF ChildKept, OutTypes
  <2> QED BY <2>2, <2>3, QuietKeeps
<1> QED BY <1>4, <1>5, <1>6, <1>7

\* FFmpeg ends well: it has written everything it was asked for.
LEMMA SucceedsKeeps ==
    ASSUME OutputInv, T!succeeds
    PROVE  OutputInv'
<1>0. OutTypes /\ ChildKept /\ MadeKept /\ InOrder
  BY DEF OutputInv
<1>1. /\ UNCHANGED <<mode, profile, build, available, encoder, call, files, cut, initFile>>
      /\ UNCHANGED <<destination, ready, published, disturbed, signalled, spoilt>>
  BY DEF T!succeeds, T!closes, T!settings, T!output
<1>2. ffmpeg = "running" /\ ffmpeg' = "gone" /\ run' \in {"resolved", "rejected"} /\ run = "pending"
  BY <1>0 DEF T!succeeds, T!closes, OutTypes, ChildKept
<1>3. temporary' \in {temporary, "whole"} /\ (mode # "produceVod" => temporary' = "whole")
  BY DEF T!succeeds, T!output
<1>4. mode = "produceVod" => T!Next0 > Last /\ (profile.fmp4 => initFile)
  BY DEF T!succeeds
<1>5. OutTypes'
  BY <1>0, <1>1, <1>2, <1>3 DEF OutTypes
<1>6. ChildKept'
  BY <1>0, <1>1, <1>2 DEF ChildKept
<1>7. MadeKept'
  BY <1>0, <1>1, <1>2, <1>3, <1>4 DEF MadeKept
<1>8. call \notin {"publish last", "put last", "returned"} \cup Settled
  BY <1>0, <1>2 DEF ChildKept, Settled
<1>9. PICK m \in Nat : Upto(m)
  BY <1>0, <1>8 DEF InOrder
<1>10. Upto(m)'
  <2>1. mode = "produceVod" => m = Last + 1
    <3>1. T!Next0 = m /\ m <= Last + 1 /\ Last \in Nat
      BY <1>0, <1>9, NextFree, MediaAssumption DEF Upto
    <3> QED BY <1>4, <3>1
  <2>2. ScanUpto(m)' <=> ScanUpto(m)
    BY <1>1 DEF ScanUpto
  <2> QED BY <1>1, <1>8, <1>9, <2>1, <2>2 DEF Upto
<1>11. InOrder'
  BY <1>0, <1>1, <1>8, <1>10 DEF InOrder
<1>12. CutKept'
  BY <1>1 DEF OutputInv, CutKept
<1> QED BY <1>5, <1>6, <1>7, <1>11, <1>12 DEF OutputInv

\* It ends while it writes a segment, because somebody disturbed it or because it obeys.
LEMMA CutsKeep ==
    ASSUME OutputInv, T!endsEarly \/ T!obeys
    PROVE  OutputInv'
<1>0. OutTypes /\ ChildKept /\ MadeKept /\ InOrder
  BY DEF OutputInv
<1>1. /\ UNCHANGED <<mode, profile, build, available, encoder, call, initFile, temporary>>
      /\ UNCHANGED <<destination, ready, published, signalled>>
  BY DEF T!endsEarly, T!obeys, T!Finishes, T!closes, T!settings, T!output
<1>2. /\ ffmpeg \in {"running", "term"} /\ ffmpeg' = "gone" /\ run = "pending"
      /\ run' \in {"resolved", "rejected"} /\ spoilt' \in Nat
  <2>1. ffmpeg \in {"running", "term"} /\ ffmpeg' = "gone"
    BY DEF T!endsEarly, T!obeys, T!closes
  <2>2. run = "pending"
    BY <1>0, <2>1 DEF OutTypes, ChildKept
  <2>3. run' \in {"resolved", "rejected"}
    BY <2>2 DEF T!endsEarly, T!obeys, T!closes
  <2>4. spoilt' \in {spoilt, spoilt + 1} /\ spoilt \in Nat
    BY <1>0 DEF T!endsEarly, T!obeys, T!Fault, OutTypes
  <2> QED BY <2>1, <2>2, <2>3, <2>4
<1>3. \/ disturbed' = TRUE
      \/ ffmpeg = "term" /\ disturbed' = disturbed /\ run' = "rejected"
  BY <1>2 DEF T!endsEarly, T!obeys, T!closes
<1>4. \/ files' = files /\ cut' = cut
      \/ /\ mode = "produceVod" /\ T!Next0 <= Last
         /\ files' = files \cup {T!Next0} /\ cut' = cut \cup {T!Next0}
  BY DEF T!endsEarly, T!obeys, T!Finishes, T!output
<1>5. T!Next0 \in Nat /\ T!Next0 >= Len(published) /\ Last \in Nat
  BY <1>0, NextFree, MediaAssumption
<1>6. OutTypes'
  <2>1. T!Next0 <= Last => T!Next0 \in 0 .. Last
    BY <1>5
  <2>2. files' \subseteq 0 .. Last /\ cut' \subseteq 0 .. Last
    BY <1>0, <1>4, <2>1 DEF OutTypes
  <2>3. disturbed' \in BOOLEAN
    BY <1>0, <1>3 DEF OutTypes
  <2> QED BY <1>0, <1>1, <1>2, <2>2, <2>3 DEF OutTypes
<1>7. ChildKept'
  BY <1>0, <1>1, <1>2 DEF ChildKept
<1>8. MadeKept'
  BY <1>0, <1>1, <1>2, <1>3, <1>4 DEF MadeKept
<1>9. call \notin {"publish last", "put last", "returned", "threw"}
  BY <1>0, <1>2 DEF ChildKept
<1>10. Len(published) \in Nat /\ Len(ready) \in Nat
  BY <1>0 DEF OutTypes
<1>11. ASSUME call \notin Settled
       PROVE  \E k \in Nat : Upto(k)'
  <2>1. PICK m \in Nat : Upto(m)
    BY <1>0, <1>11 DEF InOrder
  <2>2. T!Next0 = m
    BY <1>0, <2>1, NextFree
  <2>3. \A k \in Nat : ScanUpto(k)' <=> ScanUpto(k)
    BY <1>1 DEF ScanUpto
  <2>4. run' = "resolved" => disturbed'
    BY <1>3
  <2>5. CASE files' = files
    <3>1. Upto(m)'
      BY <1>1, <1>9, <2>1, <2>3, <2>4, <2>5 DEF Upto
    <3> QED BY <3>1
  <2>6. CASE m <= Last /\ files' = files \cup {m}
    <3>1. files = Len(published) .. m - 1 /\ Len(published) <= m
      BY <2>1 DEF Upto
    <3>2. files' = Len(published) .. (m + 1) - 1
      BY <1>10, <2>6, <3>1
    <3>3. m + 1 <= Last + 1 /\ Len(published) <= m + 1
      BY <1>5, <1>10, <2>6, <3>1
    <3>4. ScanUpto(m) => ScanUpto(m + 1)
      BY <1>10 DEF ScanUpto
    <3>5. ScanUpto(m + 1)' <=> ScanUpto(m + 1)
      BY <1>1 DEF ScanUpto
    <3>6. Upto(m + 1)'
      BY <1>1, <1>9, <2>1, <2>4, <3>2, <3>3, <3>4, <3>5 DEF Upto
    <3>7. m + 1 \in Nat
      OBVIOUS
    <3> QED BY <3>6, <3>7
  <2> QED BY <1>4, <2>2, <2>5, <2>6
<1>12. InOrder'
  BY <1>0, <1>1, <1>9, <1>11 DEF InOrder
<1>13. CutKept'
  <2> SUFFICES ASSUME ~disturbed' PROVE CutKept'
    BY DEF CutKept
  <2>1. ~disturbed /\ ffmpeg = "term"
    BY <1>3
  <2>2. signalled \/ call \in Settled
    BY <1>0, <2>1 DEF ChildKept
  <2>3. \A s \in cut' : s >= Len(published)
    BY <1>4, <1>5, <2>1 DEF OutputInv, CutKept
  <2>4. ASSUME call \in {"put", "put last"}
        PROVE  Head(ready) \notin cut'
    <3>1. PICK m \in Nat : Upto(m)
      BY <1>0, <2>4 DEF InOrder, Settled
    <3>2. T!Next0 = m
      BY <1>0, <3>1, NextFree
    <3>3. ready # <<>> /\ ready \in Seq(Nat)
      BY <1>0, <2>4 DEF InOrder, OutTypes
    <3>4. 1 \in DOMAIN ready /\ Head(ready) = ready[1] /\ Len(ready) >= 1
      BY <3>3
    <3>5. Head(ready) = Len(published) /\ Len(published) + Len(ready) <= m
      <4>1. ScanUpto(m)
        BY <2>4, <3>1 DEF Upto, Publishing
      <4>2. ready[1] = Len(published) + 1 - 1 /\ Len(published) + Len(ready) <= m
        BY <3>4, <4>1 DEF ScanUpto
      <4> QED BY <1>10, <3>4, <4>2
    <3>6. Head(ready) # m
      BY <1>10, <3>4, <3>5
    <3>7. Head(ready) \notin cut
      BY <2>1, <2>4 DEF OutputInv, CutKept
    <3> QED BY <1>4, <3>2, <3>6, <3>7
  <2> QED BY <1>1, <2>2, <2>3, <2>4 DEF CutKept
<1> QED BY <1>6, <1>7, <1>8, <1>12, <1>13 DEF OutputInv

\* One segment: the files get their names when FFmpeg has ended well.
LEMMA SegmentKeeps ==
    ASSUME OutputInv, T!generateSegment \/ T!generateFmp4Segment
    PROVE  OutputInv'
<1>0. OutTypes /\ ChildKept /\ MadeKept /\ InOrder
  BY DEF OutputInv
<1>1. /\ UNCHANGED <<mode, profile, build, available, encoder, ffmpeg, run, files, cut>>
      /\ UNCHANGED <<ready, published, signalled, disturbed>>
  BY DEF T!generateSegment, T!generateFmp4Segment, T!settings
<1>2. mode = "generateSegment" /\ files = {} /\ published = <<>>
  BY <1>0 DEF T!generateSegment, T!generateFmp4Segment, ChildKept, MadeKept
<1>3. \/ /\ call = "segment" /\ run = "resolved" /\ destination' = temporary /\ initFile' = initFile
         /\ temporary' = "none" /\ spoilt' = spoilt
         /\ call' = IF profile.fmp4 THEN "init" ELSE "returned"
      \/ /\ call = "segment" /\ run = "rejected" /\ destination' = destination /\ initFile' = initFile
         /\ temporary' = "none" /\ spoilt' = spoilt /\ call' = "threw"
      \/ /\ call = "init" /\ run = "resolved" /\ destination' = destination /\ initFile' = TRUE
         /\ temporary' = temporary /\ spoilt' = spoilt /\ call' = "returned"
      \/ /\ call = "init" /\ run = "resolved" /\ destination' = destination /\ initFile' = initFile
         /\ temporary' = temporary /\ spoilt' = spoilt + 1 /\ call' = "threw"
  BY <1>0 DEF T!generateSegment, T!generateFmp4Segment, T!Fault, OutTypes, ChildKept, NotStarted
<1>4. OutTypes'
  <2>1. call' \in Calls
    BY <1>3 DEF Calls
  <2>2. spoilt' \in Nat /\ initFile' \in BOOLEAN
    <3>1. spoilt \in Nat /\ initFile \in BOOLEAN
      BY <1>0 DEF OutTypes
    <3>2. initFile' \in {initFile, TRUE} /\ spoilt' \in {spoilt, spoilt + 1}
      BY <1>3
    <3>3. spoilt' \in Nat
      BY <3>1, <3>2
    <3>4. initFile' \in BOOLEAN
      BY <3>1, <3>2
    <3> QED BY <3>3, <3>4
  <2>3. temporary' \in {"none", "part", "whole"} /\ destination' \in {"none", "part", "whole"}
    BY <1>0, <1>3 DEF OutTypes
  <2> QED BY <1>0, <1>1, <2>1, <2>2, <2>3 DEF OutTypes
<1>5. ChildKept'
  BY <1>0, <1>1, <1>2, <1>3 DEF OutTypes, ChildKept, NotStarted, Scanning, Publishing, Settled
<1>6. MadeKept'
  BY <1>0, <1>1, <1>2, <1>3 DEF OutTypes, MadeKept, Publishing
<1>7. call \notin Settled
  BY <1>3 DEF Settled
<1>8. PICK m \in Nat : Upto(m)
  BY <1>0, <1>7 DEF InOrder
<1>9. Upto(m)'
  BY <1>1, <1>2, <1>3, <1>8 DEF Upto, Publishing
<1>10. InOrder'
  BY <1>0, <1>1, <1>2, <1>3, <1>9 DEF InOrder
<1>11. CutKept'
  BY <1>1, <1>3, <1>7 DEF OutputInv, CutKept, Settled
<1> QED BY <1>4, <1>5, <1>6, <1>10, <1>11 DEF OutputInv

\* The scan finds what FFmpeg has written and nobody has taken, in its order.
LEMMA ScanKeeps ==
    ASSUME OutputInv, T!scan
    PROVE  OutputInv'
<1>0. OutTypes /\ ChildKept /\ MadeKept /\ InOrder
  BY DEF OutputInv
<1>1. /\ UNCHANGED <<mode, profile, build, available, encoder, ffmpeg, run, files, cut, initFile>>
      /\ UNCHANGED <<temporary, destination, published, signalled, disturbed, spoilt>>
  BY DEF T!scan, T!settings, T!output
<1>2. /\ call \in {"scan", "final"} /\ mode = "produceVod"
      /\ call' = IF call = "scan" THEN "publish" ELSE "publish last"
      /\ ready' = IF profile.fmp4 /\ ~initFile THEN <<>> ELSE T!Sorted(files)
  BY <1>0 DEF T!scan, ChildKept, Scanning
<1>3. PICK m \in Nat : Upto(m)
  BY <1>0, <1>2 DEF InOrder, Settled
<1>4. /\ Len(published) \in Nat /\ Len(published) <= m /\ files = Len(published) .. m - 1
      /\ m <= Last + 1 /\ Last \in Nat
  <2>1. published \in Seq(Nat) /\ Last \in Nat
    BY <1>0, MediaAssumption DEF OutTypes
  <2>2. Len(published) \in Nat
    BY <2>1
  <2> QED BY <1>3, <2>1, <2>2 DEF Upto
<1> DEFINE a == Len(published)
           all == T!Sorted(files)
<1>5. all \in Seq(Nat) /\ Len(all) = m - a /\ \A i \in 1 .. m - a : all[i] = a + i - 1
  BY <1>4, SortedInterval
<1> HIDE DEF all, a
<1>6. ready' \in Seq(Nat) /\ (ready' = <<>> \/ ready' = all)
  <2>1. ready' = <<>> \/ ready' = all
    BY <1>2 DEF all
  <2>2. all \in Seq(Nat)
    BY <1>5
  <2>3. <<>> \in Seq(Nat)
    OBVIOUS
  <2> QED BY <2>1, <2>2, <2>3
<1>7. OutTypes'
  <2>1. call' \in Calls
    BY <1>2 DEF Calls
  <2> QED BY <1>0, <1>1, <1>6, <2>1 DEF OutTypes
<1>8. ChildKept'
  BY <1>0, <1>1, <1>2 DEF ChildKept, NotStarted, Scanning, Publishing, Settled
<1>9. MadeKept'
  BY <1>0, <1>1, <1>2 DEF MadeKept
<1>10. ScanUpto(m)'
  <2>1. CASE ready' = <<>>
    BY <1>1, <1>4, <2>1 DEF ScanUpto
  <2>2. CASE ready' = all
    <3>1. DOMAIN all = 1 .. m - a /\ a + Len(all) <= m
      BY <1>4, <1>5 DEF a
    <3>2. \A i \in DOMAIN all : all[i] = a + i - 1
      BY <1>5, <3>1
    <3> QED BY <1>1, <2>2, <3>1, <3>2 DEF ScanUpto, a
  <2> QED BY <1>6, <2>1, <2>2
<1>11. call' = "publish last" /\ run = "resolved" => a + Len(ready') = Last + 1 \/ disturbed
  <2> SUFFICES ASSUME run = "resolved", ~disturbed PROVE a + Len(ready') = Last + 1
    OBVIOUS
  <2>1. m = Last + 1
    BY <1>2, <1>3 DEF Upto
  <2>2. profile.fmp4 => initFile
    BY <1>0, <1>2 DEF MadeKept
  <2>3. ready' = all
    BY <1>2, <2>2 DEF all
  <2> QED BY <1>4, <1>5, <2>1, <2>3 DEF a
<1>12. Upto(m)'
  BY <1>1, <1>2, <1>3, <1>10, <1>11 DEF Upto, a
<1>13. InOrder'
  BY <1>0, <1>1, <1>2, <1>12 DEF InOrder
<1>14. CutKept'
  BY <1>1, <1>2 DEF OutputInv, CutKept, Settled
<1> QED BY <1>7, <1>8, <1>9, <1>13, <1>14 DEF OutputInv

\* When a publication fails the call is over but for FFmpeg, which is told to end.
LEMMA ThrowsKeeps ==
    ASSUME OutputInv, T!Throws, call \in Publishing, files' \subseteq files, spoilt' \in Nat,
           spoilt # 0 => spoilt' # 0,
           UNCHANGED <<mode, profile, build, available, encoder, run, cut, initFile, temporary>>,
           UNCHANGED <<destination, ready, published, signalled, disturbed>>
    PROVE  OutputInv'
<1>0. OutTypes /\ ChildKept /\ MadeKept /\ InOrder
  BY DEF OutputInv
<1>1. call' = "abort" /\ ffmpeg' = IF ffmpeg = "running" THEN "term" ELSE ffmpeg
  BY DEF T!Throws
<1>2. OutTypes'
  <2>1. call' \in Calls
    BY <1>1 DEF Calls
  <2> QED BY <1>0, <1>1, <2>1 DEF OutTypes
<1>3. mode = "produceVod" /\ run # "none"
  BY <1>0 DEF ChildKept, NotStarted, Scanning, Publishing
<1>4. ChildKept'
  BY <1>0, <1>1, <1>3 DEF OutTypes, ChildKept, NotStarted, Scanning, Publishing, Settled
<1>5. MadeKept'
  BY <1>0, <1>1, <1>3 DEF MadeKept, Publishing
<1>6. InOrder'
  BY <1>0, <1>1 DEF InOrder, Settled
<1>7. CutKept'
  BY <1>1 DEF OutputInv, CutKept, Settled
<1> QED BY <1>2, <1>4, <1>5, <1>6, <1>7 DEF OutputInv

\* A segment is offered to the coordinator unless the signal was first.
LEMMA OnSegmentKeeps ==
    ASSUME OutputInv, T!onSegment
    PROVE  OutputInv'
<1>0. OutTypes /\ ChildKept /\ MadeKept /\ InOrder
  BY DEF OutputInv
<1>1. /\ UNCHANGED <<mode, profile, build, available, encoder, run, cut, initFile, temporary>>
      /\ UNCHANGED <<destination, ready, published, signalled, disturbed, spoilt>>
  BY DEF T!onSegment, T!settings
<1>2. call \in {"publish", "publish last"} /\ ready # <<>> /\ spoilt \in Nat
  BY <1>0 DEF T!onSegment, OutTypes
<1>3. CASE signalled
  <2>1. T!Throws /\ files' \subseteq files
    BY <1>3 DEF T!onSegment
  <2>2. call \in Publishing /\ spoilt' \in Nat /\ (spoilt # 0 => spoilt' # 0)
    BY <1>1, <1>2 DEF Publishing
  <2> QED BY <1>1, <2>1, <2>2, ThrowsKeeps
<1>4. CASE ~signalled
  <2>1. UNCHANGED <<ffmpeg, files>> /\ call' = IF call = "publish" THEN "put" ELSE "put last"
    BY <1>4 DEF T!onSegment
  <2>2. OutTypes'
    <3>1. call' \in Calls
      BY <2>1 DEF Calls
    <3>2. UNCHANGED <<ffmpeg, files>>
      BY <2>1
    <3> QED BY <1>0, <1>1, <3>1, <3>2 DEF OutTypes
  <2>3. ChildKept'
    BY <1>0, <1>1, <1>2, <2>1 DEF ChildKept, NotStarted, Scanning, Publishing, Settled
  <2>4. MadeKept'
    BY <1>0, <1>1, <1>2, <2>1 DEF MadeKept, Publishing
  <2>5. PICK m \in Nat : Upto(m)
    BY <1>0, <1>2 DEF InOrder, Settled
  <2>6. Upto(m)'
    <3>1. ScanUpto(m)' <=> ScanUpto(m)
      BY <1>1 DEF ScanUpto
    <3> QED BY <1>1, <1>2, <2>1, <2>5, <3>1 DEF Upto, Publishing
  <2>7. InOrder'
    BY <1>0, <1>1, <1>2, <2>1, <2>6 DEF InOrder
  <2>8. CutKept'
    BY <1>1, <1>2, <1>4, <2>1 DEF OutputInv, CutKept, Settled
  <2> QED BY <2>2, <2>3, <2>4, <2>7, <2>8 DEF OutputInv
<1> QED BY <1>3, <1>4

\* It is put into the store, and with it the next one is the first.
LEMMA PutKeeps ==
    ASSUME OutputInv, T!put
    PROVE  OutputInv'
<1>0. OutTypes /\ ChildKept /\ MadeKept /\ InOrder
  BY DEF OutputInv
<1>1. /\ UNCHANGED <<mode, profile, build, available, encoder, run, cut, initFile, temporary>>
      /\ UNCHANGED <<destination, signalled, disturbed>>
  BY DEF T!put, T!settings
<1>2. /\ call \in {"put", "put last"} /\ files' = files \ {Head(ready)}
      /\ ready # <<>> /\ ready \in Seq(Nat) /\ published \in Seq(Nat) /\ spoilt \in Nat
  BY <1>0 DEF T!put, OutTypes, InOrder
<1>3. CASE T!Fault /\ T!Throws /\ UNCHANGED <<published, ready>>
  <2>1. files' \subseteq files /\ call \in Publishing
    BY <1>2 DEF Publishing
  <2>2. spoilt' = spoilt + 1
    BY <1>3 DEF T!Fault
  <2>3. spoilt' \in Nat /\ (spoilt # 0 => spoilt' # 0)
    <3>1. spoilt \in Nat
      BY <1>2
    <3> QED BY <2>2, <3>1
  <2> QED BY <1>1, <1>3, <2>1, <2>3, ThrowsKeeps
<1>4. CASE /\ published' = Append(published, Head(ready)) /\ ready' = Tail(ready)
           /\ call' = (IF call = "put" THEN "publish" ELSE "publish last")
           /\ UNCHANGED <<ffmpeg, spoilt>>
  <2>1. PICK m \in Nat : Upto(m)
    BY <1>0, <1>2 DEF InOrder, Settled
  <2>2. ScanUpto(m)
    BY <1>2, <2>1 DEF Upto, Publishing
  <2>3. /\ Len(published) \in Nat /\ Len(ready) \in Nat /\ Len(ready) >= 1
        /\ DOMAIN ready = 1 .. Len(ready) /\ Head(ready) = ready[1]
        /\ DOMAIN published = 1 .. Len(published)
    <3>1. published \in Seq(Nat)
      BY <1>2
    <3>2. ready \in Seq(Nat) /\ ready # <<>>
      BY <1>2
    <3>3. Len(ready) \in Nat /\ Len(ready) >= 1 /\ DOMAIN ready = 1 .. Len(ready) /\ Head(ready) = ready[1]
      BY <3>2, LenProperties, EmptySeq
    <3> QED BY <3>1, <3>3, LenProperties
  <2>4. Head(ready) = Len(published)
    <3>1. 1 \in DOMAIN ready
      BY <2>3
    <3>2. ready[1] = Len(published) + 1 - 1
      BY <2>2, <3>1 DEF ScanUpto
    <3> QED BY <2>3, <3>2
  <2>5. /\ published' \in Seq(Nat) /\ Len(published') = Len(published) + 1
        /\ published' # <<>>
        /\ \A i \in 1 .. Len(published) : published'[i] = published[i]
        /\ published'[Len(published) + 1] = Len(published)
    <3>1. published' = Append(published, Len(published)) /\ published \in Seq(Nat)
      BY <1>2, <1>4, <2>4
    <3>2. Len(published) \in Nat
      BY <2>3
    <3> QED BY <3>1, <3>2, AppendProperties
  <2>6. /\ ready' \in Seq(Nat) /\ Len(ready') = Len(ready) - 1
        /\ \A i \in 1 .. Len(ready) - 1 : ready'[i] = ready[i + 1]
    <3>1. ready' = Tail(ready) /\ ready \in Seq(Nat) /\ ready # <<>>
      BY <1>2, <1>4
    <3> QED BY <3>1, HeadTailProperties
  <2>7. OutTypes'
    <3>1. files' \subseteq files
      BY <1>2
    <3>2. call' \in Calls
      BY <1>4 DEF Calls
    <3>3. UNCHANGED <<ffmpeg, spoilt>>
      BY <1>4
    <3> QED BY <1>0, <1>1, <2>5, <2>6, <3>1, <3>2, <3>3 DEF OutTypes
  <2>8. run # "none" /\ mode = "produceVod"
    BY <1>0, <1>2 DEF ChildKept, NotStarted, Scanning, Publishing
  <2>9. ChildKept'
    BY <1>0, <1>1, <1>2, <1>4, <2>8 DEF ChildKept, NotStarted, Scanning, Publishing, Settled
  <2>10. profile.fmp4 => initFile
    BY <1>0, <1>2 DEF MadeKept, Publishing
  <2>11. MadeKept'
    BY <1>0, <1>1, <1>4, <2>8, <2>10 DEF MadeKept
  <2>12. \A i \in DOMAIN published' : published'[i] = i - 1
    <3> SUFFICES ASSUME NEW i \in DOMAIN published' PROVE published'[i] = i - 1
      OBVIOUS
    <3>1. i \in 1 .. Len(published) + 1
      BY <2>5
    <3>2. CASE i \in 1 .. Len(published)
      <4>1. i \in DOMAIN published
        BY <2>3, <3>2
      <4> QED BY <1>0, <2>5, <3>2, <4>1 DEF InOrder
    <3>3. CASE i = Len(published) + 1
      BY <2>3, <2>5, <3>3
    <3> QED BY <2>3, <3>1, <3>2, <3>3
  <2>13. ScanUpto(m)'
    <3>1. Len(published') + Len(ready') <= m
      BY <2>2, <2>3, <2>5, <2>6 DEF ScanUpto
    <3>2. ASSUME NEW i \in DOMAIN ready'
          PROVE  ready'[i] = Len(published') + i - 1
      <4>1. i \in 1 .. Len(ready) - 1 /\ i + 1 \in DOMAIN ready /\ i \in Nat
        BY <2>3, <2>6
      <4>2. ready[i + 1] = Len(published) + (i + 1) - 1
        BY <2>2, <4>1 DEF ScanUpto
      <4> QED BY <2>3, <2>5, <2>6, <4>1, <4>2
    <3> QED BY <3>1, <3>2 DEF ScanUpto
  <2>14. files' = Len(published') .. m - 1 /\ Len(published') <= m
    <3>1. files = Len(published) .. m - 1 /\ Len(published) + Len(ready) <= m
      BY <2>1, <2>2 DEF Upto, ScanUpto
    <3>2. files' = files \ {Len(published)}
      BY <1>2, <2>4
    <3>3. files' = Len(published) + 1 .. m - 1
      BY <2>3, <3>1, <3>2
    <3> QED BY <2>3, <2>5, <3>1, <3>3
  <2>15. call' = "publish last" /\ run' = "resolved" =>
           Len(published') + Len(ready') = Last + 1 \/ disturbed'
    <3>1. call' = "publish last" => call = "put last"
      BY <1>2, <1>4
    <3>2. Len(published') + Len(ready') = Len(published) + Len(ready)
      BY <2>3, <2>5, <2>6
    <3> QED BY <1>1, <2>1, <3>1, <3>2 DEF Upto
  <2>16. Upto(m)'
    BY <1>1, <1>4, <2>1, <2>13, <2>14, <2>15 DEF Upto
  <2>17. InOrder'
    BY <1>4, <2>12, <2>16 DEF InOrder
  <2>18. CutKept'
    <3> SUFFICES ASSUME ~disturbed PROVE CutKept'
      BY <1>1 DEF CutKept
    <3>1. \A s \in cut : s >= Len(published) /\ s # Len(published) /\ s \in Nat
      <4>1. \A s \in cut : s >= Len(published) /\ s # Head(ready)
        BY <1>2 DEF OutputInv, CutKept
      <4>2. \A s \in cut : s \in Nat
        BY <1>0, MediaAssumption DEF OutTypes
      <4> QED BY <2>4, <4>1, <4>2
    <3>2. \A s \in cut : s >= Len(published')
      BY <2>3, <2>5, <3>1
    <3>3. cut = {} \/ signalled
      BY <1>2 DEF OutputInv, CutKept, Settled
    <3> QED BY <1>1, <1>4, <3>2, <3>3 DEF CutKept
  <2> QED BY <2>7, <2>9, <2>11, <2>17, <2>18 DEF OutputInv
<1> QED BY <1>3, <1>4 DEF T!put

\* The scan goes on until FFmpeg has ended, and once more; then the call is over.
LEMMA EndKeeps ==
    ASSUME OutputInv, T!scanned \/ T!settles
    PROVE  OutputInv'
<1>0. OutTypes /\ ChildKept /\ MadeKept /\ InOrder
  BY DEF OutputInv
<1>1. /\ UNCHANGED <<mode, profile, build, available, encoder, ffmpeg, run, files, cut, initFile>>
      /\ UNCHANGED <<temporary, destination, ready, published, signalled, disturbed, spoilt>>
  BY DEF T!scanned, T!settles, T!settings, T!output
<1>2. \/ call = "publish" /\ call' = IF run = "pending" THEN "scan" ELSE "final"
      \/ /\ call = "publish last" /\ ready = <<>>
         /\ call' = IF run = "resolved" THEN "returned" ELSE "threw"
      \/ call = "abort" /\ run # "pending" /\ call' = "threw"
  BY DEF T!scanned, T!settles
<1>3. mode = "produceVod" /\ run # "none"
  BY <1>0, <1>2 DEF ChildKept, NotStarted, Scanning, Publishing
<1>4. OutTypes'
  <2>1. call' \in Calls
    BY <1>2 DEF Calls
  <2> QED BY <1>0, <1>1, <2>1 DEF OutTypes
<1>5. ChildKept'
  BY <1>0, <1>1, <1>2, <1>3 DEF OutTypes, ChildKept, NotStarted, Scanning, Publishing, Settled
<1>6. MadeKept'
  BY <1>0, <1>1, <1>2, <1>3 DEF MadeKept, Publishing
<1>7. CASE call = "abort"
  <2>1. InOrder'
    BY <1>0, <1>1, <1>2, <1>7 DEF InOrder, Settled
  <2>2. CutKept'
    BY <1>1, <1>2, <1>7 DEF OutputInv, CutKept, Settled
  <2> QED BY <1>4, <1>5, <1>6, <2>1, <2>2 DEF OutputInv
<1>8. CASE call # "abort"
  <2>1. PICK m \in Nat : Upto(m)
    BY <1>0, <1>2, <1>8 DEF InOrder, Settled
  <2>2. Upto(m)'
    BY <1>1, <1>2, <1>8, <2>1 DEF Upto, Publishing
  <2>3. call' = "returned" => Len(published) = Last + 1 \/ disturbed
    <3> SUFFICES ASSUME call' = "returned" PROVE Len(published) = Last + 1 \/ disturbed
      OBVIOUS
    <3>1. call = "publish last" /\ ready = <<>> /\ run = "resolved"
      BY <1>2
    <3>2. Len(published) + Len(ready) = Last + 1 \/ disturbed
      BY <2>1, <3>1 DEF Upto
    <3>3. Len(ready) = 0 /\ Len(published) \in Nat
      <4>1. published \in Seq(Nat)
        BY <1>0 DEF OutTypes
      <4>2. Len(<<>>) = 0 /\ Len(published) \in Nat
        BY <4>1
      <4> QED BY <3>1, <4>2
    <3> QED BY <3>2, <3>3
  <2>4. InOrder'
    BY <1>0, <1>1, <1>2, <2>2, <2>3 DEF InOrder
  <2>5. CutKept'
    BY <1>1, <1>2, <1>8 DEF OutputInv, CutKept, Settled
  <2> QED BY <1>4, <1>5, <1>6, <2>4, <2>5 DEF OutputInv
<1> QED BY <1>7, <1>8

LEMMA OutputStep ==
    ASSUME OutputInv, T!Next \/ UNCHANGED tvars
    PROVE  OutputInv'
<1>1. CASE UNCHANGED tvars
  <2>1. /\ UNCHANGED <<mode, profile, build, available, encoder, call, ffmpeg, run, files, cut>>
        /\ UNCHANGED <<initFile, temporary, destination, ready, published, signalled, disturbed, spoilt>>
    BY <1>1 DEF tvars
  <2>2. ChildKept' /\ Quiet
    BY <2>1 DEF OutputInv, OutTypes, ChildKept, Quiet
  <2> QED BY <2>2, QuietKeeps
<1>2. CASE T!Next
  BY <1>2, BeforeStartKeeps, StartKeeps, WritesKeeps, StopsKeep, SucceedsKeeps, CutsKeep,
     SegmentKeeps, ScanKeeps, OnSegmentKeeps, PutKeeps, EndKeeps
     DEF T!Next, T!Monitoring, T!Stopping
<1> QED BY <1>1, <1>2

LEMMA OutputHolds == OutputInv => T!OutputSound
<1> SUFFICES ASSUME OutputInv PROVE T!OutputSound
  OBVIOUS
<1>1. \A i \in DOMAIN published : published[i] = i - 1
  BY DEF OutputInv, InOrder
<1>2. ASSUME NEW i \in DOMAIN published, published[i] \in cut
      PROVE  disturbed
  <2>1. published \in Seq(Nat) /\ i \in 1 .. Len(published) /\ Len(published) \in Nat
    BY DEF OutputInv, OutTypes
  <2>2. published[i] = i - 1
    BY <1>1
  <2>3. disturbed \/ published[i] >= Len(published)
    BY <1>2 DEF OutputInv, CutKept
  <2> QED BY <2>1, <2>2, <2>3
<1>3. profile.fmp4 /\ published # <<>> => initFile
  BY DEF OutputInv, MadeKept
<1>4. call = "returned" /\ mode = "produceVod" /\ ~disturbed => Len(published) = Last + 1
  BY DEF OutputInv, InOrder
<1>5. destination \in {"none", "whole"} \/ disturbed
  BY DEF OutputInv, MadeKept
<1>6. call = "returned" /\ profile.fmp4 => initFile \/ disturbed
  BY DEF OutputInv, OutTypes, ChildKept, MadeKept
<1>7. T!Over /\ spoilt = 0 => ~T!Alive
  BY DEF T!Over, T!Alive, OutputInv, OutTypes, ChildKept
<1>8. encoder \notin {None, T!Copy} /\ available # {} => encoder \in build
  BY DEF OutputInv, MadeKept
<1> QED BY <1>1, <1>2, <1>3, <1>4, <1>5, <1>6, <1>7, <1>8 DEF T!OutputSound

---------------------------------------------------------------------------
(* The backends (Backends).                                                *)

Exporter == [id : Nat, value : B!Config]
Queued ==
    [at : {"validate", "read"}, category : B!Category, value : B!Config] \cup [at : {"close"}]
Persisted ==
    [at : {"write", "apply", "swap", "rollback"}, category : B!Category, value : B!Config,
     revision : Nat, old : B!Config, changed : BOOLEAN, by : Viewer \cup {None}, next : Exporter]

BackTypes ==
    /\ setting \in [B!Category -> [value : B!Config \cup {None}, revision : Nat]]
    /\ writer \in [B!Category -> Viewer \cup {None}]
    /\ applied \in [Viewer -> B!Config \cup {None}]
    /\ life \in [Viewer -> {"down", "resolved", "applied", "up"}]
    /\ active \in [Viewer -> [B!Category \ {"metrics"} -> B!Config]]
    /\ delegate \in [Viewer -> Exporter]
    /\ running \in [Viewer -> SUBSET Nat]
    /\ chain \in [Viewer -> Seq(Queued)]
    /\ task \in [Viewer -> {B!Idle} \cup Queued \cup Persisted]
    /\ closed \in [Viewer -> BOOLEAN]
    /\ exporters \in Nat

\* A setting that was never written has no writer, and no node has applied it.
Unset ==
    /\ \A k \in B!Category : setting[k].value = None => writer[k] = None
    /\ setting["object-store"].value = None => \A c \in Viewer : applied[c] = None

\* A node that says it has applied an object store uses that one.
StoreUsed(c) ==
    /\ life[c] = "resolved" => setting["object-store"].value # None
    /\ life[c] \in {"applied", "up"} /\ applied[c] # None => applied[c] = active[c]["object-store"]

\* A process that is not up yet has nothing.
NotUp(c) ==
    life[c] # "up" =>
        /\ chain[c] = <<>> /\ task[c] = B!Idle /\ ~closed[c]
        /\ running[c] = {} /\ delegate[c] = B!NoExporter

\* The exporter in use runs; while it is being replaced, the next one as well.
ExporterRuns(c) ==
    /\ delegate[c].id <= exporters
    /\ IF task[c].at = "swap"
       THEN /\ delegate[c].id # 0 /\ task[c].next.id # delegate[c].id
            /\ task[c].next.id <= exporters /\ task[c].next.value = task[c].value
            /\ running[c] = {delegate[c].id, task[c].next.id} \ {0}
       ELSE running[c] = {delegate[c].id} \ {0}

\* Nothing is accepted after close, which is the last that runs.
CloseLast(c) ==
    IF closed[c]
    THEN IF chain[c] = <<>>
         THEN task[c].at = "close" \/ (task[c].at = "idle" /\ delegate[c].id = 0)
         ELSE chain[c][Len(chain[c])].at = "close"
    ELSE task[c].at # "close" /\ \A i \in 1 .. Len(chain[c]) : chain[c][i].at # "close"

Live(c) == life[c] = "up" /\ ~closed[c]
\* The activation has taken the setting as its own, and not yet taken it up or put it back.
Holds(c, k) == task[c].at \in {"apply", "swap", "rollback"} /\ task[c].category = k

\* What an activation has read of the setting, and what it has written.
Reading(c) ==
    LET k == task[c].category IN
      /\ task[c].at = "write" =>
           /\ ~task[c].changed
           /\ task[c].revision <= setting[k].revision
           /\ task[c].revision = setting[k].revision =>
                task[c].old = IF setting[k].value = None THEN B!Default ELSE setting[k].value
      /\ task[c].at = "swap" => k = "metrics"
Written(c, k) ==
    Holds(c, k) =>
        /\ writer[k] = c => setting[k].value = task[c].value
        /\ writer[k] = c /\ task[c].changed => setting[k].revision = task[c].revision
        /\ task[c].changed /\ task[c].by = c => B!Uses(c, k) = task[c].old

\* The director and the exporter in use are those of the setting this process wrote, but for
\* the activation that runs.
Wanted(c, k) ==
    writer[k] = c /\ ~(Holds(c, k) /\ task[c].changed) => B!Uses(c, k) = setting[k].value

BackProcess(c) ==
    /\ StoreUsed(c) /\ NotUp(c) /\ ExporterRuns(c) /\ CloseLast(c)
    /\ Live(c) => /\ Reading(c)
                  /\ \A k \in {"metrics", "routing"} : Written(c, k) /\ Wanted(c, k)

BackInv == BackTypes /\ Unset /\ \A c \in Viewer : BackProcess(c)

LEMMA BackKinds ==
    ASSUME NEW t \in {B!Idle} \cup Queued \cup Persisted
    PROVE  /\ t.at = "idle" => t = B!Idle
           /\ t.at \in {"validate", "read"} =>
                /\ t \in [at : {"validate", "read"}, category : B!Category, value : B!Config]
           /\ t.at \in {"write", "apply", "swap", "rollback"} => t \in Persisted
           /\ t.at \in {"idle", "validate", "read", "close", "write", "apply", "swap", "rollback"}
  BY DEF B!Idle, Queued, Persisted

\* What c does leaves the own state of the others alone; it writes a setting only with a
\* new revision, and then it or nobody is the writer.
OthersStay(c) ==
    /\ \A d \in Viewer : d # c =>
         /\ applied'[d] = applied[d] /\ life'[d] = life[d] /\ active'[d] = active[d]
         /\ delegate'[d] = delegate[d] /\ running'[d] = running[d] /\ chain'[d] = chain[d]
         /\ task'[d] = task[d] /\ closed'[d] = closed[d]
    /\ exporters' >= exporters
Rewrites(c) ==
    \A k \in B!Category :
        \/ setting'[k] = setting[k] /\ writer'[k] \in {writer[k], None}
        \/ /\ setting'[k].revision = setting[k].revision + 1 /\ setting'[k].value # None
           /\ writer'[k] \in {c, None}

LEMMA BackUnset ==
    ASSUME BackTypes, Unset, NEW c \in Viewer, Rewrites(c),
           applied' = applied \/ setting["object-store"].value # None
    PROVE  Unset'
<1>1. \A k \in B!Category : setting'[k].value = None => setting[k].value = None
  BY DEF Rewrites
<1>2. \A k \in B!Category : setting'[k].value = None => writer'[k] = None
  BY DEF Rewrites, Unset
<1>3. "object-store" \in B!Category
  BY DEF B!Category
<1> QED BY <1>1, <1>2, <1>3 DEF Unset

LEMMA BackOthers ==
    ASSUME BackInv, BackTypes', NEW c \in Viewer, OthersStay(c), Rewrites(c),
           NEW d \in Viewer, d # c
    PROVE  BackProcess(d)'
<1>0. /\ applied'[d] = applied[d] /\ life'[d] = life[d] /\ active'[d] = active[d]
      /\ delegate'[d] = delegate[d] /\ running'[d] = running[d] /\ chain'[d] = chain[d]
      /\ task'[d] = task[d] /\ closed'[d] = closed[d]
      /\ exporters' >= exporters
  BY DEF OthersStay
<1>1. /\ BackProcess(d) /\ d # None
      /\ \A k \in B!Category : setting[k].revision \in Nat /\ setting'[k].revision \in Nat
      /\ task[d] \in {B!Idle} \cup Queued \cup Persisted
      /\ exporters \in Nat /\ exporters' \in Nat /\ delegate[d] \in Exporter
  BY MediaAssumption DEF BackInv, BackTypes
<1>2. StoreUsed(d)'
  <2>1. "object-store" \in B!Category
    BY DEF B!Category
  <2> QED BY <1>0, <1>1, <2>1 DEF BackProcess, StoreUsed, Rewrites
<1>3. NotUp(d)'
  BY <1>0, <1>1 DEF BackProcess, NotUp
<1>4. ExporterRuns(d)'
  <2>1. task[d].at = "swap" => task[d].next.id \in Nat
    BY <1>1, BackKinds DEF Persisted, Exporter
  <2>2. delegate[d].id \in Nat
    BY <1>1 DEF Exporter
  <2> QED BY <1>0, <1>1, <2>1, <2>2 DEF BackProcess, ExporterRuns
<1>5. CloseLast(d)'
  BY <1>0, <1>1 DEF BackProcess, CloseLast
<1>6. ASSUME Live(d)' PROVE Reading(d)'
  <2>1. Reading(d)
    BY <1>0, <1>1, <1>6 DEF BackProcess, Live
  <2>2. CASE task[d].at = "write"
    <3>1. task[d].category \in B!Category /\ task[d].revision \in Nat
      BY <1>1, <2>2, BackKinds DEF Persisted
    <3> QED BY <1>0, <1>1, <2>1, <2>2, <3>1 DEF Reading, Rewrites
  <2>3. CASE task[d].at # "write"
    BY <1>0, <2>1, <2>3 DEF Reading
  <2> QED BY <2>2, <2>3
<1>7. ASSUME Live(d)', NEW k \in {"metrics", "routing"} PROVE Written(d, k)' /\ Wanted(d, k)'
  <2>1. Written(d, k) /\ Wanted(d, k)
    BY <1>0, <1>1, <1>7 DEF BackProcess, Live
  <2>2. B!Uses(d, k)' = B!Uses(d, k)
    BY <1>0 DEF B!Uses
  <2>3. k \in B!Category
    BY DEF B!Category
  <2>4. writer'[k] = d => writer[k] = d /\ setting'[k] = setting[k]
    BY <1>1, <2>3 DEF Rewrites
  <2>5. Holds(d, k)' = Holds(d, k)
    BY <1>0 DEF Holds
  <2> QED BY <1>0, <2>1, <2>2, <2>4, <2>5 DEF Written, Wanted
<1> QED BY <1>2, <1>3, <1>4, <1>5, <1>6, <1>7 DEF BackProcess

\* What is left to show of a step of c.
LEMMA BackStepOf ==
    ASSUME BackInv, NEW c \in Viewer, BackTypes', OthersStay(c), Rewrites(c),
           applied' = applied \/ setting["object-store"].value # None,
           BackProcess(c)'
    PROVE  BackInv'
  BY BackOthers, BackUnset DEF BackInv

\* A setting that stays.
LEMMA SettingsStay ==
    ASSUME NEW c, UNCHANGED <<setting, writer>>
    PROVE  Rewrites(c)
  BY DEF Rewrites

LEMMA BackInit == B!Init => BackInv
<1> SUFFICES ASSUME B!Init PROVE BackInv
  OBVIOUS
<1>1. /\ setting = [k \in B!Category |-> B!Absent]
      /\ applied = [c \in Viewer |-> None]
      /\ life = [c \in Viewer |-> "down"]
      /\ active = [c \in Viewer |-> [k \in B!Category \ {"metrics"} |-> B!Default]]
      /\ delegate = [c \in Viewer |-> B!NoExporter]
      /\ running = [c \in Viewer |-> {}]
      /\ chain = [c \in Viewer |-> <<>>] /\ task = [c \in Viewer |-> B!Idle]
      /\ closed = [c \in Viewer |-> FALSE]
      /\ writer = [k \in B!Category |-> None]
      /\ exporters = 0
  BY DEF B!Init
<1>2. BackTypes
  <2>1. B!Absent \in [value : B!Config \cup {None}, revision : Nat]
    BY DEF B!Absent
  <2>2. B!Default \in B!Config /\ B!NoExporter \in Exporter
    BY DEF B!Config, B!NoExporter, Exporter
  <2>3. <<>> \in Seq(Queued)
    OBVIOUS
  <2> QED BY <1>1, <2>1, <2>2, <2>3 DEF BackTypes
<1>3. Unset
  BY <1>1 DEF Unset
<1>4. ASSUME NEW c \in Viewer PROVE BackProcess(c)
  <2>1. /\ life[c] = "down" /\ chain[c] = <<>> /\ task[c] = B!Idle /\ closed[c] = FALSE
        /\ running[c] = {} /\ delegate[c] = B!NoExporter
    BY <1>1
  <2>2. task[c].at = "idle" /\ delegate[c].id = 0
    BY <2>1 DEF B!Idle, B!NoExporter
  <2>3. StoreUsed(c) /\ NotUp(c) /\ ~Live(c)
    BY <2>1 DEF StoreUsed, NotUp, Live
  <2>4. ExporterRuns(c)
    BY <1>1, <2>1, <2>2 DEF ExporterRuns
  <2>5. CloseLast(c)
    <3>1. Len(<<>>) = 0
      OBVIOUS
    <3> QED BY <2>1, <2>2, <3>1 DEF CloseLast
  <2> QED BY <2>3, <2>4, <2>5 DEF BackProcess
<1> QED BY <1>2, <1>3, <1>4 DEF BackInv

LEMMA BackResolves ==
    ASSUME BackInv, NEW c \in Viewer, B!resolveConfiguredObjectStore(c)
    PROVE  BackInv'
<1> DEFINE wanted == setting["object-store"].value
           used == IF wanted = None THEN B!Default ELSE wanted
<1>1. /\ UNCHANGED <<setting, applied, delegate, running, chain, task, closed, writer, exporters>>
      /\ life[c] = "down"
      /\ active' = [active EXCEPT ![c]["object-store"] = used]
      /\ life' = [life EXCEPT ![c] = IF wanted = None THEN "applied" ELSE "resolved"]
  BY DEF B!resolveConfiguredObjectStore
<1>2. BackTypes /\ Unset /\ BackProcess(c)
  BY DEF BackInv
<1>3. "object-store" \in B!Category \ {"metrics"} /\ used \in B!Config
  BY <1>2 DEF B!Category, BackTypes, B!Config
<1>4. active' \in [Viewer -> [B!Category \ {"metrics"} -> B!Config]]
  <2>1. active \in [Viewer -> [B!Category \ {"metrics"} -> B!Config]]
    BY <1>2 DEF BackTypes
  <2> QED BY <1>1, <1>3, <2>1
<1>5. life' \in [Viewer -> {"down", "resolved", "applied", "up"}]
      /\ life'[c] = (IF wanted = None THEN "applied" ELSE "resolved")
  BY <1>1, <1>2 DEF BackTypes
<1>6. BackTypes'
  BY <1>1, <1>2, <1>4, <1>5 DEF BackTypes
<1>7. OthersStay(c) /\ Rewrites(c)
  <2>1. exporters \in Nat
    BY <1>2 DEF BackTypes
  <2>2. \A d \in Viewer : d # c => life'[d] = life[d] /\ active'[d] = active[d]
    BY <1>1, <1>2 DEF BackTypes
  <2> QED BY <1>1, <2>1, <2>2, SettingsStay DEF OthersStay
<1>8. BackProcess(c)'
  <2>1. StoreUsed(c)'
    BY <1>1, <1>2, <1>5 DEF StoreUsed, Unset
  <2>2. NotUp(c)'
    BY <1>1, <1>2 DEF BackProcess, NotUp
  <2>3. ExporterRuns(c)' /\ CloseLast(c)'
    BY <1>1, <1>2 DEF BackProcess, ExporterRuns, CloseLast
  <2>4. ~Live(c)'
    BY <1>5 DEF Live
  <2> QED BY <2>1, <2>2, <2>3, <2>4 DEF BackProcess
<1> QED BY <1>1, <1>6, <1>7, <1>8, BackStepOf

LEMMA BackRecords ==
    ASSUME BackInv, NEW c \in Viewer, B!recordsApplied(c)
    PROVE  BackInv'
<1>1. /\ UNCHANGED <<setting, active, delegate, running, chain, task, closed, writer, exporters>>
      /\ life[c] = "resolved"
      /\ applied' = [applied EXCEPT ![c] = active[c]["object-store"]]
      /\ life' = [life EXCEPT ![c] = "applied"]
  BY DEF B!recordsApplied, B!putSetting
<1>2. BackTypes /\ Unset /\ BackProcess(c)
  BY DEF BackInv
<1>3. active[c]["object-store"] \in B!Config
  <2>1. "object-store" \in B!Category \ {"metrics"}
    BY DEF B!Category
  <2> QED BY <1>2, <2>1 DEF BackTypes
<1>4. /\ applied' \in [Viewer -> B!Config \cup {None}]
      /\ applied'[c] = active[c]["object-store"] /\ \A d \in Viewer : d # c => applied'[d] = applied[d]
  BY <1>1, <1>2, <1>3 DEF BackTypes
<1>5. /\ life' \in [Viewer -> {"down", "resolved", "applied", "up"}]
      /\ life'[c] = "applied" /\ \A d \in Viewer : d # c => life'[d] = life[d]
  BY <1>1, <1>2 DEF BackTypes
<1>6. BackTypes'
  BY <1>1, <1>2, <1>4, <1>5 DEF BackTypes
<1>7. OthersStay(c) /\ Rewrites(c)
  <2>1. exporters \in Nat
    BY <1>2 DEF BackTypes
  <2> QED BY <1>1, <1>4, <1>5, <2>1, SettingsStay DEF OthersStay
<1>8. BackProcess(c)'
  <2>1. StoreUsed(c)'
    BY <1>1, <1>4, <1>5 DEF StoreUsed
  <2>2. NotUp(c)'
    BY <1>1, <1>2 DEF BackProcess, NotUp
  <2>3. ExporterRuns(c)' /\ CloseLast(c)'
    BY <1>1, <1>2 DEF BackProcess, ExporterRuns, CloseLast
  <2>4. ~Live(c)'
    BY <1>5 DEF Live
  <2> QED BY <2>1, <2>2, <2>3, <2>4 DEF BackProcess
<1>9. setting["object-store"].value # None
  BY <1>1, <1>2 DEF BackProcess, StoreUsed
<1> QED BY <1>6, <1>7, <1>8, <1>9, BackStepOf

\* The director and the exporter of a process that comes up are those of the settings.
LEMMA BackLoads ==
    ASSUME BackInv, NEW c \in Viewer, B!load(c)
    PROVE  BackInv'
<1> DEFINE wanted == setting["routing"].value
           used == IF wanted = None THEN B!Default ELSE wanted
           none == setting["metrics"].value \in {None, B!Default}
           next == [id |-> exporters + 1, value |-> setting["metrics"].value]
<1>1. /\ UNCHANGED <<setting, applied, chain, task, closed, writer>>
      /\ life[c] = "applied" /\ life' = [life EXCEPT ![c] = "up"]
      /\ active' = [active EXCEPT ![c]["routing"] = used]
  BY DEF B!load, B!routingActivate
<1>2. IF none
      THEN UNCHANGED <<delegate, running, exporters>>
      ELSE /\ exporters' = exporters + 1
           /\ delegate' = [delegate EXCEPT ![c] = next]
           /\ running' = [running EXCEPT ![c] = {exporters + 1}]
  BY DEF B!load
<1>3. BackTypes /\ Unset /\ BackProcess(c)
  BY DEF BackInv
<1>4. /\ "routing" \in B!Category \ {"metrics"} /\ used \in B!Config
      /\ "object-store" \in B!Category \ {"metrics"} /\ "metrics" \in B!Category
      /\ exporters \in Nat
  BY <1>3 DEF B!Category, BackTypes, B!Config
<1>5. /\ active' \in [Viewer -> [B!Category \ {"metrics"} -> B!Config]]
      /\ active'[c]["routing"] = used /\ active'[c]["object-store"] = active[c]["object-store"]
      /\ \A d \in Viewer : d # c => active'[d] = active[d]
  <2>1. active \in [Viewer -> [B!Category \ {"metrics"} -> B!Config]]
    BY <1>3 DEF BackTypes
  <2> QED BY <1>1, <1>4, <2>1
<1>6. /\ life' \in [Viewer -> {"down", "resolved", "applied", "up"}]
      /\ life'[c] = "up" /\ \A d \in Viewer : d # c => life'[d] = life[d]
  BY <1>1, <1>3 DEF BackTypes
<1>7. /\ delegate \in [Viewer -> Exporter] /\ running \in [Viewer -> SUBSET Nat]
      /\ ~none => next \in Exporter
  BY <1>3, <1>4 DEF BackTypes, Exporter, B!Config
<1>8. /\ delegate' \in [Viewer -> Exporter] /\ running' \in [Viewer -> SUBSET Nat]
      /\ exporters' \in Nat /\ exporters' >= exporters
      /\ \A d \in Viewer : d # c => delegate'[d] = delegate[d] /\ running'[d] = running[d]
      /\ none => delegate'[c] = delegate[c] /\ running'[c] = running[c]
      /\ ~none => delegate'[c] = next /\ running'[c] = {exporters + 1}
  <2>1. CASE none
    BY <1>2, <1>4, <1>7, <2>1
  <2>2. CASE ~none
    BY <1>2, <1>4, <1>7, <2>2
  <2> QED BY <2>1, <2>2
<1>9. BackTypes'
  BY <1>1, <1>3, <1>5, <1>6, <1>8 DEF BackTypes
<1>10. OthersStay(c) /\ Rewrites(c)
  BY <1>1, <1>5, <1>6, <1>8, SettingsStay DEF OthersStay
<1>11. /\ chain[c] = <<>> /\ task[c] = B!Idle /\ closed[c] = FALSE
       /\ running[c] = {} /\ delegate[c] = B!NoExporter /\ task[c].at = "idle"
  BY <1>1, <1>3 DEF BackProcess, NotUp, B!Idle, BackTypes
<1>12. BackProcess(c)'
  <2>1. StoreUsed(c)'
    BY <1>1, <1>3, <1>5, <1>6 DEF BackProcess, StoreUsed
  <2>2. NotUp(c)'
    BY <1>6 DEF NotUp
  <2>3. ExporterRuns(c)'
    <3>1. CASE none
      BY <1>1, <1>4, <1>8, <1>11, <3>1 DEF ExporterRuns, B!NoExporter
    <3>2. CASE ~none
      BY <1>1, <1>2, <1>4, <1>8, <1>11, <3>2 DEF ExporterRuns
    <3> QED BY <3>1, <3>2
  <2>4. CloseLast(c)'
    <3>1. Len(<<>>) = 0
      OBVIOUS
    <3> QED BY <1>1, <1>11, <3>1 DEF CloseLast
  <2>5. Reading(c)' /\ \A k \in {"metrics", "routing"} : ~Holds(c, k)'
    BY <1>1, <1>11 DEF Reading, Holds
  <2>6. c # None
    BY MediaAssumption
  <2>7. Wanted(c, "routing")'
    <3>1. writer["routing"] = c => wanted # None
      BY <1>3, <1>4, <2>6 DEF Unset
    <3>2. B!Uses(c, "routing")' = used
      BY <1>5 DEF B!Uses
    <3> QED BY <1>1, <3>1, <3>2 DEF Wanted
  <2>8. Wanted(c, "metrics")'
    <3>1. writer["metrics"] = c => setting["metrics"].value # None
      BY <1>3, <1>4, <2>6 DEF Unset
    <3>2. B!Uses(c, "metrics")' = IF none THEN B!Default ELSE setting["metrics"].value
      BY <1>8, <1>11 DEF B!Uses, B!NoExporter
    <3> QED BY <1>1, <3>1, <3>2 DEF Wanted
  <2>9. \A k \in {"metrics", "routing"} : Written(c, k)' /\ Wanted(c, k)'
    BY <2>5, <2>7, <2>8 DEF Written
  <2> QED BY <2>1, <2>2, <2>3, <2>4, <2>5, <2>9 DEF BackProcess
<1> QED BY <1>1, <1>9, <1>10, <1>12, BackStepOf

LEMMA BackCrashes ==
    ASSUME BackInv, NEW c \in Viewer, B!Crash(c)
    PROVE  BackInv'
<1>1. /\ UNCHANGED <<setting, applied, active, writer, exporters>>
      /\ life' = [life EXCEPT ![c] = "down"]
      /\ delegate' = [delegate EXCEPT ![c] = B!NoExporter] /\ running' = [running EXCEPT ![c] = {}]
      /\ chain' = [chain EXCEPT ![c] = <<>>] /\ task' = [task EXCEPT ![c] = B!Idle]
      /\ closed' = [closed EXCEPT ![c] = FALSE]
  BY DEF B!Crash, B!Ends, B!Becomes
<1>2. BackTypes /\ Unset /\ exporters \in Nat
  BY DEF BackInv, BackTypes
<1>3. B!NoExporter \in Exporter /\ <<>> \in Seq(Queued)
  BY DEF B!NoExporter, Exporter, B!Config
<1>4. BackTypes'
  BY <1>1, <1>2, <1>3 DEF BackTypes
<1>5. OthersStay(c) /\ Rewrites(c)
  BY <1>1, <1>2, SettingsStay DEF OthersStay, BackTypes
<1>6. /\ life'[c] = "down" /\ chain'[c] = <<>> /\ task'[c] = B!Idle /\ closed'[c] = FALSE
      /\ running'[c] = {} /\ delegate'[c] = B!NoExporter
  BY <1>1, <1>2 DEF BackTypes
<1>7. task'[c].at = "idle" /\ delegate'[c].id = 0
  BY <1>6 DEF B!Idle, B!NoExporter
<1>8. StoreUsed(c)' /\ NotUp(c)' /\ ~Live(c)'
  BY <1>6 DEF StoreUsed, NotUp, Live
<1>9. ExporterRuns(c)'
  BY <1>1, <1>2, <1>6, <1>7 DEF ExporterRuns
<1>10. CloseLast(c)'
  <2>1. Len(<<>>) = 0
    OBVIOUS
  <2> QED BY <1>6, <1>7, <2>1 DEF CloseLast
<1> QED BY <1>1, <1>4, <1>5, <1>8, <1>9, <1>10, BackStepOf DEF BackProcess

\* A step that changes only what waits and what runs: a job that did not hold the setting
\* gives way to one that does not either.
LEMMA BackMoves ==
    ASSUME BackInv, NEW c \in Viewer, life[c] = "up",
           UNCHANGED <<setting, applied, life, active, delegate, running, writer, exporters>>,
           NEW q \in Seq(Queued), NEW t \in {B!Idle} \cup Queued \cup Persisted, NEW b \in BOOLEAN,
           chain' = [chain EXCEPT ![c] = q], task' = [task EXCEPT ![c] = t],
           closed' = [closed EXCEPT ![c] = b], closed[c] => b,
           CloseLast(c)',
           \/ t = task[c]
           \/ /\ task[c].at \notin {"apply", "swap", "rollback"}
              /\ t.at \in {"idle", "validate", "read", "close"}
    PROVE  BackInv'
<1>1. BackTypes /\ BackProcess(c)
  BY DEF BackInv
<1>2. /\ chain \in [Viewer -> Seq(Queued)] /\ task \in [Viewer -> {B!Idle} \cup Queued \cup Persisted]
      /\ closed \in [Viewer -> BOOLEAN] /\ exporters \in Nat
  BY <1>1 DEF BackTypes
<1>3. /\ chain' \in [Viewer -> Seq(Queued)] /\ task' \in [Viewer -> {B!Idle} \cup Queued \cup Persisted]
      /\ closed' \in [Viewer -> BOOLEAN]
      /\ task'[c] = t /\ closed'[c] = b
      /\ \A d \in Viewer : d # c => chain'[d] = chain[d] /\ task'[d] = task[d] /\ closed'[d] = closed[d]
  BY <1>2
<1>4. BackTypes'
  BY <1>1, <1>3 DEF BackTypes
<1>5. OthersStay(c) /\ Rewrites(c)
  BY <1>2, <1>3, SettingsStay DEF OthersStay
<1>6. StoreUsed(c)' /\ NotUp(c)'
  BY <1>1 DEF BackProcess, StoreUsed, NotUp
<1>7. ExporterRuns(c)'
  BY <1>1, <1>3 DEF BackProcess, ExporterRuns
<1>8. ASSUME Live(c)' PROVE Reading(c)' /\ \A k \in {"metrics", "routing"} : Written(c, k)' /\ Wanted(c, k)'
  <2>1. Reading(c) /\ \A k \in {"metrics", "routing"} : Written(c, k) /\ Wanted(c, k)
    BY <1>1, <1>2, <1>3, <1>8 DEF BackProcess, Live
  <2>2. \A k : B!Uses(c, k)' = B!Uses(c, k)
    BY DEF B!Uses
  <2>3. CASE t = task[c]
    BY <1>3, <2>1, <2>2, <2>3 DEF Reading, Written, Wanted, Holds
  <2>4. CASE /\ task[c].at \notin {"apply", "swap", "rollback"}
             /\ t.at \in {"idle", "validate", "read", "close"}
    <3>1. Reading(c)'
      BY <1>3, <2>4 DEF Reading
    <3>2. \A k : ~Holds(c, k) /\ ~Holds(c, k)'
      BY <1>3, <2>4 DEF Holds
    <3> QED BY <2>1, <2>2, <3>1, <3>2 DEF Written, Wanted
  <2> QED BY <2>3, <2>4
<1> QED BY <1>4, <1>5, <1>6, <1>7, <1>8, BackStepOf DEF BackProcess

LEMMA QueuedAppended ==
    ASSUME NEW Kind, NEW q \in Seq(Kind), NEW j \in Kind
    PROVE  /\ Append(q, j) \in Seq(Kind) /\ Append(q, j) # <<>>
           /\ Len(Append(q, j)) = Len(q) + 1 /\ Append(q, j)[Len(q) + 1] = j
           /\ \A i \in 1 .. Len(q) : Append(q, j)[i] = q[i]
           /\ Len(q) \in Nat
  BY AppendProperties, LenProperties

LEMMA BackActivates ==
    ASSUME BackInv, NEW c \in Viewer, NEW k \in B!Category, NEW v \in B!Config,
           B!activate(c, k, v)
    PROVE  BackInv'
<1> DEFINE job == [at |-> "validate", category |-> k, value |-> v]
           q == Append(chain[c], job)
<1>1. /\ life[c] = "up" /\ closed[c] = FALSE
      /\ UNCHANGED <<setting, applied, life, active, delegate, running, writer, exporters>>
      /\ task' = task /\ closed' = closed
  BY DEF B!activate, BackInv, BackTypes
<1>2. chain' = [chain EXCEPT ![c] = q]
  BY DEF B!activate
<1>3. BackTypes /\ CloseLast(c)
  BY DEF BackInv, BackProcess
<1>4. job \in Queued /\ job.at # "close"
  BY DEF Queued
<1>5. /\ chain \in [Viewer -> Seq(Queued)] /\ task \in [Viewer -> {B!Idle} \cup Queued \cup Persisted]
      /\ closed \in [Viewer -> BOOLEAN]
  BY <1>3 DEF BackTypes
<1>6. /\ q \in Seq(Queued) /\ Len(q) = Len(chain[c]) + 1 /\ q[Len(chain[c]) + 1] = job
      /\ \A i \in 1 .. Len(chain[c]) : q[i] = chain[c][i]
      /\ Len(chain[c]) \in Nat
  <2> HIDE DEF job
  <2> QED BY <1>4, <1>5, QueuedAppended
<1> HIDE DEF q, job
<1>7. task' = [task EXCEPT ![c] = task[c]] /\ closed' = [closed EXCEPT ![c] = closed[c]]
  BY <1>1, <1>5
<1>8. CloseLast(c)'
  <2>1. chain'[c] = q /\ closed'[c] = FALSE /\ task'[c] = task[c]
    BY <1>1, <1>2, <1>5
  <2>2. task[c].at # "close" /\ \A i \in 1 .. Len(chain[c]) : chain[c][i].at # "close"
    BY <1>1, <1>3 DEF CloseLast
  <2>3. \A i \in 1 .. Len(q) : q[i].at # "close"
    BY <1>4, <1>6, <2>2
  <2> QED BY <2>1, <2>2, <2>3 DEF CloseLast
<1> QED BY <1>1, <1>2, <1>5, <1>6, <1>7, <1>8, BackMoves

LEMMA BackCloses ==
    ASSUME BackInv, NEW c \in Viewer, B!close(c)
    PROVE  BackInv'
<1> DEFINE job == [at |-> "close"]
           q == Append(chain[c], job)
<1>1. /\ life[c] = "up" /\ closed' = [closed EXCEPT ![c] = TRUE]
      /\ UNCHANGED <<setting, applied, life, active, delegate, running, writer, exporters>>
      /\ task' = task
  BY DEF B!close
<1>2. chain' = [chain EXCEPT ![c] = q]
  BY DEF B!close
<1>3. BackTypes
  BY DEF BackInv
<1>4. job \in Queued /\ job.at = "close"
  BY DEF Queued
<1>5. /\ chain \in [Viewer -> Seq(Queued)] /\ task \in [Viewer -> {B!Idle} \cup Queued \cup Persisted]
      /\ closed \in [Viewer -> BOOLEAN]
  BY <1>3 DEF BackTypes
<1>6. /\ q \in Seq(Queued) /\ q # <<>> /\ Len(q) = Len(chain[c]) + 1 /\ q[Len(chain[c]) + 1] = job
  <2> HIDE DEF job
  <2> QED BY <1>4, <1>5, QueuedAppended
<1> HIDE DEF q, job
<1>7. task' = [task EXCEPT ![c] = task[c]]
  BY <1>1, <1>5
<1>8. CloseLast(c)'
  <2>1. chain'[c] = q /\ closed'[c] = TRUE
    BY <1>1, <1>2, <1>5
  <2> QED BY <1>4, <1>6, <2>1 DEF CloseLast
<1> QED BY <1>1, <1>2, <1>5, <1>6, <1>7, <1>8, BackMoves

LEMMA QueuedTaken ==
    ASSUME NEW Kind, NEW q \in Seq(Kind), q # <<>>
    PROVE  /\ Head(q) \in Kind /\ Head(q) = q[1] /\ Tail(q) \in Seq(Kind)
           /\ Len(Tail(q)) = Len(q) - 1 /\ Len(q) \in Nat /\ Len(q) >= 1 /\ 1 \in 1 .. Len(q)
           /\ \A i \in 1 .. Len(q) - 1 : Tail(q)[i] = q[i + 1]
           /\ Tail(q) = <<>> <=> Len(q) = 1
<1>1. /\ Head(q) \in Kind /\ Head(q) = q[1] /\ Tail(q) \in Seq(Kind)
      /\ Len(Tail(q)) = Len(q) - 1 /\ Len(q) \in Nat
      /\ \A i \in 1 .. Len(Tail(q)) : Tail(q)[i] = q[i + 1]
  BY HeadTailProperties, LenProperties
<1>2. Len(q) # 0
  BY EmptySeq
<1>3. Tail(q) = <<>> <=> Len(Tail(q)) = 0
  BY <1>1, EmptySeq
<1> QED BY <1>1, <1>2, <1>3

LEMMA BackTails ==
    ASSUME BackInv, NEW c \in Viewer, B!activationTail(c)
    PROVE  BackInv'
<1> DEFINE job == Head(chain[c])
           q == Tail(chain[c])
<1>1. /\ life[c] = "up" /\ task[c].at = "idle" /\ chain[c] # <<>>
      /\ UNCHANGED <<setting, applied, life, active, delegate, running, writer, exporters>>
      /\ task' = [task EXCEPT ![c] = job] /\ chain' = [chain EXCEPT ![c] = q] /\ closed' = closed
  BY DEF B!activationTail, B!At, B!Becomes
<1>2. BackTypes /\ CloseLast(c)
  BY DEF BackInv, BackProcess
<1>3. /\ chain \in [Viewer -> Seq(Queued)] /\ task \in [Viewer -> {B!Idle} \cup Queued \cup Persisted]
      /\ closed \in [Viewer -> BOOLEAN]
  BY <1>2 DEF BackTypes
<1>4. /\ job \in Queued /\ job = chain[c][1] /\ q \in Seq(Queued)
      /\ Len(q) = Len(chain[c]) - 1 /\ Len(chain[c]) \in Nat /\ Len(chain[c]) >= 1
      /\ \A i \in 1 .. Len(chain[c]) - 1 : q[i] = chain[c][i + 1]
      /\ q = <<>> <=> Len(chain[c]) = 1
  BY <1>1, <1>3, QueuedTaken
<1> HIDE DEF q, job
<1>5. closed' = [closed EXCEPT ![c] = closed[c]]
  BY <1>1, <1>3
<1>6. job.at \in {"validate", "read", "close"}
  BY <1>4 DEF Queued
<1>7. CloseLast(c)'
  <2>1. chain'[c] = q /\ closed'[c] = closed[c] /\ task'[c] = job
    BY <1>1, <1>3
  <2>2. CASE closed[c]
    <3>1. chain[c][Len(chain[c])].at = "close"
      BY <1>1, <1>2, <2>2 DEF CloseLast
    <3>2. CASE q = <<>>
      BY <1>4, <2>1, <2>2, <3>1, <3>2 DEF CloseLast
    <3>3. CASE q # <<>>
      <4>1. q[Len(q)] = chain[c][Len(chain[c])]
        BY <1>4, <3>3
      <4> QED BY <2>1, <2>2, <3>1, <3>3, <4>1 DEF CloseLast
    <3> QED BY <3>2, <3>3
  <2>3. CASE ~closed[c]
    <3>1. \A i \in 1 .. Len(chain[c]) : chain[c][i].at # "close"
      BY <1>2, <2>3 DEF CloseLast
    <3>2. job.at # "close" /\ \A i \in 1 .. Len(q) : q[i].at # "close"
      BY <1>4, <3>1
    <3> QED BY <2>1, <2>3, <3>2 DEF CloseLast
  <2> QED BY <2>2, <2>3
<1>8. job \in {B!Idle} \cup Queued \cup Persisted /\ closed[c] \in BOOLEAN
  BY <1>3, <1>4
<1>9. /\ task[c].at \notin {"apply", "swap", "rollback"}
      /\ job.at \in {"idle", "validate", "read", "close"}
  BY <1>1, <1>6
<1> QED BY <1>1, <1>4, <1>5, <1>7, <1>8, <1>9, BackMoves

\* What waits and whether close was asked for stay while an activation goes on.
LEMMA LastStays ==
    ASSUME NEW c \in Viewer, CloseLast(c), task[c].at \notin {"idle", "close"},
           task'[c].at # "close", chain'[c] = chain[c], closed'[c] = closed[c]
    PROVE  CloseLast(c)'
  BY DEF CloseLast

LEMMA BackValidates ==
    ASSUME BackInv, NEW c \in Viewer, NEW k \in B!Category, NEW healthy \in BOOLEAN,
           B!Validated(c, k, healthy)
    PROVE  BackInv'
<1> DEFINE t == IF healthy THEN [task[c] EXCEPT !.at = "read"] ELSE B!Idle
<1>1. /\ life[c] = "up" /\ task[c].at = "validate"
      /\ UNCHANGED <<setting, applied, life, active, delegate, running, writer, exporters>>
      /\ chain' = chain /\ closed' = closed
      /\ task' = [task EXCEPT ![c] = t]
  BY DEF B!Validated, B!At, B!Goes, B!Ends, B!Becomes
<1>2. BackTypes /\ CloseLast(c)
  BY DEF BackInv, BackProcess
<1>3. /\ chain \in [Viewer -> Seq(Queued)] /\ task \in [Viewer -> {B!Idle} \cup Queued \cup Persisted]
      /\ closed \in [Viewer -> BOOLEAN]
  BY <1>2 DEF BackTypes
<1>4. task[c] \in [at : {"validate", "read"}, category : B!Category, value : B!Config]
  BY <1>1, <1>3, BackKinds
<1>5. t \in {B!Idle} \cup Queued /\ t.at \in {"idle", "read"}
  BY <1>4 DEF Queued, B!Idle
<1> HIDE DEF t
<1>6. /\ closed' = [closed EXCEPT ![c] = closed[c]] /\ chain' = [chain EXCEPT ![c] = chain[c]]
      /\ task'[c] = t /\ chain[c] \in Seq(Queued) /\ closed[c] \in BOOLEAN
  BY <1>1, <1>3
<1>7. CloseLast(c)'
  BY <1>1, <1>2, <1>5, <1>6, LastStays
<1> QED BY <1>1, <1>5, <1>6, <1>7, BackMoves

\* A step of an activation.
LEMMA BackRuns ==
    ASSUME BackInv, NEW c \in Viewer, life[c] = "up",
           UNCHANGED <<applied, life, chain, closed>>,
           BackTypes', OthersStay(c), Rewrites(c),
           active'[c]["object-store"] = active[c]["object-store"],
           task[c].at \notin {"idle", "close"}, task'[c].at # "close",
           ExporterRuns(c)',
           Live(c) => Reading(c)' /\ \A k \in {"metrics", "routing"} : Written(c, k)' /\ Wanted(c, k)'
    PROVE  BackInv'
<1>1. BackProcess(c)
  BY DEF BackInv
<1>2. StoreUsed(c)' /\ NotUp(c)'
  BY <1>1 DEF BackProcess, StoreUsed, NotUp
<1>3. CloseLast(c)'
  BY <1>1, LastStays DEF BackProcess
<1>4. Live(c)' => Live(c)
  BY DEF Live
<1> QED BY <1>2, <1>3, <1>4, BackStepOf DEF BackProcess

\* What holds of the process whose activation goes on.
LEMMA BackNow ==
    ASSUME BackInv, NEW c \in Viewer
    PROVE  /\ BackTypes /\ Unset /\ ExporterRuns(c)
           /\ task \in [Viewer -> {B!Idle} \cup Queued \cup Persisted]
           /\ setting \in [B!Category -> [value : B!Config \cup {None}, revision : Nat]]
           /\ writer \in [B!Category -> Viewer \cup {None}]
           /\ delegate \in [Viewer -> Exporter] /\ running \in [Viewer -> SUBSET Nat]
           /\ exporters \in Nat /\ c # None /\ None \notin B!Config /\ B!Default \in B!Config
           /\ \A k \in {"metrics", "routing"} : k \in B!Category /\ B!Uses(c, k) \in B!Config
           /\ Live(c) => Reading(c) /\ \A k \in {"metrics", "routing"} : Written(c, k) /\ Wanted(c, k)
<1>1. /\ BackTypes /\ Unset /\ ExporterRuns(c)
      /\ Live(c) => Reading(c) /\ \A k \in {"metrics", "routing"} : Written(c, k) /\ Wanted(c, k)
  BY DEF BackInv, BackProcess
<1>2. c # None /\ None \notin B!Config /\ B!Default \in B!Config
  BY MediaAssumption DEF B!Config, B!Default
<1>3. B!Uses(c, "metrics") \in B!Config
  <2>1. delegate[c] \in Exporter
    BY <1>1 DEF BackTypes
  <2>2. delegate[c].value \in B!Config
    BY <2>1 DEF Exporter
  <2> QED BY <2>2 DEF B!Uses
<1>4. B!Uses(c, "routing") \in B!Config
  <2>1. active[c] \in [B!Category \ {"metrics"} -> B!Config] /\ "routing" \in B!Category \ {"metrics"}
    BY <1>1 DEF BackTypes, B!Category
  <2>2. active[c]["routing"] \in B!Config
    BY <2>1
  <2> QED BY <2>2 DEF B!Uses
<1>5. "metrics" \in B!Category /\ "routing" \in B!Category
  BY DEF B!Category
<1>6. \A k \in {"metrics", "routing"} : k \in B!Category /\ B!Uses(c, k) \in B!Config
  <2> SUFFICES ASSUME NEW k \in {"metrics", "routing"} PROVE k \in B!Category /\ B!Uses(c, k) \in B!Config
    OBVIOUS
  <2>1. CASE k = "metrics"
    BY <1>3, <1>5, <2>1
  <2>2. CASE k = "routing"
    BY <1>4, <1>5, <2>2
  <2> QED BY <2>1, <2>2
<1>7. /\ task \in [Viewer -> {B!Idle} \cup Queued \cup Persisted]
      /\ setting \in [B!Category -> [value : B!Config \cup {None}, revision : Nat]]
      /\ writer \in [B!Category -> Viewer \cup {None}]
      /\ delegate \in [Viewer -> Exporter] /\ running \in [Viewer -> SUBSET Nat]
      /\ exporters \in Nat
  BY <1>1 DEF BackTypes
<1> QED BY <1>1, <1>2, <1>6, <1>7

\* A step that changes what c runs and the settings only.
LEMMA BackPersists ==
    ASSUME BackInv, NEW c \in Viewer, life[c] = "up", task[c].at \notin {"idle", "close", "swap"},
           UNCHANGED <<applied, life, active, delegate, running, chain, closed, exporters>>,
           NEW t \in {B!Idle} \cup Queued \cup Persisted, task' = [task EXCEPT ![c] = t],
           t.at \notin {"close", "swap"},
           setting' \in [B!Category -> [value : B!Config \cup {None}, revision : Nat]],
           writer' \in [B!Category -> Viewer \cup {None}],
           Rewrites(c),
           Live(c) => Reading(c)' /\ \A k \in {"metrics", "routing"} : Written(c, k)' /\ Wanted(c, k)'
    PROVE  BackInv'
<1>1. /\ BackTypes /\ ExporterRuns(c) /\ exporters \in Nat
      /\ task \in [Viewer -> {B!Idle} \cup Queued \cup Persisted]
  BY BackNow
<1>2. /\ task' \in [Viewer -> {B!Idle} \cup Queued \cup Persisted]
      /\ task'[c] = t /\ \A d \in Viewer : d # c => task'[d] = task[d]
  BY <1>1
<1>3. BackTypes'
  BY <1>1, <1>2 DEF BackTypes
<1>4. OthersStay(c)
  BY <1>1, <1>2 DEF OthersStay
<1>5. ExporterRuns(c)'
  BY <1>1, <1>2 DEF ExporterRuns
<1> QED BY <1>2, <1>3, <1>4, <1>5, BackRuns

LEMMA BackReads ==
    ASSUME BackInv, NEW c \in Viewer, B!persistReads(c)
    PROVE  BackInv'
<1> DEFINE s == setting[task[c].category]
           old == IF s.value = None THEN B!Default ELSE s.value
           there == s.value = task[c].value
           t == [at |-> IF there THEN "apply" ELSE "write",
                 category |-> task[c].category, value |-> task[c].value,
                 revision |-> s.revision, old |-> old,
                 changed |-> FALSE, by |-> None, next |-> B!NoExporter]
<1>1. /\ life[c] = "up" /\ task[c].at = "read"
      /\ UNCHANGED <<setting, applied, life, active, delegate, running, chain, closed, writer, exporters>>
  BY DEF B!persistReads, B!At
<1>2. task' = [task EXCEPT ![c] = t]
  BY DEF B!persistReads, B!Becomes
<1>3. /\ task \in [Viewer -> {B!Idle} \cup Queued \cup Persisted]
      /\ setting \in [B!Category -> [value : B!Config \cup {None}, revision : Nat]]
      /\ writer \in [B!Category -> Viewer \cup {None}]
      /\ None \notin B!Config /\ B!Default \in B!Config /\ c # None
  BY BackNow
<1>4. task[c].category \in B!Category /\ task[c].value \in B!Config
  BY <1>1, <1>3, BackKinds
<1>5. s \in [value : B!Config \cup {None}, revision : Nat] /\ old \in B!Config
  BY <1>3, <1>4
<1>6. B!NoExporter \in Exporter
  BY DEF B!NoExporter, Exporter, B!Config
<1>7. t \in Persisted
  BY <1>4, <1>5, <1>6 DEF Persisted
<1>8. /\ t.at = (IF there THEN "apply" ELSE "write") /\ t.category = task[c].category
      /\ t.value = task[c].value /\ t.revision = s.revision /\ t.old = old
      /\ t.changed = FALSE
  OBVIOUS
<1>9. task'[c] = t
  BY <1>2, <1>3
<1> HIDE DEF t
<1>10. ASSUME Live(c)
       PROVE  Reading(c)' /\ \A k \in {"metrics", "routing"} : Written(c, k)' /\ Wanted(c, k)'
  <2>1. s.revision \in Nat
    BY <1>5
  <2>2. Reading(c)'
    BY <1>1, <1>8, <1>9, <2>1 DEF Reading
  <2>3. \A k \in {"metrics", "routing"} : Wanted(c, k) /\ ~Holds(c, k)
    BY <1>1, <1>10, BackNow DEF Holds
  <2>4. \A k \in {"metrics", "routing"} : B!Uses(c, k)' = B!Uses(c, k)
    BY <1>1 DEF B!Uses
  <2>5. \A k \in {"metrics", "routing"} : Wanted(c, k)'
    BY <1>1, <2>3, <2>4 DEF Wanted
  <2>6. \A k \in {"metrics", "routing"} : Written(c, k)'
    <3>1. t.at # "swap" /\ t.at # "rollback" /\ (t.at = "apply" => there)
      BY <1>8
    <3> QED BY <1>1, <1>8, <1>9, <3>1 DEF Written, Holds
  <2> QED BY <2>2, <2>5, <2>6
<1>11. t.at \notin {"close", "swap"}
  BY <1>8
<1>12. Rewrites(c)
  BY <1>1, SettingsStay
<1> QED BY <1>1, <1>2, <1>3, <1>7, <1>10, <1>11, <1>12, BackPersists

\* The setting is written and this process is its writer; or another one was faster.
LEMMA BackWrites ==
    ASSUME BackInv, NEW c \in Viewer, B!persistDesired(c)
    PROVE  BackInv'
<1> DEFINE kc == task[c].category
           v == task[c].value
<1>1. /\ life[c] = "up" /\ task[c].at = "write"
      /\ UNCHANGED <<applied, life, active, delegate, running, chain, closed, exporters>>
  BY DEF B!persistDesired, B!At
<1>2. /\ task \in [Viewer -> {B!Idle} \cup Queued \cup Persisted]
      /\ setting \in [B!Category -> [value : B!Config \cup {None}, revision : Nat]]
      /\ writer \in [B!Category -> Viewer \cup {None}]
      /\ None \notin B!Config /\ c # None
  BY BackNow
<1>3. task[c] \in Persisted /\ kc \in B!Category /\ v \in B!Config /\ task[c].revision \in Nat
  BY <1>1, <1>2, BackKinds DEF Persisted
<1>4. \A k \in {"metrics", "routing"} : B!Uses(c, k)' = B!Uses(c, k)
  BY <1>1 DEF B!Uses
<1>5. \A k \in {"metrics", "routing"} : ~Holds(c, k)
  BY <1>1 DEF Holds
<1>6. CASE /\ setting[kc].revision = task[c].revision
           /\ setting' = [setting EXCEPT ![kc] = [value |-> v, revision |-> task[c].revision + 1]]
           /\ writer' = [writer EXCEPT ![kc] = c]
           /\ task' = [task EXCEPT ![c] = [task[c] EXCEPT !.at = "apply", !.changed = TRUE,
                         !.revision = setting'[kc].revision, !.by = writer[kc]]]
  <2> DEFINE t == [task[c] EXCEPT !.at = "apply", !.changed = TRUE,
                     !.revision = setting'[kc].revision, !.by = writer[kc]]
  <2>1. /\ setting'[kc].value = v /\ setting'[kc].revision = setting[kc].revision + 1
        /\ setting[kc].revision \in Nat
        /\ \A k \in B!Category : k # kc => setting'[k] = setting[k] /\ writer'[k] = writer[k]
        /\ writer'[kc] = c
    BY <1>2, <1>3, <1>6
  <2>2. /\ setting' \in [B!Category -> [value : B!Config \cup {None}, revision : Nat]]
        /\ writer' \in [B!Category -> Viewer \cup {None}]
    BY <1>2, <1>3, <1>6
  <2>3. Rewrites(c)
    BY <1>2, <1>3, <2>1 DEF Rewrites
  <2>4. t \in Persisted /\ t.at = "apply" /\ t.category = kc /\ t.value = v /\ t.changed = TRUE
        /\ t.revision = setting'[kc].revision /\ t.by = writer[kc] /\ t.old = task[c].old
    <3>1. setting'[kc].revision \in Nat /\ writer[kc] \in Viewer \cup {None}
      BY <1>2, <1>3, <2>1
    <3> HIDE DEF kc, v
    <3>2. /\ t.at = "apply" /\ t.changed = TRUE
          /\ t.revision = setting'[kc].revision /\ t.by = writer[kc] /\ t.old = task[c].old
          /\ t.category = task[c].category /\ t.value = task[c].value
      BY <1>3 DEF Persisted
    <3>3. t \in Persisted
      BY <1>3, <3>1 DEF Persisted
    <3> QED BY <3>2, <3>3 DEF kc, v
  <2>5. task'[c] = t
    BY <1>2, <1>6
  <2> HIDE DEF t
  <2>6. ASSUME Live(c)
        PROVE  Reading(c)' /\ \A k \in {"metrics", "routing"} : Written(c, k)' /\ Wanted(c, k)'
    <3>1. Reading(c)'
      BY <2>4, <2>5 DEF Reading
    <3>2. task[c].old = IF setting[kc].value = None THEN B!Default ELSE setting[kc].value
      BY <1>1, <1>6, <2>6, BackNow DEF Reading
    <3>3. ASSUME NEW k \in {"metrics", "routing"}, k # kc
          PROVE  Written(c, k)' /\ Wanted(c, k)'
      <4>1. ~Holds(c, k)' /\ k \in B!Category /\ Wanted(c, k)
        BY <2>4, <2>5, <2>6, <3>3, BackNow DEF Holds
      <4> QED BY <1>4, <1>5, <2>1, <3>3, <4>1 DEF Written, Wanted
    <3>4. ASSUME NEW k \in {"metrics", "routing"}, k = kc
          PROVE  Written(c, k)' /\ Wanted(c, k)'
      <4>1. writer[k] = c => B!Uses(c, k) = setting[k].value /\ B!Uses(c, k) \in B!Config
        BY <1>5, <2>6, BackNow DEF Wanted
      <4>2. writer[k] = c => B!Uses(c, k) = task[c].old
        BY <1>2, <3>2, <3>4, <4>1
      <4>3. Holds(c, k)'
        BY <2>4, <2>5, <3>4 DEF Holds
      <4>4. B!Uses(c, k)' = B!Uses(c, k)
        BY <1>4
      <4>5. /\ setting'[k].value = task'[c].value /\ setting'[k].revision = task'[c].revision
            /\ task'[c].changed = TRUE
            /\ task'[c].by = c => B!Uses(c, k) = task'[c].old
        BY <2>1, <2>4, <2>5, <3>4, <4>2
      <4> HIDE DEF kc
      <4> QED BY <4>3, <4>4, <4>5 DEF Written, Wanted
    <3>5. ASSUME NEW k \in {"metrics", "routing"}
          PROVE  Written(c, k)' /\ Wanted(c, k)'
      BY <3>3, <3>4
    <3> QED BY <3>1, <3>5
  <2>7. t \in {B!Idle} \cup Queued \cup Persisted /\ t.at \notin {"close", "swap"}
        /\ task' = [task EXCEPT ![c] = t]
    BY <1>6, <2>4 DEF t
  <2> QED BY <1>1, <2>2, <2>3, <2>6, <2>7, BackPersists
<1>7. CASE /\ setting[kc].revision # task[c].revision /\ UNCHANGED <<setting, writer>>
           /\ task' = [task EXCEPT ![c] = IF setting[kc].value = v
                                          THEN [task[c] EXCEPT !.at = "apply"] ELSE B!Idle]
  <2> DEFINE t == IF setting[kc].value = v THEN [task[c] EXCEPT !.at = "apply"] ELSE B!Idle
  <2>1. /\ t \in {B!Idle} \cup Persisted /\ t.at \in {"idle", "apply"}
        /\ t.at = "apply" => /\ t.category = kc /\ t.value = v /\ setting[kc].value = v
                             /\ t.changed = task[c].changed
    BY <1>3 DEF Persisted, B!Idle
  <2>2. task'[c] = t /\ task' = [task EXCEPT ![c] = t]
    BY <1>2, <1>7
  <2> HIDE DEF t
  <2>3. ASSUME Live(c)
        PROVE  Reading(c)' /\ \A k \in {"metrics", "routing"} : Written(c, k)' /\ Wanted(c, k)'
    <3>1. Reading(c)'
      BY <2>1, <2>2 DEF Reading
    <3>2. ~task[c].changed
      BY <1>1, <2>3, BackNow DEF Reading
    <3>3. \A k \in {"metrics", "routing"} : Wanted(c, k)
      BY <2>3, BackNow
    <3>4. \A k \in {"metrics", "routing"} : Wanted(c, k)'
      BY <1>4, <1>5, <1>7, <3>3 DEF Wanted
    <3>5. \A k \in {"metrics", "routing"} : Written(c, k)'
      BY <1>7, <2>1, <2>2, <3>2 DEF Written, Holds
    <3> QED BY <3>1, <3>4, <3>5
  <2>4. Rewrites(c)
    BY <1>7, SettingsStay
  <2> QED BY <1>1, <1>2, <1>7, <2>1, <2>2, <2>3, <2>4, BackPersists
<1> QED BY <1>6, <1>7 DEF B!persistDesired, B!compareAndSetSetting, B!Becomes, B!Goes, B!Ends

\* Whether or not it has written, a call that fails leaves no writer.
LEMMA BackFails ==
    ASSUME BackInv, NEW c \in Viewer, B!repositoryFails(c)
    PROVE  BackInv'
<1> DEFINE kc == task[c].category
<1>1. /\ task[c].at \in {"read", "write", "rollback"}
      /\ UNCHANGED <<applied, life, active, delegate, running, chain, closed, exporters>>
      /\ task' = [task EXCEPT ![c] = B!Idle]
  BY DEF B!repositoryFails, B!Ends, B!Becomes
<1>2. /\ task \in [Viewer -> {B!Idle} \cup Queued \cup Persisted]
      /\ setting \in [B!Category -> [value : B!Config \cup {None}, revision : Nat]]
      /\ writer \in [B!Category -> Viewer \cup {None}]
      /\ None \notin B!Config /\ c # None
  BY BackNow
<1>3. life[c] = "up"
  BY <1>1 DEF BackInv, BackProcess, NotUp, B!Idle
<1>4. task'[c] = B!Idle /\ task'[c].at = "idle"
  BY <1>1, <1>2 DEF B!Idle
<1>5. /\ setting' \in [B!Category -> [value : B!Config \cup {None}, revision : Nat]]
      /\ writer' \in [B!Category -> Viewer \cup {None}]
      /\ Rewrites(c)
      /\ \A k \in B!Category : writer'[k] = c => writer[k] = c /\ setting'[k] = setting[k] /\ ~Holds(c, k)
  <2>1. CASE task[c].at = "read"
    <3>1. UNCHANGED <<setting, writer>>
      BY <2>1 DEF B!repositoryFails
    <3> QED BY <1>2, <2>1, <3>1, SettingsStay DEF Holds
  <2>2. CASE task[c].at \in {"write", "rollback"}
    <3>1. kc \in B!Category /\ task[c].value \in B!Config /\ task[c].revision \in Nat
      BY <1>2, <2>2, BackKinds DEF Persisted
    <3>2. writer' = [writer EXCEPT ![kc] = None]
      BY <2>2 DEF B!repositoryFails
    <3>3. \/ UNCHANGED setting
          \/ /\ setting[kc].revision = task[c].revision
             /\ setting' = [setting EXCEPT ![kc] = [value |-> task[c].value, revision |-> task[c].revision + 1]]
      BY <2>2 DEF B!repositoryFails, B!compareAndSetSetting
    <3>4. \A k \in B!Category : Holds(c, k) => k = kc
      BY DEF Holds
    <3> HIDE DEF kc
    <3>5. /\ writer'[kc] = None /\ writer' \in [B!Category -> Viewer \cup {None}]
          /\ \A k \in B!Category : k # kc => writer'[k] = writer[k] /\ setting'[k] = setting[k]
      BY <1>2, <3>1, <3>2, <3>3
    <3>6. CASE UNCHANGED setting
      BY <1>2, <3>1, <3>4, <3>5, <3>6 DEF Rewrites
    <3>7. CASE /\ setting[kc].revision = task[c].revision
               /\ setting' = [setting EXCEPT ![kc] = [value |-> task[c].value, revision |-> task[c].revision + 1]]
      <4>1. /\ setting'[kc].value = task[c].value /\ setting'[kc].revision = setting[kc].revision + 1
            /\ setting' \in [B!Category -> [value : B!Config \cup {None}, revision : Nat]]
        BY <1>2, <3>1, <3>7
      <4>2. Rewrites(c)
        BY <1>2, <3>1, <3>5, <4>1 DEF Rewrites
      <4> QED BY <1>2, <3>4, <3>5, <4>1, <4>2
    <3> QED BY <3>3, <3>6, <3>7
  <2> QED BY <1>1, <2>1, <2>2
<1>6. ASSUME Live(c)
      PROVE  Reading(c)' /\ \A k \in {"metrics", "routing"} : Written(c, k)' /\ Wanted(c, k)'
  <2>1. \A k \in {"metrics", "routing"} : Wanted(c, k) /\ k \in B!Category
    BY <1>6, BackNow
  <2>2. \A k \in {"metrics", "routing"} : B!Uses(c, k)' = B!Uses(c, k)
    BY <1>1 DEF B!Uses
  <2> QED BY <1>4, <1>5, <2>1, <2>2 DEF Reading, Written, Wanted, Holds
<1>7. B!Idle \in {B!Idle} \cup Queued \cup Persisted /\ B!Idle.at \notin {"close", "swap"}
  BY DEF B!Idle
<1>8. task[c].at \notin {"idle", "close", "swap"}
  BY <1>1
<1> QED BY <1>1, <1>3, <1>5, <1>6, <1>7, <1>8, BackPersists

\* The setting is put back if nobody has changed it since.
LEMMA BackRollsBack ==
    ASSUME BackInv, NEW c \in Viewer, B!rollbackDesired(c)
    PROVE  BackInv'
<1> DEFINE kc == task[c].category
<1>1. /\ life[c] = "up" /\ task[c].at = "rollback"
      /\ UNCHANGED <<applied, life, active, delegate, running, chain, closed, exporters>>
      /\ task' = [task EXCEPT ![c] = B!Idle]
  BY DEF B!rollbackDesired, B!Ends, B!Becomes, B!At
<1>2. /\ task \in [Viewer -> {B!Idle} \cup Queued \cup Persisted]
      /\ setting \in [B!Category -> [value : B!Config \cup {None}, revision : Nat]]
      /\ writer \in [B!Category -> Viewer \cup {None}]
      /\ None \notin B!Config /\ c # None
  BY BackNow
<1>3. /\ kc \in B!Category /\ task[c].old \in B!Config /\ task[c].revision \in Nat
      /\ task[c].changed \in BOOLEAN
  BY <1>1, <1>2, BackKinds DEF Persisted
<1>4. task'[c] = B!Idle /\ task'[c].at = "idle"
  BY <1>1, <1>2 DEF B!Idle
<1>5. \A k \in {"metrics", "routing"} : B!Uses(c, k)' = B!Uses(c, k)
  BY <1>1 DEF B!Uses
<1>6. B!Idle \in {B!Idle} \cup Queued \cup Persisted /\ B!Idle.at \notin {"close", "swap"}
  BY DEF B!Idle
<1>7. \A k \in {"metrics", "routing"} : (Holds(c, k) <=> k = kc) /\ ~Holds(c, k)' /\ k \in B!Category
  BY <1>1, <1>4, BackNow DEF Holds
<1>8. Reading(c)'
  BY <1>4 DEF Reading
<1>9. CASE UNCHANGED <<setting, writer>> /\ (task[c].changed => setting[kc].revision # task[c].revision)
  <2>1. ASSUME Live(c), NEW k \in {"metrics", "routing"}
        PROVE  Written(c, k)' /\ Wanted(c, k)'
    <3>1. Written(c, k) /\ Wanted(c, k)
      BY <2>1, BackNow
    <3>2. writer[k] = c => ~(Holds(c, k) /\ task[c].changed)
      BY <1>7, <1>9, <2>1, <3>1 DEF Written
    <3> QED BY <1>5, <1>7, <1>9, <2>1, <3>1, <3>2 DEF Written, Wanted
  <2>2. Rewrites(c)
    BY <1>9, SettingsStay
  <2> QED BY <1>1, <1>2, <1>6, <1>8, <1>9, <2>1, <2>2, BackPersists
<1>10. CASE /\ task[c].changed /\ setting[kc].revision = task[c].revision
            /\ setting' = [setting EXCEPT ![kc] = [value |-> task[c].old, revision |-> task[c].revision + 1]]
            /\ writer' = [writer EXCEPT ![kc] = IF task[c].by = c THEN c ELSE None]
  <2> HIDE DEF kc
  <2>1. /\ setting'[kc].value = task[c].old /\ setting'[kc].revision = setting[kc].revision + 1
        /\ setting' \in [B!Category -> [value : B!Config \cup {None}, revision : Nat]]
        /\ writer'[kc] = (IF task[c].by = c THEN c ELSE None)
        /\ writer' \in [B!Category -> Viewer \cup {None}]
        /\ \A k \in B!Category : k # kc => writer'[k] = writer[k] /\ setting'[k] = setting[k]
    BY <1>2, <1>3, <1>10
  <2>2. Rewrites(c)
    BY <1>2, <1>3, <2>1 DEF Rewrites
  <2>3. ASSUME Live(c), NEW k \in {"metrics", "routing"}
        PROVE  Written(c, k)' /\ Wanted(c, k)'
    <3>1. Written(c, k) /\ Wanted(c, k)
      BY <2>3, BackNow
    <3>2. CASE k # kc
      BY <1>5, <1>7, <2>1, <2>3, <3>1, <3>2 DEF Written, Wanted
    <3>3. CASE k = kc
      <4>1. Holds(c, k) /\ ~Holds(c, k)' /\ k \in B!Category
        BY <1>7, <3>3
      <4>2. task[c].by = c => B!Uses(c, k) = task[c].old
        BY <1>10, <3>1, <4>1 DEF Written
      <4>3. writer'[k] = c => task[c].by = c
        BY <1>2, <2>1, <3>3
      <4>4. setting'[k].value = task[c].old
        BY <2>1, <3>3
      <4> QED BY <1>5, <4>1, <4>2, <4>3, <4>4 DEF Written, Wanted
    <3> QED BY <3>2, <3>3
  <2> QED BY <1>1, <1>6, <1>8, <2>1, <2>2, <2>3, BackPersists
<1> QED BY <1>9, <1>10 DEF B!rollbackDesired, B!compareAndSetSetting

\* A step that changes what a process uses and runs, and leaves the settings alone.
LEMMA BackSwaps ==
    ASSUME BackInv, NEW c \in Viewer, life[c] = "up", task[c].at \notin {"idle", "close"},
           UNCHANGED <<setting, writer, applied, life, chain, closed>>,
           NEW t \in {B!Idle} \cup Queued \cup Persisted, task' = [task EXCEPT ![c] = t],
           t.at # "close",
           active' \in [Viewer -> [B!Category \ {"metrics"} -> B!Config]],
           delegate' \in [Viewer -> Exporter], running' \in [Viewer -> SUBSET Nat],
           exporters' \in Nat, exporters' >= exporters,
           active'[c]["object-store"] = active[c]["object-store"],
           \A d \in Viewer : d # c =>
             active'[d] = active[d] /\ delegate'[d] = delegate[d] /\ running'[d] = running[d],
           ExporterRuns(c)',
           Live(c) => Reading(c)' /\ \A k \in {"metrics", "routing"} : Written(c, k)' /\ Wanted(c, k)'
    PROVE  BackInv'
<1>1. BackTypes /\ task \in [Viewer -> {B!Idle} \cup Queued \cup Persisted]
  BY BackNow
<1>2. /\ task' \in [Viewer -> {B!Idle} \cup Queued \cup Persisted]
      /\ task'[c] = t /\ \A d \in Viewer : d # c => task'[d] = task[d]
  BY <1>1
<1>3. BackTypes'
  BY <1>1, <1>2 DEF BackTypes
<1>4. OthersStay(c) /\ Rewrites(c)
  BY <1>2, SettingsStay DEF OthersStay
<1> QED BY <1>2, <1>3, <1>4, BackRuns

LEMMA BackApplies ==
    ASSUME BackInv, NEW c \in Viewer, B!applies(c)
    PROVE  BackInv'
<1> DEFINE kc == task[c].category
           v == task[c].value
           next == IF v = B!Default THEN B!NoExporter ELSE [id |-> exporters + 1, value |-> v]
<1>1. /\ life[c] = "up" /\ task[c].at = "apply"
      /\ UNCHANGED <<setting, writer, applied, life, chain, closed>>
  BY DEF B!applies, B!At
<1>2. /\ BackTypes /\ task \in [Viewer -> {B!Idle} \cup Queued \cup Persisted]
      /\ delegate \in [Viewer -> Exporter] /\ running \in [Viewer -> SUBSET Nat]
      /\ exporters \in Nat /\ c # None /\ ExporterRuns(c)
      /\ active \in [Viewer -> [B!Category \ {"metrics"} -> B!Config]]
  BY BackNow DEF BackTypes
<1>3. task[c] \in Persisted /\ kc \in B!Category /\ v \in B!Config
  BY <1>1, <1>2, BackKinds DEF Persisted
<1>4. B!Idle \in {B!Idle} \cup Queued \cup Persisted /\ B!Idle.at = "idle"
  BY DEF B!Idle
\* What was wanted is used, once the activation of this category has ended.
<1>5. ASSUME Live(c), task'[c].at \in {"idle", "swap"}, task'[c].at = "swap" => task'[c].category = "metrics",
             NEW k \in {"metrics", "routing"}, ~Holds(c, k)',
             B!Uses(c, k)' = IF k = kc THEN v ELSE B!Uses(c, k)
      PROVE  Written(c, k)' /\ Wanted(c, k)'
  <2>1. Written(c, k) /\ Wanted(c, k)
    BY <1>5, BackNow
  <2>2. CASE k = kc
    <3>1. writer[k] = c => setting[k].value = v
      BY <1>1, <2>1, <2>2 DEF Written, Holds
    <3> QED BY <1>1, <1>5, <2>2, <3>1 DEF Written, Wanted
  <2>3. CASE k # kc
    <3>1. ~Holds(c, k)
      BY <2>3 DEF Holds
    <3> QED BY <1>1, <1>5, <2>1, <2>3, <3>1 DEF Written, Wanted
  <2> QED BY <2>2, <2>3
<1>6. CASE kc \in {"object-store", "routing"}
  <2>1. /\ task' = [task EXCEPT ![c] = B!Idle] /\ UNCHANGED <<delegate, running, exporters>>
        /\ IF kc = "routing" THEN active' = [active EXCEPT ![c]["routing"] = v] ELSE active' = active
    BY <1>6 DEF B!applies, B!Ends, B!Becomes, B!routingActivate
  <2>2. task'[c] = B!Idle /\ task'[c].at = "idle"
    BY <1>2, <1>4, <2>1
  <2>3. "routing" \in B!Category \ {"metrics"} /\ "object-store" \in B!Category \ {"metrics"}
    BY DEF B!Category
  <2>4. /\ active' \in [Viewer -> [B!Category \ {"metrics"} -> B!Config]]
        /\ active'[c]["object-store"] = active[c]["object-store"]
        /\ active'[c]["routing"] = IF kc = "routing" THEN v ELSE active[c]["routing"]
        /\ \A d \in Viewer : d # c => active'[d] = active[d]
    <3> HIDE DEF kc, v
    <3>1. CASE kc = "routing"
      <4>1. active' = [active EXCEPT ![c]["routing"] = v]
        BY <2>1, <3>1
      <4>2. active[c] \in [B!Category \ {"metrics"} -> B!Config]
        BY <1>2
      <4>3. active' = [active EXCEPT ![c] = [active[c] EXCEPT !["routing"] = v]]
        BY <4>1
      <4>4. [active[c] EXCEPT !["routing"] = v] \in [B!Category \ {"metrics"} -> B!Config]
        BY <1>3, <4>2
      <4>5. active'[c] = [active[c] EXCEPT !["routing"] = v]
        BY <1>2, <4>3
      <4>6. active' \in [Viewer -> [B!Category \ {"metrics"} -> B!Config]]
            /\ \A d \in Viewer : d # c => active'[d] = active[d]
        BY <1>2, <4>3, <4>4
      <4>7. active'[c]["routing"] = v /\ active'[c]["object-store"] = active[c]["object-store"]
        BY <2>3, <4>2, <4>5
      <4> QED BY <3>1, <4>6, <4>7
    <3>2. CASE kc # "routing"
      BY <1>2, <2>1, <3>2
    <3> QED BY <3>1, <3>2
  <2>5. ExporterRuns(c)'
    BY <1>1, <1>2, <2>1, <2>2 DEF ExporterRuns
  <2>6. Reading(c)' /\ \A k : ~Holds(c, k)'
    BY <2>2 DEF Reading, Holds
  <2>7. \A k \in {"metrics", "routing"} : B!Uses(c, k)' = IF k = kc THEN v ELSE B!Uses(c, k)
    <3>1. B!Uses(c, "metrics")' = B!Uses(c, "metrics")
      BY <2>1 DEF B!Uses
    <3>2. B!Uses(c, "routing")' = IF kc = "routing" THEN v ELSE B!Uses(c, "routing")
      BY <2>4 DEF B!Uses
    <3> HIDE DEF kc, v
    <3>3. ASSUME NEW k \in {"metrics", "routing"}
          PROVE  B!Uses(c, k)' = IF k = kc THEN v ELSE B!Uses(c, k)
      <4>1. CASE k = "metrics"
        BY <1>6, <3>1, <4>1
      <4>2. CASE k = "routing"
        BY <3>2, <4>2
      <4> QED BY <4>1, <4>2
    <3> QED BY <3>3
  <2>8. Live(c) => Reading(c)' /\ \A k \in {"metrics", "routing"} : Written(c, k)' /\ Wanted(c, k)'
    BY <1>5, <2>2, <2>6, <2>7
  <2>9. /\ delegate' \in [Viewer -> Exporter] /\ running' \in [Viewer -> SUBSET Nat]
        /\ exporters' \in Nat /\ exporters' >= exporters
        /\ \A d \in Viewer : d # c => delegate'[d] = delegate[d] /\ running'[d] = running[d]
    BY <1>2, <2>1
  <2>10. B!Idle.at # "close" /\ task[c].at \notin {"idle", "close"}
    BY <1>1, <1>4
  <2> QED BY <1>1, <1>4, <2>1, <2>4, <2>5, <2>8, <2>9, <2>10, BackSwaps
<1>7. CASE kc = "metrics"
  <2>1. /\ active' = active
        /\ exporters' = IF next = B!NoExporter THEN exporters ELSE exporters + 1
        /\ running' = [running EXCEPT ![c] = running[c] \cup ({next.id} \ {0})]
        /\ \/ /\ delegate[c].id = 0 /\ task' = [task EXCEPT ![c] = B!Idle]
              /\ delegate' = [delegate EXCEPT ![c] = next]
           \/ /\ delegate[c].id # 0 /\ delegate' = delegate
              /\ task' = [task EXCEPT ![c] = [task[c] EXCEPT !.at = "swap", !.next = next]]
    BY <1>7 DEF B!applies, B!Ends, B!Becomes
  <2>2. /\ next \in Exporter /\ next.value = v
        /\ next = B!NoExporter => next.id = 0
        /\ next # B!NoExporter => next.id = exporters + 1
    BY <1>2, <1>3 DEF Exporter, B!NoExporter, B!Config
  <2> HIDE DEF next
  <2>3. /\ next.id \in Nat /\ exporters' \in Nat /\ exporters' >= exporters /\ next.id <= exporters'
        /\ delegate[c].id <= exporters /\ delegate[c].id \in Nat
    <3>1. delegate[c] \in Exporter
      BY <1>2
    <3>2. delegate[c].id \in Nat /\ next.id \in Nat
      BY <2>2, <3>1 DEF Exporter
    <3>3. delegate[c].id <= exporters
      BY <1>2 DEF ExporterRuns
    <3> QED BY <1>2, <2>1, <2>2, <3>2, <3>3
  <2>4. delegate[c].id # 0 => next.id # delegate[c].id
    <3>1. next.id = 0 \/ next.id = exporters + 1
      BY <2>2
    <3> QED BY <1>2, <2>3, <3>1
  <2>5. /\ running' \in [Viewer -> SUBSET Nat]
        /\ running'[c] = {delegate[c].id, next.id} \ {0}
        /\ \A d \in Viewer : d # c => running'[d] = running[d]
    <3>1. running[c] = {delegate[c].id} \ {0}
      BY <1>1, <1>2 DEF ExporterRuns
    <3> QED BY <1>2, <2>1, <2>3, <3>1
  <2>6. active'[c]["object-store"] = active[c]["object-store"]
        /\ active' \in [Viewer -> [B!Category \ {"metrics"} -> B!Config]]
    BY <1>2, <2>1
  <2>7. CASE /\ delegate[c].id = 0 /\ task' = [task EXCEPT ![c] = B!Idle]
             /\ delegate' = [delegate EXCEPT ![c] = next]
    <3>1. task'[c] = B!Idle /\ task'[c].at = "idle"
      BY <1>2, <1>4, <2>7
    <3>2. /\ delegate' \in [Viewer -> Exporter] /\ delegate'[c] = next
          /\ \A d \in Viewer : d # c => delegate'[d] = delegate[d]
      BY <1>2, <2>2, <2>7
    <3>3. ExporterRuns(c)'
      BY <2>3, <2>5, <2>7, <3>1, <3>2 DEF ExporterRuns
    <3>4. Reading(c)' /\ \A k : ~Holds(c, k)'
      BY <3>1 DEF Reading, Holds
    <3>5. \A k \in {"metrics", "routing"} : B!Uses(c, k)' = IF k = kc THEN v ELSE B!Uses(c, k)
      <4> HIDE DEF kc, v
      <4> SUFFICES ASSUME NEW k \in {"metrics", "routing"}
                   PROVE  B!Uses(c, k)' = IF k = kc THEN v ELSE B!Uses(c, k)
        OBVIOUS
      <4>1. CASE k = "metrics"
        BY <1>7, <2>2, <3>2, <4>1 DEF B!Uses
      <4>2. CASE k = "routing"
        BY <1>7, <2>1, <4>2 DEF B!Uses
      <4> QED BY <4>1, <4>2
    <3>6. Live(c) => Reading(c)' /\ \A k \in {"metrics", "routing"} : Written(c, k)' /\ Wanted(c, k)'
      BY <1>5, <3>1, <3>4, <3>5
    <3>7. B!Idle.at # "close" /\ task[c].at \notin {"idle", "close"}
      BY <1>1, <1>4
    <3>8. \A d \in Viewer : d # c => active'[d] = active[d]
      BY <2>1
    <3> QED BY <1>1, <1>4, <2>3, <2>5, <2>6, <2>7, <3>2, <3>3, <3>6, <3>7, <3>8, BackSwaps
  <2>8. CASE /\ delegate[c].id # 0 /\ delegate' = delegate
             /\ task' = [task EXCEPT ![c] = [task[c] EXCEPT !.at = "swap", !.next = next]]
    <3> DEFINE t == [task[c] EXCEPT !.at = "swap", !.next = next]
    <3>1. t \in Persisted /\ t.at = "swap" /\ t.next = next /\ t.category = kc /\ t.value = v
          /\ t.changed = task[c].changed /\ t.by = task[c].by /\ t.old = task[c].old
          /\ t.revision = task[c].revision
      BY <1>3, <2>2 DEF Persisted
    <3>2. task'[c] = t /\ task' = [task EXCEPT ![c] = t]
      BY <1>2, <2>8
    <3> HIDE DEF t
    <3>3. ExporterRuns(c)'
      <4>1. delegate[c].id <= exporters'
        BY <1>2, <2>3
      <4>2. /\ task'[c].at = "swap" /\ task'[c].next.id = next.id
            /\ task'[c].next.value = task'[c].value
        BY <2>2, <3>1, <3>2
      <4> HIDE DEF kc, v
      <4> QED BY <2>3, <2>4, <2>5, <2>8, <4>1, <4>2 DEF ExporterRuns
    <3>4. Reading(c)'
      BY <1>7, <3>1, <3>2 DEF Reading
    <3>5. ASSUME Live(c), NEW k \in {"metrics", "routing"}
          PROVE  Written(c, k)' /\ Wanted(c, k)'
      <4>1. B!Uses(c, k)' = B!Uses(c, k)
        BY <2>1, <2>8 DEF B!Uses
      <4>2. Holds(c, k)' = Holds(c, k)
        BY <1>1, <3>1, <3>2 DEF Holds
      <4>3. Written(c, k) /\ Wanted(c, k)
        BY <3>5, BackNow
      <4> QED BY <1>1, <3>1, <3>2, <4>1, <4>2, <4>3 DEF Written, Wanted
    <3>6. /\ delegate' \in [Viewer -> Exporter]
          /\ \A d \in Viewer : d # c => delegate'[d] = delegate[d] /\ active'[d] = active[d]
      BY <1>2, <2>1, <2>8
    <3>7. t.at # "close" /\ task[c].at \notin {"idle", "close"}
          /\ t \in {B!Idle} \cup Queued \cup Persisted
      BY <1>1, <3>1
    <3> QED BY <1>1, <2>3, <2>5, <2>6, <3>2, <3>3, <3>4, <3>5, <3>6, <3>7, BackSwaps
  <2> QED BY <2>1, <2>7, <2>8
<1>8. kc \in {"object-store", "routing"} \/ kc = "metrics"
  BY <1>3 DEF B!Category
<1> QED BY <1>6, <1>7, <1>8

\* The exporter before it has stopped and the next one takes over.
LEMMA BackTakesOver ==
    ASSUME BackInv, NEW c \in Viewer, B!exporterActivate(c)
    PROVE  BackInv'
<1> DEFINE next == task[c].next
<1>1. /\ life[c] = "up" /\ task[c].at = "swap"
      /\ UNCHANGED <<setting, writer, applied, life, active, chain, closed, exporters>>
      /\ running' = [running EXCEPT ![c] = running[c] \ {delegate[c].id}]
      /\ delegate' = [delegate EXCEPT ![c] = next]
      /\ task' = [task EXCEPT ![c] = B!Idle]
  BY DEF B!exporterActivate, B!At, B!Ends, B!Becomes
<1>2. /\ BackTypes /\ task \in [Viewer -> {B!Idle} \cup Queued \cup Persisted]
      /\ delegate \in [Viewer -> Exporter] /\ running \in [Viewer -> SUBSET Nat]
      /\ exporters \in Nat /\ c # None /\ ExporterRuns(c)
      /\ active \in [Viewer -> [B!Category \ {"metrics"} -> B!Config]]
  BY BackNow DEF BackTypes
<1>3. next \in Exporter /\ task[c] \in Persisted
  BY <1>1, <1>2, BackKinds DEF Persisted
<1>4. /\ delegate[c].id # 0 /\ next.id # delegate[c].id /\ next.id <= exporters
      /\ next.value = task[c].value /\ running[c] = {delegate[c].id, next.id} \ {0}
  BY <1>1, <1>2 DEF ExporterRuns
<1> HIDE DEF next
<1>5. /\ delegate' \in [Viewer -> Exporter] /\ delegate'[c] = next
      /\ running' \in [Viewer -> SUBSET Nat] /\ running'[c] = {next.id} \ {0}
      /\ task'[c] = B!Idle /\ task'[c].at = "idle"
      /\ \A d \in Viewer : d # c => delegate'[d] = delegate[d] /\ running'[d] = running[d] /\ active'[d] = active[d]
  BY <1>1, <1>2, <1>3, <1>4 DEF B!Idle
<1>6. ExporterRuns(c)'
  BY <1>1, <1>4, <1>5 DEF ExporterRuns
<1>7. Reading(c)' /\ \A k : ~Holds(c, k)'
  BY <1>5 DEF Reading, Holds
<1>8. ASSUME Live(c), NEW k \in {"metrics", "routing"}
      PROVE  Written(c, k)' /\ Wanted(c, k)'
  <2>1. Written(c, k) /\ Wanted(c, k) /\ task[c].category = "metrics"
    BY <1>1, <1>8, BackNow DEF Reading
  <2>2. CASE k = "metrics"
    <3>1. writer[k] = c => setting[k].value = task[c].value
      BY <1>1, <2>1, <2>2 DEF Written, Holds
    <3>2. B!Uses(c, k)' = next.value
      BY <1>5, <2>2 DEF B!Uses
    <3> QED BY <1>1, <1>4, <1>7, <3>1, <3>2 DEF Written, Wanted
  <2>3. CASE k = "routing"
    <3>1. ~Holds(c, k) /\ B!Uses(c, k)' = B!Uses(c, k)
      BY <1>1, <2>1, <2>3 DEF Holds, B!Uses
    <3> QED BY <1>1, <1>7, <2>1, <3>1 DEF Written, Wanted
  <2> QED BY <2>2, <2>3
<1>9. B!Idle \in {B!Idle} \cup Queued \cup Persisted /\ B!Idle.at # "close"
      /\ task[c].at \notin {"idle", "close"} /\ exporters' \in Nat /\ exporters' >= exporters
  BY <1>1, <1>2 DEF B!Idle
<1> QED BY <1>1, <1>2, <1>5, <1>6, <1>7, <1>8, <1>9, BackSwaps

\* The exporter in use runs again, the next one does not.
LEMMA BackKeepsOld ==
    ASSUME BackInv, NEW c \in Viewer, B!exporterRollback(c)
    PROVE  BackInv'
<1> DEFINE next == task[c].next
           t == [task[c] EXCEPT !.at = "rollback"]
<1>1. /\ life[c] = "up" /\ task[c].at = "swap"
      /\ UNCHANGED <<setting, writer, applied, life, active, delegate, chain, closed, exporters>>
      /\ running' = [running EXCEPT ![c] = (running[c] \ {next.id}) \cup {delegate[c].id}]
      /\ task' = [task EXCEPT ![c] = t]
  BY DEF B!exporterRollback, B!At, B!Goes, B!Becomes
<1>2. /\ BackTypes /\ task \in [Viewer -> {B!Idle} \cup Queued \cup Persisted]
      /\ delegate \in [Viewer -> Exporter] /\ running \in [Viewer -> SUBSET Nat]
      /\ exporters \in Nat /\ c # None /\ ExporterRuns(c)
      /\ active \in [Viewer -> [B!Category \ {"metrics"} -> B!Config]]
  BY BackNow DEF BackTypes
<1>3. /\ task[c] \in Persisted /\ t \in Persisted /\ t.at = "rollback" /\ t.category = task[c].category
      /\ t.value = task[c].value /\ t.changed = task[c].changed /\ t.by = task[c].by
      /\ t.old = task[c].old /\ t.revision = task[c].revision
  BY <1>1, <1>2, BackKinds DEF Persisted
<1>4. /\ delegate[c].id # 0 /\ delegate[c].id <= exporters /\ next.id # delegate[c].id
      /\ running[c] = {delegate[c].id, next.id} \ {0}
  BY <1>1, <1>2 DEF ExporterRuns
<1>5. delegate[c].id \in Nat
  <2>1. delegate[c] \in Exporter
    BY <1>2
  <2> QED BY <2>1 DEF Exporter
<1> HIDE DEF next, t
<1>6. /\ running' \in [Viewer -> SUBSET Nat] /\ running'[c] = {delegate[c].id} \ {0}
      /\ task'[c] = t
      /\ \A d \in Viewer : d # c => delegate'[d] = delegate[d] /\ running'[d] = running[d] /\ active'[d] = active[d]
  <2>1. (running[c] \ {next.id}) \cup {delegate[c].id} = {delegate[c].id} \ {0}
    BY <1>4
  <2> QED BY <1>1, <1>2, <1>5, <2>1
<1>7. ExporterRuns(c)'
  BY <1>1, <1>3, <1>4, <1>6 DEF ExporterRuns
<1>8. Reading(c)'
  BY <1>3, <1>6 DEF Reading
<1>9. ASSUME Live(c), NEW k \in {"metrics", "routing"}
      PROVE  Written(c, k)' /\ Wanted(c, k)'
  <2>1. Written(c, k) /\ Wanted(c, k)
    BY <1>9, BackNow
  <2>2. Holds(c, k)' = Holds(c, k)
    BY <1>1, <1>3, <1>6 DEF Holds
  <2>3. B!Uses(c, k)' = B!Uses(c, k)
    BY <1>1 DEF B!Uses
  <2> QED BY <1>1, <1>3, <1>6, <2>1, <2>2, <2>3 DEF Written, Wanted
<1>10. /\ t \in {B!Idle} \cup Queued \cup Persisted /\ t.at # "close"
       /\ task[c].at \notin {"idle", "close"} /\ exporters' \in Nat /\ exporters' >= exporters
       /\ delegate' \in [Viewer -> Exporter]
       /\ active' \in [Viewer -> [B!Category \ {"metrics"} -> B!Config]]
       /\ active'[c]["object-store"] = active[c]["object-store"]
  <2>1. t \in {B!Idle} \cup Queued \cup Persisted /\ t.at # "close"
        /\ task[c].at \notin {"idle", "close"}
    BY <1>1, <1>3
  <2>2. delegate' \in [Viewer -> Exporter]
        /\ active' \in [Viewer -> [B!Category \ {"metrics"} -> B!Config]]
        /\ active'[c]["object-store"] = active[c]["object-store"]
    BY <1>1, <1>2
  <2>3. exporters' \in Nat /\ exporters' >= exporters
    BY <1>1, <1>2
  <2> QED BY <2>1, <2>2, <2>3
<1> QED BY <1>1, <1>6, <1>7, <1>8, <1>9, <1>10, BackSwaps

\* The exporter is stopped: close was asked for.
LEMMA BackEnds ==
    ASSUME BackInv, NEW c \in Viewer, B!exporterStop(c)
    PROVE  BackInv'
<1>1. /\ life[c] = "up" /\ task[c].at = "close"
      /\ UNCHANGED <<setting, writer, applied, life, active, chain, closed, exporters>>
      /\ running' = [running EXCEPT ![c] = running[c] \ {delegate[c].id}]
      /\ delegate' = [delegate EXCEPT ![c] = B!NoExporter]
      /\ task' = [task EXCEPT ![c] = B!Idle]
  BY DEF B!exporterStop, B!At, B!Ends, B!Becomes
<1>2. /\ BackTypes /\ task \in [Viewer -> {B!Idle} \cup Queued \cup Persisted]
      /\ delegate \in [Viewer -> Exporter] /\ running \in [Viewer -> SUBSET Nat]
      /\ exporters \in Nat /\ ExporterRuns(c)
  BY BackNow
<1>3. B!NoExporter \in Exporter /\ B!NoExporter.id = 0 /\ B!Idle.at = "idle"
  BY DEF B!NoExporter, Exporter, B!Config, B!Idle
<1>4. /\ running[c] = {delegate[c].id} \ {0}
      /\ BackProcess(c)
  BY <1>1, <1>2 DEF ExporterRuns, BackInv
<1>5. /\ delegate' \in [Viewer -> Exporter] /\ delegate'[c] = B!NoExporter
      /\ running' \in [Viewer -> SUBSET Nat] /\ running'[c] = {}
      /\ task'[c] = B!Idle /\ task' \in [Viewer -> {B!Idle} \cup Queued \cup Persisted]
      /\ \A d \in Viewer : d # c =>
           delegate'[d] = delegate[d] /\ running'[d] = running[d] /\ task'[d] = task[d]
  BY <1>1, <1>2, <1>3, <1>4
<1>6. BackTypes'
  BY <1>1, <1>2, <1>5 DEF BackTypes
<1>7. OthersStay(c) /\ Rewrites(c)
  BY <1>1, <1>2, <1>5, SettingsStay DEF OthersStay
<1>8. closed[c]
  BY <1>1, <1>4 DEF BackProcess, CloseLast
<1>9. StoreUsed(c)' /\ NotUp(c)' /\ ~Live(c)'
  BY <1>1, <1>4, <1>8 DEF BackProcess, StoreUsed, NotUp, Live
<1>10. ExporterRuns(c)'
  BY <1>1, <1>2, <1>3, <1>5 DEF ExporterRuns
<1>11. CloseLast(c)'
  BY <1>1, <1>3, <1>4, <1>5, <1>8 DEF BackProcess, CloseLast
<1> QED BY <1>1, <1>6, <1>7, <1>9, <1>10, <1>11, BackStepOf DEF BackProcess

LEMMA BackStep ==
    ASSUME BackInv, B!Next \/ UNCHANGED bvars
    PROVE  BackInv'
<1>1. CASE UNCHANGED bvars
  <2>1. UNCHANGED <<setting, applied, life, active, delegate, running, chain, task, closed, writer, exporters>>
    BY <1>1 DEF bvars
  <2>2. BackTypes' /\ Unset'
    BY <2>1 DEF BackInv, BackTypes, Unset
  <2>3. ASSUME NEW c \in Viewer PROVE BackProcess(c)'
    <3>1. BackProcess(c)
      BY DEF BackInv
    <3>2. StoreUsed(c)' /\ NotUp(c)' /\ ExporterRuns(c)' /\ CloseLast(c)'
      BY <2>1, <3>1 DEF BackProcess, StoreUsed, NotUp, ExporterRuns, CloseLast
    <3>3. Live(c)' => Reading(c)'
      BY <2>1, <3>1 DEF BackProcess, Live, Reading
    <3>4. Live(c)' => \A k \in {"metrics", "routing"} : Written(c, k)' /\ Wanted(c, k)'
      BY <2>1, <3>1 DEF BackProcess, Live, Written, Wanted, Holds, B!Uses
    <3> QED BY <3>2, <3>3, <3>4 DEF BackProcess
  <2> QED BY <2>2, <2>3 DEF BackInv
<1>2. CASE B!Next
  <2>1. PICK c \in Viewer :
          \/ B!resolveConfiguredObjectStore(c) \/ B!recordsApplied(c) \/ B!load(c) \/ B!Crash(c)
          \/ \E k \in B!Category, v \in B!Config : B!activate(c, k, v)
          \/ B!Running(c) \/ B!repositoryFails(c) \/ B!exporterRollback(c) \/ B!close(c)
    BY <1>2 DEF B!Next
  <2>2. CASE \E healthy \in BOOLEAN : \/ B!createConfiguredObjectStore(c, healthy)
                                      \/ B!routingCandidate(c, healthy) \/ B!metricsCandidate(c, healthy)
    <3>1. "object-store" \in B!Category /\ "metrics" \in B!Category /\ "routing" \in B!Category
      BY DEF B!Category
    <3> QED BY <2>2, <3>1, BackValidates
            DEF B!createConfiguredObjectStore, B!routingCandidate, B!metricsCandidate
  <2> QED BY <2>1, <2>2, BackResolves, BackRecords, BackLoads, BackCrashes, BackActivates, BackTails,
             BackReads, BackWrites, BackFails, BackApplies, BackTakesOver, BackKeepsOld,
             BackRollsBack, BackCloses, BackEnds DEF B!Running
<1> QED BY <1>1, <1>2

LEMMA BackSafe == BackInv => B!BackendsSafe
<1> SUFFICES ASSUME BackInv, NEW c \in Viewer
             PROVE  /\ B!Quiet(c) /\ ~closed[c] => \A k \in {"metrics", "routing"} :
                         writer[k] = c => B!Uses(c, k) = setting[k].value
                    /\ B!Quiet(c) => running[c] = IF closed[c] THEN {} ELSE {delegate[c].id} \ {0}
                    /\ /\ life[c] \in {"applied", "up"} /\ ~B!restartRequired(c)
                       /\ setting["object-store"].value # None
                       => active[c]["object-store"] = setting["object-store"].value
  BY DEF B!BackendsSafe
<1>1. BackProcess(c)
  BY DEF BackInv
<1>2. ASSUME B!Quiet(c), ~closed[c], NEW k \in {"metrics", "routing"}, writer[k] = c
      PROVE  B!Uses(c, k) = setting[k].value
  BY <1>1, <1>2 DEF BackProcess, Live, Wanted, Holds, B!Quiet, B!At
<1>3. B!Quiet(c) => running[c] = IF closed[c] THEN {} ELSE {delegate[c].id} \ {0}
  BY <1>1 DEF BackProcess, ExporterRuns, CloseLast, B!Quiet, B!At
<1>4. /\ life[c] \in {"applied", "up"} /\ ~B!restartRequired(c)
      /\ setting["object-store"].value # None
      => active[c]["object-store"] = setting["object-store"].value
  BY <1>1 DEF BackProcess, StoreUsed, B!restartRequired
<1> QED BY <1>2, <1>3, <1>4

---------------------------------------------------------------------------
(* The files and the objects (FileStores).                                 *)

Version == Nat \cup {None}
SecretName == Secret \cup {F!Authority}
Queues == {"secrets", "object"}

OfFile == {"queued", "protect", "temporary", "renamed"}
OfObject == {"put", "metadata", "open", "stat", "delete", "file", "touch", "remove"}
OfCloud == {"uploaded", "expired", "exists", "found"}
SecretOp ==
    [at : OfFile \cup {"keychain"}, ref : SecretName, value : Version,
     copy : [SecretName -> Version] \cup {None}]
ObjectOp ==
    [at : OfObject \cup {"streams"}, version : Nat, seen : Version, got : Version,
     left : SUBSET {"content", "metadata"}]
CloudOp == [at : {"streams"}, seen : Version, got : Version]
PlainOp == [at : {"idle", "ca-read", "ca-wait"} \cup OfCloud]
FileOp == SecretOp \cup ObjectOp \cup CloudOp \cup PlainOp

FileTypes ==
    /\ driver \in F!Driver /\ backend \in F!Backend
    /\ secrets \in [SecretName -> Version] /\ last = secrets
    /\ content \in Version /\ meta \in Version /\ stored \in Version
    /\ torn \in BOOLEAN
    /\ queue \in [Queues -> Seq(Viewer)]
    /\ op \in [Viewer -> FileOp]
    /\ ca \in [is : {"none", "pending", "fulfilled", "rejected"}, key : Version]
    /\ made \in Nat /\ damaged \in Nat

\* Which queue an operation is in; what it has begun to change, only the first changes.
In(o, p) ==
    IF p = "secrets" THEN op[o].at \in OfFile /\ backend # "keychain" ELSE op[o].at \in OfObject
Begun == {"protect", "temporary", "renamed", "metadata", "file", "touch", "remove"}
First(o, p) == Len(queue[p]) > 0 /\ queue[p][1] = o
Stands(o, p) == \E i \in 1 .. Len(queue[p]) : queue[p][i] = o
QueueKept(p) ==
    /\ \A o \in Viewer : Stands(o, p) => In(o, p)
    /\ \A i, j \in 1 .. Len(queue[p]) : queue[p][i] = queue[p][j] => i = j
    /\ \A o \in Viewer : In(o, p) /\ op[o].at \in Begun => First(o, p)

\* The copy of the file is the file.
CopyKept ==
    /\ \A o \in Viewer : op[o].at \in {"protect", "temporary"} => op[o].copy = secrets
    /\ \A o \in Viewer : op[o].at \in OfFile \ {"renamed"} => backend # "keychain"
    /\ \A o \in Viewer : op[o].at = "keychain" => backend = "keychain"

\* One caller creates the authority, while nobody has signed.
Creates(o) ==
    \/ op[o].at = "ca-read"
    \/ op[o].at \in OfFile \cup {"keychain"} /\ op[o].ref = F!Authority
AuthorityKept ==
    /\ ca.is = "none" => ca = F!NoPromise
    /\ ca.is = "fulfilled" => ca.key # None /\ ca.key = secrets[F!Authority]
    /\ \A o \in Viewer : Creates(o) => ca.is = "pending"
    /\ \A o, u \in Viewer : Creates(o) /\ Creates(u) => o = u
    /\ \A o \in Viewer : Creates(o) /\ op[o].at # "ca-read" =>
         /\ op[o].value # None
         /\ secrets[F!Authority] = IF op[o].at = "renamed" THEN op[o].value ELSE None
    /\ signed \subseteq {secrets[F!Authority]}
    /\ signed # {} => secrets[F!Authority] # None

\* Content and metadata are those of the last put, unless one is being changed or was
\* interrupted; what a reader has seen is still there while it is the first.
ObjectWhole ==
    /\ ~torn => content = meta /\ (stored # None => content = stored)
    /\ driver # "local" => ~torn
    /\ torn => damaged > 0 \/ \E o \in Viewer : op[o].at \in {"metadata", "remove"}
ObjectSeen(o) ==
    /\ op[o].at \in OfObject => driver = "local"
    /\ op[o].at \in OfCloud => driver # "local"
    /\ op[o].at = "metadata" => torn /\ content = op[o].version
    /\ op[o].at \in {"file", "touch"} => op[o].seen = meta
    /\ op[o].at = "touch" => op[o].got = content
    /\ op[o].at = "remove" =>
         /\ op[o].left # {}
         /\ "content" \notin op[o].left => content = None
         /\ "metadata" \notin op[o].left => meta = None
    /\ op[o].at = "streams" => damaged > 0 \/ op[o].got = op[o].seen
ObjectKept == ObjectWhole /\ \A o \in Viewer : ObjectSeen(o)

FileInv == FileTypes /\ (\A p \in Queues : QueueKept(p)) /\ CopyKept /\ AuthorityKept /\ ObjectKept

LEMMA CountedOn ==
    ASSUME NEW n \in Nat, NEW m \in {n, n + 1}
    PROVE  m \in Nat
  OBVIOUS

LEMMA FileOps ==
    ASSUME NEW t \in FileOp
    PROVE  /\ t.at \in OfFile \cup {"keychain"} => t \in SecretOp
           /\ t.at \in OfObject => t \in ObjectOp
  BY DEF FileOp, SecretOp, ObjectOp, CloudOp, PlainOp, OfFile, OfObject, OfCloud

\* An operation at an end, or between two of its requests.
LEMMA FilePlain ==
    ASSUME NEW where \in {"idle", "ca-read", "ca-wait"} \cup OfCloud
    PROVE  [at |-> where] \in FileOp /\ [at |-> where].at = where
  BY DEF FileOp, PlainOp

LEMMA FilePromise ==
    ASSUME NEW how \in {"none", "pending", "fulfilled", "rejected"}, NEW key \in Version
    PROVE  /\ F!Promise(how, key) \in [is : {"none", "pending", "fulfilled", "rejected"}, key : Version]
           /\ F!Promise(how, key).is = how /\ F!Promise(how, key).key = key
  BY DEF F!Promise

\* The others are where they were.
Others(o) == \A u \in Viewer : u # o => op'[u] = op[u]

LEMMA FileBecomes ==
    ASSUME FileTypes, NEW o \in Viewer, NEW t \in FileOp, F!Becomes(o, t)
    PROVE  op' \in [Viewer -> FileOp] /\ op'[o] = t /\ Others(o)
  BY DEF FileTypes, F!Becomes, Others

\* The queue of a path: who is at its head, who enters it, who leaves it.
LEMMA FileFirst ==
    ASSUME FileTypes, NEW p \in Queues, NEW o, F!withFileMutation(o, p)
    PROVE  First(o, p)
<1>1. queue[p] \in Seq(Viewer) /\ queue[p] # <<>> /\ Head(queue[p]) = o
  BY DEF FileTypes, F!withFileMutation
<1> QED BY <1>1, QueuedTaken DEF First

LEMMA FileStays ==
    ASSUME NEW p, QueueKept(p), queue'[p] = queue[p], queue[p] \in Seq(Viewer), backend' = backend,
           NEW o \in Viewer, Others(o), In(o, p) => In(o, p)',
           In(o, p)' /\ op'[o].at \in Begun => First(o, p)
    PROVE  QueueKept(p)'
<1>1. ASSUME NEW u \in Viewer, In(u, p) PROVE In(u, p)'
  BY <1>1 DEF In, Others
<1>3. ASSUME NEW u \in Viewer, Stands(u, p)' PROVE In(u, p)'
  BY <1>1, <1>3 DEF QueueKept, Stands
<1>4. ASSUME NEW u \in Viewer, In(u, p)', op'[u].at \in Begun PROVE First(u, p)'
  <2>1. First(u, p)
    BY <1>4 DEF In, Others, QueueKept
  <2> QED BY <2>1 DEF First
<1> QED BY <1>3, <1>4 DEF QueueKept

LEMMA FileJoins ==
    ASSUME FileTypes, NEW p \in Queues, QueueKept(p), NEW o \in Viewer, F!Enters(o, p),
           backend' = backend, Others(o), ~In(o, p), In(o, p)', op'[o].at \notin Begun
    PROVE  /\ QueueKept(p)' /\ queue' \in [Queues -> Seq(Viewer)]
           /\ \A q \in Queues : q # p => queue'[q] = queue[q]
<1> DEFINE was == queue[p]
           len == Len(was)
<1>1. was \in Seq(Viewer) /\ queue'[p] = Append(was, o)
      /\ \A q \in Queues : q # p => queue'[q] = queue[q]
  BY DEF FileTypes, F!Enters
<1>2. /\ queue'[p] \in Seq(Viewer) /\ Len(queue'[p]) = len + 1 /\ queue'[p][len + 1] = o
      /\ \A i \in 1 .. len : queue'[p][i] = was[i]
      /\ len \in Nat
  BY <1>1, QueuedAppended
<1>3. /\ \A i \in 1 .. len : was[i] \in Viewer /\ In(was[i], p)
      /\ \A i, j \in 1 .. len : was[i] = was[j] => i = j
  BY <1>1 DEF QueueKept, Stands
<1>4. \A i \in 1 .. len : was[i] # o
  BY <1>3
<1>5. ASSUME NEW u \in Viewer, In(u, p) PROVE In(u, p)'
  BY <1>5 DEF In, Others
<1>6. ASSUME NEW u \in Viewer, In(u, p)', op'[u].at \in Begun PROVE First(u, p)'
  <2>1. First(u, p)
    BY <1>6 DEF In, Others, QueueKept
  <2>2. len > 0 /\ was[1] = u
    BY <2>1 DEF First
  <2>3. 1 \in 1 .. len
    BY <1>2, <2>2
  <2> HIDE DEF was, len
  <2>4. Len(queue'[p]) > 0 /\ queue'[p][1] = u
    BY <1>2, <2>2, <2>3
  <2> QED BY <2>4 DEF First
<1> HIDE DEF was, len
<1>7. \A i \in 1 .. Len(queue'[p]) : i = len + 1 \/ i \in 1 .. len
  BY <1>2
<1>8. ASSUME NEW u \in Viewer, Stands(u, p)' PROVE In(u, p)'
  <2>1. PICK i \in 1 .. Len(queue'[p]) : queue'[p][i] = u
    BY <1>8 DEF Stands
  <2> QED BY <1>2, <1>3, <1>5, <1>7, <2>1
<1>9. \A i, j \in 1 .. Len(queue'[p]) : queue'[p][i] = queue'[p][j] => i = j
  BY <1>2, <1>3, <1>4, <1>7
<1>10. queue' \in [Queues -> Seq(Viewer)]
  BY <1>1, <1>2 DEF FileTypes, F!Enters
<1> QED BY <1>1, <1>6, <1>8, <1>9, <1>10 DEF QueueKept

LEMMA FileLeaves ==
    ASSUME FileTypes, NEW p \in Queues, QueueKept(p), NEW o \in Viewer, F!Leaves(o, p),
           backend' = backend, Others(o), First(o, p), ~In(o, p)'
    PROVE  /\ QueueKept(p)' /\ queue' \in [Queues -> Seq(Viewer)]
           /\ \A q \in Queues : q # p => queue'[q] = queue[q]
<1> DEFINE was == queue[p]
           len == Len(was)
<1>1. was \in Seq(Viewer) /\ \A q \in Queues : q # p => queue'[q] = queue[q]
  BY DEF FileTypes, F!Leaves
<1>2. len > 0 /\ was[1] = o
  BY DEF First
<1>3. was # <<>>
  <2>1. Len(<<>>) = 0
    OBVIOUS
  <2> QED BY <1>2, <2>1
<1>4. /\ Head(was) = o /\ Tail(was) \in Seq(Viewer)
      /\ Len(Tail(was)) = len - 1 /\ len \in Nat /\ len >= 1
      /\ \A i \in 1 .. len - 1 : Tail(was)[i] = was[i + 1]
  BY <1>1, <1>2, <1>3, QueuedTaken
<1>5. queue' = [queue EXCEPT ![p] = Tail(was)]
  <2>1. Head(queue[p]) = o /\ queue[p] # <<>>
    BY <1>3, <1>4
  <2> QED BY <2>1 DEF F!Leaves
<1>6. queue'[p] = Tail(was) /\ queue' \in [Queues -> Seq(Viewer)]
  BY <1>4, <1>5 DEF FileTypes
<1>7. /\ \A i \in 1 .. len : was[i] \in Viewer /\ In(was[i], p)
      /\ \A i, j \in 1 .. len : was[i] = was[j] => i = j
  BY <1>1 DEF QueueKept, Stands
<1>8. ASSUME NEW u \in Viewer, In(u, p), u # o PROVE In(u, p)'
  BY <1>8 DEF In, Others
<1>9. ASSUME NEW u \in Viewer, In(u, p)', op'[u].at \in Begun PROVE FALSE
  <2>1. u # o /\ First(u, p)
    BY <1>9 DEF In, Others, QueueKept
  <2> QED BY <1>2, <2>1 DEF First
<1> HIDE DEF was, len
<1>10. \A i \in 1 .. Len(queue'[p]) : i \in 1 .. len - 1 /\ i + 1 \in 1 .. len /\ i + 1 # 1
  BY <1>4, <1>6
<1>11. 1 \in 1 .. len
  BY <1>4
<1>12. ASSUME NEW u \in Viewer, Stands(u, p)' PROVE In(u, p)'
  <2>1. PICK i \in 1 .. Len(queue'[p]) : queue'[p][i] = u
    BY <1>12 DEF Stands
  <2>2. u = was[i + 1] /\ i + 1 \in 1 .. len /\ i + 1 # 1
    BY <1>4, <1>6, <1>10, <2>1
  <2>3. was[i + 1] # o
    BY <1>2, <1>7, <1>11, <2>2
  <2> QED BY <1>7, <1>8, <2>2, <2>3
<1>13. ASSUME NEW i \in 1 .. Len(queue'[p]), NEW j \in 1 .. Len(queue'[p]), queue'[p][i] = queue'[p][j]
       PROVE  i = j
  <2>1. was[i + 1] = was[j + 1] /\ i + 1 \in 1 .. len /\ j + 1 \in 1 .. len
    BY <1>4, <1>6, <1>10, <1>13
  <2>2. i + 1 = j + 1
    BY <1>7, <2>1
  <2> QED BY <2>2
<1> QED BY <1>1, <1>6, <1>9, <1>12, <1>13 DEF QueueKept

LEMMA FileInit == F!Init => FileInv
<1> SUFFICES ASSUME F!Init PROVE FileInv
  OBVIOUS
<1>1. /\ secrets = [r \in SecretName |-> None] /\ last = secrets
      /\ content = None /\ meta = None /\ stored = None /\ torn = FALSE
      /\ queue = [p \in Queues |-> <<>>] /\ op = [o \in Viewer |-> F!Idle]
      /\ ca = F!NoPromise /\ signed = {} /\ made = 0 /\ damaged = 0
      /\ driver \in F!Driver /\ backend \in F!Backend
  BY DEF F!Init, SecretName, Queues, F!Path
<1>2. \A o \in Viewer : op[o] \in FileOp /\ op[o].at = "idle"
  BY <1>1, FilePlain DEF F!Idle
<1>3. ca \in [is : {"none", "pending", "fulfilled", "rejected"}, key : Version] /\ ca.is = "none"
  BY <1>1 DEF F!NoPromise, F!Promise, Version
<1>4. queue \in [Queues -> Seq(Viewer)] /\ \A p \in Queues : queue[p] = <<>> /\ Len(queue[p]) = 0
  <2>1. <<>> \in Seq(Viewer) /\ Len(<<>>) = 0
    OBVIOUS
  <2> QED BY <1>1, <2>1
<1>5. FileTypes
  <2>1. secrets \in [SecretName -> Version]
    BY <1>1 DEF Version
  <2>2. op \in [Viewer -> FileOp]
    BY <1>1, <1>2
  <2> QED BY <1>1, <1>3, <1>4, <2>1, <2>2 DEF FileTypes, Version
<1>6. ASSUME NEW p \in Queues PROVE QueueKept(p)
  BY <1>2, <1>4 DEF QueueKept, Stands, In, OfFile, OfObject
<1>7. CopyKept /\ AuthorityKept
  BY <1>1, <1>2, <1>3 DEF CopyKept, AuthorityKept, Creates, OfFile
<1>8. ObjectKept
  BY <1>1, <1>2 DEF ObjectKept, ObjectWhole, ObjectSeen, OfObject, OfCloud
<1> QED BY <1>5, <1>6, <1>7, <1>8 DEF FileInv

\* What a step of an operation on the object leaves of the secrets, and the other way
\* round.
LEMMA FileSecretsStay ==
    ASSUME CopyKept, AuthorityKept, UNCHANGED <<backend, secrets, ca, signed>>,
           NEW o \in Viewer, Others(o), op'[o].at \notin OfFile \cup {"keychain", "ca-read"}
    PROVE  CopyKept' /\ AuthorityKept'
<1>1. ASSUME NEW u \in Viewer, op'[u].at \in OfFile \cup {"keychain", "ca-read"}
      PROVE  u # o /\ op'[u] = op[u]
  BY <1>1 DEF Others
<1>2. CopyKept'
  BY <1>1 DEF CopyKept, OfFile
<1>3. ASSUME NEW u \in Viewer, Creates(u)'
      PROVE  Creates(u) /\ op'[u] = op[u]
  BY <1>1, <1>3 DEF Creates
<1>4. AuthorityKept'
  BY <1>3 DEF AuthorityKept
<1> QED BY <1>2, <1>4

LEMMA FileObjectsStay ==
    ASSUME ObjectKept, UNCHANGED <<driver, content, meta, stored, torn>>,
           damaged \in Nat, damaged' \in {damaged, damaged + 1},
           NEW o \in Viewer, Others(o), op[o].at \notin {"metadata", "remove"},
           op'[o].at \notin OfObject \cup OfCloud \cup {"streams"}
    PROVE  ObjectKept'
<1>1. ASSUME NEW u \in Viewer, op'[u].at \in OfObject \cup OfCloud \cup {"streams"}
      PROVE  op'[u] = op[u]
  BY <1>1 DEF Others
<1>2. damaged > 0 => damaged' > 0
  OBVIOUS
<1>3. ASSUME NEW u \in Viewer, op[u].at \in {"metadata", "remove"}
      PROVE  op'[u].at = op[u].at
  BY <1>3 DEF Others
<1>4. ObjectWhole'
  BY <1>2, <1>3 DEF ObjectKept, ObjectWhole
<1>5. ASSUME NEW u \in Viewer PROVE ObjectSeen(u)'
  <2>1. CASE op'[u].at \in OfObject \cup OfCloud \cup {"streams"}
    BY <1>1, <1>2, <2>1 DEF ObjectKept, ObjectSeen
  <2>2. CASE op'[u].at \notin OfObject \cup OfCloud \cup {"streams"}
    BY <2>2 DEF ObjectSeen, OfObject, OfCloud
  <2> QED BY <2>1, <2>2
<1> QED BY <1>4, <1>5 DEF ObjectKept

\* Changes of secrets.

LEMMA FileAsks ==
    ASSUME FileInv, NEW o \in Viewer, NEW r \in SecretName, NEW v \in Version, F!Asks(o, r, v),
           op[o].at \in {"idle", "ca-read"}, made' \in Nat,
           UNCHANGED <<driver, backend, secrets, last, ca, signed, content, meta, stored, torn, damaged>>,
           r = F!Authority => op[o].at = "ca-read" /\ v # None /\ secrets[F!Authority] = None
    PROVE  FileInv'
<1> DEFINE where == IF backend = "keychain" THEN "keychain" ELSE "queued"
           t == [at |-> where, ref |-> r, value |-> v, copy |-> None]
<1>1. FileTypes /\ CopyKept /\ AuthorityKept /\ ObjectKept /\ \A p \in Queues : QueueKept(p)
  BY DEF FileInv
<1>2. t \in SecretOp /\ t \in FileOp
  BY DEF SecretOp, OfFile, FileOp
<1>3. op' \in [Viewer -> FileOp] /\ op'[o] = t /\ Others(o)
  BY <1>1, <1>2, FileBecomes DEF F!Asks
<1>4. op'[o].at = where /\ op'[o].ref = r /\ op'[o].value = v
  <2>1. t.at = where /\ t.ref = r /\ t.value = v
    BY Zenon
  <2> QED BY <1>3, <2>1, Zenon
<1>5. "secrets" \in Queues /\ "object" \in Queues /\ \A p \in Queues : p \in {"secrets", "object"}
  BY DEF Queues
<1>6. \A p \in Queues : ~In(o, p)
  BY DEF In, OfFile, OfObject
<1> HIDE DEF t
<1>7. queue' \in [Queues -> Seq(Viewer)] /\ \A p \in Queues : QueueKept(p)'
  <2>1. CASE backend = "keychain"
    <3>1. queue' = queue /\ op'[o].at = "keychain"
      BY <1>4, <2>1 DEF F!Asks
    <3>2. \A p \in Queues : ~In(o, p)'
      BY <3>1 DEF In, OfFile, OfObject
    <3>3. \A p \in Queues : queue'[p] = queue[p] /\ queue[p] \in Seq(Viewer)
      BY <1>1, <3>1 DEF FileTypes
    <3>4. \A p \in Queues : QueueKept(p)'
      BY <1>1, <1>3, <1>6, <3>2, <3>3, FileStays
    <3> QED BY <1>1, <3>1, <3>4 DEF FileTypes
  <2>2. CASE backend # "keychain"
    <3>1. F!Enters(o, "secrets") /\ op'[o].at = "queued"
      BY <1>4, <2>2 DEF F!Asks
    <3>2. In(o, "secrets")' /\ ~In(o, "object")' /\ op'[o].at \notin Begun
      BY <2>2, <3>1 DEF In, OfFile, OfObject, Begun
    <3>3. QueueKept("secrets")' /\ queue' \in [Queues -> Seq(Viewer)] /\ queue'["object"] = queue["object"]
      BY <1>1, <1>3, <1>5, <1>6, <3>1, <3>2, FileJoins
    <3>4. QueueKept("object")'
      <4>1. queue["object"] \in Seq(Viewer)
        BY <1>1, <1>5 DEF FileTypes
      <4> QED BY <1>1, <1>3, <1>5, <1>6, <3>2, <3>3, <4>1, FileStays
    <3> QED BY <1>5, <3>3, <3>4
  <2> QED BY <2>1, <2>2
<1>8. FileTypes'
  BY <1>1, <1>3, <1>7 DEF FileTypes
<1>9. ObjectKept'
  BY <1>1, <1>3, <1>4, FileObjectsStay DEF FileTypes, OfObject, OfCloud
<1>10. CopyKept'
  <2>1. \A u \in Viewer : op'[u].at \in {"protect", "temporary"} => op'[u].copy = secrets
    BY <1>1, <1>3, <1>4 DEF CopyKept, Others
  <2>2. \A u \in Viewer : op'[u].at \in OfFile \ {"renamed"} => backend # "keychain"
    BY <1>1, <1>3, <1>4 DEF CopyKept, Others, OfFile
  <2>3. \A u \in Viewer : op'[u].at = "keychain" => backend = "keychain"
    BY <1>1, <1>3, <1>4 DEF CopyKept, Others
  <2> QED BY <2>1, <2>2, <2>3 DEF CopyKept
<1>11. AuthorityKept'
  <2>1. Creates(o)' => Creates(o) /\ r = F!Authority
    BY <1>4 DEF Creates, OfFile
  <2>2. ASSUME NEW u \in Viewer, Creates(u)' PROVE Creates(u) /\ (u # o => op'[u] = op[u])
    BY <1>3, <2>1, <2>2 DEF Creates, Others
  <2>3. ASSUME NEW u \in Viewer, Creates(u)', op'[u].at # "ca-read"
        PROVE  /\ op'[u].value # None
               /\ secrets[F!Authority] = IF op'[u].at = "renamed" THEN op'[u].value ELSE None
    <3>1. CASE u = o
      BY <1>4, <2>1, <2>3, <3>1
    <3>2. CASE u # o
      BY <1>1, <2>2, <2>3, <3>2 DEF AuthorityKept
    <3> QED BY <3>1, <3>2
  <2>4. \A u, w \in Viewer : Creates(u)' /\ Creates(w)' => u = w
    BY <1>1, <2>2 DEF AuthorityKept
  <2>5. \A u \in Viewer : Creates(u)' => ca.is = "pending"
    BY <1>1, <2>2 DEF AuthorityKept
  <2> QED BY <1>1, <2>3, <2>4, <2>5 DEF AuthorityKept
<1> QED BY <1>7, <1>8, <1>9, <1>10, <1>11 DEF FileInv

LEMMA FileReads ==
    ASSUME FileInv, NEW o \in Viewer, F!read(o) \/ F!protect(o)
    PROVE  FileInv'
<1>1. FileTypes /\ CopyKept /\ AuthorityKept /\ ObjectKept /\ \A p \in Queues : QueueKept(p)
  BY DEF FileInv
<1>2. /\ UNCHANGED <<driver, backend, secrets, last, ca, signed, content, meta, stored, torn, made, damaged>>
      /\ queue' = queue
  BY DEF F!read, F!protect, F!svars, F!ovars
<1>3. op[o].at \in {"queued", "protect"} /\ op[o] \in SecretOp
  <2>1. op[o].at \in {"queued", "protect"} /\ op[o] \in FileOp
    BY <1>1 DEF F!read, F!protect, F!At, FileTypes
  <2> QED BY <2>1, FileOps DEF OfFile
<1>4. First(o, "secrets") /\ In(o, "secrets") /\ "secrets" \in Queues
  <2>1. "secrets" \in Queues
    BY DEF Queues
  <2>2. In(o, "secrets")
    BY <1>1, <1>3 DEF In, OfFile, CopyKept
  <2>3. CASE F!read(o)
    BY <1>1, <2>1, <2>2, <2>3, FileFirst DEF F!read
  <2>4. CASE F!protect(o)
    <3>1. op[o].at \in Begun
      BY <2>4 DEF F!protect, F!At, Begun
    <3> QED BY <1>1, <2>1, <2>2, <3>1 DEF QueueKept
  <2> QED BY <2>1, <2>2, <2>3, <2>4
<1>5. PICK t \in SecretOp :
        /\ F!Becomes(o, t) /\ t.at \in {"protect", "temporary"} /\ t.copy = secrets
        /\ t.ref = op[o].ref /\ t.value = op[o].value
  <2>1. CASE F!read(o)
    <3> DEFINE where == IF backend = "dpapi" /\ op[o].value # None THEN "protect" ELSE "temporary"
               t == [op[o] EXCEPT !.copy = secrets, !.at = where]
    <3>1. secrets \in [SecretName -> Version] /\ where \in OfFile
      BY <1>1 DEF FileTypes, OfFile
    <3>2. t \in SecretOp /\ t.copy = secrets /\ t.at = where /\ t.ref = op[o].ref /\ t.value = op[o].value
      BY <1>3, <3>1 DEF SecretOp
    <3>3. F!Becomes(o, t)
      BY <2>1 DEF F!read
    <3> QED BY <3>2, <3>3
  <2>2. CASE F!protect(o)
    <3> DEFINE t == [op[o] EXCEPT !.at = "temporary"]
    <3>1. t \in SecretOp /\ t.copy = op[o].copy /\ t.at = "temporary" /\ t.ref = op[o].ref /\ t.value = op[o].value
      BY <1>3 DEF SecretOp, OfFile
    <3>2. F!Becomes(o, t) /\ op[o].copy = secrets
      BY <1>1, <2>2 DEF F!protect, F!Goes, F!At, CopyKept
    <3> QED BY <3>1, <3>2
  <2> QED BY <2>1, <2>2
<1>6. op' \in [Viewer -> FileOp] /\ op'[o] = t /\ Others(o)
  <2>1. t \in FileOp
    BY <1>5 DEF FileOp
  <2> QED BY <1>1, <1>5, <2>1, FileBecomes
<1>7. FileTypes'
  BY <1>1, <1>2, <1>6 DEF FileTypes
<1>8. ASSUME NEW p \in Queues PROVE QueueKept(p)'
  <2>1. queue[p] \in Seq(Viewer) /\ QueueKept(p) /\ queue'[p] = queue[p]
    BY <1>1, <1>2 DEF FileTypes
  <2>2. In(o, p) => p = "secrets"
    BY <1>3 DEF In, OfObject, Queues
  <2>3. In(o, p)' <=> p = "secrets"
    BY <1>2, <1>4, <1>5, <1>6 DEF In, OfObject, OfFile, Queues
  <2> QED BY <1>2, <1>4, <1>6, <2>1, <2>2, <2>3, FileStays
<1>9. ObjectKept'
  BY <1>1, <1>2, <1>3, <1>5, <1>6, FileObjectsStay DEF FileTypes, OfObject, OfCloud
<1>10. CopyKept'
  <2>1. backend # "keychain"
    BY <1>4 DEF In
  <2> QED BY <1>1, <1>2, <1>5, <1>6, <2>1 DEF CopyKept, Others, OfFile
<1>11. AuthorityKept'
  <2>1. ASSUME NEW u \in Viewer, Creates(u)'
        PROVE  /\ Creates(u)
               /\ op'[u].at # "ca-read" => op[u].at # "ca-read" /\ op'[u].value = op[u].value
               /\ op'[u].at = "renamed" <=> op[u].at = "renamed"
    BY <1>3, <1>5, <1>6, <2>1 DEF Creates, Others, OfFile
  <2> QED BY <1>1, <1>2, <2>1 DEF AuthorityKept
<1> QED BY <1>7, <1>8, <1>9, <1>10, <1>11 DEF FileInv

\* The rename, or the change of the keychain: no other change has read what it replaces,
\* and the authority is stored before anybody signs.
LEMMA FileSets ==
    ASSUME FileInv, NEW o \in Viewer, F!Sets(o, secrets), op[o].at \in {"keychain", "temporary"}
    PROVE  FileInv'
<1>1. FileTypes /\ CopyKept /\ AuthorityKept /\ ObjectKept /\ \A p \in Queues : QueueKept(p)
  BY DEF FileInv
<1>2. /\ UNCHANGED <<driver, backend, ca, signed, content, meta, stored, torn, made, damaged>>
      /\ queue' = queue /\ secrets' = [secrets EXCEPT ![op[o].ref] = op[o].value] /\ last' = secrets'
  BY <1>1 DEF F!Sets, F!ovars, FileTypes
<1>3. op[o] \in SecretOp
  <2>1. op[o] \in FileOp
    BY <1>1 DEF FileTypes
  <2> QED BY <2>1, FileOps DEF OfFile
<1>4. op[o].ref \in SecretName /\ op[o].value \in Version
  BY <1>3 DEF SecretOp
<1>5. secrets' \in [SecretName -> Version] /\ last' = secrets' /\ F!Authority \in SecretName
      /\ secrets'[F!Authority] = IF op[o].ref = F!Authority THEN op[o].value ELSE secrets[F!Authority]
  BY <1>1, <1>2, <1>4 DEF FileTypes, SecretName
<1> DEFINE t == [op[o] EXCEPT !.at = "renamed"]
<1>6. t \in SecretOp /\ t.at = "renamed" /\ t.ref = op[o].ref /\ t.value = op[o].value
  BY <1>3 DEF SecretOp, OfFile
<1>7. op' \in [Viewer -> FileOp] /\ op'[o] = t /\ Others(o)
  <2>1. t \in FileOp /\ F!Becomes(o, t)
    BY <1>6 DEF FileOp, F!Sets, F!Goes
  <2> QED BY <1>1, <2>1, FileBecomes
<1> HIDE DEF t
<1>8. op'[o].at = "renamed" /\ op'[o].ref = op[o].ref /\ op'[o].value = op[o].value
  BY <1>6, <1>7
<1>9. FileTypes'
  BY <1>1, <1>2, <1>5, <1>7 DEF FileTypes
<1>10. backend # "keychain" => In(o, "secrets") /\ First(o, "secrets")
  BY <1>1 DEF In, OfFile, Begun, QueueKept, CopyKept, Queues
<1>11. ASSUME NEW p \in Queues PROVE QueueKept(p)'
  <2>1. queue[p] \in Seq(Viewer) /\ QueueKept(p) /\ queue'[p] = queue[p]
    BY <1>1, <1>2, <1>11 DEF FileTypes
  <2>2. In(o, p) => p = "secrets" /\ backend # "keychain"
    BY DEF In, OfObject, Queues
  <2>3. In(o, p)' <=> p = "secrets" /\ backend # "keychain"
    BY <1>2, <1>8, <1>11 DEF In, OfObject, OfFile, Queues
  <2> QED BY <1>2, <1>7, <1>10, <2>1, <2>2, <2>3, FileStays
<1>12. ObjectKept'
  BY <1>1, <1>2, <1>7, <1>8, FileObjectsStay DEF FileTypes, OfObject, OfCloud
<1>13. CopyKept'
  <2>1. ASSUME NEW u \in Viewer, u # o PROVE op[u].at \notin {"protect", "temporary"}
    <3>1. CASE backend = "keychain"
      BY <1>1, <3>1 DEF CopyKept, OfFile
    <3>2. CASE backend # "keychain"
      BY <1>1, <1>10, <2>1, <3>2 DEF QueueKept, First, In, OfFile, Begun, Queues
    <3> QED BY <3>1, <3>2
  <2>2. \A u \in Viewer : op'[u].at \notin {"protect", "temporary"}
    BY <1>7, <1>8, <2>1 DEF Others
  <2>3. \A u \in Viewer : op'[u].at \in OfFile \ {"renamed"} => backend # "keychain"
    BY <1>1, <1>7, <1>8 DEF CopyKept, Others
  <2>4. \A u \in Viewer : op'[u].at = "keychain" => backend = "keychain"
    BY <1>1, <1>7, <1>8 DEF CopyKept, Others
  <2> QED BY <1>2, <2>2, <2>3, <2>4 DEF CopyKept
<1>14. AuthorityKept'
  <2>1. Creates(o)' <=> op[o].ref = F!Authority
    BY <1>8 DEF Creates, OfFile
  <2>2. Creates(o) <=> op[o].ref = F!Authority
    BY DEF Creates, OfFile
  <2>3. ASSUME NEW u \in Viewer, u # o PROVE op'[u] = op[u] /\ (Creates(u)' <=> Creates(u))
    BY <1>7, <2>3 DEF Others, Creates
  <2>4. ASSUME NEW u \in Viewer PROVE Creates(u)' <=> Creates(u)
    BY <2>1, <2>2, <2>3
  <2>5. CASE op[o].ref = F!Authority
    <3>1. /\ ca.is = "pending" /\ op[o].value # None /\ secrets[F!Authority] = None /\ signed = {}
          /\ \A u \in Viewer : Creates(u) => u = o
      BY <1>1, <2>2, <2>5 DEF AuthorityKept
    <3> QED BY <1>2, <1>5, <1>8, <2>4, <2>5, <3>1 DEF AuthorityKept
  <2>6. CASE op[o].ref # F!Authority
    <3>1. secrets'[F!Authority] = secrets[F!Authority] /\ ~Creates(o)
      BY <1>5, <2>2, <2>6
    <3>2. \A u \in Viewer : Creates(u) => op'[u] = op[u]
      BY <2>3, <3>1
    <3> QED BY <1>1, <1>2, <2>4, <3>1, <3>2 DEF AuthorityKept
  <2> QED BY <2>5, <2>6
<1> QED BY <1>9, <1>11, <1>12, <1>13, <1>14 DEF FileInv

\* A change ends, one way or the other.
LEMMA FileEnds ==
    ASSUME FileInv, NEW o \in Viewer, F!settled(o) \/ F!mutationFails(o)
    PROVE  FileInv'
<1>1. FileTypes /\ CopyKept /\ AuthorityKept /\ ObjectKept /\ \A p \in Queues : QueueKept(p)
  BY DEF FileInv
<1>2. /\ UNCHANGED <<driver, backend, secrets, last, signed, content, meta, stored, torn, made>>
      /\ damaged' \in {damaged, damaged + 1} /\ F!Leaves(o, "secrets")
      /\ op[o].at \in OfFile \cup {"keychain"}
  BY DEF F!settled, F!mutationFails, F!Fault, F!ovars, F!At, OfFile
<1>3. op[o] \in SecretOp
  <2>1. op[o] \in FileOp
    BY <1>1 DEF FileTypes
  <2> QED BY <1>2, <2>1, FileOps
<1>4. PICK how \in {"fulfilled", "rejected"} :
        ca' = F!Created(o, how) /\ (how = "fulfilled" => op[o].at = "renamed")
  BY DEF F!settled, F!mutationFails, F!At
<1>5. PICK where \in {"idle", "ca-wait"} : F!Becomes(o, [at |-> where])
  BY DEF F!settled, F!mutationFails, F!Idle
<1>6. op' \in [Viewer -> FileOp] /\ op'[o].at = where /\ Others(o)
  <2> DEFINE t == [at |-> where]
  <2>1. t \in FileOp /\ t.at = where
    BY FilePlain
  <2>2. op' \in [Viewer -> FileOp] /\ op'[o] = t /\ Others(o)
    BY <1>1, <1>5, <2>1, FileBecomes
  <2> QED BY <2>1, <2>2, Zenon
<1>7. "secrets" \in Queues /\ "object" \in Queues /\ \A p \in Queues : p \in {"secrets", "object"}
  BY DEF Queues
<1>8. \A p \in Queues : ~In(o, p)'
  BY <1>6 DEF In, OfFile, OfObject
<1>9. ~In(o, "object")
  BY <1>2 DEF In, OfFile, OfObject
<1>10. backend # "keychain" => First(o, "secrets") /\ In(o, "secrets")
  <2>1. SUFFICES ASSUME backend # "keychain" PROVE First(o, "secrets") /\ In(o, "secrets")
    OBVIOUS
  <2>2. In(o, "secrets")
    BY <1>1, <1>2, <2>1 DEF In, CopyKept
  <2>3. CASE F!settled(o)
    BY <1>1, <1>7, <2>2, <2>3 DEF F!settled, F!At, QueueKept, Begun
  <2>4. CASE F!mutationFails(o)
    <3>1. F!withFileMutation(o, "secrets")
      BY <2>1, <2>4 DEF F!mutationFails
    <3> QED BY <1>1, <1>7, <2>2, <3>1, FileFirst
  <2> QED BY <2>2, <2>3, <2>4
<1>11. /\ QueueKept("secrets")' /\ queue' \in [Queues -> Seq(Viewer)]
       /\ queue'["object"] = queue["object"]
  <2>1. CASE backend = "keychain"
    <3>1. \A u \in Viewer : ~In(u, "secrets")
      BY <2>1 DEF In
    <3>2. queue["secrets"] \in Seq(Viewer) /\ queue["secrets"] = <<>>
      <4>1. queue["secrets"] \in Seq(Viewer)
        BY <1>1, <1>7 DEF FileTypes
      <4>2. ASSUME queue["secrets"] # <<>> PROVE FALSE
        <5>1. Len(queue["secrets"]) >= 1 /\ Len(queue["secrets"]) \in Nat /\ queue["secrets"][1] \in Viewer
          BY <4>1, <4>2, QueuedTaken
        <5>2. 1 \in 1 .. Len(queue["secrets"])
          BY <4>1, <4>2, QueuedTaken
        <5>3. Stands(queue["secrets"][1], "secrets")
          BY <5>2 DEF Stands
        <5>4. \A u \in Viewer : Stands(u, "secrets") => In(u, "secrets")
          BY <1>1, <1>7 DEF QueueKept
        <5> QED BY <3>1, <5>1, <5>3, <5>4
      <4> QED BY <4>1, <4>2
    <3>3. queue' = queue
      BY <1>1, <1>2, <3>2 DEF F!Leaves, FileTypes
    <3>4. ~In(o, "secrets")' /\ ~In(o, "secrets")
      BY <1>7, <1>8, <3>1
    <3> QED BY <1>1, <1>2, <1>6, <1>7, <3>2, <3>3, <3>4, FileStays DEF FileTypes
  <2>2. CASE backend # "keychain"
    BY <1>1, <1>2, <1>6, <1>7, <1>8, <1>10, <2>2, FileLeaves
  <2> QED BY <2>1, <2>2
<1>12. QueueKept("object")'
  <2>1. queue["object"] \in Seq(Viewer)
    BY <1>1, <1>7 DEF FileTypes
  <2> QED BY <1>1, <1>2, <1>6, <1>7, <1>8, <1>9, <1>11, <2>1, FileStays
<1>13. ca' \in [is : {"none", "pending", "fulfilled", "rejected"}, key : Version]
  <2>1. op[o].value \in Version
    BY <1>3 DEF SecretOp
  <2>2. F!Promise(how, op[o].value) \in [is : {"none", "pending", "fulfilled", "rejected"}, key : Version]
    BY <2>1, FilePromise
  <2> QED BY <1>1, <1>4, <2>2 DEF F!Created, FileTypes
<1>14. FileTypes'
  <2>1. damaged' \in Nat
    <3>1. damaged \in Nat
      BY <1>1 DEF FileTypes
    <3>2. damaged' \in {damaged, damaged + 1}
      BY <1>2
    <3> QED BY <3>1, <3>2, CountedOn, Zenon
  <2> QED BY <1>1, <1>2, <1>6, <1>11, <1>13, <2>1 DEF FileTypes
<1>15. ObjectKept'
  BY <1>1, <1>2, <1>6, FileObjectsStay DEF FileTypes, OfObject, OfCloud, OfFile
<1>16. CopyKept'
  BY <1>1, <1>2, <1>6 DEF CopyKept, Others, OfFile
<1>17. AuthorityKept'
  <2>1. ~Creates(o)'
    BY <1>6 DEF Creates, OfFile
  <2>2. ASSUME NEW u \in Viewer, Creates(u)' PROVE u # o /\ op'[u] = op[u] /\ Creates(u)
    BY <1>6, <2>1, <2>2 DEF Creates, Others
  <2>3. Creates(o) <=> op[o].ref = F!Authority
    BY <1>2 DEF Creates, OfFile
  <2>4. CASE op[o].ref = F!Authority
    <3>1. \A u \in Viewer : ~Creates(u)'
      BY <1>1, <2>2, <2>3, <2>4 DEF AuthorityKept
    <3>2. ca'.is = how /\ ca'.key = op[o].value
      BY <1>4, <2>4 DEF F!Created, F!Promise
    <3>3. how = "fulfilled" => op[o].value # None /\ secrets[F!Authority] = op[o].value
      BY <1>1, <1>4, <2>3, <2>4 DEF AuthorityKept
    <3>4. ca'.is # "none"
      BY <3>2
    <3> QED BY <1>1, <1>2, <3>1, <3>2, <3>3, <3>4 DEF AuthorityKept
  <2>5. CASE op[o].ref # F!Authority
    <3>1. ca' = ca
      BY <1>4, <2>5 DEF F!Created
    <3> QED BY <1>1, <1>2, <2>2, <3>1 DEF AuthorityKept
  <2> QED BY <2>4, <2>5
<1> QED BY <1>7, <1>11, <1>12, <1>14, <1>15, <1>16, <1>17 DEF FileInv

\* The authority: who asks for it, reads it, waits for it or signs with it.
LEMMA FileAuthority ==
    ASSUME FileInv, NEW o \in Viewer,
           \/ F!loadOrCreate(o) \/ F!readFails(o) \/ F!signCsr(o)
           \/ F!readOrCreate(o) /\ secrets[F!Authority] # None
    PROVE  FileInv'
<1>1. FileTypes /\ CopyKept /\ AuthorityKept /\ ObjectKept /\ \A p \in Queues : QueueKept(p)
  BY DEF FileInv
<1>2. /\ UNCHANGED <<driver, backend, secrets, last, content, meta, stored, torn>>
      /\ queue' = queue /\ damaged' \in {damaged, damaged + 1} /\ made' \in {made, made + 1}
      /\ op[o].at \in {"idle", "ca-read", "ca-wait"}
  BY DEF F!loadOrCreate, F!readFails, F!signCsr, F!readOrCreate, F!Begins, F!Fault, F!ovars, F!At
<1>3. PICK where \in {"idle", "ca-read", "ca-wait"} : F!Becomes(o, [at |-> where])
  BY DEF F!loadOrCreate, F!readFails, F!signCsr, F!readOrCreate, F!Idle
<1>4. op' \in [Viewer -> FileOp] /\ op'[o] = [at |-> where] /\ op'[o].at = where /\ Others(o)
  <2> DEFINE t == [at |-> where]
  <2>1. t \in FileOp /\ t.at = where
    BY FilePlain
  <2>2. op' \in [Viewer -> FileOp] /\ op'[o] = t /\ Others(o)
    BY <1>1, <1>3, <2>1, FileBecomes
  <2> QED BY <2>1, <2>2, Zenon
<1>5. \A p \in Queues : ~In(o, p) /\ ~In(o, p)'
  BY <1>2, <1>4 DEF In, OfFile, OfObject
<1>6. ASSUME NEW p \in Queues PROVE QueueKept(p)'
  <2>1. queue[p] \in Seq(Viewer)
    BY <1>1 DEF FileTypes
  <2> QED BY <1>1, <1>2, <1>4, <1>5, <2>1, FileStays
<1>7. ObjectKept'
  BY <1>1, <1>2, <1>4, FileObjectsStay DEF FileTypes, OfObject, OfCloud
<1>8. CopyKept'
  BY <1>1, <1>2, <1>4 DEF CopyKept, Others, OfFile
<1>9. ASSUME NEW u \in Viewer, Creates(u)'
      PROVE  (u # o /\ op'[u] = op[u] /\ Creates(u)) \/ (u = o /\ op'[u].at = "ca-read" /\ where = "ca-read")
  BY <1>4, <1>9 DEF Creates, Others, OfFile
<1>10. /\ ca' \in [is : {"none", "pending", "fulfilled", "rejected"}, key : Version]
       /\ AuthorityKept'
  <2>1. CASE F!loadOrCreate(o) /\ ca = F!NoPromise
    <3>1. ca' = F!Promise("pending", None) /\ signed' = signed /\ where = "ca-read"
      <4>1. F!Becomes(o, [at |-> "ca-read"]) /\ ca' = F!Promise("pending", None) /\ signed' = signed
        BY <2>1 DEF F!loadOrCreate
      <4>2. op'[o] = [at |-> "ca-read"]
        BY <1>1, <4>1 DEF F!Becomes, FileTypes
      <4>3. [at |-> "ca-read"].at = "ca-read"
        BY FilePlain
      <4> QED BY <1>4, <4>1, <4>2, <4>3, Zenon
    <3>2. ca.is # "pending" /\ ca'.is = "pending"
      BY <2>1, <3>1 DEF F!NoPromise, F!Promise
    <3>3. \A u \in Viewer : ~Creates(u)
      BY <1>1, <3>2 DEF AuthorityKept
    <3>4. \A u \in Viewer : Creates(u)' => u = o /\ op'[u].at = "ca-read"
      BY <1>9, <3>3
    <3>5. ca' \in [is : {"none", "pending", "fulfilled", "rejected"}, key : Version]
      BY <3>1 DEF F!Promise, Version
    <3>6. AuthorityKept'
      BY <1>1, <1>2, <3>1, <3>2, <3>4 DEF AuthorityKept
    <3> QED BY <3>5, <3>6
  <2>2. CASE F!loadOrCreate(o) /\ ca # F!NoPromise
    <3>1. ca' = ca /\ signed' = signed /\ where = "ca-wait"
      <4>1. F!Becomes(o, [at |-> "ca-wait"]) /\ ca' = ca /\ signed' = signed
        BY <2>2 DEF F!loadOrCreate
      <4>2. op'[o] = [at |-> "ca-wait"]
        BY <1>1, <4>1 DEF F!Becomes, FileTypes
      <4>3. [at |-> "ca-wait"].at = "ca-wait"
        BY FilePlain
      <4> QED BY <1>4, <4>1, <4>2, <4>3, Zenon
    <3>2. ASSUME NEW u \in Viewer, Creates(u)' PROVE op'[u] = op[u] /\ Creates(u)
      BY <1>9, <3>1, <3>2
    <3>3. AuthorityKept'
      BY <1>1, <1>2, <3>1, <3>2 DEF AuthorityKept
    <3> QED BY <1>1, <3>1, <3>3 DEF FileTypes
  <2>3. CASE (F!readFails(o) \/ F!readOrCreate(o)) /\ ~F!loadOrCreate(o) /\ ~F!signCsr(o)
    <3>1. /\ Creates(o) /\ signed' = signed
          /\ \/ ca' = F!Promise("rejected", None)
             \/ ca' = F!Promise("fulfilled", secrets[F!Authority]) /\ secrets[F!Authority] # None
      BY <2>3 DEF F!readFails, F!readOrCreate, F!At, Creates
    <3>2. where # "ca-read"
      <4>1. F!Becomes(o, F!Idle) \/ F!Becomes(o, [at |-> "ca-wait"])
        BY <2>3 DEF F!readFails, F!readOrCreate
      <4>2. op'[o] = F!Idle \/ op'[o] = [at |-> "ca-wait"]
        BY <1>1, <4>1 DEF F!Becomes, FileTypes
      <4>3. [at |-> "ca-wait"].at = "ca-wait" /\ F!Idle.at = "idle"
        BY FilePlain DEF F!Idle
      <4>4. op'[o].at = "idle" \/ op'[o].at = "ca-wait"
        BY <4>2, <4>3, Zenon
      <4> QED BY <1>4, <4>4
    <3>3. \A u \in Viewer : ~Creates(u)'
      BY <1>1, <1>9, <3>1, <3>2 DEF AuthorityKept
    <3>0. secrets[F!Authority] \in Version /\ None \in Version
      BY <1>1 DEF FileTypes, SecretName, Version
    <3>4. /\ ca'.is \in {"rejected", "fulfilled"}
          /\ ca'.is = "fulfilled" => ca'.key = secrets[F!Authority] /\ secrets[F!Authority] # None
          /\ ca' \in [is : {"none", "pending", "fulfilled", "rejected"}, key : Version]
      <4>1. CASE ca' = F!Promise("rejected", None)
        BY <3>0, <4>1, FilePromise
      <4>2. CASE ca' = F!Promise("fulfilled", secrets[F!Authority]) /\ secrets[F!Authority] # None
        BY <3>0, <4>2, FilePromise
      <4> QED BY <3>1, <4>1, <4>2
    <3>6. AuthorityKept'
      BY <1>1, <1>2, <3>1, <3>3, <3>4 DEF AuthorityKept
    <3> QED BY <3>4, <3>6
  <2>4. CASE F!signCsr(o)
    <3>1. /\ ca' = ca /\ ca.is \in {"fulfilled", "rejected"}
          /\ signed' = IF ca.is = "rejected" THEN signed ELSE signed \cup {ca.key}
      BY <2>4 DEF F!signCsr
    <3>2. \A u \in Viewer : ~Creates(u) /\ where # "ca-read"
      <4>1. op'[o] = F!Idle
        BY <1>1, <2>4 DEF F!signCsr, F!Becomes, FileTypes
      <4>2. where # "ca-read"
        <5>1. F!Idle.at = "idle"
          BY FilePlain DEF F!Idle
        <5>2. op'[o].at = "idle"
          BY <4>1, <5>1, Zenon
        <5> QED BY <1>4, <5>2
      <4> QED BY <1>1, <3>1, <4>2 DEF AuthorityKept
    <3>3. \A u \in Viewer : ~Creates(u)'
      BY <1>9, <3>2
    <3>4. AuthorityKept'
      BY <1>1, <1>2, <3>1, <3>3 DEF AuthorityKept
    <3> QED BY <1>1, <3>1, <3>4 DEF FileTypes
  <2> QED BY <2>1, <2>2, <2>3, <2>4
<1>11. FileTypes'
  <2>1. damaged' \in Nat /\ made' \in Nat
    <3>1. damaged \in Nat /\ made \in Nat
      BY <1>1 DEF FileTypes
    <3>2. damaged' \in {damaged, damaged + 1} /\ made' \in {made, made + 1}
      BY <1>2
    <3> QED BY <3>1, <3>2, CountedOn, Zenon
  <2> QED BY <1>1, <1>2, <1>4, <1>10, <2>1 DEF FileTypes
<1> QED BY <1>6, <1>7, <1>8, <1>10, <1>11 DEF FileInv

\* Every operation on secrets.
LEMMA FileOfSecrets ==
    ASSUME FileInv, F!OfSecrets
    PROVE  FileInv'
<1>1. PICK o \in Viewer :
        \/ \E r \in Secret : F!put(o, r) \/ F!delete(o, r)
        \/ F!read(o) \/ F!protect(o) \/ F!publishFileAtomically(o)
        \/ F!putKeychainSecret(o) \/ F!deleteGenericPassword(o) \/ F!settled(o) \/ F!mutationFails(o)
        \/ F!loadOrCreate(o) \/ F!readOrCreate(o) \/ F!readFails(o) \/ F!signCsr(o)
  BY DEF F!OfSecrets
<1>2. FileTypes /\ made \in Nat /\ None \in Version /\ made + 1 \in Version /\ made + 1 # None
  BY MediaAssumption DEF FileInv, FileTypes, Version
<1>3. ASSUME NEW r \in Secret, F!put(o, r) \/ F!delete(o, r) PROVE FileInv'
  <2>1. /\ op[o].at = "idle" /\ made' = made + 1
        /\ UNCHANGED <<driver, backend, secrets, last, ca, signed, content, meta, stored, torn, damaged>>
    BY <1>3 DEF F!put, F!delete, F!At, F!Begins, F!svars, F!ovars
  <2>2. made' \in Nat
    <3>1. made \in Nat /\ made' = made + 1
      BY <1>2, <2>1
    <3> QED BY <3>1
  <2>4. PICK v \in Version : F!Asks(o, r, v)
    <3>1. CASE F!put(o, r)
      <4>1. F!Asks(o, r, made + 1)
        BY <2>1, <3>1 DEF F!put, F!Asks
      <4> QED BY <1>2, <4>1
    <3>2. CASE F!delete(o, r)
      <4>1. F!Asks(o, r, None)
        BY <3>2 DEF F!delete
      <4> QED BY <1>2, <4>1
    <3> QED BY <1>3, <3>1, <3>2
  <2>3. r \in SecretName /\ r # F!Authority
    BY MediaAssumption DEF SecretName, F!Authority
  <2> QED BY <2>1, <2>2, <2>3, <2>4, FileAsks
<1>4. CASE F!publishFileAtomically(o)
  <2>1. op[o].at = "temporary" /\ op[o].copy = secrets /\ F!Sets(o, op[o].copy)
    BY <1>4 DEF F!publishFileAtomically, F!At, FileInv, CopyKept
  <2>2. F!Sets(o, secrets)
    BY <2>1 DEF F!Sets
  <2> QED BY <2>1, <2>2, FileSets
<1>5. CASE F!putKeychainSecret(o) \/ F!deleteGenericPassword(o)
  BY <1>5, FileSets DEF F!putKeychainSecret, F!deleteGenericPassword, F!At
<1>6. CASE F!readOrCreate(o) /\ secrets[F!Authority] = None
  <2>1. /\ op[o].at = "ca-read" /\ made' = made + 1 /\ F!Asks(o, F!Authority, made')
        /\ UNCHANGED <<driver, backend, secrets, last, ca, signed, content, meta, stored, torn, damaged>>
    BY <1>6 DEF F!readOrCreate, F!At, F!ovars
  <2>2. made' \in Nat
    <3>1. made \in Nat /\ made' = made + 1
      BY <1>2, <2>1
    <3> QED BY <3>1
  <2>3. F!Authority \in SecretName
    BY DEF SecretName
  <2>4. PICK v \in Version : F!Asks(o, F!Authority, v) /\ v # None
    <3>1. F!Asks(o, F!Authority, made + 1)
      BY <2>1 DEF F!Asks
    <3> QED BY <1>2, <3>1
  <2> QED BY <1>6, <2>1, <2>2, <2>3, <2>4, FileAsks
<1> QED BY <1>1, <1>3, <1>4, <1>5, <1>6, FileReads, FileEnds, FileAuthority

\* What is left to show of a step on the object on disk: the operation is the first of the
\* queue, so no other has begun.
LEMMA FileObjectStep ==
    ASSUME FileInv, NEW o \in Viewer, UNCHANGED <<driver, backend, secrets, last, ca, signed, made>>,
           op[o].at \in OfObject, First(o, "object"), op' \in [Viewer -> FileOp], Others(o),
           \/ queue' = queue /\ op'[o].at \in OfObject
           \/ F!Leaves(o, "object") /\ op'[o].at \in {"idle", "streams"},
           content' \in Version, meta' \in Version, stored' \in Version, torn' \in BOOLEAN,
           damaged' \in {damaged, damaged + 1},
           ~torn' => content' = meta' /\ (stored' # None => content' = stored'),
           torn' => damaged' > 0 \/ op'[o].at \in {"metadata", "remove"},
           ObjectSeen(o)'
    PROVE  FileInv'
<1>1. FileTypes /\ CopyKept /\ AuthorityKept /\ ObjectKept /\ \A p \in Queues : QueueKept(p)
  BY DEF FileInv
<1>2. "secrets" \in Queues /\ "object" \in Queues /\ \A p \in Queues : p \in {"secrets", "object"}
  BY DEF Queues
<1>3. damaged \in Nat /\ damaged' \in Nat /\ (damaged > 0 => damaged' > 0)
  <2>1. damaged \in Nat
    BY <1>1 DEF FileTypes
  <2> QED BY <2>1
<1>4. driver = "local"
  BY <1>1 DEF ObjectKept, ObjectSeen
<1>5. ~In(o, "secrets") /\ ~In(o, "secrets")'
  BY DEF In, OfFile, OfObject
<1>6. queue' \in [Queues -> Seq(Viewer)] /\ QueueKept("object")' /\ queue'["secrets"] = queue["secrets"]
  <2>1. CASE queue' = queue /\ op'[o].at \in OfObject
    <3>1. In(o, "object")' /\ queue["object"] \in Seq(Viewer) /\ queue'["object"] = queue["object"]
      BY <1>1, <1>2, <2>1 DEF In, FileTypes
    <3> QED BY <1>1, <1>2, <2>1, <3>1, FileStays DEF FileTypes
  <2>2. CASE F!Leaves(o, "object") /\ op'[o].at \in {"idle", "streams"}
    <3>1. ~In(o, "object")'
      BY <2>2 DEF In, OfObject
    <3> QED BY <1>1, <1>2, <2>2, <3>1, FileLeaves
  <2> QED BY <2>1, <2>2
<1>7. QueueKept("secrets")'
  <2>1. queue["secrets"] \in Seq(Viewer)
    BY <1>1, <1>2 DEF FileTypes
  <2> QED BY <1>1, <1>2, <1>5, <1>6, <2>1, FileStays
<1>8. FileTypes'
  BY <1>1, <1>3, <1>6 DEF FileTypes
<1>9. CopyKept' /\ AuthorityKept'
  <2>1. op'[o].at \notin OfFile \cup {"keychain", "ca-read"}
    BY DEF OfFile, OfObject
  <2> QED BY <1>1, <2>1, FileSecretsStay
<1>10. ASSUME NEW u \in Viewer, u # o PROVE ObjectSeen(u)'
  <2>1. op'[u] = op[u] /\ ObjectSeen(u)
    BY <1>1, <1>10 DEF Others, ObjectKept
  <2>2. ~First(u, "object")
    BY <1>10 DEF First
  <2>3. op[u].at \notin {"metadata", "file", "touch", "remove"}
    BY <1>1, <1>2, <2>2 DEF QueueKept, In, OfObject, Begun
  <2> QED BY <1>3, <2>1, <2>3 DEF ObjectSeen
<1>11. ObjectWhole'
  BY <1>4 DEF ObjectWhole
<1> QED BY <1>2, <1>6, <1>7, <1>8, <1>9, <1>10, <1>11 DEF FileInv, ObjectKept

\* A record of an operation on the object, and what it may change in it.
LEMMA FileObjectOp ==
    ASSUME NEW t \in ObjectOp, NEW where \in OfObject \cup {"streams"}
    PROVE  LET u == [t EXCEPT !.at = where]
           IN  /\ u \in FileOp /\ u.at = where /\ u.version = t.version /\ u.seen = t.seen
               /\ u.got = t.got /\ u.left = t.left
  BY DEF ObjectOp, FileOp

LEMMA FileHead ==
    ASSUME FileInv, NEW o \in Viewer, op[o].at \in OfObject,
           F!withFileMutation(o, "object") \/ op[o].at \in Begun
    PROVE  /\ First(o, "object") /\ op[o] \in ObjectOp /\ ObjectSeen(o) /\ ObjectWhole
           /\ content \in Version /\ meta \in Version /\ stored \in Version /\ torn \in BOOLEAN
           /\ FileTypes
<1>1. FileTypes /\ ObjectKept /\ "object" \in Queues /\ QueueKept("object")
  BY DEF FileInv, Queues
<1>2. First(o, "object")
  BY <1>1, FileFirst DEF QueueKept, In
<1>3. op[o] \in ObjectOp
  <2>1. op[o] \in FileOp
    BY <1>1 DEF FileTypes
  <2> QED BY <2>1, FileOps
<1> QED BY <1>1, <1>2, <1>3 DEF FileTypes, ObjectKept

LEMMA FilePuts ==
    ASSUME FileInv, NEW o \in Viewer, F!objectPut(o) \/ F!writeMetadata(o)
    PROVE  FileInv'
<1>1. op[o].at \in OfObject /\ (F!withFileMutation(o, "object") \/ op[o].at \in Begun)
  BY DEF F!objectPut, F!writeMetadata, F!At, OfObject, Begun
<1>2. /\ First(o, "object") /\ op[o] \in ObjectOp /\ ObjectSeen(o) /\ ObjectWhole
      /\ content \in Version /\ meta \in Version /\ stored \in Version /\ torn \in BOOLEAN
      /\ FileTypes
  BY <1>1, FileHead
<1>3. op[o].version \in Version
  BY <1>2 DEF ObjectOp, Version
<1>4. CASE F!objectPut(o)
  <2>1. /\ UNCHANGED <<driver, backend, secrets, last, ca, signed, made, meta, stored, queue, damaged>>
        /\ content' = op[o].version /\ torn' = TRUE /\ F!Becomes(o, [op[o] EXCEPT !.at = "metadata"])
    BY <1>4 DEF F!objectPut, F!svars, F!Goes
  <2>2. PICK t \in FileOp : F!Becomes(o, t) /\ t.at = "metadata" /\ t.version = op[o].version
    BY <1>2, <2>1, FileObjectOp DEF OfObject
  <2>3. op' \in [Viewer -> FileOp] /\ op'[o] = t /\ Others(o)
    BY <1>2, <2>2, FileBecomes
  <2>4. op'[o].at = "metadata" /\ op'[o].version = op[o].version /\ op'[o].at \in OfObject
    BY <2>2, <2>3 DEF OfObject
  <2>5. ObjectSeen(o)'
    BY <1>1, <1>2, <2>1, <2>4 DEF ObjectSeen, OfCloud
  <2> QED BY <1>1, <1>2, <1>3, <2>1, <2>3, <2>4, <2>5, FileObjectStep
<1>5. CASE F!writeMetadata(o)
  <2>1. /\ UNCHANGED <<driver, backend, secrets, last, ca, signed, made, content, damaged>>
        /\ meta' = op[o].version /\ stored' = op[o].version /\ torn' = FALSE
        /\ F!Becomes(o, F!Idle) /\ F!Leaves(o, "object") /\ op[o].at = "metadata"
    BY <1>5 DEF F!writeMetadata, F!svars, F!At
  <2>2. F!Idle \in FileOp /\ F!Idle.at = "idle"
    BY FilePlain DEF F!Idle
  <2>3. op' \in [Viewer -> FileOp] /\ op'[o] = F!Idle /\ Others(o)
    BY <1>2, <2>1, <2>2, FileBecomes
  <2>4. op'[o].at = "idle"
    BY <2>2, <2>3
  <2>5. ObjectSeen(o)'
    BY <2>4 DEF ObjectSeen, OfCloud, OfObject
  <2>6. content = op[o].version
    BY <1>2, <2>1 DEF ObjectSeen
  <2> QED BY <1>1, <1>2, <1>3, <2>1, <2>3, <2>4, <2>5, <2>6, FileObjectStep
<1> QED BY <1>4, <1>5

\* A removal starts with both files.
LEMMA FileRemoves ==
    ASSUME NEW t \in ObjectOp
    PROVE  LET u == [t EXCEPT !.at = "remove", !.left = {"content", "metadata"}]
           IN  u \in FileOp /\ u.at = "remove" /\ u.left = {"content", "metadata"}
  BY DEF ObjectOp, FileOp, OfObject

LEMMA FileReadsObject ==
    ASSUME FileInv, NEW o \in Viewer,
           F!readMetadata(o) \/ F!openFile(o) \/ F!touch(o) \/ F!objectDelete(o)
    PROVE  FileInv'
<1>1. /\ op[o].at \in OfObject /\ (F!withFileMutation(o, "object") \/ op[o].at \in Begun)
      /\ UNCHANGED <<driver, backend, secrets, last, ca, signed, made, content, stored, torn, damaged>>
  BY DEF F!readMetadata, F!openFile, F!touch, F!objectDelete, F!At, OfObject, Begun, F!svars, F!ovars
<1>2. /\ First(o, "object") /\ op[o] \in ObjectOp /\ ObjectSeen(o) /\ ObjectWhole
      /\ content \in Version /\ meta \in Version /\ stored \in Version /\ torn \in BOOLEAN
      /\ FileTypes
  BY <1>1, FileHead
<1>3. driver = "local" /\ ("object" \in Queues) /\ QueueKept("object")
  BY <1>1, <1>2 DEF ObjectSeen, FileInv, Queues
\* While it is the first, the object is whole unless it has changed it itself.
<1>4. op[o].at \notin {"metadata", "remove"} => ~torn \/ damaged > 0
  <2>1. SUFFICES ASSUME op[o].at \notin {"metadata", "remove"}, torn, ~(damaged > 0) PROVE FALSE
    OBVIOUS
  <2>2. PICK u \in Viewer : op[u].at \in {"metadata", "remove"}
    BY <1>2, <2>1 DEF ObjectWhole
  <2>3. First(u, "object")
    BY <1>3, <2>2 DEF QueueKept, In, OfObject, Begun
  <2> QED BY <1>2, <2>1, <2>2, <2>3 DEF First
<1>5. ASSUME F!Becomes(o, F!Idle), F!Leaves(o, "object"), meta' = meta, op[o].at \notin {"metadata", "remove"}
      PROVE  FileInv'
  <2>2. F!Idle \in FileOp /\ F!Idle.at = "idle"
    BY FilePlain DEF F!Idle
  <2>3. op' \in [Viewer -> FileOp] /\ op'[o] = F!Idle /\ Others(o)
    BY <1>2, <1>5, <2>2, FileBecomes
  <2>4. op'[o].at = "idle"
    BY <2>2, <2>3
  <2>5. ObjectSeen(o)'
    BY <2>4 DEF ObjectSeen, OfCloud, OfObject
  <2>6. ~torn => content = meta /\ (stored # None => content = stored)
    BY <1>2 DEF ObjectWhole
  <2> QED BY <1>1, <1>2, <1>4, <1>5, <2>3, <2>4, <2>5, <2>6, FileObjectStep
<1>6. ASSUME NEW t \in FileOp, F!Becomes(o, t), queue' = queue, meta' = meta,
             op[o].at \notin {"metadata", "remove"}, t.at \in OfObject,
             \/ t.at = "file" /\ t.seen = meta
             \/ t.at = "touch" /\ t.seen = meta /\ t.got = content
             \/ t.at = "remove" /\ t.left = {"content", "metadata"}
      PROVE  FileInv'
  <2>3. op' \in [Viewer -> FileOp] /\ op'[o] = t /\ Others(o)
    BY <1>2, <1>6, FileBecomes
  <2>5. ObjectSeen(o)'
    BY <1>1, <1>3, <1>6, <2>3 DEF ObjectSeen, OfCloud
  <2>6. ~torn => content = meta /\ (stored # None => content = stored)
    BY <1>2 DEF ObjectWhole
  <2> QED BY <1>1, <1>2, <1>4, <1>6, <2>3, <2>5, <2>6, FileObjectStep
<1>7. CASE F!readMetadata(o)
  <2>1. op[o].at \in {"open", "stat"} /\ meta' = meta
    BY <1>7 DEF F!readMetadata, F!ovars
  <2>2. \/ F!Becomes(o, F!Idle) /\ F!Leaves(o, "object")
        \/ /\ F!Becomes(o, [op[o] EXCEPT !.at = "remove", !.left = {"content", "metadata"}])
           /\ queue' = queue
        \/ F!Becomes(o, [op[o] EXCEPT !.at = "file", !.seen = meta]) /\ queue' = queue
    BY <1>7 DEF F!readMetadata
  <2>3. CASE F!Becomes(o, F!Idle) /\ F!Leaves(o, "object")
    BY <1>5, <2>1, <2>3
  <2>4. CASE /\ F!Becomes(o, [op[o] EXCEPT !.at = "remove", !.left = {"content", "metadata"}])
             /\ queue' = queue
    <3>1. PICK t \in FileOp : F!Becomes(o, t) /\ t.at = "remove" /\ t.left = {"content", "metadata"}
      BY <1>2, <2>4, FileRemoves
    <3> QED BY <1>6, <2>1, <2>4, <3>1 DEF OfObject
  <2>5. CASE F!Becomes(o, [op[o] EXCEPT !.at = "file", !.seen = meta]) /\ queue' = queue
    <3>1. PICK t \in FileOp : F!Becomes(o, t) /\ t.at = "file" /\ t.seen = meta
      <4> DEFINE t == [op[o] EXCEPT !.at = "file", !.seen = meta]
      <4>1. t \in FileOp /\ t.at = "file" /\ t.seen = meta
        BY <1>2 DEF ObjectOp, FileOp, OfObject
      <4> QED BY <2>5, <4>1
    <3> QED BY <1>6, <2>1, <2>5, <3>1 DEF OfObject
  <2> QED BY <2>2, <2>3, <2>4, <2>5
<1>8. CASE F!openFile(o)
  <2>1. op[o].at = "file" /\ meta' = meta /\ op[o].seen = meta
    BY <1>2, <1>8 DEF F!openFile, F!At, F!ovars, ObjectSeen
  <2>2. \/ F!Becomes(o, F!Idle) /\ F!Leaves(o, "object")
        \/ F!Becomes(o, [op[o] EXCEPT !.at = "touch", !.got = content]) /\ queue' = queue
    BY <1>8 DEF F!openFile
  <2>3. CASE F!Becomes(o, F!Idle) /\ F!Leaves(o, "object")
    BY <1>5, <2>1, <2>3
  <2>4. CASE F!Becomes(o, [op[o] EXCEPT !.at = "touch", !.got = content]) /\ queue' = queue
    <3>1. PICK t \in FileOp : F!Becomes(o, t) /\ t.at = "touch" /\ t.seen = meta /\ t.got = content
      <4> DEFINE t == [op[o] EXCEPT !.at = "touch", !.got = content]
      <4>1. t \in FileOp /\ t.at = "touch" /\ t.seen = op[o].seen /\ t.got = content
        BY <1>2 DEF ObjectOp, FileOp, OfObject
      <4> QED BY <2>1, <2>4, <4>1
    <3> QED BY <1>6, <2>1, <2>4, <3>1 DEF OfObject
  <2> QED BY <2>2, <2>3, <2>4
<1>9. CASE F!touch(o)
  <2>1. /\ op[o].at = "touch" /\ op[o].seen = meta /\ op[o].got = content /\ meta' = op[o].seen
        /\ F!Becomes(o, [op[o] EXCEPT !.at = "streams"]) /\ F!Leaves(o, "object")
    BY <1>2, <1>9 DEF F!touch, F!At, F!Goes, ObjectSeen
  <2>2. PICK t \in FileOp : F!Becomes(o, t) /\ t.at = "streams" /\ t.seen = meta /\ t.got = content
    BY <1>2, <2>1, FileObjectOp
  <2>3. op' \in [Viewer -> FileOp] /\ op'[o] = t /\ Others(o)
    BY <1>2, <2>2, FileBecomes
  <2>4. op'[o].at = "streams" /\ op'[o].seen = meta /\ op'[o].got = content
    BY <2>2, <2>3
  <2>5. ~torn => content = meta /\ (stored # None => content = stored)
    BY <1>2 DEF ObjectWhole
  <2>6. ObjectSeen(o)'
    BY <1>1, <1>4, <2>1, <2>4, <2>5 DEF ObjectSeen, OfCloud, OfObject
  <2> QED BY <1>1, <1>2, <1>4, <2>1, <2>3, <2>4, <2>5, <2>6, FileObjectStep
<1>10. CASE F!objectDelete(o)
  <2>1. /\ op[o].at = "delete" /\ meta' = meta /\ queue' = queue
        /\ F!Becomes(o, [op[o] EXCEPT !.at = "remove", !.left = {"content", "metadata"}])
    BY <1>10 DEF F!objectDelete, F!At, F!ovars
  <2>2. PICK t \in FileOp : F!Becomes(o, t) /\ t.at = "remove" /\ t.left = {"content", "metadata"}
    BY <1>2, <2>1, FileRemoves
  <2> QED BY <1>6, <2>1, <2>2 DEF OfObject
<1> QED BY <1>7, <1>8, <1>9, <1>10

LEMMA FileDeletes ==
    ASSUME FileInv, NEW o \in Viewer, NEW file \in {"content", "metadata"}, F!deleteObject(o, file)
    PROVE  FileInv'
<1>1. /\ op[o].at = "remove" /\ op[o].at \in OfObject /\ op[o].at \in Begun /\ file \in op[o].left
      /\ UNCHANGED <<driver, backend, secrets, last, ca, signed, made, damaged>>
      /\ content' = (IF file = "content" THEN None ELSE content)
      /\ meta' = (IF file = "metadata" THEN None ELSE meta)
  BY DEF F!deleteObject, F!At, OfObject, Begun, F!svars
<1>2. /\ First(o, "object") /\ op[o] \in ObjectOp /\ ObjectSeen(o) /\ ObjectWhole
      /\ content \in Version /\ meta \in Version /\ stored \in Version /\ torn \in BOOLEAN
      /\ FileTypes
  BY <1>1, FileHead
<1>3. /\ op[o].left \subseteq {"content", "metadata"} /\ None \in Version /\ driver = "local"
      /\ content' \in Version /\ meta' \in Version
      /\ "content" \notin op[o].left => content = None
      /\ "metadata" \notin op[o].left => meta = None
  BY <1>1, <1>2 DEF ObjectOp, Version, ObjectSeen
<1>4. CASE op[o].left = {file}
  <2>1. torn' = FALSE /\ stored' = None /\ F!Becomes(o, F!Idle) /\ F!Leaves(o, "object")
    BY <1>4 DEF F!deleteObject
  <2>2. F!Idle \in FileOp /\ F!Idle.at = "idle"
    BY FilePlain DEF F!Idle
  <2>3. op' \in [Viewer -> FileOp] /\ op'[o] = F!Idle /\ Others(o)
    BY <1>2, <2>1, <2>2, FileBecomes
  <2>4. op'[o].at = "idle"
    BY <2>2, <2>3
  <2>5. ObjectSeen(o)'
    BY <2>4 DEF ObjectSeen, OfCloud, OfObject
  <2>6. content' = None /\ meta' = None
    BY <1>1, <1>3, <1>4
  <2> QED BY <1>1, <1>2, <1>3, <2>1, <2>3, <2>4, <2>5, <2>6, FileObjectStep
<1>5. CASE op[o].left # {file}
  <2>1. torn' = TRUE /\ stored' = stored /\ queue' = queue /\ F!Becomes(o, [op[o] EXCEPT !.left = @ \ {file}])
    BY <1>5 DEF F!deleteObject
  <2>2. PICK t \in FileOp : F!Becomes(o, t) /\ t.at = "remove" /\ t.left = op[o].left \ {file}
    <3> DEFINE t == [op[o] EXCEPT !.left = @ \ {file}]
    <3>1. t \in ObjectOp /\ t.at = op[o].at /\ t.left = op[o].left \ {file}
      BY <1>2, <1>3 DEF ObjectOp
    <3> QED BY <1>1, <2>1, <3>1 DEF FileOp
  <2>3. op' \in [Viewer -> FileOp] /\ op'[o] = t /\ Others(o)
    BY <1>2, <2>2, FileBecomes
  <2>4. op'[o].at = "remove" /\ op'[o].at \in OfObject /\ op'[o].left = op[o].left \ {file}
    BY <2>2, <2>3 DEF OfObject
  <2>5. op'[o].left # {} /\ ("content" \notin op'[o].left => content' = None)
        /\ ("metadata" \notin op'[o].left => meta' = None)
    BY <1>1, <1>3, <1>5, <2>4
  <2>6. ObjectSeen(o)'
    BY <1>1, <1>3, <2>4, <2>5 DEF ObjectSeen, OfCloud
  <2> QED BY <1>1, <1>2, <1>3, <2>1, <2>3, <2>4, <2>6, FileObjectStep
<1> QED BY <1>4, <1>5

LEMMA FileFails ==
    ASSUME FileInv, NEW o \in Viewer, F!objectFails(o)
    PROVE  FileInv'
<1>1. /\ op[o].at \in OfObject /\ F!withFileMutation(o, "object") /\ damaged' = damaged + 1
      /\ UNCHANGED <<driver, backend, secrets, last, ca, signed, made, content, meta, stored, torn>>
      /\ F!Becomes(o, F!Idle) /\ F!Leaves(o, "object")
  BY DEF F!objectFails, OfObject, F!svars, F!ovars, F!Fault
<1>2. /\ First(o, "object") /\ op[o] \in ObjectOp /\ ObjectSeen(o) /\ ObjectWhole
      /\ content \in Version /\ meta \in Version /\ stored \in Version /\ torn \in BOOLEAN
      /\ FileTypes
  BY <1>1, FileHead
<1>3. F!Idle \in FileOp /\ F!Idle.at = "idle"
  BY FilePlain DEF F!Idle
<1>4. op' \in [Viewer -> FileOp] /\ op'[o] = F!Idle /\ Others(o)
  BY <1>1, <1>2, <1>3, FileBecomes
<1>5. op'[o].at = "idle"
  BY <1>3, <1>4
<1>6. ObjectSeen(o)'
  BY <1>5 DEF ObjectSeen, OfCloud, OfObject
<1>7. ~torn => content = meta /\ (stored # None => content = stored)
  BY <1>2 DEF ObjectWhole
<1>8. damaged' > 0 /\ damaged' \in {damaged, damaged + 1}
  <2>1. damaged \in Nat
    BY <1>2 DEF FileTypes
  <2> QED BY <1>1, <2>1
<1> QED BY <1>1, <1>2, <1>4, <1>5, <1>6, <1>7, <1>8, FileObjectStep

LEMMA FileAsksObject ==
    ASSUME FileInv, NEW o \in Viewer, NEW what \in {"put", "open", "stat", "delete"}, F!asks(o, what)
    PROVE  FileInv'
<1>1. FileTypes /\ CopyKept /\ AuthorityKept /\ ObjectKept /\ \A p \in Queues : QueueKept(p)
  BY DEF FileInv
<1>2. /\ driver = "local" /\ op[o].at = "idle" /\ made' = made + 1 /\ F!Enters(o, "object")
      /\ UNCHANGED <<driver, backend, secrets, last, ca, signed, content, meta, stored, torn, damaged>>
      /\ F!Becomes(o, [at |-> what, version |-> made', seen |-> None, got |-> None, left |-> {}])
  BY DEF F!asks, F!At, F!Begins, F!svars, F!ovars
<1>3. made' \in Nat
  <2>1. made \in Nat
    BY <1>1 DEF FileTypes
  <2> QED BY <1>2, <2>1
<1>4. PICK t \in FileOp : F!Becomes(o, t) /\ t.at = what
  <2>1. PICK n \in Nat : F!Becomes(o, [at |-> what, version |-> n, seen |-> None, got |-> None, left |-> {}])
    <3>1. F!Becomes(o, [at |-> what, version |-> made + 1, seen |-> None, got |-> None, left |-> {}])
      BY <1>2 DEF F!Becomes
    <3> QED BY <1>2, <1>3, <3>1
  <2> DEFINE t == [at |-> what, version |-> n, seen |-> None, got |-> None, left |-> {}]
  <2>2. t \in FileOp /\ t.at = what
    BY DEF FileOp, ObjectOp, OfObject, Version
  <2> QED BY <2>1, <2>2
<1>5. op' \in [Viewer -> FileOp] /\ op'[o] = t /\ Others(o)
  BY <1>1, <1>4, FileBecomes
<1>6. op'[o].at \in {"put", "open", "stat", "delete"}
  BY <1>4, <1>5
<1>7. "secrets" \in Queues /\ "object" \in Queues /\ \A p \in Queues : p \in {"secrets", "object"}
  BY DEF Queues
<1>8. ~In(o, "object") /\ In(o, "object")' /\ ~In(o, "secrets") /\ ~In(o, "secrets")' /\ op'[o].at \notin Begun
  BY <1>2, <1>6 DEF In, OfFile, OfObject, Begun
<1>9. QueueKept("object")' /\ queue' \in [Queues -> Seq(Viewer)] /\ queue'["secrets"] = queue["secrets"]
  BY <1>1, <1>2, <1>5, <1>7, <1>8, FileJoins
<1>10. QueueKept("secrets")'
  <2>1. queue["secrets"] \in Seq(Viewer)
    BY <1>1, <1>7 DEF FileTypes
  <2> QED BY <1>1, <1>2, <1>5, <1>7, <1>8, <1>9, <2>1, FileStays
<1>11. FileTypes'
  BY <1>1, <1>2, <1>3, <1>5, <1>9 DEF FileTypes
<1>12. CopyKept' /\ AuthorityKept'
  <2>1. op'[o].at \notin OfFile \cup {"keychain", "ca-read"}
    BY <1>6 DEF OfFile
  <2> QED BY <1>1, <1>2, <1>5, <2>1, FileSecretsStay
<1>13. ASSUME NEW u \in Viewer PROVE ObjectSeen(u)'
  <2>1. CASE u = o
    BY <1>2, <1>6, <2>1 DEF ObjectSeen, OfCloud
  <2>2. CASE u # o
    BY <1>1, <1>2, <1>5, <2>2 DEF ObjectKept, ObjectSeen, Others
  <2> QED BY <2>1, <2>2
<1>14. ObjectWhole'
  <2>1. ASSUME NEW u \in Viewer, op[u].at \in {"metadata", "remove"}
        PROVE  op'[u].at = op[u].at
    BY <1>2, <1>5, <2>1 DEF Others
  <2> QED BY <1>1, <1>2, <2>1 DEF ObjectKept, ObjectWhole
<1> QED BY <1>7, <1>9, <1>10, <1>11, <1>12, <1>13, <1>14 DEF FileInv, ObjectKept

\* What is left to show of a request to a cloud, or of a stream that ends.
LEMMA FileCloudStep ==
    ASSUME FileInv, NEW o \in Viewer,
           UNCHANGED <<driver, backend, secrets, last, ca, signed, queue, torn, damaged>>,
           made' \in {made, made + 1}, op' \in [Viewer -> FileOp], Others(o),
           op[o].at \in {"idle", "streams"} \cup OfCloud,
           op'[o].at \in {"idle", "streams"} \cup OfCloud,
           op'[o].at \in OfCloud => driver # "local",
           op'[o].at = "streams" => op'[o].got = op'[o].seen,
           \/ UNCHANGED <<content, meta, stored>>
           \/ /\ driver # "local" /\ content' = meta' /\ content' \in Version
              /\ stored' = content'
    PROVE  FileInv'
<1>1. FileTypes /\ CopyKept /\ AuthorityKept /\ ObjectKept /\ \A p \in Queues : QueueKept(p)
  BY DEF FileInv
<1>2. FileTypes'
  <2>1. made \in Nat
    BY <1>1 DEF FileTypes
  <2>2. made' \in Nat
    BY <2>1, CountedOn
  <2> QED BY <1>1, <2>2 DEF FileTypes
<1>3. \A p \in Queues : ~In(o, p) /\ ~In(o, p)'
  BY DEF In, OfFile, OfObject, OfCloud
<1>4. ASSUME NEW p \in Queues PROVE QueueKept(p)'
  <2>1. queue[p] \in Seq(Viewer) /\ queue'[p] = queue[p] /\ QueueKept(p) /\ ~In(o, p) /\ ~In(o, p)'
    BY <1>1, <1>3 DEF FileTypes
  <2> QED BY <2>1, FileStays
<1>5. CopyKept' /\ AuthorityKept'
  <2>1. op'[o].at \notin OfFile \cup {"keychain", "ca-read"}
    BY DEF OfFile, OfCloud
  <2> QED BY <1>1, <2>1, FileSecretsStay
<1>6. ASSUME NEW u \in Viewer PROVE ObjectSeen(u)'
  <2>1. CASE u = o
    BY <2>1 DEF ObjectSeen, OfCloud, OfObject
  <2>2. CASE u # o
    <3>1. op'[u] = op[u] /\ ObjectSeen(u)
      BY <1>1, <2>2 DEF Others, ObjectKept
    <3>2. CASE UNCHANGED <<content, meta, stored>>
      BY <3>1, <3>2 DEF ObjectSeen
    <3>3. CASE driver # "local"
      BY <3>1, <3>3 DEF ObjectSeen, OfObject
    <3> QED BY <3>2, <3>3
  <2> QED BY <2>1, <2>2
<1>7. ObjectWhole'
  <2>1. ASSUME NEW u \in Viewer, op[u].at \in {"metadata", "remove"}
        PROVE  op'[u].at = op[u].at
    BY <2>1 DEF Others, OfCloud
  <2>2. CASE UNCHANGED <<content, meta, stored>>
    BY <1>1, <2>1, <2>2 DEF ObjectKept, ObjectWhole
  <2>3. CASE driver # "local" /\ content' = meta' /\ stored' = content'
    BY <1>1, <2>3 DEF ObjectKept, ObjectWhole
  <2> QED BY <2>2, <2>3
<1> QED BY <1>2, <1>4, <1>5, <1>6, <1>7 DEF FileInv, ObjectKept

\* Who asks a cloud is at its next request, or at an end.
LEMMA FileMoves ==
    ASSUME FileInv, NEW o \in Viewer, NEW where \in {"idle"} \cup OfCloud,
           F!Becomes(o, [at |-> where]),
           UNCHANGED <<driver, backend, secrets, last, ca, signed, queue, torn, damaged>>,
           made' \in {made, made + 1}, op[o].at \in {"idle", "streams"} \cup OfCloud,
           where \in OfCloud => driver # "local",
           \/ UNCHANGED <<content, meta, stored>>
           \/ /\ driver # "local" /\ content' = meta' /\ content' \in Version
              /\ stored' = content'
    PROVE  FileInv'
<1> DEFINE t == [at |-> where]
<1>1. t \in FileOp /\ t.at = where
  BY FilePlain
<1>2. op' \in [Viewer -> FileOp] /\ op'[o] = t /\ Others(o)
  BY <1>1, FileBecomes DEF FileInv
<1>3. op'[o].at = where
  BY <1>1, <1>2, Zenon
<1>4. where # "streams"
  BY DEF OfCloud
<1> HIDE DEF t
<1> QED BY <1>2, <1>3, <1>4, FileCloudStep

LEMMA FileStreams ==
    ASSUME FileInv, NEW o \in Viewer, F!Downloads(o), driver # "local",
           UNCHANGED <<driver, backend, secrets, last, ca, signed, content, meta, stored, queue, torn, damaged>>,
           made' \in {made, made + 1}, op[o].at \in {"idle", "streams"} \cup OfCloud
    PROVE  FileInv'
<1> DEFINE t == [at |-> "streams", seen |-> meta, got |-> content]
<1>1. FileTypes /\ content = meta
  BY DEF FileInv, ObjectKept, ObjectWhole
<1>2. t \in FileOp /\ t.at = "streams" /\ t.got = t.seen
  <2>1. meta \in Version /\ content \in Version
    BY <1>1 DEF FileTypes
  <2> QED BY <1>1, <2>1 DEF FileOp, CloudOp
<1>3. op' \in [Viewer -> FileOp] /\ op'[o] = t /\ Others(o)
  BY <1>1, <1>2, FileBecomes DEF F!Downloads
<1> HIDE DEF t
<1> QED BY <1>2, <1>3, FileCloudStep

LEMMA FileClouds ==
    ASSUME FileInv, NEW o \in Viewer,
           \/ F!streamEnds(o) \/ F!s3Put(o) \/ F!azurePut(o) \/ F!gcsPut(o) \/ F!described(o)
           \/ F!s3Stat(o) \/ F!azureStat(o) \/ F!gcsStat(o)
           \/ \E opening \in BOOLEAN : F!gcsMetadata(o, opening)
           \/ F!cloudOpen(o) \/ F!gcsOpen(o) \/ F!cloudDelete(o)
    PROVE  FileInv'
<1>1. /\ FileTypes /\ made \in Nat /\ None \in Version
      /\ op[o].at \in OfCloud => driver # "local"
  BY DEF FileInv, FileTypes, ObjectKept, ObjectSeen, Version
<1>2. CASE F!streamEnds(o) \/ F!described(o)
  <2>1. /\ UNCHANGED <<driver, backend, secrets, last, ca, signed, content, meta, stored, queue, torn, made, damaged>>
        /\ op[o].at \in {"streams", "uploaded"} /\ F!Becomes(o, [at |-> "idle"])
    BY <1>2 DEF F!streamEnds, F!described, F!At, F!Idle, F!svars, F!ovars
  <2> QED BY <2>1, FileMoves DEF OfCloud
<1>3. CASE F!s3Put(o) \/ F!azurePut(o) \/ F!gcsPut(o)
  <2>1. /\ UNCHANGED <<driver, backend, secrets, last, ca, signed, queue, torn, damaged>>
        /\ driver # "local" /\ op[o].at = "idle" /\ made' = made + 1
        /\ content' = made' /\ meta' = made' /\ stored' = made'
    BY <1>3 DEF F!s3Put, F!azurePut, F!gcsPut, F!Uploads, F!At, F!Begins, F!svars
  <2>2. made' \in Version /\ made' \in {made, made + 1}
    BY <1>1, <2>1 DEF Version
  <2>3. CASE F!s3Put(o)
    <3>1. op' \in [Viewer -> FileOp] /\ op'[o].at = "idle" /\ Others(o)
      BY <1>1, <2>1, <2>3 DEF F!s3Put, FileTypes, Others
    <3>2. op'[o].at \notin OfCloud \cup {"streams"}
      BY <3>1 DEF OfCloud
    <3> QED BY <2>1, <2>2, <3>1, <3>2, FileCloudStep
  <2>4. CASE F!azurePut(o) \/ F!gcsPut(o)
    <3>1. F!Becomes(o, [at |-> "uploaded"])
      BY <2>4 DEF F!azurePut, F!gcsPut
    <3> QED BY <2>1, <2>2, <3>1, FileMoves DEF OfCloud
  <2> QED BY <1>3, <2>3, <2>4
<1>4. CASE F!s3Stat(o) \/ F!azureStat(o) \/ F!gcsStat(o)
  <2>1. /\ UNCHANGED <<driver, backend, secrets, last, ca, signed, content, meta, stored, queue, torn, damaged>>
        /\ driver # "local" /\ op[o].at = "idle" /\ made' = made + 1
        /\ F!Becomes(o, [at |-> "expired"]) \/ F!Becomes(o, [at |-> "exists"])
    BY <1>4 DEF F!s3Stat, F!azureStat, F!gcsStat, F!Heads, F!At, F!Begins, F!svars, F!ovars
  <2>2. made' \in {made, made + 1}
    BY <2>1
  <2> QED BY <2>1, <2>2, FileMoves DEF OfCloud
<1>5. ASSUME NEW opening \in BOOLEAN, F!gcsMetadata(o, opening) PROVE FileInv'
  <2>1. /\ UNCHANGED <<driver, backend, secrets, last, ca, signed, content, meta, stored, queue, torn, made, damaged>>
        /\ op[o].at = "exists"
    BY <1>5 DEF F!gcsMetadata, F!At, F!svars, F!ovars
  <2>2. \/ F!Becomes(o, [at |-> "idle"]) \/ F!Becomes(o, [at |-> "expired"])
        \/ F!Becomes(o, [at |-> "found"])
    BY <1>5 DEF F!gcsMetadata, F!Idle
  <2>3. op[o].at \in OfCloud /\ driver # "local"
    BY <1>1, <2>1 DEF OfCloud
  <2> QED BY <2>1, <2>2, <2>3, FileMoves DEF OfCloud
<1>6. CASE F!cloudOpen(o)
  <2>1. /\ UNCHANGED <<driver, backend, secrets, last, ca, signed, content, meta, stored, queue, torn, damaged>>
        /\ driver # "local" /\ op[o].at = "idle" /\ made' = made + 1 /\ F!Downloads(o)
    BY <1>6 DEF F!cloudOpen, F!At, F!Begins, F!svars, F!ovars
  <2> QED BY <2>1, FileStreams
<1>7. CASE F!gcsOpen(o)
  <2>1. /\ UNCHANGED <<driver, backend, secrets, last, ca, signed, content, meta, stored, queue, torn, made, damaged>>
        /\ op[o].at = "found" /\ (F!Downloads(o) \/ F!Becomes(o, [at |-> "idle"]))
    BY <1>7 DEF F!gcsOpen, F!At, F!Idle, F!svars, F!ovars
  <2>2. op[o].at \in OfCloud /\ driver # "local"
    BY <1>1, <2>1 DEF OfCloud
  <2> QED BY <2>1, <2>2, FileStreams, FileMoves
<1>8. CASE F!cloudDelete(o)
  <2>1. /\ UNCHANGED <<driver, backend, secrets, last, ca, signed, queue, torn, damaged>>
        /\ content' = None /\ meta' = None /\ stored' = None /\ F!Becomes(o, [at |-> "idle"])
        /\ \/ op[o].at = "expired" /\ made' = made
           \/ op[o].at = "idle" /\ driver # "local" /\ made' = made + 1
    BY <1>8 DEF F!cloudDelete, F!At, F!Begins, F!Idle, F!svars
  <2>2. /\ op[o].at \in {"idle", "streams"} \cup OfCloud /\ driver # "local"
        /\ made' \in {made, made + 1}
    BY <1>1, <2>1 DEF OfCloud
  <2> QED BY <1>1, <2>1, <2>2, FileMoves
<1> QED BY <1>2, <1>3, <1>4, <1>5, <1>6, <1>7, <1>8

\* What is written stays when the process is killed; nobody is at anything.
LEMMA FileCrash ==
    ASSUME FileInv, F!Crash
    PROVE  FileInv'
<1>1. FileTypes /\ CopyKept /\ AuthorityKept /\ ObjectKept
  BY DEF FileInv
<1>2. /\ UNCHANGED <<driver, backend, secrets, last, signed, content, meta, stored, torn, made>>
      /\ damaged' = damaged + 1 /\ op' = [o \in Viewer |-> F!Idle] /\ queue' = [p \in Queues |-> <<>>]
      /\ ca' = F!Promise("none", None)
  BY DEF F!Crash, F!Fault, F!ovars, Queues, F!Path, F!NoPromise
<1>3. damaged' \in Nat /\ damaged' > 0
  <2>1. damaged \in Nat
    BY <1>1 DEF FileTypes
  <2> QED BY <1>2, <2>1
<1>4. F!Idle \in FileOp /\ F!Idle.at = "idle"
  BY FilePlain DEF F!Idle
<1>5. op' \in [Viewer -> FileOp] /\ \A o \in Viewer : op'[o].at = "idle"
  BY <1>2, <1>4
<1>6. queue' \in [Queues -> Seq(Viewer)] /\ \A p \in Queues : Len(queue'[p]) = 0
  <2>1. <<>> \in Seq(Viewer) /\ Len(<<>>) = 0
    OBVIOUS
  <2> QED BY <1>2, <2>1
<1>7. /\ ca' \in [is : {"none", "pending", "fulfilled", "rejected"}, key : Version] /\ ca'.is = "none"
      /\ ca' = F!NoPromise
  <2>1. None \in Version
    BY DEF Version
  <2> QED BY <1>2, <2>1, FilePromise DEF F!NoPromise
<1>8. FileTypes'
  BY <1>1, <1>2, <1>3, <1>5, <1>6, <1>7 DEF FileTypes
<1>9. ASSUME NEW p \in Queues PROVE QueueKept(p)'
  BY <1>5, <1>6 DEF QueueKept, Stands, In, OfFile, OfObject
<1>10. CopyKept'
  BY <1>5 DEF CopyKept, OfFile
<1>11. AuthorityKept'
  BY <1>1, <1>2, <1>5, <1>7 DEF AuthorityKept, Creates, OfFile
<1>12. ObjectKept'
  BY <1>1, <1>2, <1>3, <1>5 DEF ObjectKept, ObjectWhole, ObjectSeen, OfObject, OfCloud
<1> QED BY <1>8, <1>9, <1>10, <1>11, <1>12 DEF FileInv

LEMMA FileSame ==
    ASSUME FileInv,
           UNCHANGED <<driver, backend, secrets, last, ca, signed, content, meta, stored, torn, queue, op, made, damaged>>
    PROVE  FileInv'
<1>1. FileTypes' /\ CopyKept' /\ ObjectKept'
  BY DEF FileInv, FileTypes, CopyKept, ObjectKept, ObjectWhole, ObjectSeen
<1>2. AuthorityKept'
  BY DEF FileInv, AuthorityKept, Creates
<1>3. ASSUME NEW p \in Queues PROVE QueueKept(p)'
  BY DEF FileInv, QueueKept, Stands, In, First
<1> QED BY <1>1, <1>2, <1>3 DEF FileInv

LEMMA FileStep ==
    ASSUME FileInv, F!Next \/ UNCHANGED fvars
    PROVE  FileInv'
<1>1. CASE UNCHANGED fvars
  BY <1>1, FileSame DEF fvars
<1>2. CASE F!expires
  BY <1>2, FileSame DEF F!expires, F!svars
<1>3. CASE F!OfObjects /\ ~F!expires
  <2>1. PICK o \in Viewer :
          \/ \E what \in {"put", "open", "stat", "delete"} : F!asks(o, what)
          \/ F!objectPut(o) \/ F!writeMetadata(o) \/ F!readMetadata(o) \/ F!openFile(o) \/ F!touch(o)
          \/ F!streamEnds(o) \/ F!objectDelete(o) \/ F!objectFails(o)
          \/ \E file \in {"content", "metadata"} : F!deleteObject(o, file)
          \/ F!s3Put(o) \/ F!azurePut(o) \/ F!gcsPut(o) \/ F!described(o) \/ F!s3Stat(o) \/ F!azureStat(o)
          \/ F!gcsStat(o) \/ (\E opening \in BOOLEAN : F!gcsMetadata(o, opening))
          \/ F!cloudOpen(o) \/ F!gcsOpen(o) \/ F!cloudDelete(o)
    BY <1>3 DEF F!OfObjects
  <2> QED BY <2>1, FileAsksObject, FilePuts, FileReadsObject, FileDeletes, FileFails, FileClouds
<1> QED BY <1>1, <1>2, <1>3, FileOfSecrets, FileCrash DEF F!Next

\* What a reader of the object is promised is in the invariant of the object.
LEMMA FileSafe == FileInv => F!FilesKept
<1> SUFFICES ASSUME FileInv PROVE F!FilesKept
  OBVIOUS
<1>1. secrets = last /\ damaged \in Nat
  BY DEF FileInv, FileTypes
<1>2. signed \subseteq {secrets[F!Authority]}
  BY DEF FileInv, AuthorityKept
<1>3. damaged = 0 => \A o \in Viewer : F!At(o, "streams") => op[o].got = op[o].seen
  BY <1>1 DEF FileInv, ObjectKept, ObjectSeen, F!At
<1>4. ~torn => content = meta /\ (stored # None => content = stored)
  BY DEF FileInv, ObjectKept, ObjectWhole
<1> QED BY <1>1, <1>2, <1>3, <1>4 DEF F!FilesKept

---------------------------------------------------------------------------
(* The composition.                                                        *)

\* A step of the process is a step of at most one component.
LEMMA ComponentSteps ==
    ASSUME [Next]_vars
    PROVE  /\ P!Next \/ UNCHANGED pvars
           /\ E!Next \/ UNCHANGED evars
           /\ L!Next \/ UNCHANGED lvars
           /\ S!Next \/ UNCHANGED svars
           /\ C!Next \/ UNCHANGED cvars
           /\ T!Next \/ UNCHANGED tvars
           /\ B!Next \/ UNCHANGED bvars
           /\ F!Next \/ UNCHANGED fvars
<1>1. CASE UNCHANGED vars
  BY <1>1 DEF vars
<1>2. CASE OfPool(P!Next)
  BY <1>2 DEF OfPool
<1>3. CASE OfCache(CacheNext)
  BY <1>3 DEF OfCache, CacheNext
<1>4. CASE OfEdge(E!Next)
  BY <1>4 DEF OfEdge
<1>5. CASE OfLive(LiveNext)
  BY <1>5 DEF OfLive, LiveNext
<1>6. CASE OfProcess(R!Next)
  BY <1>6 DEF OfProcess
<1>7. CASE OfBackends(BackendsNext)
  BY <1>7 DEF OfBackends, BackendsNext
<1>8. CASE OfFiles(FilesNext)
  BY <1>8 DEF OfFiles, FilesNext, F!Next
<1>9. CASE OfOutput(T!Next)
  BY <1>9 DEF OfOutput
<1>10. CASE OfSource(SourceNext)
  BY <1>10 DEF OfSource, SourceNext
<1> QED
  BY <1>1, <1>2, <1>3, <1>4, <1>5, <1>6, <1>7, <1>8, <1>9, <1>10 DEF Next

\* No slot is lost; one is given twice only to a newcomer who overtakes a woken caller,
\* and while a caller waits no more are idle than wake-ups that aborted callers swallowed.
\* Credentials, grants and connections end with what needs them.
THEOREM TranscodesKept == Spec => []TranscodesSafe
<1>1. Init => PoolInv /\ AccessInv
  BY PoolInit, AccessInit DEF Init
<1>2. PoolInv /\ AccessInv /\ [Next]_vars => (PoolInv /\ AccessInv)'
  BY ComponentSteps, PoolStep, AccessStep
<1>3. PoolInv /\ AccessInv => TranscodesSafe
  BY PoolSafe, AccessHolds DEF TranscodesSafe
<1> QED BY <1>1, <1>2, <1>3, PTL DEF Spec

\* A file of the playback cache is whole and one viewer generates it; segments are
\* published in order and without a gap, whatever stops FFmpeg.
THEOREM SegmentsHold == Spec => []SegmentsSound
<1>1. Init => CacheInv /\ OutputInv
  BY CacheInit, OutputInit DEF Init
<1>2. CacheInv /\ OutputInv /\ [Next]_vars => (CacheInv /\ OutputInv)'
  BY ComponentSteps, CacheStep, OutputStep
<1>3. CacheInv /\ OutputInv => SegmentsSound
  BY CacheSafe, OutputHolds DEF SegmentsSound
<1> QED BY <1>1, <1>2, <1>3, PTL DEF Spec

\* One call to MediaMTX at a time and no entry that claims what MediaMTX does not have; no
\* FFmpeg child without a supervisor, none of a deleted channel.
THEOREM LivePathsHold == Spec => []LivePathsKept
<1>1. Init => EdgeInv /\ LiveInv
  BY EdgeInit, LiveInit DEF Init
<1>2. EdgeInv /\ LiveInv /\ [Next]_vars => (EdgeInv /\ LiveInv)'
  BY ComponentSteps, EdgeStep, LiveStep
<1>3. EdgeInv /\ LiveInv => LivePathsKept
  BY EdgeSafe, LiveSafe DEF LivePathsKept
<1> QED BY <1>1, <1>2, <1>3, PTL DEF Spec

\* A controller at rest uses the director and the exporter it was the last to set, runs
\* that exporter and no other, none once closed, and asks for a restart until it uses the
\* object store that is wanted.
THEOREM BackendsHold == Spec => []BackendsSafe
<1>1. Init => BackInv
  BY BackInit DEF Init
<1>2. BackInv /\ [Next]_vars => BackInv'
  BY ComponentSteps, BackStep
<1>3. BackInv => BackendsSafe
  BY BackSafe DEF BackendsSafe
<1> QED BY <1>1, <1>2, <1>3, PTL DEF Spec

\* No change of a secret undoes another, one authority signs, the object on disk is the
\* one the last put has stored, and who opens it gets the content its metadata speaks of.
THEOREM FilesHold == Spec => []FilesKept
<1>1. Init => FileInv
  BY FileInit DEF Init
<1>2. FileInv /\ [Next]_vars => FileInv'
  BY ComponentSteps, FileStep
<1>3. FileInv => FilesKept
  BY FileSafe DEF FilesKept
<1> QED BY <1>1, <1>2, <1>3, PTL DEF Spec

\* Whoever is accepted on the channel holds the token that counts at that moment, and a
\* token that was replaced stays closed.
THEOREM PublishersAdmitted == Spec => AdmittedOnce
<1>1. Init => LiveInv
  BY LiveInit DEF Init
<1>2. LiveInv /\ [Next]_vars => LiveInv'
  BY ComponentSteps, LiveStep
<1>3. LiveInv /\ [Next]_vars => [Admits]_lvars
  BY ComponentSteps, LiveAdmits
<1>4. Spec => [][Admits]_lvars
  BY <1>1, <1>2, <1>3, PTL DEF Spec
<1> QED BY <1>4 DEF AdmittedOnce, L!AdmittedOnce, Admits, lvars, L!vars

=============================================================================
