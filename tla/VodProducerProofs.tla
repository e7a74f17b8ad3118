------------------------- MODULE VodProducerProofs -------------------------
(***************************************************************************)
(* Theorems about VodProducer for every set of workers and attempts and    *)
(* every bound: type correctness, the uniqueness of generations and, while *)
(* leases do not lapse under a live holder, the single producer that owns  *)
(* its durable row; also with lapsing leases, what the row says and the    *)
(* order of the generations.                                               *)
(***************************************************************************)
EXTENDS VodProducer, TLAPS

\* The initial states are well typed.
LEMMA InitTypeOK == Init => TypeOK
BY ConstantsAssumption DEF Init, TypeOK, Row, RowStates, NoRow, IdleRow, Pcs

\* The rows the code writes are rows.
LEMMA StartRowType ==
  ASSUME TypeOK, NEW a \in Attempt PROVE StartRow(a) \in Row
BY ConstantsAssumption DEF TypeOK, StartRow, Row, RowStates

\* A relinquished row is a row.
LEMMA RelinquishedType ==
  ASSUME NEW r \in Row, NEW s \in RowStates PROVE Relinquished(r, s) \in Row
BY DEF Relinquished, FinishAttempt, Row

\* So is the result of #transition.
LEMMA TransitionType ==
  ASSUME TypeOK, NEW a \in Attempt, NEW r \in Row PROVE Transition(a, r) \in Row
BY DEF TypeOK, Transition, Row

\* Every step, of whatever worker, keeps the types.
LEMMA NextTypeOK == TypeOK /\ [Next]_vars => TypeOK'
<1> SUFFICES ASSUME TypeOK, [Next]_vars PROVE TypeOK'
  OBVIOUS
<1> USE ConstantsAssumption
<1>1. ASSUME NEW a \in Attempt, AcquireLease(a) PROVE TypeOK'
  BY <1>1 DEF TypeOK, Pcs, StopStates, AcquireLease, Goto
<1>2. ASSUME NEW a \in Attempt, AcquireLost(a) PROVE TypeOK'
  BY <1>2 DEF TypeOK, Pcs, StopStates, AcquireLost, Goto
<1>3. ASSUME NEW a \in Attempt, CheckSession(a) PROVE TypeOK'
  BY <1>3 DEF TypeOK, Pcs, StopStates, CheckSession, Goto
<1>4. ASSUME NEW a \in Attempt, ReadRow(a) PROVE TypeOK'
  <2>1. row.generation + 1 \in Nat /\ row.revision \in Nat
    BY DEF TypeOK, Row
  <2>. QED
    BY <1>4, <2>1 DEF TypeOK, Pcs, StopStates, ReadRow, Goto
<1>5. ASSUME NEW a \in Attempt, StoreRow(a) PROVE TypeOK'
  <2>2. StartRow(a) \in Row
    BY StartRowType
  <2>. QED
    BY <1>5, <2>2 DEF TypeOK, Pcs, StopStates, StoreRow, Goto
<1>6. ASSUME NEW a \in Attempt, StoreLost(a) PROVE TypeOK'
  <2>2. StartRow(a) \in Row
    BY StartRowType
  <2>. QED
    BY <1>6, <2>2 DEF TypeOK, Pcs, StopStates, StoreLost, Goto
<1>7. ASSUME NEW a \in Attempt, HandOff(a) PROVE TypeOK'
  BY <1>7 DEF TypeOK, Pcs, StopStates, HandOff, Goto
<1>8. ASSUME NEW a \in Attempt, StartAgain(a) PROVE TypeOK'
  BY <1>8 DEF TypeOK, Pcs, StopStates, StartAgain, Goto
<1>9. ASSUME NEW a \in Attempt, BeginRunning(a) PROVE TypeOK'
  <2>2. [row EXCEPT !.state = "running"] \in Row
    BY DEF TypeOK, Row, RowStates
  <2>3. Transition(a, [row EXCEPT !.state = "running"]) \in Row
    BY <2>2, TransitionType
  <2>. QED
    BY <1>9, <2>3 DEF TypeOK, Pcs, StopStates, BeginRunning, Goto
<1>10. ASSUME NEW a \in Attempt, PublishObject(a) PROVE TypeOK'
  BY <1>10 DEF TypeOK, Pcs, StopStates, PublishObject, Goto
<1>11. ASSUME NEW a \in Attempt, PublishRow(a) PROVE TypeOK'
  <2>2. [row EXCEPT !.state = "running", !.published = head[a], !.expiry = "live"] \in Row
    BY DEF TypeOK, Row, RowStates
  <2>3. Transition(a, [row EXCEPT !.state = "running", !.published = head[a], !.expiry = "live"]) \in Row
    BY <2>2, TransitionType
  <2>. QED
    BY <1>11, <2>3 DEF TypeOK, Pcs, StopStates, PublishRow, Goto
<1>12. ASSUME NEW a \in Attempt, RenewLease(a) PROVE TypeOK'
  BY <1>12 DEF TypeOK, Pcs, StopStates, RenewLease, Goto
<1>13. ASSUME NEW a \in Attempt, LoseLease(a) PROVE TypeOK'
  BY <1>13 DEF TypeOK, Pcs, StopStates, LoseLease, Goto
<1>14. ASSUME NEW a \in Attempt, RenewRow(a) PROVE TypeOK'
  <2>2. [row EXCEPT !.expiry = "live"] \in Row
    BY DEF TypeOK, Row
  <2>3. Transition(a, [row EXCEPT !.expiry = "live"]) \in Row
    BY <2>2, TransitionType
  <2>. QED
    BY <1>14, <2>3 DEF TypeOK, Pcs, StopStates, RenewRow, Goto
<1>15. ASSUME NEW a \in Attempt, Complete(a) PROVE TypeOK'
  <2>2. Relinquished(row, "complete") \in Row
    BY RelinquishedType DEF TypeOK, RowStates
  <2>3. Transition(a, Relinquished(row, "complete")) \in Row
    BY <2>2, TransitionType
  <2>. QED
    BY <1>15, <2>3 DEF TypeOK, Pcs, StopStates, Complete, Goto
<1>16. ASSUME NEW a \in Attempt, Fail(a) PROVE TypeOK'
  BY <1>16 DEF TypeOK, Pcs, StopStates, Fail, Goto
<1>17. ASSUME NEW a \in Attempt, Settle(a) PROVE TypeOK'
  <2>2. Relinquished(row, StopOutcome(a)) \in Row
    BY RelinquishedType DEF TypeOK, RowStates, StopOutcome, StopStates
  <2>3. Transition(a, Relinquished(row, StopOutcome(a))) \in Row
    BY <2>2, TransitionType
  <2>. QED
    BY <1>17, <2>3 DEF TypeOK, Pcs, StopStates, Settle, Goto
<1>18. ASSUME NEW a \in Attempt, ReleaseLease(a) PROVE TypeOK'
  BY <1>18 DEF TypeOK, Pcs, StopStates, ReleaseLease, Goto, Forget
<1>19. ASSUME NEW a \in Attempt, NEW s \in StopStates, Stop(a, s) PROVE TypeOK'
  BY <1>19 DEF TypeOK, Pcs, StopStates, Stop
<1>20. ASSUME EndSession PROVE TypeOK'
  BY <1>20 DEF TypeOK, Pcs, StopStates, attemptVars, EndSession
<1>21. ASSUME ResumeSession PROVE TypeOK'
  BY <1>21 DEF TypeOK, Pcs, StopStates, attemptVars, ResumeSession
<1>22. ASSUME LeaseExpires PROVE TypeOK'
  BY <1>22 DEF TypeOK, Pcs, StopStates, attemptVars, LeaseExpires
<1>23. ASSUME RowLeaseExpires PROVE TypeOK'
  <2>2. [row EXCEPT !.expiry = "expired"] \in Row
    BY DEF TypeOK, Row
  <2>. QED
    BY <1>23, <2>2 DEF TypeOK, Pcs, StopStates, attemptVars, RowLeaseExpires
<1>24. ASSUME NEW n \in Node, Crash(n) PROVE TypeOK'
  <2>1. renewing' \in [Attempt -> BOOLEAN]
    BY <1>24, Zenon DEF TypeOK, Crash
  <2>2. pc' \in [Attempt -> Pcs] /\ up' \in [Node -> {"up", "recovering", "down"}]
    BY <1>24 DEF TypeOK, Pcs, Crash
  <2>3. /\ seen' \in [Attempt -> Nat]
        /\ stopState' \in [Attempt -> StopStates \cup {"none", "lost"}]
    BY <1>24 DEF TypeOK, Crash, Forget
  <2>4. faults' \in 0 .. MaxFaults /\ UNCHANGED <<session, row, lease, gen, owned, head>>
    BY <1>24 DEF TypeOK, Crash
  <2>. QED
    BY <2>1, <2>2, <2>3, <2>4 DEF TypeOK
<1>25. ASSUME NEW n \in Node, Restart(n) PROVE TypeOK'
  BY <1>25 DEF TypeOK, Pcs, StopStates, attemptVars, Restart
<1>26. ASSUME NEW n \in Node, RecoverExpired(n) PROVE TypeOK'
  <2>1. Relinquished(row, "idle") \in Row
    BY RelinquishedType DEF TypeOK, RowStates
  <2>2. [Relinquished(row, "idle") EXCEPT !.revision = @ + 1] \in Row
    BY <2>1 DEF Row
  <2>. QED
    BY <1>26, <2>2 DEF TypeOK, Pcs, StopStates, attemptVars, RecoverExpired
<1>27. ASSUME UNCHANGED vars PROVE TypeOK'
  BY <1>27 DEF TypeOK, Pcs, StopStates, vars, attemptVars
<1>. QED
  BY <1>1, <1>2, <1>3, <1>4, <1>5, <1>6, <1>7, <1>8, <1>9, <1>10, <1>11, <1>12, <1>13, <1>14, <1>15, <1>16, <1>17, <1>18, <1>19, <1>20, <1>21, <1>22, <1>23, <1>24, <1>25, <1>26, <1>27 DEF Next, StartStep, RunStep

\* Type correctness of the producer protocol.
THEOREM TypeCorrect == Spec => []TypeOK
BY InitTypeOK, NextTypeOK, PTL DEF Spec

---------------------------------------------------------------------------
(* The generation fence.  Everything the four parts of FenceInv depend on   *)
(* is pc, gen, seen, owned, lease and three fields of the row.              *)

\* The initial states satisfy the inductive invariant.
LEMMA InitFenceInv == Init => FenceInv
<1> SUFFICES ASSUME Init PROVE FenceInv
  OBVIOUS
<1>1. TypeOK
  BY InitTypeOK
<1>2. UniqueGeneration
  BY DEF Init, UniqueGeneration
<1>3. ReadIsFresh
  BY DEF Init, ReadIsFresh
<1>4. InsertIsSafe
  BY ConstantsAssumption DEF Init, InsertIsSafe, NoRow, IdleRow
<1>5. HoldsLease
  BY DEF Init, HoldsLease, StartPcs, RunPcs
<1>. QED
  BY <1>1, <1>2, <1>3, <1>4, <1>5 DEF FenceInv

\* The states of an attempt that has not stored a row, and of a lease holder.
FreshPcs == {"idle", "leased", "checked", "read"}
HoldingPcs == StartPcs \cup RunPcs \cup {"settle", "release"}

\* Most steps only finish what an attempt began: they keep the row's generation,
\* raise its revision if they write it, and neither begin a start nor give a
\* lease away that its holder still uses.  Such steps keep the fence.
LEMMA QuietStepKeepsFence ==
  ASSUME FenceInv, TypeOK',
         row'.generation = row.generation,
         \/ row'.revision = row.revision /\ row'.state = row.state
         \/ /\ row'.revision = row.revision + 1
            /\ row.state # "absent",
         UNCHANGED <<gen, owned>>,
         \A b \in Attempt :
           /\ pc'[b] = "read" => pc[b] = "read" /\ seen'[b] = seen[b]
           /\ pc'[b] \in FreshPcs => pc[b] \in FreshPcs
           /\ pc'[b] \in HoldingPcs => pc[b] \in HoldingPcs /\ (lease = b => lease' = b)
  PROVE  FenceInv'
<1>1. UniqueGeneration'
  BY DEF FenceInv, UniqueGeneration
<1>2. ReadIsFresh'
  <2> SUFFICES ASSUME NEW b \in Attempt
               PROVE  /\ owned[b] => gen[b] <= row'.generation
                      /\ pc'[b] \in FreshPcs => ~owned[b]
                      /\ pc'[b] = "read" =>
                           /\ seen'[b] <= row'.revision
                           /\ seen'[b] = row'.revision => gen[b] = row'.generation + 1
    BY DEF ReadIsFresh, FreshPcs
  <2>2. seen[b] \in Nat /\ row.revision \in Nat
    BY DEF FenceInv, TypeOK, Row
  <2>. QED
    BY <2>2 DEF FenceInv, ReadIsFresh, FreshPcs
<1>3. InsertIsSafe'
  <2>1. row.revision \in Nat
    BY DEF FenceInv, TypeOK, Row
  <2>2. row'.revision = 0 \/ row.revision = 0 =>
          row'.revision = row.revision /\ row'.state = row.state
    BY <2>1 DEF FenceInv, InsertIsSafe
  <2>. QED
    BY <2>2 DEF FenceInv, InsertIsSafe
<1>4. ~LeaseLapse => HoldsLease'
  BY DEF FenceInv, HoldsLease, HoldingPcs
<1>. QED
  BY <1>1, <1>2, <1>3, <1>4 DEF FenceInv

\* Every step keeps the fence: the only steps that touch it are the read and the
\* store of #startExclusive, the acquisition of the lease and its expiry.
LEMMA NextFenceInv ==
  ASSUME ~LeaseLapse \/ Preexisting, FenceInv, [Next]_vars PROVE FenceInv'
<1> USE ConstantsAssumption
<1>0. TypeOK /\ TypeOK'
  BY NextTypeOK DEF FenceInv
<1>T. /\ row \in Row /\ row.revision \in Nat /\ row.generation \in Nat
      /\ pc \in [Attempt -> Pcs] /\ seen \in [Attempt -> Nat] /\ gen \in [Attempt -> Nat]
      /\ owned \in [Attempt -> BOOLEAN] /\ row.state \in RowStates
  BY <1>0 DEF TypeOK, Row
<1>1. ASSUME NEW a \in Attempt, CheckSession(a) PROVE FenceInv'
  BY <1>1, <1>0, <1>T, QuietStepKeepsFence DEF CheckSession, Goto, FreshPcs, HoldingPcs, StartPcs, RunPcs
<1>2. ASSUME NEW a \in Attempt, HandOff(a) PROVE FenceInv'
  BY <1>2, <1>0, <1>T, QuietStepKeepsFence DEF HandOff, Goto, FreshPcs, HoldingPcs, StartPcs, RunPcs
<1>3. ASSUME NEW a \in Attempt, PublishObject(a) PROVE FenceInv'
  BY <1>3, <1>0, <1>T, QuietStepKeepsFence DEF PublishObject, Goto, FreshPcs, HoldingPcs, StartPcs, RunPcs
<1>4. ASSUME NEW a \in Attempt, RenewLease(a) PROVE FenceInv'
  BY <1>4, <1>0, <1>T, QuietStepKeepsFence DEF RenewLease, Goto, FreshPcs, HoldingPcs, StartPcs, RunPcs
<1>5. ASSUME NEW a \in Attempt, LoseLease(a) PROVE FenceInv'
  BY <1>5, <1>0, <1>T, QuietStepKeepsFence DEF LoseLease, Goto, FreshPcs, HoldingPcs, StartPcs, RunPcs
<1>6. ASSUME NEW a \in Attempt, Fail(a) PROVE FenceInv'
  BY <1>6, <1>0, <1>T, QuietStepKeepsFence DEF Fail, Goto, FreshPcs, HoldingPcs, StartPcs, RunPcs
<1>7. ASSUME NEW a \in Attempt, BeginRunning(a) PROVE FenceInv'
  <2>1. \/ row' = row
        \/ row' = Transition(a, [row EXCEPT !.state = "running"])
    BY <1>7 DEF BeginRunning
  <2>2. /\ row'.generation = row.generation
        /\ row' = row \/ (row'.revision = row.revision + 1 /\ row.state # "absent")
    BY <1>T, <2>1 DEF Transition, ActiveStates, Row
  <2>. QED
    BY <1>7, <1>0, <1>T, <2>2, QuietStepKeepsFence DEF BeginRunning, Goto, FreshPcs, HoldingPcs, StartPcs, RunPcs
<1>8. ASSUME NEW a \in Attempt, PublishRow(a) PROVE FenceInv'
  <2>1. \/ row' = row
        \/ row' = Transition(a, [row EXCEPT !.state = "running", !.published = head[a],
                                             !.expiry = "live"])
    BY <1>8 DEF PublishRow
  <2>2. /\ row'.generation = row.generation
        /\ row' = row \/ (row'.revision = row.revision + 1 /\ row.state # "absent")
    BY <1>T, <2>1 DEF Transition, ActiveStates, Row
  <2>. QED
    BY <1>8, <1>0, <1>T, <2>2, QuietStepKeepsFence DEF PublishRow, Goto, FreshPcs, HoldingPcs, StartPcs, RunPcs
<1>9. ASSUME NEW a \in Attempt, RenewRow(a) PROVE FenceInv'
  <2>1. \/ row' = row
        \/ row' = Transition(a, [row EXCEPT !.expiry = "live"])
    BY <1>9 DEF RenewRow
  <2>2. /\ row'.generation = row.generation
        /\ row' = row \/ (row'.revision = row.revision + 1 /\ row.state # "absent")
    BY <1>T, <2>1 DEF Transition, ActiveStates, Row
  <2>. QED
    BY <1>9, <1>0, <1>T, <2>2, QuietStepKeepsFence DEF RenewRow, Goto, FreshPcs, HoldingPcs, StartPcs, RunPcs
<1>10. ASSUME NEW a \in Attempt, Complete(a) PROVE FenceInv'
  <2>1. \/ row' = row
        \/ row' = Transition(a, Relinquished(row, "complete"))
    BY <1>10 DEF Complete
  <2>2. /\ row'.generation = row.generation
        /\ row' = row \/ (row'.revision = row.revision + 1 /\ row.state # "absent")
    BY <1>T, <2>1 DEF Transition, ActiveStates, Row, Relinquished, FinishAttempt
  <2>. QED
    BY <1>10, <1>0, <1>T, <2>2, QuietStepKeepsFence DEF Complete, Goto, FreshPcs, HoldingPcs, StartPcs, RunPcs
<1>11. ASSUME NEW a \in Attempt, Settle(a) PROVE FenceInv'
  <2>1. \/ row' = row
        \/ row' = Transition(a, Relinquished(row, StopOutcome(a)))
    BY <1>11 DEF Settle
  <2>2. /\ row'.generation = row.generation
        /\ row' = row \/ (row'.revision = row.revision + 1 /\ row.state # "absent")
    BY <1>T, <2>1 DEF Transition, ActiveStates, Row, Relinquished, FinishAttempt
  <2>. QED
    BY <1>11, <1>0, <1>T, <2>2, QuietStepKeepsFence DEF Settle, Goto, FreshPcs, HoldingPcs, StartPcs, RunPcs
<1>12. ASSUME NEW a \in Attempt, ReleaseLease(a) PROVE FenceInv'
  <2>1. \A b \in Attempt : pc'[b] \in HoldingPcs => pc[b] = pc'[b] /\ b # a
    BY <1>12, <1>T DEF ReleaseLease, Goto, FreshPcs, HoldingPcs, StartPcs, RunPcs
  <2>2. \A b \in Attempt : b # a => pc'[b] = pc[b] /\ seen'[b] = seen[b]
    BY <1>12, <1>T DEF ReleaseLease, Goto, Forget
  <2>3. pc'[a] = "done" /\ (lease' = lease \/ lease = a) /\ UNCHANGED <<row, gen, owned>>
    BY <1>12, <1>T DEF ReleaseLease, Goto
  <2>. QED
    BY <1>0, <1>T, <2>1, <2>2, <2>3, QuietStepKeepsFence DEF FreshPcs
<1>13. ASSUME NEW a \in Attempt, NEW s \in StopStates, Stop(a, s) PROVE FenceInv'
  BY <1>13, <1>0, <1>T, QuietStepKeepsFence DEF Stop
<1>14. ASSUME EndSession PROVE FenceInv'
  BY <1>14, <1>0, <1>T, QuietStepKeepsFence DEF EndSession, attemptVars
<1>15. ASSUME ResumeSession PROVE FenceInv'
  BY <1>15, <1>0, <1>T, QuietStepKeepsFence DEF ResumeSession, attemptVars
<1>16. ASSUME RowLeaseExpires PROVE FenceInv'
  <2>1. row'.generation = row.generation /\ row'.revision = row.revision /\ row'.state = row.state
    BY <1>16, <1>T DEF RowLeaseExpires, Row
  <2>. QED
    BY <1>16, <1>0, <1>T, <2>1, QuietStepKeepsFence DEF RowLeaseExpires, attemptVars
<1>17. ASSUME NEW n \in Node, Crash(n) PROVE FenceInv'
  <2>1. \A b \in Attempt :
          \/ pc'[b] = pc[b] /\ pc[b] # "crashed" /\ seen'[b] = seen[b]
          \/ pc'[b] = "crashed"
    BY <1>17, <1>T DEF Crash, Forget
  <2>2. UNCHANGED <<row, lease, gen, owned>>
    BY <1>17 DEF Crash
  <2>. QED
    BY <1>0, <1>T, <2>1, <2>2, QuietStepKeepsFence DEF FreshPcs, HoldingPcs, StartPcs, RunPcs
<1>18. ASSUME NEW n \in Node, Restart(n) PROVE FenceInv'
  BY <1>18, <1>0, <1>T, QuietStepKeepsFence DEF Restart, attemptVars
<1>19. ASSUME NEW n \in Node, RecoverExpired(n) PROVE FenceInv'
  <2>1. /\ row'.generation = row.generation
        /\ row' = row \/ (row'.revision = row.revision + 1 /\ row.state # "absent")
    BY <1>19, <1>T DEF RecoverExpired, Relinquished, FinishAttempt, ActiveStates, Row
  <2>. QED
    BY <1>19, <1>0, <1>T, <2>1, QuietStepKeepsFence DEF RecoverExpired, attemptVars
<1>20. ASSUME UNCHANGED vars PROVE FenceInv'
  BY <1>20, <1>0, <1>T, QuietStepKeepsFence DEF vars, attemptVars
<1>21. ASSUME LeaseExpires PROVE FenceInv'
  <2>1. UNCHANGED <<row, gen, owned, pc, seen>>
    BY <1>21 DEF LeaseExpires, attemptVars
  <2>2. UniqueGeneration' /\ ReadIsFresh' /\ InsertIsSafe'
    BY <2>1 DEF FenceInv, UniqueGeneration, ReadIsFresh, InsertIsSafe
  <2>3. ~LeaseLapse => pc[lease] \in {"done", "crashed"} /\ lease # None
    BY <1>21 DEF LeaseExpires, Over
  <2>4. ~LeaseLapse => HoldsLease'
    BY <2>1, <2>3 DEF FenceInv, HoldsLease, StartPcs, RunPcs
  <2>. QED
    BY <1>0, <2>2, <2>4 DEF FenceInv
<1>22. ASSUME NEW a \in Attempt, AcquireLease(a) PROVE FenceInv'
  <2>1. /\ UNCHANGED <<row, gen, owned, seen>>
        /\ \A b \in Attempt : b # a => pc'[b] = pc[b]
        /\ pc[a] = "idle" /\ pc'[a] \in {"leased", "done"}
        /\ lease' = lease \/ lease = None
        /\ pc'[a] = "leased" => lease = None /\ lease' = a
    BY <1>22, <1>T DEF AcquireLease, Goto
  <2>2. UniqueGeneration' /\ ReadIsFresh' /\ InsertIsSafe'
    BY <1>T, <2>1 DEF FenceInv, UniqueGeneration, ReadIsFresh, InsertIsSafe
  <2>3. ~LeaseLapse => HoldsLease'
    BY <1>T, <2>1 DEF FenceInv, HoldsLease, StartPcs, RunPcs
  <2>. QED
    BY <1>0, <2>2, <2>3 DEF FenceInv
<1>23. ASSUME NEW a \in Attempt, AcquireLost(a) PROVE FenceInv'
  <2>1. /\ UNCHANGED <<row, gen, owned, seen>>
        /\ \A b \in Attempt : b # a => pc'[b] = pc[b]
        /\ pc[a] = "idle" /\ pc'[a] \in {"leased", "done"}
        /\ lease' = lease \/ lease = None
        /\ pc'[a] = "leased" => lease = None /\ lease' = a
    BY <1>23, <1>T DEF AcquireLost, Goto
  <2>2. UniqueGeneration' /\ ReadIsFresh' /\ InsertIsSafe'
    BY <1>T, <2>1 DEF FenceInv, UniqueGeneration, ReadIsFresh, InsertIsSafe
  <2>3. ~LeaseLapse => HoldsLease'
    BY <1>T, <2>1 DEF FenceInv, HoldsLease, StartPcs, RunPcs
  <2>. QED
    BY <1>0, <2>2, <2>3 DEF FenceInv
<1>24. ASSUME NEW a \in Attempt, StartAgain(a) PROVE FenceInv'
  <2>1. /\ UNCHANGED <<row, lease, owned, seen>>
        /\ \A b \in Attempt : b # a => pc'[b] = pc[b] /\ gen'[b] = gen[b]
        /\ ~owned[a] /\ pc'[a] = "idle"
    BY <1>24, <1>T DEF StartAgain, Goto
  <2>2. UniqueGeneration' /\ ReadIsFresh' /\ InsertIsSafe'
    BY <1>T, <2>1 DEF FenceInv, UniqueGeneration, ReadIsFresh, InsertIsSafe
  <2>3. ~LeaseLapse => HoldsLease'
    BY <1>T, <2>1 DEF FenceInv, HoldsLease, StartPcs, RunPcs
  <2>. QED
    BY <1>0, <2>2, <2>3 DEF FenceInv
<1>25. ASSUME NEW a \in Attempt, ReadRow(a) PROVE FenceInv'
  <2>1. /\ UNCHANGED <<row, lease, owned>>
        /\ \A b \in Attempt : b # a => pc'[b] = pc[b] /\ gen'[b] = gen[b] /\ seen'[b] = seen[b]
        /\ pc[a] = "checked" /\ pc'[a] \in {"read", "release"}
        /\ pc'[a] = "read" => gen'[a] = row.generation + 1 /\ seen'[a] = row.revision
        /\ pc'[a] = "release" => gen'[a] = gen[a] /\ seen'[a] = seen[a]
    BY <1>25, <1>T DEF ReadRow, Goto
  <2>2. ~owned[a]
    BY <2>1 DEF FenceInv, ReadIsFresh
  <2>3. UniqueGeneration' /\ ReadIsFresh'
    BY <1>T, <2>1, <2>2 DEF FenceInv, UniqueGeneration, ReadIsFresh
  <2>4. InsertIsSafe'
    BY <1>T, <2>1 DEF FenceInv, InsertIsSafe
  <2>5. ~LeaseLapse => HoldsLease'
    BY <1>T, <2>1 DEF FenceInv, HoldsLease, StartPcs, RunPcs
  <2>. QED
    BY <1>0, <2>3, <2>4, <2>5 DEF FenceInv
<1>26. ASSUME NEW a \in Attempt, StoreRow(a) PROVE FenceInv'
  <2>1. /\ UNCHANGED <<gen, lease, seen>>
        /\ pc[a] = "read"
        /\ \A b \in Attempt : b # a => pc'[b] = pc[b] /\ owned'[b] = owned[b]
        /\ pc'[a] \in {"stored", "release"}
    BY <1>26, <1>T DEF StoreRow, Goto
  <2>2. seen[a] = 0 => row.revision = 0
    BY <2>1 DEF FenceInv, InsertIsSafe
  <2>3. \/ row' = row /\ owned' = owned
        \/ row' = StartRow(a) /\ seen[a] = row.revision
    BY <1>26, <1>T, <2>2 DEF StoreRow, CanSet
  <2>4. row' = row \/ (/\ row'.generation = row.generation + 1 /\ row'.generation = gen[a]
                        /\ row'.revision = row.revision + 1)
    BY <2>1, <2>3 DEF FenceInv, ReadIsFresh, StartRow
  <2>5. UniqueGeneration'
    BY <1>0, <1>T, <2>1, <2>3, <2>4 DEF FenceInv, UniqueGeneration, ReadIsFresh, StartRow
  <2>6. ReadIsFresh'
    BY <1>0, <1>T, <2>1, <2>3, <2>4 DEF FenceInv, ReadIsFresh, StartRow
  <2>7. ~LeaseLapse => HoldsLease'
    BY <1>T, <2>1 DEF FenceInv, HoldsLease, StartPcs, RunPcs
  <2>8. InsertIsSafe'
    <3>1. \A b \in Attempt : pc'[b] = "read" /\ seen[b] = 0 => ~LeaseLapse /\ b # a /\ pc[b] = "read"
      BY <1>T, <2>1 DEF FenceInv, InsertIsSafe
    <3>2. \A b \in Attempt : ~(pc'[b] = "read" /\ seen[b] = 0)
      BY <2>1, <3>1 DEF FenceInv, HoldsLease, StartPcs
    <3>3. row'.revision = 0 => row' = row
      BY <1>T, <2>4
    <3>. QED
      BY <2>1, <3>2, <3>3 DEF FenceInv, InsertIsSafe
  <2>. QED
    BY <1>0, <2>5, <2>6, <2>7, <2>8 DEF FenceInv
<1>27. ASSUME NEW a \in Attempt, StoreLost(a) PROVE FenceInv'
  <2>1. /\ UNCHANGED <<gen, lease, seen>>
        /\ pc[a] = "read"
        /\ \A b \in Attempt : b # a => pc'[b] = pc[b] /\ owned'[b] = owned[b]
        /\ pc'[a] \in {"stored", "release"}
    BY <1>27, <1>T DEF StoreLost, Goto
  <2>2. seen[a] = 0 => row.revision = 0
    BY <2>1 DEF FenceInv, InsertIsSafe
  <2>3. \/ row' = row /\ owned' = owned
        \/ row' = StartRow(a) /\ seen[a] = row.revision
    BY <1>27, <1>T, <2>2 DEF StoreLost, CanSet
  <2>4. row' = row \/ (/\ row'.generation = row.generation + 1 /\ row'.generation = gen[a]
                        /\ row'.revision = row.revision + 1)
    BY <2>1, <2>3 DEF FenceInv, ReadIsFresh, StartRow
  <2>5. UniqueGeneration'
    BY <1>0, <1>T, <2>1, <2>3, <2>4 DEF FenceInv, UniqueGeneration, ReadIsFresh, StartRow
  <2>6. ReadIsFresh'
    BY <1>0, <1>T, <2>1, <2>3, <2>4 DEF FenceInv, ReadIsFresh, StartRow
  <2>7. ~LeaseLapse => HoldsLease'
    BY <1>T, <2>1 DEF FenceInv, HoldsLease, StartPcs, RunPcs
  <2>8. InsertIsSafe'
    <3>1. \A b \in Attempt : pc'[b] = "read" /\ seen[b] = 0 => ~LeaseLapse /\ b # a /\ pc[b] = "read"
      BY <1>T, <2>1 DEF FenceInv, InsertIsSafe
    <3>2. \A b \in Attempt : ~(pc'[b] = "read" /\ seen[b] = 0)
      BY <2>1, <3>1 DEF FenceInv, HoldsLease, StartPcs
    <3>3. row'.revision = 0 => row' = row
      BY <1>T, <2>4
    <3>. QED
      BY <2>1, <3>2, <3>3 DEF FenceInv, InsertIsSafe
  <2>. QED
    BY <1>0, <2>5, <2>6, <2>7, <2>8 DEF FenceInv
<1>. QED
  BY <1>1, <1>2, <1>3, <1>4, <1>5, <1>6, <1>7, <1>8, <1>9, <1>10, <1>11,
     <1>12, <1>13, <1>14, <1>15, <1>16, <1>17, <1>18, <1>19, <1>20, <1>21,
     <1>22, <1>23, <1>24, <1>25, <1>26, <1>27 DEF Next, StartStep, RunStep

\* No two attempts ever run under the same generation, provided that a lapsed
\* lease cannot meet a session that has never had a producer row.
THEOREM GenerationsAreUnique ==
  ASSUME ~LeaseLapse \/ Preexisting PROVE Spec => []UniqueGeneration
<1>1. FenceInv /\ [Next]_vars => FenceInv'
  BY NextFenceInv
<1>2. FenceInv => UniqueGeneration
  BY DEF FenceInv
<1>. QED
  BY <1>1, <1>2, InitFenceInv, PTL DEF Spec

\* While leases do not lapse under a live holder, one producer at most reads the
\* provider's source for the session.
THEOREM OneProducer ==
  ASSUME ~LeaseLapse PROVE Spec => []SingleProducer
<1>1. FenceInv /\ [Next]_vars => FenceInv'
  BY NextFenceInv
<1>2. FenceInv => SingleProducer
  BY DEF FenceInv, HoldsLease, SingleProducer
<1>. QED
  BY <1>1, <1>2, InitFenceInv, PTL DEF Spec

---------------------------------------------------------------------------
(* The running attempt owns the durable row, while leases do not lapse.     *)

OwningPcs == {"stored", "active", "running", "publishing"}

\* A step that leaves generation, state and a live expiry of the row alone, and
\* moves no attempt into or within the owning states but from active states of
\* the same kind, keeps the row owned.
LEMMA QuietStepKeepsRow ==
  ASSUME StoredOwnsRow, TypeOK,
         row'.generation = row.generation, row'.state = row.state,
         row.expiry = "live" => row'.expiry = "live",
         \A b \in Attempt :
           /\ owned[b] => owned'[b] /\ gen'[b] = gen[b]
           /\ renewing'[b] => owned'[b]
           /\ pc'[b] \in {"stored", "active"} => pc[b] \in {"stored", "active"}
           /\ pc'[b] \in {"running", "publishing"} => pc[b] \in {"running", "publishing"}
           /\ pc'[b] = "settle" => pc[b] \in OwningPcs \cup {"settle"}
  PROVE  StoredOwnsRow'
<1> SUFFICES ASSUME NEW b \in Attempt
             PROVE  /\ renewing'[b] => owned'[b]
                    /\ pc'[b] \in OwningPcs \cup {"settle"} => owned'[b]
                    /\ pc'[b] \in OwningPcs =>
                         /\ row'.generation = gen'[b]
                         /\ row'.expiry = "live"
                         /\ row'.state = IF pc'[b] \in {"stored", "active"}
                                           THEN "starting" ELSE "running"
  BY DEF StoredOwnsRow, OwningPcs
<1>1. /\ renewing'[b] => owned'[b]
      /\ pc'[b] \in OwningPcs \cup {"settle"} => owned'[b]
  BY DEF StoredOwnsRow, OwningPcs
<1>2. CASE pc'[b] \in {"stored", "active"}
  BY <1>1, <1>2 DEF StoredOwnsRow, OwningPcs
<1>3. CASE pc'[b] \in {"running", "publishing"}
  BY <1>1, <1>3 DEF StoredOwnsRow, OwningPcs
<1>. QED
  BY <1>1, <1>2, <1>3 DEF OwningPcs

\* Every step keeps the row of the attempt between store and catch block.
LEMMA NextStoredOwnsRow ==
  ASSUME ~LeaseLapse, FenceInv, StoredOwnsRow, [Next]_vars PROVE StoredOwnsRow'
<1> USE ConstantsAssumption
<1>0. TypeOK /\ TypeOK' /\ HoldsLease
  BY NextTypeOK DEF FenceInv
<1>T. /\ row \in Row /\ row.revision \in Nat /\ row.generation \in Nat
      /\ pc \in [Attempt -> Pcs] /\ seen \in [Attempt -> Nat] /\ gen \in [Attempt -> Nat]
      /\ owned \in [Attempt -> BOOLEAN] /\ renewing \in [Attempt -> BOOLEAN]
  BY <1>0 DEF TypeOK, Row
<1>H. \A a, b \in Attempt : pc[a] \in HoldingPcs /\ pc[b] \in HoldingPcs => a = b
  BY <1>0 DEF HoldsLease, HoldingPcs
<1>R. \A b \in Attempt : renewing[b] => owned[b]
  BY DEF StoredOwnsRow
<1>U. \A a, b \in Attempt : owned[a] /\ owned[b] /\ gen[a] = gen[b] => a = b
  BY DEF FenceInv, UniqueGeneration
<1>F. \A b \in Attempt : pc[b] \in FreshPcs => ~owned[b]
  BY DEF FenceInv, ReadIsFresh, FreshPcs
<1>1. ASSUME NEW a \in Attempt, AcquireLease(a) PROVE StoredOwnsRow'
  BY <1>1, <1>0, <1>T, <1>R, QuietStepKeepsRow DEF AcquireLease, Goto, OwningPcs, FreshPcs, RunPcs
<1>2. ASSUME NEW a \in Attempt, AcquireLost(a) PROVE StoredOwnsRow'
  BY <1>2, <1>0, <1>T, <1>R, QuietStepKeepsRow DEF AcquireLost, Goto, OwningPcs, FreshPcs, RunPcs
<1>3. ASSUME NEW a \in Attempt, CheckSession(a) PROVE StoredOwnsRow'
  BY <1>3, <1>0, <1>T, <1>R, QuietStepKeepsRow DEF CheckSession, Goto, OwningPcs, FreshPcs, RunPcs
<1>4. ASSUME NEW a \in Attempt, ReadRow(a) PROVE StoredOwnsRow'
  BY <1>4, <1>0, <1>T, <1>R, <1>F, QuietStepKeepsRow DEF ReadRow, Goto, OwningPcs, FreshPcs, RunPcs
<1>5. ASSUME NEW a \in Attempt, HandOff(a) PROVE StoredOwnsRow'
  BY <1>5, <1>0, <1>T, <1>R, QuietStepKeepsRow DEF HandOff, Goto, OwningPcs, FreshPcs, RunPcs
<1>6. ASSUME NEW a \in Attempt, StartAgain(a) PROVE StoredOwnsRow'
  BY <1>6, <1>0, <1>T, <1>R, QuietStepKeepsRow DEF StartAgain, Goto, OwningPcs, FreshPcs, RunPcs
<1>7. ASSUME NEW a \in Attempt, PublishObject(a) PROVE StoredOwnsRow'
  BY <1>7, <1>0, <1>T, <1>R, QuietStepKeepsRow DEF PublishObject, Goto, OwningPcs, FreshPcs, RunPcs
<1>8. ASSUME NEW a \in Attempt, LoseLease(a) PROVE StoredOwnsRow'
  BY <1>8, <1>0, <1>T, <1>R, QuietStepKeepsRow DEF LoseLease, Goto, OwningPcs, FreshPcs, RunPcs
<1>9. ASSUME NEW a \in Attempt, Fail(a) PROVE StoredOwnsRow'
  BY <1>9, <1>0, <1>T, <1>R, QuietStepKeepsRow DEF Fail, Goto, OwningPcs, FreshPcs, RunPcs
<1>10. ASSUME NEW a \in Attempt, RenewLease(a) PROVE StoredOwnsRow'
  <2>1. /\ UNCHANGED <<row, gen, owned, pc>> /\ owned[a]
        /\ \A b \in Attempt : b # a => renewing'[b] = renewing[b]
    BY <1>10, <1>T DEF RenewLease, StoredOwnsRow
  <2>. QED
    BY <1>0, <1>R, <2>1, QuietStepKeepsRow DEF OwningPcs
<1>11. ASSUME NEW a \in Attempt, ReleaseLease(a) PROVE StoredOwnsRow'
  <2>1. /\ UNCHANGED <<row, gen, owned, renewing>> /\ pc'[a] = "done"
        /\ \A b \in Attempt : b # a => pc'[b] = pc[b]
    BY <1>11, <1>T DEF ReleaseLease, Goto
  <2>. QED
    BY <1>0, <1>R, <2>1, QuietStepKeepsRow DEF OwningPcs
<1>12. ASSUME NEW a \in Attempt, NEW s \in StopStates, Stop(a, s) PROVE StoredOwnsRow'
  BY <1>12, <1>0, <1>R, QuietStepKeepsRow DEF Stop, OwningPcs
<1>13. ASSUME EndSession PROVE StoredOwnsRow'
  BY <1>13, <1>0, <1>R, QuietStepKeepsRow DEF EndSession, attemptVars, OwningPcs
<1>14. ASSUME ResumeSession PROVE StoredOwnsRow'
  BY <1>14, <1>0, <1>R, QuietStepKeepsRow DEF ResumeSession, attemptVars, OwningPcs
<1>15. ASSUME LeaseExpires PROVE StoredOwnsRow'
  BY <1>15, <1>0, <1>R, QuietStepKeepsRow DEF LeaseExpires, attemptVars, OwningPcs
<1>16. ASSUME UNCHANGED vars PROVE StoredOwnsRow'
  BY <1>16, <1>0, <1>R, QuietStepKeepsRow DEF vars, attemptVars, OwningPcs
<1>17. ASSUME NEW n \in Node, Restart(n) PROVE StoredOwnsRow'
  BY <1>17, <1>0, <1>R, QuietStepKeepsRow DEF Restart, attemptVars, OwningPcs
<1>18. ASSUME NEW n \in Node, Crash(n) PROVE StoredOwnsRow'
  <2>1. /\ \A b \in Attempt : pc'[b] = pc[b] \/ pc'[b] = "crashed"
        /\ UNCHANGED <<row, gen, owned>>
    BY <1>18, <1>T DEF Crash
  <2>2. \A b \in Attempt : renewing'[b] => renewing[b]
    BY <1>18, Zenon DEF Crash
  <2>. QED
    BY <1>0, <1>R, <2>1, <2>2, QuietStepKeepsRow DEF OwningPcs
<1>19. ASSUME RowLeaseExpires PROVE StoredOwnsRow'
  <2>1. \A b \in Attempt : pc[b] \notin OwningPcs
    BY <1>19 DEF RowLeaseExpires, StoredOwnsRow, Over, OwningPcs
  <2>. QED
    BY <1>19, <1>R, <2>1 DEF RowLeaseExpires, StoredOwnsRow, attemptVars, OwningPcs
<1>20. ASSUME NEW n \in Node, RecoverExpired(n) PROVE StoredOwnsRow'
  <2>1. UNCHANGED <<gen, owned, pc, renewing>>
    BY <1>20 DEF RecoverExpired, attemptVars
  <2>2. CASE row.expiry = "live"
    <3>1. row' = row
      BY <1>20, <2>2 DEF RecoverExpired
    <3>. QED
      BY <1>0, <1>R, <2>1, <3>1, QuietStepKeepsRow DEF OwningPcs
  <2>3. CASE row.expiry # "live"
    BY <1>R, <2>1, <2>3 DEF StoredOwnsRow
  <2>. QED
    BY <2>2, <2>3
<1>21. ASSUME NEW a \in Attempt, StoreRow(a) PROVE StoredOwnsRow'
  <2>1. \A b \in Attempt : pc[b] \in OwningPcs \cup {"settle"} => FALSE
    BY <1>21, <1>H DEF StoreRow, HoldingPcs, StartPcs, RunPcs, OwningPcs
  <2>2. /\ UNCHANGED <<gen, renewing>> /\ \A b \in Attempt : b # a => pc'[b] = pc[b]
        /\ \A b \in Attempt : owned[b] => owned'[b]
        /\ pc'[a] = "release" \/ (pc'[a] = "stored" /\ owned'[a])
    BY <1>21, <1>T DEF StoreRow, Goto
  <2>3. seen[a] = 0 => row.revision = 0
    BY <1>21 DEF StoreRow, FenceInv, InsertIsSafe
  <2>4. pc'[a] = "stored" => row' = StartRow(a)
    BY <1>21, <1>T, <2>3 DEF StoreRow, Goto
  <2>5. pc'[a] = "stored" => row'.generation = gen[a] /\ row'.expiry = "live"
                             /\ row'.state = "starting"
    BY <2>4 DEF StartRow
  <2>. QED
    BY <1>R, <2>1, <2>2, <2>5 DEF StoredOwnsRow, OwningPcs
<1>22. ASSUME NEW a \in Attempt, StoreLost(a) PROVE StoredOwnsRow'
  <2>1. \A b \in Attempt : pc[b] \in OwningPcs \cup {"settle"} => FALSE
    BY <1>22, <1>H DEF StoreLost, HoldingPcs, StartPcs, RunPcs, OwningPcs
  <2>2. /\ UNCHANGED <<gen, renewing, owned>> /\ \A b \in Attempt : b # a => pc'[b] = pc[b]
        /\ pc'[a] = "release"
    BY <1>22, <1>T DEF StoreLost, Goto
  <2>. QED
    BY <1>R, <2>1, <2>2 DEF StoredOwnsRow, OwningPcs
<1>23. ASSUME NEW a \in Attempt, BeginRunning(a) PROVE StoredOwnsRow'
  <2>1. \A b \in Attempt : b # a => pc[b] \notin OwningPcs \cup {"settle"}
    BY <1>23, <1>H DEF BeginRunning, HoldingPcs, StartPcs, RunPcs, OwningPcs
  <2>2. /\ UNCHANGED <<gen, renewing, owned>> /\ \A b \in Attempt : b # a => pc'[b] = pc[b]
        /\ pc'[a] = "running" /\ pc[a] = "active"
    BY <1>23, <1>T DEF BeginRunning, Goto
  <2>3. row.generation = gen[a] /\ row.expiry = "live" /\ row.state \in ActiveStates /\ owned[a]
    BY <2>2 DEF StoredOwnsRow, ActiveStates
  <2>4. row'.generation = gen[a] /\ row'.expiry = "live" /\ row'.state = "running"
    BY <1>23, <1>T, <2>3 DEF BeginRunning, Transition, Row
  <2>. QED
    BY <1>R, <2>1, <2>2, <2>3, <2>4 DEF StoredOwnsRow, OwningPcs
<1>24. ASSUME NEW a \in Attempt, PublishRow(a) PROVE StoredOwnsRow'
  <2>1. \A b \in Attempt : b # a => pc[b] \notin OwningPcs \cup {"settle"}
    BY <1>24, <1>H DEF PublishRow, HoldingPcs, StartPcs, RunPcs, OwningPcs
  <2>2. /\ UNCHANGED <<gen, renewing, owned>> /\ \A b \in Attempt : b # a => pc'[b] = pc[b]
        /\ pc'[a] = "running" /\ pc[a] = "publishing"
    BY <1>24, <1>T DEF PublishRow, Goto
  <2>3. row.generation = gen[a] /\ row.expiry = "live" /\ row.state \in ActiveStates /\ owned[a]
    BY <2>2 DEF StoredOwnsRow, ActiveStates
  <2>4. row'.generation = gen[a] /\ row'.expiry = "live" /\ row'.state = "running"
    BY <1>24, <1>T, <2>3 DEF PublishRow, Transition, Row
  <2>. QED
    BY <1>R, <2>1, <2>2, <2>3, <2>4 DEF StoredOwnsRow, OwningPcs
<1>25. ASSUME NEW a \in Attempt, RenewRow(a) PROVE StoredOwnsRow'
  <2>1. /\ UNCHANGED <<gen, owned, pc>>
        /\ \A b \in Attempt : renewing'[b] => renewing[b]
    BY <1>25, <1>T DEF RenewRow
  <2>2. /\ row'.generation = row.generation /\ row'.state = row.state
        /\ row.expiry = "live" => row'.expiry = "live"
    BY <1>25, <1>T DEF RenewRow, Transition, Row
  <2>. QED
    BY <1>0, <1>R, <2>1, <2>2, QuietStepKeepsRow DEF OwningPcs
<1>26. ASSUME NEW a \in Attempt, Complete(a) PROVE StoredOwnsRow'
  <2>1. \A b \in Attempt : b # a => pc[b] \notin OwningPcs \cup {"settle"}
    BY <1>26, <1>H DEF Complete, HoldingPcs, StartPcs, RunPcs, OwningPcs
  <2>2. /\ UNCHANGED <<gen, renewing, owned>> /\ \A b \in Attempt : b # a => pc'[b] = pc[b]
        /\ pc'[a] = "release"
    BY <1>26, <1>T DEF Complete, Goto
  <2>. QED
    BY <1>R, <2>1, <2>2 DEF StoredOwnsRow, OwningPcs
<1>27. ASSUME NEW a \in Attempt, Settle(a) PROVE StoredOwnsRow'
  <2>1. \A b \in Attempt : b # a => pc[b] \notin OwningPcs \cup {"settle"}
    BY <1>27, <1>H DEF Settle, HoldingPcs, StartPcs, RunPcs, OwningPcs
  <2>2. /\ UNCHANGED <<gen, renewing, owned>> /\ \A b \in Attempt : b # a => pc'[b] = pc[b]
        /\ pc'[a] = "release"
    BY <1>27, <1>T DEF Settle, Goto
  <2>. QED
    BY <1>R, <2>1, <2>2 DEF StoredOwnsRow, OwningPcs
<1>. QED
  BY <1>1, <1>2, <1>3, <1>4, <1>5, <1>6, <1>7, <1>8, <1>9, <1>10, <1>11,
     <1>12, <1>13, <1>14, <1>15, <1>16, <1>17, <1>18, <1>19, <1>20, <1>21,
     <1>22, <1>23, <1>24, <1>25, <1>26, <1>27 DEF Next, StartStep, RunStep

\* While leases do not lapse under a live holder, the running attempt owns the
\* durable row: no recovery, late write or rival start takes it away.
THEOREM RunningAttemptOwnsRow ==
  ASSUME ~LeaseLapse PROVE Spec => []RunningOwnsRow
<1>1. Init => FenceInv /\ StoredOwnsRow
  BY InitFenceInv DEF Init, StoredOwnsRow
<1>2. FenceInv /\ StoredOwnsRow /\ [Next]_vars => (FenceInv /\ StoredOwnsRow)'
  BY NextFenceInv, NextStoredOwnsRow
<1>3. StoredOwnsRow => RunningOwnsRow
  BY DEF StoredOwnsRow, RunningOwnsRow, RunPcs
<1>. QED
  BY <1>1, <1>2, <1>3, PTL DEF Spec

---------------------------------------------------------------------------
(* The row tells the truth about its generation, also while leases lapse.   *)
(* Late writes pass #transition only if their generation is still active in *)
(* the row, so it must be known that their attempt is the one the row means *)
(* (UniqueGeneration) and that a row left in 'switching' has no writer      *)
(* but a last renewal.                                                      *)

EndedPcs == {"release", "done", "crashed"}

\* Only an attempt that has stored its generation writes the row later.
WritersOwn ==
  \A a \in Attempt :
    /\ renewing[a] => owned[a]
    /\ pc[a] \in OwningPcs \cup {"settle"} => owned[a]

\* The attempt of a row that waits for its successor has settled.
SwitchedIsLeft ==
  \A a \in Attempt :
    owned[a] /\ gen[a] = row.generation /\ row.state = "switching" => pc[a] \in EndedPcs

\* Only a row in an active state carries a lease.
LeaseOfActive == row.state \notin ActiveStates => row.expiry # "live"

\* The inductive invariant behind RowTruthful and GenerationsInTurn, given FenceInv.
RowInv == WritersOwn /\ SwitchedIsLeft /\ LeaseOfActive /\ RowTruthful

\* The initial row is absent or idle, with a closed history.
LEMMA InitRowInv == Init => RowInv
BY ConstantsAssumption DEF Init, RowInv, WritersOwn, SwitchedIsLeft, LeaseOfActive, RowTruthful,
   RowReflectsHolder, HistoryClosed, NoRow, IdleRow, ActiveStates, OwningPcs

\* A step that does not write the row keeps RowInv, if it revives no attempt.
LEMMA UnwrittenRow ==
  ASSUME RowInv, TypeOK, TypeOK', row' = row,
         \A b \in Attempt :
           /\ owned'[b] => owned[b] /\ gen'[b] = gen[b] /\ head[b] <= head'[b]
           /\ renewing'[b] => owned'[b]
           /\ pc'[b] \in OwningPcs \cup {"settle"} => owned'[b]
           /\ owned[b] /\ pc[b] \in EndedPcs => pc'[b] \in EndedPcs
  PROVE  RowInv'
<1>1. WritersOwn'
  BY DEF WritersOwn
<1>2. SwitchedIsLeft'
  BY DEF RowInv, SwitchedIsLeft
<1>3. LeaseOfActive' /\ HistoryClosed'
  BY DEF RowInv, LeaseOfActive, RowTruthful, HistoryClosed
<1>4. RowReflectsHolder'
  <2> SUFFICES ASSUME NEW b \in Attempt, owned'[b], gen'[b] = row.generation
               PROVE  /\ row.published <= head'[b]
                      /\ row.state \in {"starting", "running"} => row.owner = Home[b]
    BY DEF RowReflectsHolder
  <2>1. row.published \in Nat /\ head[b] \in Nat /\ head'[b] \in Nat
    BY DEF TypeOK, Row
  <2>. QED
    BY <2>1 DEF RowInv, RowTruthful, RowReflectsHolder
<1>. QED
  BY <1>1, <1>2, <1>3, <1>4 DEF RowInv, RowTruthful

\* The start of the next generation keeps RowInv; the starter need not learn of it.
LEMMA StartedRow ==
  ASSUME RowInv, FenceInv, TypeOK', NEW a \in Attempt,
         pc[a] = "read", seen[a] = row.revision,
         row.state \in StartableStates \cup {"absent"},
         row' = StartRow(a), UNCHANGED <<gen, head, renewing>>,
         \A b \in Attempt : b # a => pc'[b] = pc[b] /\ owned'[b] = owned[b],
         pc'[a] \in {"stored", "release"}, pc'[a] = "stored" => owned'[a]
  PROVE  RowInv'
<1>1. /\ row.generation \in Nat /\ gen \in [Attempt -> Nat] /\ head \in [Attempt -> Nat]
      /\ ~owned[a] /\ gen[a] = row.generation + 1
  BY DEF FenceInv, ReadIsFresh, TypeOK, Row
<1>2. \A b \in Attempt : owned[b] => gen[b] <= row.generation /\ gen[b] # gen[a]
  BY <1>1 DEF FenceInv, ReadIsFresh
<1>3. row.open = {}
  BY DEF RowInv, RowTruthful, HistoryClosed, StartableStates
<1>4. /\ row'.generation = gen[a] /\ row'.state = "starting" /\ row'.owner = Home[a]
      /\ row'.published = 0 /\ row'.open = {gen[a]}
  BY <1>3 DEF StartRow
<1>5. WritersOwn'
  BY <1>1 DEF RowInv, WritersOwn, OwningPcs
<1>6. SwitchedIsLeft' /\ LeaseOfActive' /\ HistoryClosed'
  BY <1>4 DEF SwitchedIsLeft, LeaseOfActive, HistoryClosed, ActiveStates
<1>7. RowReflectsHolder'
  BY <1>1, <1>2, <1>4 DEF RowReflectsHolder
<1>. QED
  BY <1>5, <1>6, <1>7 DEF RowInv, RowTruthful

\* A write of the attempt that the row means keeps RowInv: it only extends the
\* lease, it publishes what the attempt has published, or it relinquishes the row.
LEMMA WrittenRow ==
  ASSUME RowInv, FenceInv, TypeOK, TypeOK', NEW a \in Attempt,
         owned[a], gen[a] = row.generation, row.state \in ActiveStates,
         UNCHANGED <<gen, owned, head>>,
         \A b \in Attempt : renewing'[b] => renewing[b],
         \A b \in Attempt : b # a => pc'[b] = pc[b],
         row'.generation = row.generation,
         \/ /\ row'.state = row.state /\ row'.owner = row.owner /\ row'.open = row.open
            /\ row'.published = row.published /\ pc' = pc
         \/ /\ pc[a] \in {"active", "publishing"} /\ pc'[a] = "running"
            /\ row'.state = "running" /\ row'.owner = row.owner /\ row'.open = row.open
            /\ row'.published \in {row.published, head[a]}
         \/ /\ pc'[a] = "release" /\ row'.published = row.published
            /\ row'.state \in {"complete", "failed"} \cup StopStates
            /\ row'.open = row.open \ {row.generation} /\ row'.expiry = "none"
  PROVE  RowInv'
<1>1. \A b \in Attempt : owned[b] /\ gen[b] = row.generation => b = a
  BY DEF FenceInv, UniqueGeneration
<1>2. head[a] \in Nat /\ row.published \in Nat /\ row.published <= head[a]
  BY DEF TypeOK, Row, RowInv, RowTruthful, RowReflectsHolder
<1>3. pc[a] \in {"active", "publishing"} => row.state \in {"starting", "running"}
  BY DEF RowInv, SwitchedIsLeft, EndedPcs, ActiveStates
<1>4. WritersOwn'
  BY DEF RowInv, WritersOwn, OwningPcs
<1>5. SwitchedIsLeft'
  BY <1>1 DEF RowInv, SwitchedIsLeft, EndedPcs
<1>6. LeaseOfActive'
  BY DEF LeaseOfActive, ActiveStates
<1>7. HistoryClosed'
  BY <1>3 DEF RowInv, RowTruthful, HistoryClosed, StopStates
<1>8. RowReflectsHolder'
  BY <1>1, <1>2, <1>3 DEF RowInv, RowTruthful, RowReflectsHolder, StopStates
<1>. QED
  BY <1>4, <1>5, <1>6, <1>7, <1>8 DEF RowInv, RowTruthful

\* Every step keeps RowInv, also when leases lapse under live holders.
LEMMA NextRowInv ==
  ASSUME ~LeaseLapse \/ Preexisting, FenceInv, RowInv, [Next]_vars PROVE RowInv'
<1> USE ConstantsAssumption
<1>0. TypeOK /\ TypeOK'
  BY NextTypeOK DEF FenceInv
<1>T. /\ row \in Row /\ row.revision \in Nat /\ row.generation \in Nat
      /\ pc \in [Attempt -> Pcs] /\ seen \in [Attempt -> Nat] /\ gen \in [Attempt -> Nat]
      /\ owned \in [Attempt -> BOOLEAN] /\ renewing \in [Attempt -> BOOLEAN]
      /\ head \in [Attempt -> Nat] /\ row.state \in RowStates
  BY <1>0 DEF TypeOK, Row
<1>W. WritersOwn
  BY DEF RowInv
<1>F. \A b \in Attempt : pc[b] \in FreshPcs => ~owned[b]
  BY <1>0 DEF FenceInv, ReadIsFresh, FreshPcs
<1>1. ASSUME NEW a \in Attempt, AcquireLease(a) PROVE RowInv'
  BY <1>1, <1>0, <1>T, <1>W, <1>F, UnwrittenRow DEF AcquireLease, Goto, OwningPcs, EndedPcs, FreshPcs, RunPcs, WritersOwn
<1>2. ASSUME NEW a \in Attempt, AcquireLost(a) PROVE RowInv'
  BY <1>2, <1>0, <1>T, <1>W, <1>F, UnwrittenRow DEF AcquireLost, Goto, OwningPcs, EndedPcs, FreshPcs, RunPcs, WritersOwn
<1>3. ASSUME NEW a \in Attempt, CheckSession(a) PROVE RowInv'
  BY <1>3, <1>0, <1>T, <1>W, <1>F, UnwrittenRow DEF CheckSession, Goto, OwningPcs, EndedPcs, FreshPcs, RunPcs, WritersOwn
<1>4. ASSUME NEW a \in Attempt, ReadRow(a) PROVE RowInv'
  BY <1>4, <1>0, <1>T, <1>W, <1>F, UnwrittenRow DEF ReadRow, Goto, OwningPcs, EndedPcs, FreshPcs, RunPcs, WritersOwn
<1>5. ASSUME NEW a \in Attempt, HandOff(a) PROVE RowInv'
  BY <1>5, <1>0, <1>T, <1>W, <1>F, UnwrittenRow DEF HandOff, Goto, OwningPcs, EndedPcs, FreshPcs, RunPcs, WritersOwn
<1>6. ASSUME NEW a \in Attempt, StartAgain(a) PROVE RowInv'
  BY <1>6, <1>0, <1>T, <1>W, <1>F, UnwrittenRow DEF StartAgain, Goto, OwningPcs, EndedPcs, FreshPcs, RunPcs, WritersOwn
<1>7. ASSUME NEW a \in Attempt, PublishObject(a) PROVE RowInv'
  BY <1>7, <1>0, <1>T, <1>W, <1>F, UnwrittenRow DEF PublishObject, Goto, OwningPcs, EndedPcs, FreshPcs, RunPcs, WritersOwn
<1>8. ASSUME NEW a \in Attempt, RenewLease(a) PROVE RowInv'
  BY <1>8, <1>0, <1>T, <1>W, <1>F, UnwrittenRow DEF RenewLease, Goto, OwningPcs, EndedPcs, FreshPcs, RunPcs, WritersOwn
<1>9. ASSUME NEW a \in Attempt, LoseLease(a) PROVE RowInv'
  BY <1>9, <1>0, <1>T, <1>W, <1>F, UnwrittenRow DEF LoseLease, OwningPcs, EndedPcs, RunPcs, WritersOwn
<1>10. ASSUME NEW a \in Attempt, Fail(a) PROVE RowInv'
  BY <1>10, <1>0, <1>T, <1>W, <1>F, UnwrittenRow DEF Fail, Goto, OwningPcs, EndedPcs, FreshPcs, RunPcs, WritersOwn
<1>11. ASSUME NEW a \in Attempt, ReleaseLease(a) PROVE RowInv'
  BY <1>11, <1>0, <1>T, <1>W, <1>F, UnwrittenRow DEF ReleaseLease, Goto, Forget, OwningPcs, EndedPcs, FreshPcs, RunPcs, WritersOwn
<1>12. ASSUME NEW a \in Attempt, NEW s \in StopStates, Stop(a, s) PROVE RowInv'
  BY <1>12, <1>0, <1>T, <1>W, UnwrittenRow DEF Stop, WritersOwn
<1>13. ASSUME EndSession PROVE RowInv'
  BY <1>13, <1>0, <1>T, <1>W, UnwrittenRow DEF EndSession, attemptVars, WritersOwn
<1>14. ASSUME ResumeSession PROVE RowInv'
  BY <1>14, <1>0, <1>T, <1>W, UnwrittenRow DEF ResumeSession, attemptVars, WritersOwn
<1>15. ASSUME LeaseExpires PROVE RowInv'
  BY <1>15, <1>0, <1>T, <1>W, UnwrittenRow DEF LeaseExpires, attemptVars, WritersOwn
<1>16. ASSUME UNCHANGED vars PROVE RowInv'
  BY <1>16, <1>0, <1>T, <1>W, UnwrittenRow DEF vars, attemptVars, WritersOwn
<1>17. ASSUME NEW m \in Node, Restart(m) PROVE RowInv'
  BY <1>17, <1>0, <1>T, <1>W, UnwrittenRow DEF Restart, attemptVars, WritersOwn
<1>18. ASSUME NEW m \in Node, Crash(m) PROVE RowInv'
  <2>1. /\ \A b \in Attempt : pc'[b] = pc[b] \/ pc'[b] = "crashed"
        /\ UNCHANGED <<row, gen, owned, head>>
    BY <1>18, <1>T DEF Crash
  <2>2. \A b \in Attempt : renewing'[b] => renewing[b]
    BY <1>18, Zenon DEF Crash
  <2>. QED
    BY <1>0, <1>T, <1>W, <2>1, <2>2, UnwrittenRow DEF OwningPcs, EndedPcs, WritersOwn
<1>19. ASSUME RowLeaseExpires PROVE RowInv'
  <2>1. row' = [row EXCEPT !.expiry = "expired"] /\ UNCHANGED <<pc, gen, owned, head, renewing>>
    BY <1>19 DEF RowLeaseExpires, attemptVars
  <2>. QED
    BY <1>T, <2>1 DEF RowInv, WritersOwn, SwitchedIsLeft, LeaseOfActive, RowTruthful, RowReflectsHolder,
                      HistoryClosed, Row
<1>20. ASSUME NEW m \in Node, RecoverExpired(m) PROVE RowInv'
  <2>1. UNCHANGED <<pc, gen, owned, head, renewing>>
    BY <1>20 DEF RecoverExpired, attemptVars
  <2>2. CASE row' = row
    BY <1>0, <1>T, <1>W, <2>1, <2>2, UnwrittenRow DEF WritersOwn
  <2>3. CASE row' = [Relinquished(row, "idle") EXCEPT !.revision = @ + 1]
    <3>1. /\ row'.state = "idle" /\ row'.expiry = "none" /\ row'.open = row.open \ {row.generation}
          /\ row'.generation = row.generation /\ row'.published = row.published
      BY <1>T, <2>3 DEF Relinquished, FinishAttempt, Row
    <3>. QED
      BY <2>1, <3>1 DEF RowInv, WritersOwn, SwitchedIsLeft, LeaseOfActive, RowTruthful, RowReflectsHolder,
                        HistoryClosed
  <2>. QED
    BY <1>20, <2>2, <2>3 DEF RecoverExpired
<1>21. ASSUME NEW a \in Attempt, StoreRow(a) PROVE RowInv'
  <2>1. /\ UNCHANGED <<gen, head, renewing>> /\ pc[a] = "read"
        /\ \A b \in Attempt : b # a => pc'[b] = pc[b] /\ owned'[b] = owned[b]
        /\ pc'[a] \in {"stored", "release"} /\ (pc'[a] = "stored" => owned'[a])
        /\ pc'[a] = "release" => owned' = owned
    BY <1>21, <1>T DEF StoreRow, Goto
  <2>2. seen[a] = 0 => row.revision = 0 /\ row.state = "absent"
    BY <2>1 DEF FenceInv, InsertIsSafe
  <2>3. \/ row' = row /\ pc'[a] = "release"
        \/ /\ row' = StartRow(a) /\ seen[a] = row.revision
           /\ row.state \in StartableStates \cup {"absent"}
    BY <1>21, <1>T, <2>2 DEF StoreRow, CanSet, Goto
  <2>4. CASE row' = row /\ pc'[a] = "release"
    BY <1>0, <1>T, <1>W, <1>F, <2>1, <2>4, UnwrittenRow DEF OwningPcs, EndedPcs, FreshPcs, WritersOwn
  <2>. QED
    BY <1>0, <2>1, <2>3, <2>4, StartedRow
<1>22. ASSUME NEW a \in Attempt, StoreLost(a) PROVE RowInv'
  <2>1. /\ UNCHANGED <<gen, head, renewing>> /\ pc[a] = "read"
        /\ \A b \in Attempt : b # a => pc'[b] = pc[b] /\ owned'[b] = owned[b]
        /\ pc'[a] \in {"stored", "release"} /\ (pc'[a] = "stored" => owned'[a])
        /\ pc'[a] = "release" => owned' = owned
    BY <1>22, <1>T DEF StoreLost, Goto
  <2>2. seen[a] = 0 => row.revision = 0 /\ row.state = "absent"
    BY <2>1 DEF FenceInv, InsertIsSafe
  <2>3. \/ row' = row /\ pc'[a] = "release"
        \/ /\ row' = StartRow(a) /\ seen[a] = row.revision
           /\ row.state \in StartableStates \cup {"absent"}
    BY <1>22, <1>T, <2>2 DEF StoreLost, CanSet, Goto
  <2>4. CASE row' = row /\ pc'[a] = "release"
    BY <1>0, <1>T, <1>W, <1>F, <2>1, <2>4, UnwrittenRow DEF OwningPcs, EndedPcs, FreshPcs, WritersOwn
  <2>. QED
    BY <1>0, <2>1, <2>3, <2>4, StartedRow
<1>23. ASSUME NEW a \in Attempt, BeginRunning(a) PROVE RowInv'
  <2>1. owned[a] /\ UNCHANGED <<gen, owned, head>> /\ (\A b \in Attempt : b # a => pc'[b] = pc[b])
        /\ \A b \in Attempt : renewing'[b] => renewing[b]
    BY <1>23, <1>T, <1>W DEF BeginRunning, Goto, WritersOwn, OwningPcs
  <2>2. pc[a] = "active" /\ pc'[a] = "running"
    BY <1>23, <1>T DEF BeginRunning, Goto
  <2>3. CASE row' = row
    BY <1>0, <1>T, <1>W, <2>1, <2>2, <2>3, UnwrittenRow DEF OwningPcs, EndedPcs, WritersOwn
  <2>4. CASE row' # row
    <3>1. /\ gen[a] = row.generation /\ row.state \in ActiveStates
          /\ row' = [[row EXCEPT !.state = "running"] EXCEPT !.revision = row.revision + 1]
      BY <1>23, <2>4 DEF BeginRunning, Transition
    <3>2. /\ row'.generation = row.generation /\ row'.state = "running"
          /\ row'.owner = row.owner /\ row'.open = row.open
          /\ row'.published \in {row.published, head[a]}
      BY <1>T, <3>1 DEF Row, Relinquished, FinishAttempt
    <3>. QED
      BY <1>0, <2>1, <2>2, <3>1, <3>2, WrittenRow DEF StopOutcome, StopStates
  <2>. QED
    BY <2>3, <2>4
<1>24. ASSUME NEW a \in Attempt, PublishRow(a) PROVE RowInv'
  <2>1. owned[a] /\ UNCHANGED <<gen, owned, head>> /\ (\A b \in Attempt : b # a => pc'[b] = pc[b])
        /\ \A b \in Attempt : renewing'[b] => renewing[b]
    BY <1>24, <1>T, <1>W DEF PublishRow, Goto, WritersOwn, OwningPcs
  <2>2. pc[a] = "publishing" /\ pc'[a] = "running"
    BY <1>24, <1>T DEF PublishRow, Goto
  <2>3. CASE row' = row
    BY <1>0, <1>T, <1>W, <2>1, <2>2, <2>3, UnwrittenRow DEF OwningPcs, EndedPcs, WritersOwn
  <2>4. CASE row' # row
    <3>1. /\ gen[a] = row.generation /\ row.state \in ActiveStates
          /\ row' = [[row EXCEPT !.state = "running", !.published = head[a], !.expiry = "live"] EXCEPT !.revision = row.revision + 1]
      BY <1>24, <2>4 DEF PublishRow, Transition
    <3>2. /\ row'.generation = row.generation /\ row'.state = "running"
          /\ row'.owner = row.owner /\ row'.open = row.open
          /\ row'.published \in {row.published, head[a]}
      BY <1>T, <3>1 DEF Row, Relinquished, FinishAttempt
    <3>. QED
      BY <1>0, <2>1, <2>2, <3>1, <3>2, WrittenRow DEF StopOutcome, StopStates
  <2>. QED
    BY <2>3, <2>4
<1>25. ASSUME NEW a \in Attempt, RenewRow(a) PROVE RowInv'
  <2>1. owned[a] /\ UNCHANGED <<gen, owned, head>> /\ (\A b \in Attempt : b # a => pc'[b] = pc[b])
        /\ \A b \in Attempt : renewing'[b] => renewing[b]
    BY <1>25, <1>T, <1>W DEF RenewRow, Goto, WritersOwn, OwningPcs
  <2>2. pc' = pc
    BY <1>25, <1>T DEF RenewRow, Goto
  <2>3. CASE row' = row
    BY <1>0, <1>T, <1>W, <2>1, <2>2, <2>3, UnwrittenRow DEF OwningPcs, EndedPcs, WritersOwn
  <2>4. CASE row' # row
    <3>1. /\ gen[a] = row.generation /\ row.state \in ActiveStates
          /\ row' = [[row EXCEPT !.expiry = "live"] EXCEPT !.revision = row.revision + 1]
      BY <1>25, <2>4 DEF RenewRow, Transition
    <3>2. /\ row'.generation = row.generation /\ row'.state = row.state
          /\ row'.owner = row.owner /\ row'.open = row.open /\ row'.published = row.published
      BY <1>T, <3>1 DEF Row, Relinquished, FinishAttempt
    <3>. QED
      BY <1>0, <2>1, <2>2, <3>1, <3>2, WrittenRow DEF StopOutcome, StopStates
  <2>. QED
    BY <2>3, <2>4
<1>26. ASSUME NEW a \in Attempt, Complete(a) PROVE RowInv'
  <2>1. owned[a] /\ UNCHANGED <<gen, owned, head>> /\ (\A b \in Attempt : b # a => pc'[b] = pc[b])
        /\ \A b \in Attempt : renewing'[b] => renewing[b]
    BY <1>26, <1>T, <1>W DEF Complete, Goto, WritersOwn, OwningPcs
  <2>2. pc[a] = "running" /\ pc'[a] = "release"
    BY <1>26, <1>T DEF Complete, Goto
  <2>3. CASE row' = row
    BY <1>0, <1>T, <1>W, <2>1, <2>2, <2>3, UnwrittenRow DEF OwningPcs, EndedPcs, WritersOwn
  <2>4. CASE row' # row
    <3>1. /\ gen[a] = row.generation /\ row.state \in ActiveStates
          /\ row' = [Relinquished(row, "complete") EXCEPT !.revision = row.revision + 1]
      BY <1>26, <2>4 DEF Complete, Transition
    <3>2. /\ row'.generation = row.generation /\ row'.state = "complete"
          /\ row'.published = row.published /\ row'.expiry = "none"
          /\ row'.open = row.open \ {row.generation}
      BY <1>T, <3>1 DEF Row, Relinquished, FinishAttempt
    <3>. QED
      BY <1>0, <2>1, <2>2, <3>1, <3>2, WrittenRow DEF StopOutcome, StopStates
  <2>. QED
    BY <2>3, <2>4
<1>27. ASSUME NEW a \in Attempt, Settle(a) PROVE RowInv'
  <2>1. owned[a] /\ UNCHANGED <<gen, owned, head>> /\ (\A b \in Attempt : b # a => pc'[b] = pc[b])
        /\ \A b \in Attempt : renewing'[b] => renewing[b]
    BY <1>27, <1>T, <1>W DEF Settle, Goto, WritersOwn, OwningPcs
  <2>2. pc[a] = "settle" /\ pc'[a] = "release"
    BY <1>27, <1>T DEF Settle, Goto
  <2>3. CASE row' = row
    BY <1>0, <1>T, <1>W, <2>1, <2>2, <2>3, UnwrittenRow DEF OwningPcs, EndedPcs, WritersOwn
  <2>4. CASE row' # row
    <3>1. /\ gen[a] = row.generation /\ row.state \in ActiveStates
          /\ row' = [Relinquished(row, StopOutcome(a)) EXCEPT !.revision = row.revision + 1]
      BY <1>27, <2>4 DEF Settle, Transition
    <3>2. /\ row'.generation = row.generation /\ row'.state = StopOutcome(a)
          /\ row'.published = row.published /\ row'.expiry = "none"
          /\ row'.open = row.open \ {row.generation}
      BY <1>T, <3>1 DEF Row, Relinquished, FinishAttempt
    <3>. QED
      BY <1>0, <2>1, <2>2, <3>1, <3>2, WrittenRow DEF StopOutcome, StopStates
  <2>. QED
    BY <2>3, <2>4
<1>. QED
  BY <1>1, <1>2, <1>3, <1>4, <1>5, <1>6, <1>7, <1>8, <1>9, <1>10, <1>11, <1>12, <1>13, <1>14, <1>15, <1>16, <1>17, <1>18, <1>19, <1>20, <1>21, <1>22, <1>23, <1>24, <1>25, <1>26, <1>27 DEF Next, StartStep, RunStep

\* Whatever order the writes of several attempts, renewals and recoveries arrive
\* in, the durable row is true of the generation it names.
THEOREM RowTellsTheTruth ==
  ASSUME ~LeaseLapse \/ Preexisting PROVE Spec => []RowTruthful
<1>1. Init => FenceInv /\ RowInv
  BY InitFenceInv, InitRowInv
<1>2. FenceInv /\ RowInv /\ [Next]_vars => (FenceInv /\ RowInv)'
  BY NextFenceInv, NextRowInv
<1>3. RowInv => RowTruthful
  BY DEF RowInv
<1>. QED
  BY <1>1, <1>2, <1>3, PTL DEF Spec

\* A generation follows the one before it once that was given up, and none is
\* revived: late renewals, settlements and recoveries touch active rows only.
THEOREM GenerationsFollow ==
  ASSUME ~LeaseLapse \/ Preexisting PROVE Spec => GenerationsInTurn
<1>1. Init => FenceInv /\ RowInv
  BY InitFenceInv, InitRowInv
<1>2. FenceInv /\ RowInv /\ [Next]_vars => (FenceInv /\ RowInv)'
  BY NextFenceInv, NextRowInv
<1>3. ASSUME FenceInv, RowInv, [Next]_vars
      PROVE  /\ [row.state \notin ActiveStates =>
                  /\ row'.state = "starting"
                  /\ row'.generation = row.generation + 1]_row
             /\ [row'.generation # row.generation =>
                  /\ row'.generation = row.generation + 1
                  /\ row.state \notin {"starting", "running"}]_row
  <2> SUFFICES ASSUME row' # row
               PROVE  \/ /\ row'.state = "starting" /\ row'.generation = row.generation + 1
                         /\ row.state \notin {"starting", "running"}
                      \/ row.state \in ActiveStates /\ row'.generation = row.generation
    OBVIOUS
  <2>T. row \in Row
    BY <1>3 DEF FenceInv, TypeOK
  <2>1. ASSUME NEW a \in Attempt, StoreRow(a) \/ StoreLost(a) PROVE
              /\ row'.state = "starting" /\ row'.generation = row.generation + 1
              /\ row.state \notin {"starting", "running"}
    <3>1. pc[a] = "read"
      BY <2>1 DEF StoreRow, StoreLost
    <3>2. seen[a] = 0 => row.revision = 0 /\ row.state = "absent"
      BY <1>3, <3>1 DEF FenceInv, InsertIsSafe
    <3>3. row' = StartRow(a) /\ seen[a] = row.revision /\ row.state \in StartableStates \cup {"absent"}
      BY <2>1, <3>2 DEF StoreRow, StoreLost, CanSet
    <3>4. gen[a] = row.generation + 1
      BY <1>3, <3>1, <3>3 DEF FenceInv, ReadIsFresh
    <3>. QED
      BY <3>3, <3>4 DEF StartRow, StartableStates
  <2>3. ASSUME NEW a \in Attempt, BeginRunning(a) \/ PublishRow(a) \/ RenewRow(a)
        PROVE  row.state \in ActiveStates /\ row'.generation = row.generation
    BY <2>T, <2>3 DEF BeginRunning, PublishRow, RenewRow, Transition, Row
  <2>4. ASSUME NEW a \in Attempt, Complete(a) \/ Settle(a)
        PROVE  row.state \in ActiveStates /\ row'.generation = row.generation
    BY <2>T, <2>4 DEF Complete, Settle, Transition, Relinquished, FinishAttempt, Row
  <2>5. ASSUME RowLeaseExpires PROVE row.state \in ActiveStates /\ row'.generation = row.generation
    BY <1>3, <2>T, <2>5 DEF RowLeaseExpires, RowInv, LeaseOfActive, Row
  <2>6. ASSUME NEW n \in Node, RecoverExpired(n)
        PROVE  row.state \in ActiveStates /\ row'.generation = row.generation
    BY <2>T, <2>6 DEF RecoverExpired, Relinquished, FinishAttempt, Row
  <2>7. ASSUME NEW a \in Attempt,
               \/ AcquireLease(a) \/ CheckSession(a) \/ ReadRow(a) \/ HandOff(a) \/ StartAgain(a)
               \/ AcquireLost(a) \/ PublishObject(a) \/ RenewLease(a) \/ LoseLease(a) \/ Fail(a)
               \/ ReleaseLease(a)
        PROVE  FALSE
    BY <2>7 DEF AcquireLease, CheckSession, ReadRow, HandOff, StartAgain, AcquireLost, PublishObject,
       RenewLease, LoseLease, Fail, ReleaseLease
  <2>8. ASSUME \/ \E a \in Attempt, s \in StopStates : Stop(a, s)
               \/ EndSession \/ ResumeSession \/ LeaseExpires
               \/ \E n \in Node : Crash(n) \/ Restart(n)
               \/ UNCHANGED vars
        PROVE  FALSE
    BY <2>8 DEF Stop, EndSession, ResumeSession, LeaseExpires, Crash, Restart, vars
  <2>. QED
    BY <1>3, <2>1, <2>3, <2>4, <2>5, <2>6, <2>7, <2>8 DEF Next, StartStep, RunStep
<1>. QED
  BY <1>1, <1>2, <1>3, PTL DEF Spec, GenerationsInTurn, NotRevived, NoTakeover

=============================================================================
