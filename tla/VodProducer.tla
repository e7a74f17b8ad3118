---------------------------- MODULE VodProducer ----------------------------
(***************************************************************************)
(* The durable producer protocol of one VOD session, cluster wide: the     *)
(* versioned vod_producers row, the lease in the coordination store, and   *)
(* the start attempts that source workers make to become its producer      *)
(* (VodProducerCoordinator.#startExclusive, #run, #transition and          *)
(* recoverExpired).  A step of an attempt is the code between two awaits.  *)
(*                                                                         *)
(* An element of Attempt is one call of #startExclusive, named by the      *)
(* random owner it takes the lease with; Home gives its source worker.     *)
(* Which requests make a worker start or stop an attempt is decided by the *)
(* in-process coordinator (module VodCoordinator), so here any worker may  *)
(* do either at any time.                                                  *)
(***************************************************************************)
EXTENDS Naturals

CONSTANTS
    Node,          \* source workers
    Attempt,       \* start attempts, each with a lease owner of its own
    Home,          \* the worker that makes an attempt
    None,          \* no lease holder, no row owner
    PinnedNode,    \* the worker a placement-locked session is assigned to
    Preexisting,   \* TRUE: an earlier producer left its (idle) row behind
    LeaseLapse,    \* TRUE: a lease can expire under a live holder
    MaxSegments,   \* bound: segments one attempt publishes
    MaxRevision,   \* bound: row revision at which optional writes stop
    MaxFaults      \* bound: crashes and failing backend calls

ASSUME ConstantsAssumption ==
    /\ Home \in [Attempt -> Node]
    /\ None \notin Node
    /\ None \notin Attempt
    /\ PinnedNode \in Node \cup {None}
    /\ Preexisting \in BOOLEAN
    /\ LeaseLapse \in BOOLEAN
    /\ MaxSegments \in Nat
    /\ MaxRevision \in Nat
    /\ MaxFaults \in Nat

VARIABLES
    session,   \* the durable session the producer belongs to
    row,       \* the vod_producers row
    lease,     \* owner stored under the lease key, or None
    pc,        \* where each attempt stands
    gen,       \* generation computed by each attempt
    seen,      \* row revision each attempt read (0: there was no row)
    owned,     \* TRUE once the attempt believes its generation is stored
    head,      \* number of segments each attempt has published
    stopState, \* the attempt's AbortController: "none" while not the
               \* state to settle in, or "lost" (lease loss, failing timer)
    renewing,  \* a lease renewal succeeded and its row write is in flight
    up,        \* each worker process: up, recovering (start-up) or down
    faults     \* crashes and backend failures so far

attemptVars == <<pc, gen, seen, owned, head, stopState, renewing>>
vars == <<session, row, lease, attemptVars, up, faults>>

---------------------------------------------------------------------------
(* The row.  State "absent" with revision 0 stands for a missing row.      *)

RowStates == {"absent", "idle", "starting", "running", "switching",
              "complete", "failed", "cancelled"}
MutantActiveStates == {"running", "switching"}
ActiveStates == {"starting", "running", "switching"}
StartableStates == {"idle", "switching", "complete", "failed", "cancelled"}
StopStates == {"idle", "switching", "cancelled"}

\* leaseExpiresAt is undefined, in the future or in the past; open holds the
\* generations whose workerHistory entry is still in state 'running'.
Row == [state: RowStates, generation: Nat, revision: Nat,
        owner: Node \cup {None}, expiry: {"none", "live", "expired"},
        published: Nat, open: SUBSET Nat]

NoRow == [state |-> "absent", generation |-> 0, revision |-> 0, owner |-> None,
          expiry |-> "none", published |-> 0, open |-> {}]
IdleRow == [state |-> "idle", generation |-> 1, revision |-> 1, owner |-> None,
            expiry |-> "none", published |-> 0, open |-> {}]

Pcs == {"idle", "leased", "checked", "read", "stored", "active", "running",
        "publishing", "settle", "release", "done", "crashed"}
\* #startExclusive up to the hand-off, and #run
StartPcs == {"leased", "checked", "read", "stored"}
RunPcs == {"active", "running", "publishing"}
Over(a) == pc[a] \in {"done", "crashed"}

\* The record #startExclusive writes for a new generation.
MutantStartRow(a) ==
    [state |-> "starting", generation |-> gen[a], revision |-> row.revision + 1,
     owner |-> a, expiry |-> "live", published |-> 0,
     open |-> row.open \cup {gen[a]}]
StartRow(a) ==
    [state |-> "starting", generation |-> gen[a], revision |-> row.revision + 1,
     owner |-> Home[a], expiry |-> "live", published |-> 0,
     open |-> row.open \cup {gen[a]}]

\* #finishAttempt: closes the history entry of the row's own generation.
\* (Its slice to the last 100 entries is left out.)
FinishAttempt(r) == [r EXCEPT !.open = @ \ {r.generation}]

\* A row that leaves its worker: no owner, no lease, history closed.
Relinquished(r, s) ==
    [FinishAttempt(r) EXCEPT !.state = s, !.owner = None, !.expiry = "none"]

\* compareAndSetVodProducer: applies only at the expected revision, and only
\* from one of the allowed states.
MutantCanSet(revision, states) == row.state \in states
CanSet(revision, states) == row.revision = revision /\ row.state \in states

\* #transition reads the row, gives up on another generation, and writes with
\* the revision it read, five times at most.  A write that applies is atomic.
\* No write is applied to a row that another generation owns or that has left
\* the active states; the caller is not told.
MutantNoGenerationFence(a, r) ==
    IF row.state \in ActiveStates
      THEN [r EXCEPT !.revision = row.revision + 1] ELSE row
MutantNoStateFence(a, r) ==
    IF row.generation = gen[a]
      THEN [r EXCEPT !.revision = row.revision + 1] ELSE row
Transition(a, r) ==
    IF row.generation = gen[a] /\ row.state \in ActiveStates
      THEN [r EXCEPT !.revision = row.revision + 1] ELSE row

\* The outcome #run settles in: the stop state if the attempt was stopped,
\* 'failed' for anything else (lease loss and progress stalls abort without one).
Aborted(a) == stopState[a] # "none"
StopOutcome(a) == IF stopState[a] \in StopStates THEN stopState[a] ELSE "failed"

---------------------------------------------------------------------------
Init ==
    /\ session = "open"
    /\ row = IF Preexisting THEN IdleRow ELSE NoRow
    /\ lease = None
    /\ pc = [a \in Attempt |-> "idle"]
    /\ gen = [a \in Attempt |-> 0]
    /\ seen = [a \in Attempt |-> 0]
    /\ owned = [a \in Attempt |-> FALSE]
    /\ head = [a \in Attempt |-> 0]
    /\ stopState = [a \in Attempt |-> "none"]
    /\ renewing = [a \in Attempt |-> FALSE]
    /\ up = [n \in Node |-> "up"]
    /\ faults = 0

Goto(a, l) == pc' = [pc EXCEPT ![a] = l]

\* coordination.acquire: the key is set only if it is absent.  Without the
\* lease #startExclusive returns undefined.
MutantAcquireAlways(a) ==
    /\ pc[a] = "idle"
    /\ up[Home[a]] = "up"
    /\ lease' = a
    /\ Goto(a, "leased")
    /\ UNCHANGED <<session, row, gen, seen, owned, head, stopState,
                   renewing, up, faults>>
AcquireLease(a) ==
    /\ pc[a] = "idle"
    /\ up[Home[a]] = "up"
    /\ IF lease = None
         THEN lease' = a /\ Goto(a, "leased")
         ELSE UNCHANGED lease /\ Goto(a, "done")
    /\ UNCHANGED <<session, row, gen, seen, owned, head, stopState,
                   renewing, up, faults>>

\* The reply to acquire is lost: #startExclusive throws without the lease, which
\* the store may nevertheless have set and will keep until it expires.
AcquireLost(a) ==
    /\ pc[a] = "idle"
    /\ up[Home[a]] = "up"
    /\ faults < MaxFaults
    /\ faults' = faults + 1
    /\ lease' \in {lease, IF lease = None THEN a ELSE lease}
    /\ Goto(a, "done")
    /\ UNCHANGED <<session, row, gen, seen, owned, head, stopState,
                   renewing, up>>

\* The session is re-read under the lease; a missing, stopped or elsewhere
\* locked session, and an abort, leave through the finally block.
Admissible(a) ==
    /\ ~Aborted(a)
    /\ session = "open"
    /\ PinnedNode \in {None, Home[a]}

CheckSession(a) ==
    /\ pc[a] = "leased"
    /\ Goto(a, IF Admissible(a) THEN "checked" ELSE "release")
    /\ UNCHANGED <<session, row, lease, gen, seen, owned, head, stopState, renewing, up, faults>>

\* The row is read and the next generation computed from it.
ReadRow(a) ==
    /\ pc[a] = "checked"
    /\ IF Aborted(a)
         THEN Goto(a, "release") /\ UNCHANGED <<gen, seen>>
         ELSE /\ Goto(a, "read")
              /\ gen' = [gen EXCEPT ![a] = row.generation + 1]
              /\ seen' = [seen EXCEPT ![a] = row.revision]
    /\ UNCHANGED <<session, row, lease, owned, head, stopState,
                   renewing, up, faults>>

\* The new generation is stored: a compare-and-set of the row that was read, or
\* an insert if there was none.  createVodProducer reports created = FALSE when
\* another attempt inserted first, but the result has no 'applied' field, so
\* #startExclusive goes on as if its row had been stored.
StoreRow(a) ==
    /\ pc[a] = "read"
    /\ IF Aborted(a)
         THEN Goto(a, "release") /\ UNCHANGED <<row, owned>>
         ELSE \/ /\ seen[a] = 0
                 /\ row' = IF row.revision = 0 THEN StartRow(a) ELSE row
                 /\ owned' = [owned EXCEPT ![a] = TRUE]
                 /\ Goto(a, "stored")
              \/ /\ seen[a] # 0
                 /\ CanSet(seen[a], StartableStates)
                 /\ row' = StartRow(a)
                 /\ owned' = [owned EXCEPT ![a] = TRUE]
                 /\ Goto(a, "stored")
              \/ /\ seen[a] # 0
                 /\ ~CanSet(seen[a], StartableStates)
                 /\ Goto(a, "release")
                 /\ UNCHANGED <<row, owned>>
    /\ UNCHANGED <<session, lease, gen, seen, head, stopState,
                   renewing, up, faults>>

\* The reply to the store is lost: #startExclusive throws without having noted a
\* persisted generation, and settles nothing even if the row was written.
StoreLost(a) ==
    /\ pc[a] = "read"
    /\ ~Aborted(a)
    /\ faults < MaxFaults
    /\ faults' = faults + 1
    /\ row' \in {row, IF CanSet(seen[a], StartableStates \cup {"absent"})
                        THEN StartRow(a) ELSE row}
    /\ Goto(a, "release")
    /\ UNCHANGED <<session, lease, gen, seen, owned, head, stopState,
                   renewing, up>>

\* Hand-off to #run, or, when the attempt was aborted while it stored its row,
\* the finally block that settles the row it leaves behind.
HandOff(a) ==
    /\ pc[a] = "stored"
    /\ Goto(a, IF Aborted(a) THEN "settle" ELSE "active")
    /\ UNCHANGED <<session, row, lease, gen, seen, owned, head, stopState,
                   renewing, up, faults>>

\* #run has a worker slot and a prepared source: the row becomes 'running'.
BeginRunning(a) ==
    /\ pc[a] = "active"
    /\ row' = Transition(a, [row EXCEPT !.state = "running"])
    /\ Goto(a, "running")
    /\ UNCHANGED <<session, lease, gen, seen, owned, head, stopState,
                   renewing, up, faults>>

\* A finished segment goes to the object store first ...
PublishObject(a) ==
    /\ pc[a] = "running"
    /\ ~Aborted(a)
    /\ head[a] < MaxSegments
    /\ row.revision < MaxRevision
    /\ head' = [head EXCEPT ![a] = @ + 1]
    /\ Goto(a, "publishing")
    /\ UNCHANGED <<session, row, lease, gen, seen, owned, stopState,
                   renewing, up, faults>>

\* ... and then into the row, which also extends its lease.
PublishRow(a) ==
    /\ pc[a] = "publishing"
    /\ row' = Transition(a, [row EXCEPT !.state = "running", !.published = head[a],
                                        !.expiry = "live"])
    /\ Goto(a, "running")
    /\ UNCHANGED <<session, lease, gen, seen, owned, head, stopState,
                   renewing, up, faults>>

\* The renewal timer of #run, from the running state until the finally block
\* clears it.  A renewed lease is then written to the row; ...
RenewLease(a) ==
    /\ pc[a] \in {"running", "publishing", "settle"}
    /\ ~renewing[a]
    /\ lease = a
    /\ row.revision < MaxRevision
    /\ renewing' = [renewing EXCEPT ![a] = TRUE]
    /\ UNCHANGED <<session, row, lease, pc, gen, seen, owned, head, stopState,
                   up, faults>>

\* ... a lease that another attempt took or that expired aborts this one, and so
\* does a failing call of either timer.  An abort in the catch block is moot.
LoseLease(a) ==
    /\ pc[a] \in {"running", "publishing"}
    /\ ~Aborted(a)
    /\ \/ lease # a /\ UNCHANGED faults
       \/ faults < MaxFaults /\ faults' = faults + 1
    /\ stopState' = [stopState EXCEPT ![a] = "lost"]
    /\ UNCHANGED <<session, row, lease, pc, gen, seen, owned, head, renewing, up>>

\* The row write of a renewal; it may land after the attempt is over.
\* Demand bookkeeping (#refreshDemand, #ensureRequest) writes through the same
\* transition and changes only fields this module leaves out.
RenewRow(a) ==
    /\ renewing[a]
    /\ row' = Transition(a, [row EXCEPT !.expiry = "live"])
    /\ renewing' = [renewing EXCEPT ![a] = FALSE]
    /\ UNCHANGED <<session, lease, pc, gen, seen, owned, head, stopState, up, faults>>

\* FFmpeg ended cleanly and the terminal segment was published.
Complete(a) ==
    /\ pc[a] = "running"
    /\ ~Aborted(a)
    /\ head[a] > 0
    /\ row' = Transition(a, Relinquished(row, "complete"))
    /\ Goto(a, "release")
    /\ UNCHANGED <<session, lease, gen, seen, owned, head, stopState,
                   renewing, up, faults>>

\* #run leaves through its catch block: the worker queue, the source, FFmpeg or
\* a publication failed, or the attempt was aborted.
Fail(a) ==
    /\ pc[a] \in RunPcs
    /\ Goto(a, "settle")
    /\ UNCHANGED <<session, row, lease, gen, seen, owned, head, stopState, renewing, up, faults>>

\* The best-effort row write of the catch block (and of #startExclusive's
\* finally block): a failing write is swallowed and the row stays as it is.
Settle(a) ==
    /\ pc[a] = "settle"
    /\ Goto(a, "release")
    /\ \/ /\ row' = Transition(a, Relinquished(row, StopOutcome(a)))
          /\ UNCHANGED faults
       \/ /\ faults < MaxFaults
          /\ faults' = faults + 1
          /\ UNCHANGED row
    /\ UNCHANGED <<session, lease, gen, seen, owned, head, stopState,
                   renewing, up>>

\* Best-effort release: the key is deleted only while the attempt owns it.
\* What only the attempt itself could still use is forgotten with it.
Forget(A) ==
    /\ seen' = [a \in Attempt |-> IF a \in A THEN 0 ELSE seen[a]]
    /\ stopState' = [a \in Attempt |-> IF a \in A THEN "none" ELSE stopState[a]]

ReleaseLease(a) ==
    /\ pc[a] = "release"
    /\ Goto(a, "done")
    /\ Forget({a})
    /\ \/ /\ lease' = IF lease = a THEN None ELSE lease
          /\ UNCHANGED faults
       \/ /\ faults < MaxFaults
          /\ faults' = faults + 1
          /\ UNCHANGED lease
    /\ UNCHANGED <<session, row, gen, owned, head, renewing, up>>

\* A start that never stored a row is over; the next request starts anew.
StartAgain(a) ==
    /\ pc[a] = "done"
    /\ ~owned[a]
    /\ lease # a
    /\ session = "open"
    /\ Goto(a, "idle")
    /\ gen' = [gen EXCEPT ![a] = 0]
    /\ UNCHANGED <<session, row, lease, seen, owned, head, stopState, renewing,
                   up, faults>>

\* #stopProducer (stop, drain, close, seek) and #refreshDemand (idle, switch,
\* stopped or deleted session) abort an attempt and say why.
Stop(a, s) ==
    /\ pc[a] \in StartPcs \cup RunPcs
    /\ stopState' = [stopState EXCEPT ![a] = s]
    /\ UNCHANGED <<session, row, lease, pc, gen, seen, owned, head, renewing,
                   up, faults>>

\* The session is stopped or deleted by an operator or the retention sweep.
EndSession ==
    /\ session = "open"
    /\ session' = "closed"
    /\ UNCHANGED <<row, lease, attemptVars, up, faults>>

\* A stopped session is resumed.
ResumeSession ==
    /\ session = "closed"
    /\ session' = "open"
    /\ UNCHANGED <<row, lease, attemptVars, up, faults>>

---------------------------------------------------------------------------
(* Time, crashes and start-up recovery.                                    *)

\* The coordination store drops a lease whose holder stopped renewing it: the
\* holder is over, or (LeaseLapse) it waits for a worker slot or for its source
\* longer than LEASE_MS, or its process stalls.  Renewal begins only in the
\* running state.
LeaseExpires ==
    /\ lease # None
    /\ LeaseLapse \/ Over(lease)
    /\ lease' = None
    /\ UNCHANGED <<session, row, attemptVars, up, faults>>

\* The row's own leaseExpiresAt passes.
RowLeaseExpires ==
    /\ row.expiry = "live"
    /\ LeaseLapse \/ \A a \in Attempt : owned[a] /\ gen[a] = row.generation => Over(a)
    /\ row' = [row EXCEPT !.expiry = "expired"]
    /\ UNCHANGED <<session, lease, attemptVars, up, faults>>

\* A worker process dies with every attempt it runs.
Crash(n) ==
    /\ faults < MaxFaults
    /\ up[n] # "down"
    /\ faults' = faults + 1
    /\ up' = [up EXCEPT ![n] = "down"]
    /\ pc' = [a \in Attempt |->
                IF Home[a] = n /\ pc[a] \notin {"idle", "done"} THEN "crashed" ELSE pc[a]]
    /\ renewing' = [a \in Attempt |-> IF Home[a] = n THEN FALSE ELSE renewing[a]]
    /\ Forget({a \in Attempt : pc'[a] = "crashed"})
    /\ UNCHANGED <<session, row, lease, gen, owned, head>>

Restart(n) ==
    /\ up[n] = "down"
    /\ up' = [up EXCEPT ![n] = "recovering"]
    /\ UNCHANGED <<session, row, lease, attemptVars, faults>>

\* recoverExpired runs once, at start-up, before the worker serves requests: an
\* active row whose lease is not in the future is returned to 'idle'.
MutantRecoverUnexpired(n) ==
    /\ up[n] = "recovering"
    /\ up' = [up EXCEPT ![n] = "up"]
    /\ row' = IF row.state \in ActiveStates
                THEN [Relinquished(row, "idle") EXCEPT !.revision = @ + 1]
                ELSE row
    /\ UNCHANGED <<session, lease, attemptVars, faults>>
RecoverExpired(n) ==
    /\ up[n] = "recovering"
    /\ up' = [up EXCEPT ![n] = "up"]
    /\ row' = IF row.state \in ActiveStates /\ row.expiry # "live"
                THEN [Relinquished(row, "idle") EXCEPT !.revision = @ + 1]
                ELSE row
    /\ UNCHANGED <<session, lease, attemptVars, faults>>

---------------------------------------------------------------------------
StartStep(a) ==
    \/ AcquireLease(a) \/ CheckSession(a) \/ ReadRow(a) \/ StoreRow(a)
    \/ HandOff(a) \/ StartAgain(a) \/ AcquireLost(a) \/ StoreLost(a)

RunStep(a) ==
    \/ BeginRunning(a) \/ PublishObject(a) \/ PublishRow(a) \/ RenewLease(a)
    \/ LoseLease(a) \/ RenewRow(a) \/ Complete(a) \/ Fail(a) \/ Settle(a) \/ ReleaseLease(a)

Next ==
    \/ \E a \in Attempt : StartStep(a) \/ RunStep(a)
    \/ \E a \in Attempt, s \in StopStates : Stop(a, s)
    \/ EndSession \/ ResumeSession \/ LeaseExpires \/ RowLeaseExpires
    \/ \E n \in Node : Crash(n) \/ Restart(n) \/ RecoverExpired(n)

Spec == Init /\ [][Next]_vars

\* The event loop keeps running every attempt's continuations and its renewal
\* timer; FFmpeg reacts to its abort signal; time passes; a dead worker is
\* restarted by its supervisor.
\* Whether a healthy attempt publishes, completes or fails is left open.
Fairness ==
    /\ \A a \in Attempt :
         /\ WF_vars(StartStep(a))
         /\ WF_vars(Aborted(a) /\ Fail(a))
         /\ WF_vars(LoseLease(a))
         /\ WF_vars(PublishRow(a) \/ RenewRow(a) \/ Settle(a) \/ ReleaseLease(a))
    /\ WF_vars(LeaseExpires)
    /\ WF_vars(RowLeaseExpires)
    /\ \A n \in Node : WF_vars(Restart(n) \/ RecoverExpired(n))

FairSpec == Spec /\ Fairness

---------------------------------------------------------------------------
(* Properties.                                                             *)

TypeOK ==
    /\ session \in {"open", "closed"}
    /\ row \in Row
    /\ lease \in Attempt \cup {None}
    /\ pc \in [Attempt -> Pcs]
    /\ gen \in [Attempt -> Nat]
    /\ seen \in [Attempt -> Nat]
    /\ owned \in [Attempt -> BOOLEAN]
    /\ head \in [Attempt -> Nat]
    /\ stopState \in [Attempt -> StopStates \cup {"none", "lost"}]
    /\ renewing \in [Attempt -> BOOLEAN]
    /\ up \in [Node -> {"up", "recovering", "down"}]
    /\ faults \in 0 .. MaxFaults

\* No two start attempts, on whatever workers, ever run under the same
\* generation: the generation is the fence every later write relies on
\* (#startExclusive, #transition).
UniqueGeneration ==
    \A a, b \in Attempt : owned[a] /\ owned[b] /\ gen[a] = gen[b] => a = b

\* One session has one producer: at most one attempt is between hand-off and
\* its catch block, the part of #run that reads the provider's source.
SingleProducer ==
    \A a, b \in Attempt : pc[a] \in RunPcs /\ pc[b] \in RunPcs => a = b

\* A running attempt still owns the durable row: recovery, other workers and
\* late writes of earlier generations never take it away (recoverExpired,
\* #transition).  Needs leases that do not lapse under a live holder.
RunningOwnsRow ==
    \A a \in Attempt : pc[a] \in RunPcs =>
        /\ row.generation = gen[a]
        /\ row.state = IF pc[a] = "active" THEN "starting" ELSE "running"

\* The row never claims more than its generation's attempt has published to the
\* object store, and names that attempt's worker while it is live, however
\* late or stale the writes of other attempts are (#transition).
RowReflectsHolder ==
    \A a \in Attempt : owned[a] /\ gen[a] = row.generation =>
        /\ row.published <= head[a]
        /\ row.state \in {"starting", "running"} => row.owner = Home[a]

\* The worker history has an entry left open exactly while the row is starting
\* or running, and then only that of its own generation (#finishAttempt).
HistoryClosed ==
    row.open = IF row.state \in {"starting", "running"} THEN {row.generation} ELSE {}

\* Whatever order the writes of several attempts, a renewal and a recovery arrive
\* in, the durable row tells the truth about the generation it names.
RowTruthful == RowReflectsHolder /\ HistoryClosed

\* Between acquire and release an attempt holds the lease, unless leases lapse.
HoldsLease ==
    \A a \in Attempt :
        pc[a] \in StartPcs \cup RunPcs \cup {"settle", "release"} => lease = a

\* What makes the generation a fence: a stored generation is never ahead of the
\* row, and a start that read the newest revision computed a fresh generation.
ReadIsFresh ==
    \A a \in Attempt :
        /\ owned[a] => gen[a] <= row.generation
        /\ pc[a] \in {"idle", "leased", "checked", "read"} => ~owned[a]
        /\ pc[a] = "read" =>
             /\ seen[a] <= row.revision
             /\ seen[a] = row.revision => gen[a] = row.generation + 1

\* A start that found no row inserts one that no other attempt inserted: either
\* the row exists from the outset, or the lease still excludes the others.
InsertIsSafe ==
    /\ row.revision = 0 => row.state = "absent" /\ ~Preexisting
    /\ \A a \in Attempt : pc[a] = "read" /\ seen[a] = 0 =>
         row.revision = 0 /\ ~Preexisting

\* The inductive invariant behind UniqueGeneration.
FenceInv == TypeOK /\ UniqueGeneration /\ ReadIsFresh /\ InsertIsSafe
                   /\ (~LeaseLapse => HoldsLease)

\* From the store to the catch block a lease-holding attempt's row is live, so
\* that no recovery takes it.
StoredOwnsRow ==
    \A a \in Attempt :
        /\ renewing[a] => owned[a]
        /\ pc[a] \in {"stored", "active", "running", "publishing", "settle"} => owned[a]
        /\ pc[a] \in {"stored", "active", "running", "publishing"} =>
             /\ row.generation = gen[a]
             /\ row.expiry = "live"
             /\ row.state = IF pc[a] \in {"stored", "active"} THEN "starting" ELSE "running"

\* A row that left the active states changes only by the start of the next
\* generation: late writes never revive it (#transition's allowed states).
NotRevived ==
    [][row.state \notin ActiveStates =>
         /\ row'.state = "starting"
         /\ row'.generation = row.generation + 1]_row

\* A generation is replaced only after it was given up or recovered, never
\* while it is starting or running (the compare-and-set of #startExclusive).
NoTakeover ==
    [][row'.generation # row.generation =>
         /\ row'.generation = row.generation + 1
         /\ row.state \notin {"starting", "running"}]_row

\* The generations of a session follow one another: each is given up before the
\* next one starts, and none comes back (#startExclusive, #transition).
GenerationsInTurn == NotRevived /\ NoTakeover

\* A stopped attempt gives its row up and ends (#stopProducer awaits it).
StopSettles ==
    \A a \in Attempt : Aborted(a) /\ ~Over(a) ~>
        Over(a) /\ ~(owned[a] /\ row.generation = gen[a] /\ row.state \in {"starting", "running"})

\* A producer that lost its lease, and so may have a rival, ends: the renewal
\* timer notices however the rival, the row and other timers interleave.
LostLeaseEnds ==
    \A a \in Attempt : pc[a] = "running" /\ lease # a ~> pc[a] \notin RunPcs

\* An attempt that should end does: it was stopped, or its lease is gone.
AttemptsEnd == StopSettles /\ LostLeaseEnds

=============================================================================
