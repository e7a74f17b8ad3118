----------------------------- MODULE SegmentJobs -----------------------------
(***************************************************************************)
(* The distributed job that generates one segment outside a persistent     *)
(* producer (SessionJobCoordinator): the durable segment_jobs row, the     *)
(* lease of its content key, the calls of generateDistributedSegment on    *)
(* controllers and workers, and the operator's cancelJob and retryJob.     *)
(*                                                                         *)
(* Row updates read the row and compare-and-set it at the revision they    *)
(* read, five times at most.  An update that applies is atomic; one that   *)
(* keeps conflicting throws, like a failing store (StoreFails).            *)
(***************************************************************************)
EXTENDS Naturals

CONSTANTS
    Call,          \* calls of generateDistributedSegment
    None,
    RetryLimit,    \* attempts a job may use before it needs a manual retry (3)
    MaxOperator,   \* bound: cancellations and manual retries
    MaxEvictions,  \* bound: times the object is evicted
    MaxFaults      \* bound: crashes, failing backend calls, leases that lapse and
                   \* replies that stay under way

ASSUME JobAssumption ==
    /\ None \notin Call
    /\ RetryLimit \in Nat \ {0}
    /\ MaxOperator \in Nat /\ MaxEvictions \in Nat /\ MaxFaults \in Nat

VARIABLES
    job,        \* the segment_jobs row
    object,     \* the segment is in the object store
    lease,      \* owner of the content key's lease
    pc,         \* where each call stands
    mode,       \* local or remote generation
    mine,       \* attempts of the call's own copy of the job
    left,       \* iterations its retry loop has left
    aborted,    \* its leaseController
    reply,      \* attempts in a renewal's reply that is still under way
    operator, evictions, faults,
    tries,      \* history: attempts begun since the last manual retry, counted up
                \* to RetryLimit + 1
    lapsed,     \* history: a lease expired under a live call
    overtook    \* history: a renewal's reply took back a call's newer copy

callVars == <<pc, mode, mine, left, aborted, reply>>
counters == <<operator, evictions, faults>>
ghosts == <<tries, lapsed, overtook>>
vars == <<job, object, lease, callVars, counters, ghosts>>

\* The row; 'leased' is allowed for but never written.  Of the worker history only
\* the latest entry's state counts, and whether an earlier one is left running.
JobStates == {"absent", "queued", "running", "complete", "failed", "cancelled"}
EntryStates == {"none", "running", "complete", "failed", "cancelled"}
Job == [state: JobStates, attempts: Nat, expiry: {"none", "live", "expired"},
        latest: EntryStates, stale: BOOLEAN]
NoJob == [state |-> "absent", attempts |-> 0, expiry |-> "none", latest |-> "none",
          stale |-> FALSE]

Pcs == {"idle", "waiting", "leased", "started", "looping", "trying", "tried", "excepted",
        "completing", "failing", "releasing", "done", "crashed"}
Working == {"started", "looping", "trying", "tried", "excepted", "completing", "failing"}
Over(c) == pc[c] \in {"done", "crashed"}

\* finishLatestAttempt
FinishLatest(r, s) == [r EXCEPT !.latest = IF @ = "running" THEN s ELSE @]

Init ==
    /\ job = NoJob /\ object = FALSE /\ lease = None
    /\ pc = [c \in Call |-> "idle"]
    /\ mode = [c \in Call |-> "local"]
    /\ mine = [c \in Call |-> 0]
    /\ left = [c \in Call |-> 0]
    /\ aborted = [c \in Call |-> FALSE]
    /\ reply = [c \in Call |-> None]
    /\ operator = 0 /\ evictions = 0 /\ faults = 0
    /\ tries = 0 /\ lapsed = FALSE /\ overtook = FALSE

Goto(c, l) == pc' = [pc EXCEPT ![c] = l]
Copy(c, n) == mine' = [mine EXCEPT ![c] = n]

\* The call is over and what only it could still use is forgotten.
End(c, l) ==
    /\ Goto(c, l)
    /\ Copy(c, 0)
    /\ left' = [left EXCEPT ![c] = 0]
    /\ mode' = [mode EXCEPT ![c] = "local"]
    /\ aborted' = [aborted EXCEPT ![c] = FALSE]

---------------------------------------------------------------------------
(* A call of generateDistributedSegment.                                   *)

\* Without the lease the call polls the object store.
MutantAcquire(c) ==
    /\ pc[c] = "idle"
    /\ lease' = c
    /\ Goto(c, "leased")
    /\ UNCHANGED <<job, object, mode, mine, left, aborted, reply, counters, ghosts>>
Acquire(c) ==
    /\ pc[c] = "idle"
    /\ IF lease = None
         THEN lease' = c /\ Goto(c, "leased")
         ELSE UNCHANGED lease /\ Goto(c, "waiting")
    /\ UNCHANGED <<job, object, mode, mine, left, aborted, reply, counters, ghosts>>

\* The polling ends with the object, an abort or the deadline; the call never
\* tries for the lease again.
WaitEnds(c) ==
    /\ pc[c] = "waiting"
    /\ End(c, "done")
    /\ UNCHANGED <<job, object, lease, reply, counters, ghosts>>

\* #startJob keeps the attempts and the history of the row it finds.  A cancelled
\* job, and a failing store, leave the call before its try block: the lease stays.
Started(r) == [r EXCEPT !.state = "running", !.expiry = "live"]
MutantStartJob(c) ==
    /\ pc[c] = "leased"
    /\ job' = Started(job)
    /\ Copy(c, job.attempts)
    /\ Goto(c, "started")
    /\ UNCHANGED <<object, lease, mode, left, aborted, reply, counters, ghosts>>
StartJob(c) ==
    /\ pc[c] = "leased"
    /\ \/ /\ job.state # "cancelled"
          /\ job' = Started(job)
          /\ Copy(c, job.attempts)
          /\ Goto(c, "started")
          /\ UNCHANGED <<mode, left, aborted, faults>>
       \/ /\ job.state = "cancelled"
          /\ End(c, "done")
          /\ UNCHANGED <<job, faults>>
       \/ /\ faults < MaxFaults
          /\ faults' = faults + 1
          /\ End(c, "done")
          /\ UNCHANGED job
    /\ UNCHANGED <<object, lease, reply, operator, evictions, ghosts>>

\* #remoteCandidates: connected workers with a healthy binding, or none.
remoteCandidates == {"remote", "local"}

\* With remote candidates the call may use the attempts the job has left, locally a
\* single one.  It fails if there are none, and locally without
\* the source-worker role.
Plan(c) ==
    /\ pc[c] = "started"
    /\ \E m \in remoteCandidates :
         /\ mode' = [mode EXCEPT ![c] = m]
         /\ \/ /\ mine[c] >= RetryLimit \/ m = "local"
               /\ Goto(c, "failing")
               /\ UNCHANGED left
            \/ /\ mine[c] < RetryLimit
               /\ Goto(c, "looping")
               /\ left' = [left EXCEPT ![c] = IF m = "remote" THEN RetryLimit - mine[c] ELSE 1]
    /\ UNCHANGED <<job, object, lease, mine, aborted, reply, counters, ghosts>>

\* #transitionActiveJob: applies to a running job only; a cancelled one ends the
\* call, any other state is a ConflictError.
Elsewhere(c, l) ==
    /\ job.state # "running"
    /\ Goto(c, IF job.state = "cancelled" /\ l # "excepted" THEN "releasing" ELSE l)
    /\ UNCHANGED <<job, mine>>

\* The top of the loop writes the next attempt, numbered from the call's own copy.
BeginAttempt(c) ==
    /\ pc[c] = "looping"
    /\ left[c] > 0
    /\ \/ /\ job.state = "running"
          /\ job' = [job EXCEPT !.attempts = mine[c] + 1, !.latest = "running",
                                !.stale = @ \/ job.latest = "running"]
          /\ Copy(c, mine[c] + 1)
          /\ Goto(c, "trying")
          /\ left' = [left EXCEPT ![c] = @ - 1]
          /\ tries' = IF tries > RetryLimit THEN tries ELSE tries + 1
       \/ /\ Elsewhere(c, "failing")
          /\ UNCHANGED <<left, tries>>
    /\ UNCHANGED <<object, lease, mode, aborted, reply, counters, lapsed, overtook>>

\* Every attempt failed: the last failure is thrown.
LoopOver(c) ==
    /\ pc[c] = "looping"
    /\ left[c] = 0
    /\ Goto(c, "failing")
    /\ UNCHANGED <<job, object, lease, mode, mine, left, aborted, reply, counters, ghosts>>

\* The worker, or this process, has generated and published the segment.  An
\* aborted signal makes the dispatch or FFmpeg fail instead.
Generated(c) ==
    /\ pc[c] = "trying"
    /\ ~aborted[c]
    /\ object' = TRUE
    /\ Goto(c, IF mode[c] = "remote" THEN "tried" ELSE "completing")
    /\ UNCHANGED <<job, lease, mode, mine, left, aborted, reply, counters, ghosts>>

\* The attempt failed: dispatch, FFmpeg or the upload.
AttemptFails(c) ==
    /\ pc[c] = "trying"
    /\ Goto(c, IF mode[c] = "remote" THEN "excepted" ELSE "failing")
    /\ UNCHANGED <<job, object, lease, mode, mine, left, aborted, reply, counters, ghosts>>

\* A remote attempt is finished once the object was restored from the store; if it
\* is gone, or the row cannot be updated, the attempt counts as failed.
FinishAttempt(c) ==
    /\ pc[c] = "tried"
    /\ \/ /\ object
          /\ job.state = "running"
          /\ job' = FinishLatest(job, "complete")
          /\ Copy(c, job.attempts)
          /\ Goto(c, "completing")
       \/ object /\ Elsewhere(c, "excepted")
       \/ ~object /\ Goto(c, "excepted") /\ UNCHANGED <<job, mine>>
    /\ UNCHANGED <<object, lease, mode, left, aborted, reply, counters, ghosts>>

\* The loop's catch block closes the attempt; if the row is no longer running this
\* throws out of the loop.
CloseAttempt(c) ==
    /\ pc[c] = "excepted"
    /\ \/ /\ job.state = "running"
          /\ job' = FinishLatest(job, "failed")
          /\ Copy(c, job.attempts)
          /\ Goto(c, "looping")
       \/ Elsewhere(c, "failing")
    /\ UNCHANGED <<object, lease, mode, left, aborted, reply, counters, ghosts>>

\* #completeJob
CompleteJob(c) ==
    /\ pc[c] = "completing"
    /\ \/ /\ job.state = "running"
          /\ job' = [FinishLatest(job, "complete") EXCEPT !.state = "complete", !.expiry = "none"]
          /\ Goto(c, "releasing")
       \/ /\ job.state \in {"complete", "cancelled"}
          /\ Goto(c, "releasing")
          /\ UNCHANGED job
       \/ /\ job.state \in {"queued", "failed"}
          /\ Goto(c, "failing")
          /\ UNCHANGED job
    /\ UNCHANGED <<object, lease, mode, mine, left, aborted, reply, counters, ghosts>>

\* #failJob; if the store fails here the row stays as it is.
MutantFailJob(c) ==
    /\ pc[c] = "failing"
    /\ job' = IF job.state = "queued"
                THEN [FinishLatest(job, "failed") EXCEPT !.state = "failed"] ELSE job
    /\ Goto(c, "releasing")
    /\ UNCHANGED <<object, lease, mode, mine, left, aborted, reply, counters, ghosts>>
FailJob(c) ==
    /\ pc[c] = "failing"
    /\ Goto(c, "releasing")
    /\ \/ /\ job' = IF job.state \in {"queued", "running"}
                      THEN [FinishLatest(job, "failed") EXCEPT !.state = "failed"] ELSE job
          /\ UNCHANGED faults
       \/ /\ faults < MaxFaults
          /\ faults' = faults + 1
          /\ UNCHANGED job
    /\ UNCHANGED <<object, lease, mode, mine, left, aborted, reply, operator, evictions, ghosts>>

\* A store call between the attempts fails or keeps conflicting.
StoreFails(c) ==
    /\ pc[c] \in {"started", "looping", "tried", "excepted", "completing"}
    /\ faults < MaxFaults
    /\ faults' = faults + 1
    /\ Goto(c, IF pc[c] = "tried" THEN "excepted" ELSE "failing")
    /\ UNCHANGED <<job, object, lease, mode, mine, left, aborted, reply, operator,
                   evictions, ghosts>>

\* The finally block: the renewal timer stops, the lease is released.
Release(c) ==
    /\ pc[c] = "releasing"
    /\ End(c, "done")
    /\ \/ /\ lease' = IF lease = c THEN None ELSE lease
          /\ UNCHANGED faults
       \/ /\ faults < MaxFaults
          /\ faults' = faults + 1
          /\ UNCHANGED lease
    /\ UNCHANGED <<job, object, reply, operator, evictions, ghosts>>

\* The next request for the segment.
CallAgain(c) ==
    /\ pc[c] = "done"
    /\ lease # c
    /\ reply[c] = None
    /\ Goto(c, "idle")
    /\ UNCHANGED <<job, object, lease, mode, mine, left, aborted, reply, counters, ghosts>>

---------------------------------------------------------------------------
(* The renewal timer and the abort signal of a call.                       *)

\* The lease was renewed and the row's expiry written.  The reply carries the job as
\* it was then; it arrives at once or after later writes of the call itself.
Renew(c) ==
    /\ pc[c] \in Working
    /\ lease = c
    /\ job.state = "running"
    /\ reply[c] = None
    /\ job' = [job EXCEPT !.expiry = "live"]
    /\ \/ /\ Copy(c, job.attempts)
          /\ UNCHANGED <<reply, faults>>
       \/ /\ faults < MaxFaults
          /\ faults' = faults + 1
          /\ reply' = [reply EXCEPT ![c] = job.attempts]
          /\ UNCHANGED mine
    /\ UNCHANGED <<object, lease, pc, mode, left, aborted, operator, evictions, ghosts>>

\* The reply arrives and replaces the call's copy of the job.
Renewed(c) ==
    /\ reply[c] # None
    /\ Copy(c, IF Over(c) THEN 0 ELSE reply[c])
    /\ reply' = [reply EXCEPT ![c] = None]
    /\ overtook' = (overtook \/ (~Over(c) /\ reply[c] < mine[c]))
    /\ UNCHANGED <<job, object, lease, pc, mode, left, aborted, counters, tries, lapsed>>

\* The viewer left, the lease was lost, or the renewal failed or found the job
\* cancelled or no longer running; without effect once the attempts are over.
Abort(c) ==
    /\ pc[c] \in Working \ {"completing", "failing"}
    /\ ~aborted[c]
    /\ aborted' = [aborted EXCEPT ![c] = TRUE]
    /\ UNCHANGED <<job, object, lease, pc, mode, mine, left, reply, counters, ghosts>>

---------------------------------------------------------------------------
(* Operators, eviction, time, crashes and start-up recovery.               *)

\* cancelJob: the row is cancelled; a remote attempt's worker is told to abort.
CancelJob ==
    /\ operator < MaxOperator
    /\ operator' = operator + 1
    /\ job.state \in {"queued", "running"}
    /\ job' = [FinishLatest(job, "cancelled") EXCEPT !.state = "cancelled", !.expiry = "none"]
    /\ UNCHANGED <<object, lease, callVars, evictions, faults, ghosts>>

\* retryJob: a failed or cancelled job is queued again with its attempts reset; its
\* own call of generateDistributedSegment is one of Call.
Requeued(j) == [j EXCEPT !.state = "queued", !.attempts = 0, !.expiry = "none"]
RetryJob ==
    /\ operator < MaxOperator
    /\ operator' = operator + 1
    /\ job.state \in {"failed", "cancelled"}
    /\ job' = Requeued(job)
    /\ tries' = 0
    /\ UNCHANGED <<object, lease, callVars, evictions, faults, lapsed, overtook>>

\* The object expires, is evicted, or is found corrupt and deleted.
Evict ==
    /\ object
    /\ evictions < MaxEvictions
    /\ evictions' = evictions + 1
    /\ object' = FALSE
    /\ UNCHANGED <<job, lease, callVars, operator, faults, ghosts>>

\* The lease of a call that is over expires, and so may one whose process stalls.
LeaseExpires ==
    /\ lease # None
    /\ lease' = None
    /\ \/ /\ Over(lease)
          /\ UNCHANGED <<faults, lapsed>>
       \/ /\ ~Over(lease)
          /\ faults < MaxFaults
          /\ faults' = faults + 1
          /\ lapsed' = TRUE
    /\ UNCHANGED <<job, object, callVars, operator, evictions, tries, overtook>>

RowLeaseExpires ==
    /\ job.state = "running"
    /\ job.expiry = "live"
    /\ lapsed \/ \A c \in Call : pc[c] \notin Working
    /\ job' = [job EXCEPT !.expiry = "expired"]
    /\ UNCHANGED <<object, lease, callVars, counters, ghosts>>

Crash(c) ==
    /\ faults < MaxFaults
    /\ pc[c] \notin {"idle", "done", "crashed"}
    /\ faults' = faults + 1
    /\ End(c, "crashed")
    /\ reply' = [reply EXCEPT ![c] = None]
    /\ UNCHANGED <<job, object, lease, operator, evictions, ghosts>>

\* recoverExpiredJobs, at the start-up of any node.
Recover ==
    /\ job.state = "running"
    /\ job.expiry # "live"
    /\ job' = [FinishLatest(job, "failed") EXCEPT !.state = "queued", !.expiry = "none"]
    /\ UNCHANGED <<object, lease, callVars, counters, ghosts>>

---------------------------------------------------------------------------
CallStep(c) ==
    \/ Acquire(c) \/ WaitEnds(c) \/ StartJob(c) \/ Plan(c) \/ BeginAttempt(c)
    \/ LoopOver(c) \/ Generated(c) \/ AttemptFails(c) \/ FinishAttempt(c)
    \/ CloseAttempt(c) \/ CompleteJob(c) \/ FailJob(c) \/ StoreFails(c) \/ Release(c)

Next ==
    \/ \E c \in Call : CallStep(c) \/ CallAgain(c) \/ Renew(c) \/ Renewed(c)
                         \/ Abort(c) \/ Crash(c)
    \/ CancelJob \/ RetryJob \/ Evict \/ LeaseExpires \/ RowLeaseExpires \/ Recover

Spec == Init /\ [][Next]_vars

---------------------------------------------------------------------------
\* A segment is generated by one call at a time while leases hold
\* (generateDistributedSegment's lease on the content key), whatever crashes,
\* operators and failing stores leave behind.
OneGenerator ==
    ~lapsed => \A c, d \in Call : pc[c] \in Working /\ pc[d] \in Working => c = d

\* A job is not left 'running' with nobody at work on it, on any path out of a call,
\* whatever operators do meanwhile; only a crash or a failing store does that.
NotOrphaned ==
    job.state = "running" => faults > 0 \/ \E c \in Call : pc[c] \in Working

\* While a call is at work its job stays running, unless an operator steps in: no
\* recovery and no other call takes it away (recoverExpiredJobs, #startJob).
JobKept ==
    \A c \in Call : pc[c] \in Working \ {"failing"} =>
      job.state = "running" \/ operator > 0 \/ lapsed

\* A running job and a call at work on it go together: none is orphaned, none is
\* taken away (recoverExpiredJobs, #startJob, every path out of a call).
JobHasWorker == NotOrphaned /\ JobKept

\* The worker history is an auditable trail: without crashes and failing stores no
\* entry stays 'running' behind a later one or in a job that is not running
\* (finishLatestAttempt on every path).
TrailClosed ==
    faults = 0 => /\ ~job.stale
                  /\ job.latest = "running" => job.state = "running"

\* The automatic retry limit holds across calls, cancellations and evictions:
\* between two manual retries at most RetryLimit attempts are begun, as long as no
\* lease lapses and no renewal's reply is overtaken by the call's next attempt (its
\* late assignment takes the count back, and one more attempt is begun).
TriesBounded == ~lapsed /\ ~overtook => tries <= RetryLimit

\* The job's history accounts for every attempt: none is left open, none is begun
\* beyond the limit (#beginAttempt, finishLatestAttempt).
AttemptsAccounted == TrailClosed /\ TriesBounded

\* A cancelled job leaves that state only by the operator's retry, which resets its
\* attempts: no late update of a call that is still at work revives it.
CancelSticks ==
    [][job.state = "cancelled" /\ job'.state # "cancelled" =>
         job'.state = "queued" /\ job'.attempts = 0 /\ operator' = operator + 1]_job

\* A completed job is only ever started anew: a late failure, cancellation or
\* recovery does not undo it.
CompleteSticks ==
    [][job.state = "complete" /\ job'.state # "complete" => job'.state = "running"]_job

\* A late update of a call never undoes how its job ended (#transitionActiveJob,
\* #completeJob, #failJob, cancelJob).
OutcomeSticks == CancelSticks /\ CompleteSticks

\* A call that is over holds no lease, on any path out of it, so that the next request
\* need not wait for the lease to expire; a failing store and a job that an operator
\* cancelled (StartJob throws before the try block) are the exceptions.
LeaseHandedBack ==
    \A c \in Call : pc[c] = "done" /\ lease = c => faults > 0 \/ operator > 0

\* The lease on a content key is held by the one call at work, and by no call that
\* is over (generateDistributedSegment, from acquire to its finally block).
LeaseServes == OneGenerator /\ LeaseHandedBack

\* The job, its worker and its history agree (every transition of session-jobs.ts).
JobAccounted == JobHasWorker /\ AttemptsAccounted

=============================================================================
