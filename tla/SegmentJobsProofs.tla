------------------------- MODULE SegmentJobsProofs -------------------------
(***************************************************************************)
(* Theorems about SegmentJobs for any number of calls, any retry limit and *)
(* any bound on faults, evictions and operators: who holds the lease, that *)
(* a running job and the call at work on it go together, that its history  *)
(* accounts for every attempt, and that no late update undoes its outcome. *)
(***************************************************************************)
EXTENDS SegmentJobs, TLAPS

Types ==
    /\ job \in Job /\ lease \in Call \cup {None}
    /\ pc \in [Call -> Pcs] /\ mode \in [Call -> {"local", "remote"}]
    /\ mine \in [Call -> Nat] /\ left \in [Call -> Nat]
    /\ reply \in [Call -> Nat \cup {None}]
    /\ operator \in Nat /\ evictions \in Nat /\ faults \in Nat /\ tries \in Nat

Flags == /\ object \in BOOLEAN /\ aborted \in [Call -> BOOLEAN]
         /\ lapsed \in BOOLEAN /\ overtook \in BOOLEAN

\* While no lease lapses, the call between acquire and release is the owner; a call
\* that has not acquired the lease is not.
Held(c) ==
    /\ ~lapsed /\ pc[c] \in Working \cup {"leased", "releasing"} => lease = c
    /\ pc[c] \in {"idle", "waiting"} => lease # c
    /\ pc[c] = "done" /\ lease = c => faults > 0 \/ operator > 0

LeaseInv ==
    /\ \A c \in Call : Held(c)
    /\ lapsed => faults > 0
    /\ job.state = "cancelled" => operator > 0

\* The row is running, and its expiry in the future, while a call is at work.
WorkInv ==
    /\ JobHasWorker
    /\ \A c \in Call : pc[c] \in Working /\ ~lapsed /\ job.state = "running" => job.expiry = "live"

\* An entry is left running only by the call that will finish it.
Finishing == {"trying", "tried", "excepted", "completing", "failing"}
TrailInv ==
    /\ TrailClosed
    /\ faults = 0 /\ job.latest = "running" => \E c \in Call : pc[c] \in Finishing

\* The copy of the call at work is up to date, and the loop it is in ends in time.
Looping == {"looping", "trying", "tried", "excepted"}
Counted(c) ==
    /\ pc[c] \in {"idle", "waiting", "leased"} => reply[c] = None
    /\ ~lapsed /\ ~overtook /\ job.state = "running" /\ pc[c] \in Working =>
         /\ mine[c] = job.attempts
         /\ reply[c] # None => reply[c] <= job.attempts
         /\ pc[c] \in Looping => mine[c] + left[c] <= RetryLimit
TriesInv ==
    /\ \A c \in Call : Counted(c)
    /\ ~lapsed /\ ~overtook => tries <= job.attempts
    /\ TriesBounded

IInv == Types /\ Flags /\ LeaseInv /\ WorkInv /\ TrailInv /\ TriesInv

---------------------------------------------------------------------------
(* What each operation makes of the row.                                   *)

Becomes(s, n, e, l) ==
    /\ job' \in Job /\ job'.state = s /\ job'.attempts = n /\ job'.expiry = e /\ job'.latest = l
Closed(s) == IF job.latest = "running" THEN s ELSE job.latest

\* #startJob leaves the attempts and the history.
LEMMA StartJobRow ==
    ASSUME job \in Job, NEW c \in Call, StartJob(c)
    PROVE  \/ /\ Goto(c, "done") /\ job' = job
              /\ job.state = "cancelled" \/ faults' = faults + 1
           \/ /\ Goto(c, "started") /\ Copy(c, job.attempts) /\ faults' = faults
              /\ job.state # "cancelled" /\ job'.stale = job.stale
              /\ Becomes("running", job.attempts, "live", job.latest)
BY DEF StartJob, Started, End, Copy, Goto, Becomes, Job, JobStates, EntryStates

\* #beginAttempt opens an entry, or finds the job no longer running.
LEMMA BeginAttemptRow ==
    ASSUME job \in Job, NEW c \in Call, BeginAttempt(c), mine[c] \in Nat
    PROVE  \/ /\ job.state # "running" /\ job' = job
              /\ Goto(c, "failing") \/ Goto(c, "releasing")
              /\ UNCHANGED <<mine, left, tries>>
           \/ /\ job.state = "running" /\ Becomes("running", mine[c] + 1, job.expiry, "running")
              /\ job.latest # "running" => job'.stale = job.stale
              /\ Goto(c, "trying")
              /\ mine' = [mine EXCEPT ![c] = mine[c] + 1]
              /\ left' = [left EXCEPT ![c] = left[c] - 1]
              /\ tries' = IF tries > RetryLimit THEN tries ELSE tries + 1
<1> SUFFICES ASSUME job.state = "running"
             PROVE  /\ Becomes("running", mine[c] + 1, job.expiry, "running")
                    /\ job.latest # "running" => job'.stale = job.stale
                    /\ Goto(c, "trying")
                    /\ mine' = [mine EXCEPT ![c] = mine[c] + 1]
                    /\ left' = [left EXCEPT ![c] = left[c] - 1]
                    /\ tries' = IF tries > RetryLimit THEN tries ELSE tries + 1
  BY DEF BeginAttempt, Elsewhere, Goto
<1> DEFINE b == job.stale \/ job.latest = "running"
<1> DEFINE new == [job EXCEPT !.attempts = mine[c] + 1, !.latest = "running", !.stale = b]
<1>1. job' = new BY DEF BeginAttempt, Elsewhere
<1>2. b \in BOOLEAN BY DEF Job
<1>3. job.latest # "running" => b = job.stale BY DEF Job
<1>4. mine[c] + 1 \in Nat OBVIOUS
<1> HIDE DEF b
<1>5. new \in Job BY <1>2, <1>4 DEF Job, EntryStates
<1>6. /\ new.state = job.state /\ new.attempts = mine[c] + 1 /\ new.expiry = job.expiry
      /\ new.latest = "running" /\ new.stale = b
  BY DEF Job
<1>7. /\ Goto(c, "trying")
      /\ mine' = [mine EXCEPT ![c] = mine[c] + 1]
      /\ left' = [left EXCEPT ![c] = left[c] - 1]
      /\ tries' = IF tries > RetryLimit THEN tries ELSE tries + 1
  BY DEF BeginAttempt, Elsewhere, Copy
<1> QED BY <1>1, <1>3, <1>5, <1>6, <1>7 DEF Becomes

\* A finished attempt closes its entry.
LEMMA FinishAttemptRow ==
    ASSUME job \in Job, NEW c \in Call, FinishAttempt(c)
    PROVE  \/ job' = job
           \/ /\ job.state = "running" /\ job'.stale = job.stale
              /\ Becomes("running", job.attempts, job.expiry, Closed("complete"))
BY DEF FinishAttempt, Elsewhere, Copy, Goto, FinishLatest, Becomes, Closed, Job,
    JobStates, EntryStates

\* A failed attempt closes its entry.
LEMMA CloseAttemptRow ==
    ASSUME job \in Job, NEW c \in Call, CloseAttempt(c)
    PROVE  \/ job.state # "running" /\ job' = job
           \/ /\ job.state = "running" /\ job'.stale = job.stale
              /\ Becomes("running", job.attempts, job.expiry, Closed("failed"))
BY DEF CloseAttempt, Elsewhere, Copy, Goto, FinishLatest, Becomes, Closed, Job,
    JobStates, EntryStates

\* #completeJob closes the entry and the job.
LEMMA CompleteJobRow ==
    ASSUME job \in Job, NEW c \in Call, CompleteJob(c)
    PROVE  \/ /\ job' = job
              /\ \/ job.state \in {"complete", "cancelled"} /\ Goto(c, "releasing")
                 \/ job.state \in {"queued", "failed"} /\ Goto(c, "failing")
           \/ /\ Goto(c, "releasing")
              /\ job.state = "running" /\ job'.stale = job.stale
              /\ Becomes("complete", job.attempts, "none", Closed("complete"))
BY DEF CompleteJob, FinishLatest, Goto, Becomes, Closed, Job, JobStates, EntryStates

\* #failJob closes the entry and the job.
LEMMA FailJobRow ==
    ASSUME job \in Job, NEW c \in Call, FailJob(c)
    PROVE  \/ job' = job /\ (faults' = faults + 1 \/ job.state \notin {"queued", "running"})
           \/ /\ job.state \in {"queued", "running"} /\ job'.stale = job.stale
              /\ Becomes("failed", job.attempts, job.expiry, Closed("failed"))
BY DEF FailJob, FinishLatest, Goto, Becomes, Closed, Job, JobStates, EntryStates

\* A renewal moves the expiry.
LEMMA RenewRow ==
    ASSUME job \in Job, NEW c \in Call, Renew(c)
    PROVE  /\ job.state = "running" /\ job'.stale = job.stale
           /\ Becomes("running", job.attempts, "live", job.latest)
BY DEF Renew, Copy, Becomes, Job, JobStates, EntryStates

\* cancelJob closes the entry and the job.
LEMMA CancelJobRow ==
    ASSUME job \in Job, CancelJob
    PROVE  /\ job.state \in {"queued", "running"} /\ job'.stale = job.stale
           /\ Becomes("cancelled", job.attempts, "none", Closed("cancelled"))
BY DEF CancelJob, FinishLatest, Becomes, Closed, Job, JobStates, EntryStates

\* retryJob resets the attempts.
LEMMA RetryJobRow ==
    ASSUME job \in Job, RetryJob
    PROVE  /\ job.state \in {"failed", "cancelled"} /\ job'.stale = job.stale
           /\ Becomes("queued", 0, "none", job.latest)
BY DEF RetryJob, Requeued, Becomes, Job, JobStates, EntryStates

\* The expiry passes.
LEMMA RowLeaseExpiresRow ==
    ASSUME job \in Job, RowLeaseExpires
    PROVE  /\ job.state = "running" /\ job'.stale = job.stale
           /\ Becomes("running", job.attempts, "expired", job.latest)
BY DEF RowLeaseExpires, Becomes, Job, JobStates, EntryStates

\* recoverExpiredJobs closes the entry and queues the job.
LEMMA RecoverRow ==
    ASSUME job \in Job, Recover
    PROVE  /\ job.state = "running" /\ job'.stale = job.stale
           /\ Becomes("queued", job.attempts, "none", Closed("failed"))
BY DEF Recover, FinishLatest, Becomes, Closed, Job, JobStates, EntryStates

---------------------------------------------------------------------------
(* The invariant.                                                          *)

\* The initial states satisfy the invariant.
LEMMA InitIInv == Init => IInv
<1> SUFFICES ASSUME Init PROVE IInv OBVIOUS
<1> USE JobAssumption DEF Init
<1>1. Types BY DEF Types, NoJob, Job, JobStates, EntryStates, Pcs
<1>2. Flags BY DEF Flags
<1>3. LeaseInv BY DEF LeaseInv, Held, Working, NoJob
<1>4. WorkInv BY DEF WorkInv, JobHasWorker, NotOrphaned, JobKept, Working, NoJob
<1>5. TrailInv BY DEF TrailInv, TrailClosed, NoJob
<1>6. TriesInv BY DEF TriesInv, Counted, TriesBounded, Working, NoJob
<1> QED BY <1>1, <1>2, <1>3, <1>4, <1>5, <1>6 DEF IInv

\* Every step keeps the types.
LEMMA TypesKept ==
    ASSUME Types, [Next]_vars
    PROVE  Types'
<1> USE JobAssumption DEF Types, Pcs, Working, Becomes, callVars, counters, ghosts
<1>0. job.attempts \in Nat BY DEF Job
<1>1. ASSUME NEW c \in Call, Acquire(c) PROVE Types'
  BY <1>1, <1>0 DEF Acquire, Goto
<1>2. ASSUME NEW c \in Call, WaitEnds(c) PROVE Types'
  BY <1>2, <1>0 DEF WaitEnds, Goto, End, Copy
<1>3. ASSUME NEW c \in Call, StartJob(c) PROVE Types'
  BY <1>3, StartJobRow, <1>0 DEF StartJob, Goto, End, Copy
<1>4. ASSUME NEW c \in Call, Plan(c) PROVE Types'
  BY <1>4, <1>0 DEF Plan, remoteCandidates, Goto
<1>5. ASSUME NEW c \in Call, BeginAttempt(c) PROVE Types'
  <2>1. mine[c] \in Nat OBVIOUS
  <2>2. job' \in Job BY <1>5, <2>1, BeginAttemptRow
  <2> QED BY <1>5, <1>0, <2>1, <2>2 DEF BeginAttempt, Goto, Copy, Elsewhere
<1>6. ASSUME NEW c \in Call, LoopOver(c) PROVE Types'
  BY <1>6, <1>0 DEF LoopOver, Goto
<1>7. ASSUME NEW c \in Call, Generated(c) PROVE Types'
  BY <1>7, <1>0 DEF Generated, Goto
<1>8. ASSUME NEW c \in Call, AttemptFails(c) PROVE Types'
  BY <1>8, <1>0 DEF AttemptFails, Goto
<1>9. ASSUME NEW c \in Call, FinishAttempt(c) PROVE Types'
  BY <1>9, FinishAttemptRow, <1>0 DEF FinishAttempt, Goto, Copy, Elsewhere
<1>10. ASSUME NEW c \in Call, CloseAttempt(c) PROVE Types'
  BY <1>10, CloseAttemptRow, <1>0 DEF CloseAttempt, Goto, Copy, Elsewhere
<1>11. ASSUME NEW c \in Call, CompleteJob(c) PROVE Types'
  BY <1>11, CompleteJobRow, <1>0 DEF CompleteJob, Goto
<1>12. ASSUME NEW c \in Call, FailJob(c) PROVE Types'
  <2>1. job' \in Job BY <1>12, FailJobRow
  <2> QED BY <1>12, <2>1 DEF FailJob, Goto
<1>13. ASSUME NEW c \in Call, StoreFails(c) PROVE Types'
  BY <1>13, <1>0 DEF StoreFails, Goto
<1>14. ASSUME NEW c \in Call, Release(c) PROVE Types'
  BY <1>14, <1>0 DEF Release, Goto, End, Copy
<1>15. ASSUME NEW c \in Call, CallAgain(c) PROVE Types'
  BY <1>15, <1>0 DEF CallAgain, Goto
<1>16. ASSUME NEW c \in Call, Renew(c) PROVE Types'
  BY <1>16, RenewRow, <1>0 DEF Renew, Goto, Copy
<1>17. ASSUME NEW c \in Call, Renewed(c) PROVE Types'
  BY <1>17, <1>0 DEF Renewed, Goto, Copy, Over
<1>18. ASSUME NEW c \in Call, Abort(c) PROVE Types'
  BY <1>18, <1>0 DEF Abort, Goto
<1>19. ASSUME NEW c \in Call, Crash(c) PROVE Types'
  BY <1>19, <1>0 DEF Crash, Goto, End, Copy
<1>20. CASE CancelJob
  BY <1>20, CancelJobRow, <1>0 DEF CancelJob
<1>21. CASE RetryJob
  BY <1>21, RetryJobRow, <1>0 DEF RetryJob, Requeued
<1>22. CASE Evict
  BY <1>22, <1>0 DEF Evict
<1>23. CASE LeaseExpires
  BY <1>23, <1>0 DEF LeaseExpires, Over
<1>24. CASE RowLeaseExpires
  BY <1>24, RowLeaseExpiresRow, <1>0 DEF RowLeaseExpires
<1>25. CASE Recover
  BY <1>25, RecoverRow, <1>0 DEF Recover
<1>26. CASE UNCHANGED vars BY <1>26 DEF vars
<1> QED BY <1>1, <1>2, <1>3, <1>4, <1>5, <1>6, <1>7, <1>8, <1>9, <1>10, <1>11,
         <1>12, <1>13, <1>14, <1>15, <1>16, <1>17, <1>18, <1>19, <1>20, <1>21,
         <1>22, <1>23, <1>24, <1>25, <1>26
       DEF Next, CallStep

\* Every step keeps the flags Boolean.
LEMMA FlagsKept ==
    ASSUME Flags, [Next]_vars
    PROVE  Flags'
<1> USE JobAssumption DEF Flags, callVars, counters, ghosts
<1>1. ASSUME NEW c \in Call, Acquire(c) PROVE Flags'
  BY <1>1 DEF Acquire, Goto
<1>2. ASSUME NEW c \in Call, WaitEnds(c) PROVE Flags'
  BY <1>2 DEF WaitEnds, Goto, End, Copy
<1>3. ASSUME NEW c \in Call, StartJob(c) PROVE Flags'
  BY <1>3 DEF StartJob, Goto, End, Copy
<1>4. ASSUME NEW c \in Call, Plan(c) PROVE Flags'
  BY <1>4 DEF Plan, Goto
<1>5. ASSUME NEW c \in Call, BeginAttempt(c) PROVE Flags'
  BY <1>5 DEF BeginAttempt, Goto, Copy, Elsewhere
<1>6. ASSUME NEW c \in Call, LoopOver(c) PROVE Flags'
  BY <1>6 DEF LoopOver, Goto
<1>7. ASSUME NEW c \in Call, Generated(c) PROVE Flags'
  BY <1>7 DEF Generated, Goto
<1>8. ASSUME NEW c \in Call, AttemptFails(c) PROVE Flags'
  BY <1>8 DEF AttemptFails, Goto
<1>9. ASSUME NEW c \in Call, FinishAttempt(c) PROVE Flags'
  BY <1>9 DEF FinishAttempt, Goto, Copy, Elsewhere
<1>10. ASSUME NEW c \in Call, CloseAttempt(c) PROVE Flags'
  BY <1>10 DEF CloseAttempt, Goto, Copy, Elsewhere
<1>11. ASSUME NEW c \in Call, CompleteJob(c) PROVE Flags'
  BY <1>11 DEF CompleteJob, Goto
<1>12. ASSUME NEW c \in Call, FailJob(c) PROVE Flags'
  BY <1>12 DEF FailJob, Goto
<1>13. ASSUME NEW c \in Call, StoreFails(c) PROVE Flags'
  BY <1>13 DEF StoreFails, Goto
<1>14. ASSUME NEW c \in Call, Release(c) PROVE Flags'
  BY <1>14 DEF Release, Goto, End, Copy
<1>15. ASSUME NEW c \in Call, CallAgain(c) PROVE Flags'
  BY <1>15 DEF CallAgain, Goto
<1>16. ASSUME NEW c \in Call, Renew(c) PROVE Flags'
  BY <1>16 DEF Renew, Goto, Copy
<1>17. ASSUME NEW c \in Call, Renewed(c) PROVE Flags'
  BY <1>17 DEF Renewed, Goto, Copy, Over
<1>18. ASSUME NEW c \in Call, Abort(c) PROVE Flags'
  BY <1>18 DEF Abort, Goto
<1>19. ASSUME NEW c \in Call, Crash(c) PROVE Flags'
  BY <1>19 DEF Crash, Goto, End, Copy
<1>20. CASE CancelJob
  BY <1>20 DEF CancelJob
<1>21. CASE RetryJob
  BY <1>21 DEF RetryJob, Requeued
<1>22. CASE Evict
  BY <1>22 DEF Evict
<1>23. CASE LeaseExpires
  BY <1>23 DEF LeaseExpires, Over
<1>24. CASE RowLeaseExpires
  BY <1>24 DEF RowLeaseExpires
<1>25. CASE Recover
  BY <1>25 DEF Recover
<1>26. CASE UNCHANGED vars BY <1>26 DEF vars
<1> QED BY <1>1, <1>2, <1>3, <1>4, <1>5, <1>6, <1>7, <1>8, <1>9, <1>10, <1>11,
         <1>12, <1>13, <1>14, <1>15, <1>16, <1>17, <1>18, <1>19, <1>20, <1>21,
         <1>22, <1>23, <1>24, <1>25, <1>26
       DEF Next, CallStep

\* Every step leaves the lease with the call at work.
LEMMA LeaseKept ==
    ASSUME Types, LeaseInv, [Next]_vars
    PROVE  LeaseInv'
<1> USE JobAssumption DEF Types, LeaseInv, Held, Pcs, Working, Becomes, Over, callVars,
      counters, ghosts
<1>1. ASSUME NEW c \in Call, Acquire(c) PROVE LeaseInv'
  BY <1>1 DEF Acquire, Goto
<1>2. ASSUME NEW c \in Call, WaitEnds(c) PROVE LeaseInv'
  BY <1>2 DEF WaitEnds, Goto, End, Copy
<1>3. ASSUME NEW c \in Call, StartJob(c) PROVE LeaseInv'
  <2>1. /\ pc[c] = "leased" /\ faults' \in {faults, faults + 1}
        /\ \A d \in Call \ {c} : mine'[d] = mine[d] /\ left'[d] = left[d]
        /\ UNCHANGED <<lease, reply, operator, ghosts>>
    BY <1>3 DEF StartJob, End, Copy
  <2> QED BY <1>3, <2>1, StartJobRow DEF Goto, Copy
<1>4. ASSUME NEW c \in Call, Plan(c) PROVE LeaseInv'
  BY <1>4 DEF Plan, Goto
<1>5. ASSUME NEW c \in Call, BeginAttempt(c) PROVE LeaseInv'
  <2>1. mine[c] \in Nat OBVIOUS
  <2>2. /\ pc[c] = "looping" /\ left[c] > 0
        /\ UNCHANGED <<lease, reply, counters, lapsed, overtook>>
    BY <1>5 DEF BeginAttempt
  <2> QED BY <1>5, <2>1, <2>2, BeginAttemptRow DEF Goto
<1>6. ASSUME NEW c \in Call, LoopOver(c) PROVE LeaseInv'
  BY <1>6 DEF LoopOver, Goto
<1>7. ASSUME NEW c \in Call, Generated(c) PROVE LeaseInv'
  BY <1>7 DEF Generated, Goto
<1>8. ASSUME NEW c \in Call, AttemptFails(c) PROVE LeaseInv'
  BY <1>8 DEF AttemptFails, Goto
<1>9. ASSUME NEW c \in Call, FinishAttempt(c) PROVE LeaseInv'
  BY <1>9, FinishAttemptRow DEF FinishAttempt, Goto, Copy, Elsewhere
<1>10. ASSUME NEW c \in Call, CloseAttempt(c) PROVE LeaseInv'
  BY <1>10, CloseAttemptRow DEF CloseAttempt, Goto, Copy, Elsewhere
<1>11. ASSUME NEW c \in Call, CompleteJob(c) PROVE LeaseInv'
  <2>1. /\ pc[c] = "completing"
        /\ UNCHANGED <<lease, mine, left, reply, counters, ghosts>>
    BY <1>11 DEF CompleteJob
  <2> QED BY <1>11, <2>1, CompleteJobRow DEF Goto
<1>12. ASSUME NEW c \in Call, FailJob(c) PROVE LeaseInv'
  <2>1. /\ pc[c] = "failing" /\ pc' = [pc EXCEPT ![c] = "releasing"]
        /\ faults' = faults \/ faults' = faults + 1
        /\ UNCHANGED <<lease, mine, left, reply, operator, lapsed, overtook, tries>>
    BY <1>12 DEF FailJob, Goto
  <2> QED BY <1>12, <2>1, FailJobRow
<1>13. ASSUME NEW c \in Call, StoreFails(c) PROVE LeaseInv'
  BY <1>13 DEF StoreFails, Goto
<1>14. ASSUME NEW c \in Call, Release(c) PROVE LeaseInv'
  BY <1>14 DEF Release, Goto, End, Copy
<1>15. ASSUME NEW c \in Call, CallAgain(c) PROVE LeaseInv'
  BY <1>15 DEF CallAgain, Goto
<1>16. ASSUME NEW c \in Call, Renew(c) PROVE LeaseInv'
  BY <1>16, RenewRow DEF Renew, Goto, Copy
<1>17. ASSUME NEW c \in Call, Renewed(c) PROVE LeaseInv'
  BY <1>17 DEF Renewed, Goto, Copy, Over
<1>18. ASSUME NEW c \in Call, Abort(c) PROVE LeaseInv'
  BY <1>18 DEF Abort, Goto
<1>19. ASSUME NEW c \in Call, Crash(c) PROVE LeaseInv'
  BY <1>19 DEF Crash, Goto, End, Copy
<1>20. CASE CancelJob
  BY <1>20, CancelJobRow DEF CancelJob
<1>21. CASE RetryJob
  BY <1>21, RetryJobRow DEF RetryJob, Requeued
<1>22. CASE Evict
  BY <1>22 DEF Evict
<1>23. CASE LeaseExpires
  BY <1>23 DEF LeaseExpires, Over
<1>24. CASE RowLeaseExpires
  BY <1>24, RowLeaseExpiresRow DEF RowLeaseExpires
<1>25. CASE Recover
  BY <1>25, RecoverRow DEF Recover
<1>26. CASE UNCHANGED vars BY <1>26 DEF vars
<1> QED BY <1>1, <1>2, <1>3, <1>4, <1>5, <1>6, <1>7, <1>8, <1>9, <1>10, <1>11,
         <1>12, <1>13, <1>14, <1>15, <1>16, <1>17, <1>18, <1>19, <1>20, <1>21,
         <1>22, <1>23, <1>24, <1>25, <1>26
       DEF Next, CallStep

\* Every step leaves a running job with its worker.
LEMMA WorkKept ==
    ASSUME Types, LeaseInv, WorkInv, [Next]_vars
    PROVE  WorkInv'
<1> USE JobAssumption DEF Types, LeaseInv, Held, WorkInv, JobHasWorker, NotOrphaned,
      JobKept, Pcs, Working, Becomes, callVars, counters, ghosts
<1>1. ASSUME NEW c \in Call, Acquire(c) PROVE WorkInv'
  BY <1>1 DEF Acquire, Goto
<1>2. ASSUME NEW c \in Call, WaitEnds(c) PROVE WorkInv'
  BY <1>2 DEF WaitEnds, Goto, End, Copy
<1>3. ASSUME NEW c \in Call, StartJob(c) PROVE WorkInv'
  <2>1. /\ pc[c] = "leased" /\ faults' \in {faults, faults + 1}
        /\ \A d \in Call \ {c} : mine'[d] = mine[d] /\ left'[d] = left[d]
        /\ UNCHANGED <<lease, reply, operator, ghosts>>
    BY <1>3 DEF StartJob, End, Copy
  <2> QED BY <1>3, <2>1, StartJobRow DEF Goto, Copy
<1>4. ASSUME NEW c \in Call, Plan(c) PROVE WorkInv'
  BY <1>4 DEF Plan, Goto
<1>5. ASSUME NEW c \in Call, BeginAttempt(c) PROVE WorkInv'
  <2>1. mine[c] \in Nat OBVIOUS
  <2>2. /\ pc[c] = "looping" /\ left[c] > 0
        /\ UNCHANGED <<lease, reply, counters, lapsed, overtook>>
    BY <1>5 DEF BeginAttempt
  <2> QED BY <1>5, <2>1, <2>2, BeginAttemptRow DEF Goto
<1>6. ASSUME NEW c \in Call, LoopOver(c) PROVE WorkInv'
  BY <1>6 DEF LoopOver, Goto
<1>7. ASSUME NEW c \in Call, Generated(c) PROVE WorkInv'
  BY <1>7 DEF Generated, Goto
<1>8. ASSUME NEW c \in Call, AttemptFails(c) PROVE WorkInv'
  BY <1>8 DEF AttemptFails, Goto
<1>9. ASSUME NEW c \in Call, FinishAttempt(c) PROVE WorkInv'
  BY <1>9, FinishAttemptRow DEF FinishAttempt, Goto, Copy, Elsewhere
<1>10. ASSUME NEW c \in Call, CloseAttempt(c) PROVE WorkInv'
  BY <1>10, CloseAttemptRow DEF CloseAttempt, Goto, Copy, Elsewhere
<1>11. ASSUME NEW c \in Call, CompleteJob(c) PROVE WorkInv'
  <2>1. /\ pc[c] = "completing"
        /\ UNCHANGED <<lease, mine, left, reply, counters, ghosts>>
    BY <1>11 DEF CompleteJob
  <2> QED BY <1>11, <2>1, CompleteJobRow DEF Goto
<1>12. ASSUME NEW c \in Call, FailJob(c) PROVE WorkInv'
  <2>1. /\ pc[c] = "failing" /\ pc' = [pc EXCEPT ![c] = "releasing"]
        /\ faults' = faults \/ faults' = faults + 1
        /\ UNCHANGED <<lease, mine, left, reply, operator, lapsed, overtook, tries>>
    BY <1>12 DEF FailJob, Goto
  <2> QED BY <1>12, <2>1, FailJobRow
<1>13. ASSUME NEW c \in Call, StoreFails(c) PROVE WorkInv'
  BY <1>13 DEF StoreFails, Goto
<1>14. ASSUME NEW c \in Call, Release(c) PROVE WorkInv'
  BY <1>14 DEF Release, Goto, End, Copy
<1>15. ASSUME NEW c \in Call, CallAgain(c) PROVE WorkInv'
  BY <1>15 DEF CallAgain, Goto
<1>16. ASSUME NEW c \in Call, Renew(c) PROVE WorkInv'
  BY <1>16, RenewRow DEF Renew, Goto, Copy
<1>17. ASSUME NEW c \in Call, Renewed(c) PROVE WorkInv'
  BY <1>17 DEF Renewed, Goto, Copy, Over
<1>18. ASSUME NEW c \in Call, Abort(c) PROVE WorkInv'
  BY <1>18 DEF Abort, Goto
<1>19. ASSUME NEW c \in Call, Crash(c) PROVE WorkInv'
  BY <1>19 DEF Crash, Goto, End, Copy
<1>20. CASE CancelJob
  BY <1>20, CancelJobRow DEF CancelJob
<1>21. CASE RetryJob
  BY <1>21, RetryJobRow DEF RetryJob, Requeued
<1>22. CASE Evict
  BY <1>22 DEF Evict
<1>23. CASE LeaseExpires
  BY <1>23 DEF LeaseExpires, Over
<1>24. CASE RowLeaseExpires
  BY <1>24, RowLeaseExpiresRow DEF RowLeaseExpires
<1>25. CASE Recover
  BY <1>25, RecoverRow DEF Recover
<1>26. CASE UNCHANGED vars BY <1>26 DEF vars
<1> QED BY <1>1, <1>2, <1>3, <1>4, <1>5, <1>6, <1>7, <1>8, <1>9, <1>10, <1>11,
         <1>12, <1>13, <1>14, <1>15, <1>16, <1>17, <1>18, <1>19, <1>20, <1>21,
         <1>22, <1>23, <1>24, <1>25, <1>26
       DEF Next, CallStep

\* Every step keeps the trail closed.
LEMMA TrailKept ==
    ASSUME Types, LeaseInv, TrailInv, [Next]_vars
    PROVE  TrailInv'
<1> USE JobAssumption DEF Types, LeaseInv, Held, TrailInv, TrailClosed, Finishing, Pcs,
      Working, Becomes, Closed, callVars, counters, ghosts
<1>1. ASSUME NEW c \in Call, Acquire(c) PROVE TrailInv'
  BY <1>1 DEF Acquire, Goto
<1>2. ASSUME NEW c \in Call, WaitEnds(c) PROVE TrailInv'
  BY <1>2 DEF WaitEnds, Goto, End, Copy
<1>3. ASSUME NEW c \in Call, StartJob(c) PROVE TrailInv'
  <2>1. /\ pc[c] = "leased" /\ faults' \in {faults, faults + 1}
        /\ \A d \in Call \ {c} : mine'[d] = mine[d] /\ left'[d] = left[d]
        /\ UNCHANGED <<lease, reply, operator, ghosts>>
    BY <1>3 DEF StartJob, End, Copy
  <2> QED BY <1>3, <2>1, StartJobRow DEF Goto, Copy
<1>4. ASSUME NEW c \in Call, Plan(c) PROVE TrailInv'
  BY <1>4 DEF Plan, Goto
<1>5. ASSUME NEW c \in Call, BeginAttempt(c) PROVE TrailInv'
  <2>1. mine[c] \in Nat OBVIOUS
  <2>2. /\ pc[c] = "looping" /\ left[c] > 0
        /\ UNCHANGED <<lease, reply, counters, lapsed, overtook>>
    BY <1>5 DEF BeginAttempt
  <2> QED BY <1>5, <2>1, <2>2, BeginAttemptRow DEF Goto
<1>6. ASSUME NEW c \in Call, LoopOver(c) PROVE TrailInv'
  BY <1>6 DEF LoopOver, Goto
<1>7. ASSUME NEW c \in Call, Generated(c) PROVE TrailInv'
  BY <1>7 DEF Generated, Goto
<1>8. ASSUME NEW c \in Call, AttemptFails(c) PROVE TrailInv'
  BY <1>8 DEF AttemptFails, Goto
<1>9. ASSUME NEW c \in Call, FinishAttempt(c) PROVE TrailInv'
  BY <1>9, FinishAttemptRow DEF FinishAttempt, Goto, Copy, Elsewhere
<1>10. ASSUME NEW c \in Call, CloseAttempt(c) PROVE TrailInv'
  BY <1>10, CloseAttemptRow DEF CloseAttempt, Goto, Copy, Elsewhere
<1>11. ASSUME NEW c \in Call, CompleteJob(c) PROVE TrailInv'
  <2>1. /\ pc[c] = "completing"
        /\ UNCHANGED <<lease, mine, left, reply, counters, ghosts>>
    BY <1>11 DEF CompleteJob
  <2> QED BY <1>11, <2>1, CompleteJobRow DEF Goto
<1>12. ASSUME NEW c \in Call, FailJob(c) PROVE TrailInv'
  <2>1. /\ pc[c] = "failing" /\ pc' = [pc EXCEPT ![c] = "releasing"]
        /\ faults' = faults \/ faults' = faults + 1
        /\ UNCHANGED <<lease, mine, left, reply, operator, lapsed, overtook, tries>>
    BY <1>12 DEF FailJob, Goto
  <2> QED BY <1>12, <2>1, FailJobRow
<1>13. ASSUME NEW c \in Call, StoreFails(c) PROVE TrailInv'
  BY <1>13 DEF StoreFails, Goto
<1>14. ASSUME NEW c \in Call, Release(c) PROVE TrailInv'
  BY <1>14 DEF Release, Goto, End, Copy
<1>15. ASSUME NEW c \in Call, CallAgain(c) PROVE TrailInv'
  BY <1>15 DEF CallAgain, Goto
<1>16. ASSUME NEW c \in Call, Renew(c) PROVE TrailInv'
  BY <1>16, RenewRow DEF Renew, Goto, Copy
<1>17. ASSUME NEW c \in Call, Renewed(c) PROVE TrailInv'
  BY <1>17 DEF Renewed, Goto, Copy, Over
<1>18. ASSUME NEW c \in Call, Abort(c) PROVE TrailInv'
  BY <1>18 DEF Abort, Goto
<1>19. ASSUME NEW c \in Call, Crash(c) PROVE TrailInv'
  BY <1>19 DEF Crash, Goto, End, Copy
<1>20. CASE CancelJob
  BY <1>20, CancelJobRow DEF CancelJob
<1>21. CASE RetryJob
  BY <1>21, RetryJobRow DEF RetryJob, Requeued
<1>22. CASE Evict
  BY <1>22 DEF Evict
<1>23. CASE LeaseExpires
  BY <1>23 DEF LeaseExpires, Over
<1>24. CASE RowLeaseExpires
  BY <1>24, RowLeaseExpiresRow DEF RowLeaseExpires
<1>25. CASE Recover
  BY <1>25, RecoverRow DEF Recover
<1>26. CASE UNCHANGED vars BY <1>26 DEF vars
<1> QED BY <1>1, <1>2, <1>3, <1>4, <1>5, <1>6, <1>7, <1>8, <1>9, <1>10, <1>11,
         <1>12, <1>13, <1>14, <1>15, <1>16, <1>17, <1>18, <1>19, <1>20, <1>21,
         <1>22, <1>23, <1>24, <1>25, <1>26
       DEF Next, CallStep

\* Every step keeps the count of attempts.
LEMMA TriesKept ==
    ASSUME Types, LeaseInv, TriesInv, [Next]_vars
    PROVE  TriesInv'
<1> USE JobAssumption DEF Types, LeaseInv, Held, TriesInv, Counted, TriesBounded,
      Looping, Pcs, Working, Becomes, callVars, counters, ghosts
<1>0. job.attempts \in Nat BY DEF Job
<1>1. ASSUME NEW c \in Call, Acquire(c) PROVE TriesInv'
  BY <1>1, <1>0 DEF Acquire, Goto
<1>2. ASSUME NEW c \in Call, WaitEnds(c) PROVE TriesInv'
  BY <1>2, <1>0 DEF WaitEnds, Goto, End, Copy
<1>3. ASSUME NEW c \in Call, StartJob(c) PROVE TriesInv'
  <2>1. /\ pc[c] = "leased" /\ faults' \in {faults, faults + 1}
        /\ \A d \in Call \ {c} : mine'[d] = mine[d] /\ left'[d] = left[d]
        /\ UNCHANGED <<lease, reply, operator, ghosts>>
    BY <1>3 DEF StartJob, End, Copy
  <2> QED BY <1>3, <2>1, StartJobRow, <1>0 DEF Goto, Copy
<1>4. ASSUME NEW c \in Call, Plan(c) PROVE TriesInv'
  BY <1>4, <1>0 DEF Plan, remoteCandidates, Goto
<1>5. ASSUME NEW c \in Call, BeginAttempt(c) PROVE TriesInv'
  <2>1. mine[c] \in Nat OBVIOUS
  <2>2. /\ pc[c] = "looping" /\ left[c] > 0
        /\ UNCHANGED <<lease, reply, counters, lapsed, overtook>>
    BY <1>5 DEF BeginAttempt
  <2> QED BY <1>5, <2>1, <2>2, BeginAttemptRow, <1>0 DEF Goto
<1>6. ASSUME NEW c \in Call, LoopOver(c) PROVE TriesInv'
  BY <1>6, <1>0 DEF LoopOver, Goto
<1>7. ASSUME NEW c \in Call, Generated(c) PROVE TriesInv'
  BY <1>7, <1>0 DEF Generated, Goto
<1>8. ASSUME NEW c \in Call, AttemptFails(c) PROVE TriesInv'
  BY <1>8, <1>0 DEF AttemptFails, Goto
<1>9. ASSUME NEW c \in Call, FinishAttempt(c) PROVE TriesInv'
  BY <1>9, FinishAttemptRow, <1>0 DEF FinishAttempt, Goto, Copy, Elsewhere
<1>10. ASSUME NEW c \in Call, CloseAttempt(c) PROVE TriesInv'
  BY <1>10, CloseAttemptRow, <1>0 DEF CloseAttempt, Goto, Copy, Elsewhere
<1>11. ASSUME NEW c \in Call, CompleteJob(c) PROVE TriesInv'
  <2>1. /\ pc[c] = "completing"
        /\ UNCHANGED <<lease, mine, left, reply, counters, ghosts>>
    BY <1>11 DEF CompleteJob
  <2> QED BY <1>11, <2>1, CompleteJobRow, <1>0 DEF Goto
<1>12. ASSUME NEW c \in Call, FailJob(c) PROVE TriesInv'
  <2>1. /\ pc[c] = "failing" /\ pc' = [pc EXCEPT ![c] = "releasing"]
        /\ faults' = faults \/ faults' = faults + 1
        /\ UNCHANGED <<lease, mine, left, reply, operator, lapsed, overtook, tries>>
    BY <1>12 DEF FailJob, Goto
  <2> QED BY <1>12, <2>1, FailJobRow, <1>0
<1>13. ASSUME NEW c \in Call, StoreFails(c) PROVE TriesInv'
  BY <1>13, <1>0 DEF StoreFails, Goto
<1>14. ASSUME NEW c \in Call, Release(c) PROVE TriesInv'
  BY <1>14, <1>0 DEF Release, Goto, End, Copy
<1>15. ASSUME NEW c \in Call, CallAgain(c) PROVE TriesInv'
  BY <1>15, <1>0 DEF CallAgain, Goto
<1>16. ASSUME NEW c \in Call, Renew(c) PROVE TriesInv'
  BY <1>16, RenewRow, <1>0 DEF Renew, Goto, Copy
<1>17. ASSUME NEW c \in Call, Renewed(c) PROVE TriesInv'
  <2>1. CASE overtook'
    BY <1>17, <2>1 DEF Renewed, Copy, Over
  <2>2. CASE ~overtook'
    <3> DEFINE late == ~Over(c) /\ reply[c] < mine[c]
    <3>1. ~overtook /\ ~late
      <4>1. overtook' = (overtook \/ late) BY <1>17 DEF Renewed
      <4> HIDE DEF late
      <4> QED BY <2>2, <4>1, Zenon
    <3> QED BY <1>17, <1>0, <2>2, <3>1 DEF Renewed, Copy, Over
  <2> QED BY <2>1, <2>2
<1>18. ASSUME NEW c \in Call, Abort(c) PROVE TriesInv'
  BY <1>18, <1>0 DEF Abort, Goto
<1>19. ASSUME NEW c \in Call, Crash(c) PROVE TriesInv'
  BY <1>19, <1>0 DEF Crash, Goto, End, Copy
<1>20. CASE CancelJob
  BY <1>20, CancelJobRow, <1>0 DEF CancelJob
<1>21. CASE RetryJob
  BY <1>21, RetryJobRow, <1>0 DEF RetryJob, Requeued
<1>22. CASE Evict
  BY <1>22, <1>0 DEF Evict
<1>23. CASE LeaseExpires
  BY <1>23, <1>0 DEF LeaseExpires, Over
<1>24. CASE RowLeaseExpires
  BY <1>24, RowLeaseExpiresRow, <1>0 DEF RowLeaseExpires
<1>25. CASE Recover
  BY <1>25, RecoverRow, <1>0 DEF Recover
<1>26. CASE UNCHANGED vars BY <1>26 DEF vars
<1> QED BY <1>1, <1>2, <1>3, <1>4, <1>5, <1>6, <1>7, <1>8, <1>9, <1>10, <1>11,
         <1>12, <1>13, <1>14, <1>15, <1>16, <1>17, <1>18, <1>19, <1>20, <1>21,
         <1>22, <1>23, <1>24, <1>25, <1>26
       DEF Next, CallStep

\* IInv is inductive.
LEMMA NextIInv == IInv /\ [Next]_vars => IInv'
<1> SUFFICES ASSUME IInv, [Next]_vars PROVE IInv' OBVIOUS
<1>1. /\ Types /\ Flags /\ LeaseInv /\ WorkInv /\ TrailInv /\ TriesInv BY DEF IInv
<1>2. Types' BY <1>1, TypesKept
<1>3. Flags' BY <1>1, FlagsKept
<1>4. LeaseInv' BY <1>1, LeaseKept
<1>5. WorkInv' BY <1>1, WorkKept
<1>6. TrailInv' BY <1>1, TrailKept
<1>7. TriesInv' BY <1>1, TriesKept
<1> QED BY <1>2, <1>3, <1>4, <1>5, <1>6, <1>7 DEF IInv

\* The invariant holds in every reachable state.
LEMMA AlwaysIInv == Spec => []IInv
<1> QED BY InitIInv, NextIInv, PTL DEF Spec

---------------------------------------------------------------------------
(* The theorems.                                                           *)

\* The lease on a content key is held by the one call at work while no lease lapses
\* under a live call, and a call that is over leaves it only behind a failure or an
\* operator's cancellation (generateDistributedSegment, from acquire to finally).
THEOREM LeaseIsServed == Spec => []LeaseServes
<1>1. IInv => LeaseServes
  <2> SUFFICES ASSUME IInv PROVE LeaseServes OBVIOUS
  <2>1. \A c \in Call : Held(c) BY DEF IInv, LeaseInv
  <2>2. OneGenerator BY <2>1 DEF OneGenerator, Held
  <2>3. LeaseHandedBack BY <2>1 DEF LeaseHandedBack, Held
  <2> QED BY <2>2, <2>3 DEF LeaseServes
<1> QED BY <1>1, AlwaysIInv, PTL

\* A running job has a call at work on it and the other way round, its worker history
\* leaves no attempt open, and the retry limit holds across calls, cancellations and
\* evictions (#startJob, #beginAttempt, finishLatestAttempt, recoverExpiredJobs).
THEOREM JobIsAccounted == Spec => []JobAccounted
<1>1. IInv => JobAccounted
  BY DEF IInv, WorkInv, TrailInv, TriesInv, JobAccounted, AttemptsAccounted
<1> QED BY <1>1, AlwaysIInv, PTL

CancelStep ==
    job.state = "cancelled" /\ job'.state # "cancelled" =>
      job'.state = "queued" /\ job'.attempts = 0 /\ operator' = operator + 1
CompleteStep == job.state = "complete" /\ job'.state # "complete" => job'.state = "running"

\* No step but the operator's retry takes a job out of "cancelled", and none but a new
\* start takes it out of "complete".
LEMMA OutcomeStep ==
    ASSUME Types, [Next]_vars
    PROVE  CancelStep /\ CompleteStep
<1> USE DEF Types, CancelStep, CompleteStep, Becomes
<1>1. ASSUME NEW c \in Call, Acquire(c) PROVE CancelStep /\ CompleteStep
  BY <1>1 DEF Acquire
<1>2. ASSUME NEW c \in Call, WaitEnds(c) PROVE CancelStep /\ CompleteStep
  BY <1>2 DEF WaitEnds
<1>3. ASSUME NEW c \in Call, StartJob(c) PROVE CancelStep /\ CompleteStep
  BY <1>3, StartJobRow
<1>4. ASSUME NEW c \in Call, Plan(c) PROVE CancelStep /\ CompleteStep
  BY <1>4 DEF Plan
<1>5. ASSUME NEW c \in Call, BeginAttempt(c) PROVE CancelStep /\ CompleteStep
  <2>1. mine[c] \in Nat OBVIOUS
  <2> QED BY <1>5, <2>1, BeginAttemptRow
<1>6. ASSUME NEW c \in Call, LoopOver(c) PROVE CancelStep /\ CompleteStep
  BY <1>6 DEF LoopOver
<1>7. ASSUME NEW c \in Call, Generated(c) PROVE CancelStep /\ CompleteStep
  BY <1>7 DEF Generated
<1>8. ASSUME NEW c \in Call, AttemptFails(c) PROVE CancelStep /\ CompleteStep
  BY <1>8 DEF AttemptFails
<1>9. ASSUME NEW c \in Call, FinishAttempt(c) PROVE CancelStep /\ CompleteStep
  BY <1>9, FinishAttemptRow
<1>10. ASSUME NEW c \in Call, CloseAttempt(c) PROVE CancelStep /\ CompleteStep
  BY <1>10, CloseAttemptRow
<1>11. ASSUME NEW c \in Call, CompleteJob(c) PROVE CancelStep /\ CompleteStep
  BY <1>11, CompleteJobRow
<1>12. ASSUME NEW c \in Call, FailJob(c) PROVE CancelStep /\ CompleteStep
  BY <1>12, FailJobRow
<1>13. ASSUME NEW c \in Call, StoreFails(c) PROVE CancelStep /\ CompleteStep
  BY <1>13 DEF StoreFails
<1>14. ASSUME NEW c \in Call, Release(c) PROVE CancelStep /\ CompleteStep
  BY <1>14 DEF Release
<1>15. ASSUME NEW c \in Call, CallAgain(c) PROVE CancelStep /\ CompleteStep
  BY <1>15 DEF CallAgain
<1>16. ASSUME NEW c \in Call, Renew(c) PROVE CancelStep /\ CompleteStep
  BY <1>16, RenewRow
<1>17. ASSUME NEW c \in Call, Renewed(c) PROVE CancelStep /\ CompleteStep
  BY <1>17 DEF Renewed
<1>18. ASSUME NEW c \in Call, Abort(c) PROVE CancelStep /\ CompleteStep
  BY <1>18 DEF Abort
<1>19. ASSUME NEW c \in Call, Crash(c) PROVE CancelStep /\ CompleteStep
  BY <1>19 DEF Crash
<1>20. CASE CancelJob
  BY <1>20, CancelJobRow
<1>21. CASE RetryJob
  BY <1>21, RetryJobRow DEF RetryJob, Requeued
<1>22. CASE Evict
  BY <1>22 DEF Evict
<1>23. CASE LeaseExpires
  BY <1>23 DEF LeaseExpires
<1>24. CASE RowLeaseExpires
  BY <1>24, RowLeaseExpiresRow
<1>25. CASE Recover
  BY <1>25, RecoverRow
<1>26. CASE UNCHANGED vars BY <1>26 DEF vars
<1> QED BY <1>1, <1>2, <1>3, <1>4, <1>5, <1>6, <1>7, <1>8, <1>9, <1>10, <1>11,
         <1>12, <1>13, <1>14, <1>15, <1>16, <1>17, <1>18, <1>19, <1>20, <1>21,
         <1>22, <1>23, <1>24, <1>25, <1>26
       DEF Next, CallStep

\* A late update of a call, a recovery or another operator never undoes how a job
\* ended: a cancelled one is left by retryJob alone, which resets its attempts, and a
\* complete one by #startJob alone (#transitionActiveJob, #completeJob, #failJob).
THEOREM OutcomesStick == Spec => OutcomeSticks
<1>1. IInv /\ [Next]_vars => [CancelStep]_job /\ [CompleteStep]_job
  BY OutcomeStep DEF IInv
<1>2. Spec => [][CancelStep]_job /\ [][CompleteStep]_job
  BY <1>1, AlwaysIInv, PTL DEF Spec
<1> QED BY <1>2 DEF OutcomeSticks, CancelSticks, CompleteSticks, CancelStep, CompleteStep

=============================================================================
