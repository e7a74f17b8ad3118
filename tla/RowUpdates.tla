----------------------------- MODULE RowUpdates -----------------------------
(***************************************************************************)
(* How the row of a segment job, or of the producer of a session, changes. *)
(*                                                                         *)
(* Every update is a loop (session-jobs.ts, vod-producer-coordinator.ts):  *)
(* read the row, decide, compute the next one and store it under the       *)
(* revision that was read; after a conflict start again, five times at     *)
(* most.  SegmentJobs and VodProducer take such a loop for one step.  Here *)
(* it is made of the statements of postgres-repository.ts, each of which   *)
(* may meet what others have committed since the last one; a create is a   *)
(* transaction that others wait for.                                       *)
(***************************************************************************)
EXTENDS Integers, FiniteSets

CONSTANTS Call,         \* calls of the operations
          None,
          MaxAttempts,  \* MAX_ATOMIC_WRITE_ATTEMPTS
          MaxFaults     \* bound: connections that break

VARIABLES table,        \* which of the two
          row,          \* the newest version, and who holds its lock
          lock, born,   \* born: the transaction whose insert is not committed
          call,         \* gen: the generation for which a producer updates its row
          held, rivals, \* since the call began: versions, updates of others
          faults

vars == <<table, row, lock, born, call, held, rivals, faults>>

JobOps == {"start", "transition", "complete", "fail", "cancel", "retry", "recover"}
ProducerOps == {"produce", "progress", "settle", "reclaim"}
Ops == IF table = "segment_jobs" THEN JobOps ELSE ProducerOps

\* active: leased or running, starting or running; queued: also the idle producer.
States == {"queued", "active", "switching", "failed", "complete", "cancelled"}

\* allowedCurrentStates, and the state that is stored.
Allowed ==
  [start    |-> {"queued", "active", "failed", "complete"}, transition |-> {"active"},
   complete |-> {"active"},                                 fail       |-> {"queued", "active"},
   cancel   |-> {"queued", "active", "failed"},             retry      |-> {"failed", "cancelled"},
   recover  |-> {"active"},
   produce  |-> States \ {"active"},                        progress   |-> {"active", "switching"},
   settle   |-> {"active", "switching"},                    reclaim    |-> {"active", "switching"}]
After ==
  [start |-> "active", transition |-> "active", complete |-> "complete", fail |-> "failed",
   cancel |-> "cancelled", retry |-> "queued", recover |-> "queued",
   produce |-> "active", progress |-> "active", settle |-> "complete", reclaim |-> "queued"]

\* The row that is stored is computed from the one that was read.
Updated(c, r) ==
  [rev |-> r.rev + 1, state |-> After[call[c].op], live |-> After[call[c].op] = "active",
   gen |-> IF call[c].op = "produce" THEN r.gen + 1 ELSE r.gen, trail |-> r.trail \cup {c}]
First(c) == [rev |-> 1, state |-> "active", live |-> TRUE, gen |-> 1, trail |-> {c}]
Committed == IF born = None THEN row ELSE None

Idle == [at |-> "idle", op |-> None, saw |-> None, tries |-> 0, gen |-> 0, answer |-> None]

Init ==
  /\ table \in {"segment_jobs", "vod_producers"}
  /\ row \in {None} \cup
       [rev : {1}, state : States \ (IF table = "segment_jobs" THEN {"switching"} ELSE {}),
        live : BOOLEAN, gen : {1}, trail : {{}}]
  /\ (row # None => (row.live => row.state = "active"))
  /\ lock = None /\ born = None
  /\ call = [c \in Call |-> Idle]
  /\ held = [c \in Call |-> {}] /\ rivals = [c \in Call |-> 0]
  /\ faults = 0

Going(c) == call[c].at \notin {"idle", "over"}
Goto(c, at) == call' = [call EXCEPT ![c].at = at]
Answer(c, a) == call' = [call EXCEPT ![c] = [Idle EXCEPT !.at = "over", !.answer = a]]

-----------------------------------------------------------------------------
(* The decisions.                                                          *)

\* What the row that was read means to the caller.
Verdict(c, r) ==
  CASE r = None -> IF call[c].op = "produce" THEN "insert" ELSE "missing"
    [] call[c].op \in {"start", "transition", "complete"} /\ r.state = "cancelled" -> "cancelled"
    [] call[c].op \in {"transition", "retry"} /\ r.state \notin Allowed[call[c].op] -> "refused"
    [] call[c].op = "complete" /\ r.state = "complete" -> "kept"
    [] call[c].op \in {"fail", "cancel"} /\ r.state \in {"complete", "failed", "cancelled"} -> "kept"
    [] call[c].op \in {"recover", "reclaim"} /\ (r.state \notin Allowed[call[c].op] \/ r.live) -> "kept"
    [] call[c].op \in {"progress", "settle"} /\ r.gen # call[c].gen -> "kept"
    [] OTHER -> "update"

\* What a state means in which the row may not be updated.
Refusal(c, r) ==
  CASE call[c].op \in {"start", "transition", "complete"} /\ r.state = "cancelled" -> "cancelled"
    [] call[c].op = "complete" /\ r.state = "complete" -> "kept"
    [] call[c].op \in {"start", "transition", "complete", "retry", "produce"} -> "refused"
    [] OTHER -> "kept"

Judge(c, r) ==
  LET v == Verdict(c, r) IN
  IF v \in {"update", "insert"} THEN call' = [call EXCEPT ![c].at = v, ![c].saw = r] ELSE Answer(c, v)

-----------------------------------------------------------------------------
(* The statements.                                                         *)

begin(c, o) ==
  /\ call[c].at = "idle"
  /\ call' = [call EXCEPT ![c].op = o, ![c].at = IF o = "start" THEN "insert" ELSE "read",
                           ![c].gen = IF o \in {"progress", "settle"} THEN 1 ELSE 0]
  /\ UNCHANGED <<table, row, lock, born, faults>>

\* createSegmentJob: INSERT ... ON CONFLICT DO NOTHING waits for an insert of the
\* same key that is not committed.
createSegmentJob(c) ==
  /\ call[c].at = "insert" /\ call[c].op = "start" /\ born = None
  /\ IF row = None
       THEN row' = First(c) /\ lock' = c /\ born' = c /\ Goto(c, "commit")
       ELSE Goto(c, "select") /\ UNCHANGED <<row, lock, born>>
  /\ UNCHANGED <<table, faults>>

\* SELECT ... FOR UPDATE in the same transaction.
selectForUpdate(c) ==
  /\ call[c].at = "select" /\ lock = None
  /\ lock' = c /\ call' = [call EXCEPT ![c].saw = row, ![c].at = "commit"]
  /\ UNCHANGED <<table, row, born, faults>>

commit(c) ==
  /\ call[c].at = "commit"
  /\ lock' = None /\ born' = None
  /\ IF born = c THEN Answer(c, "created") ELSE Judge(c, call[c].saw)
  /\ UNCHANGED <<table, row, faults>>

\* createVodProducer: the insert is committed by itself, and the row of another one
\* is read after it.  The caller does not look at created.
createVodProducer(c) ==
  /\ \/ /\ call[c].at = "insert" /\ call[c].op = "produce"
        /\ IF row = None THEN row' = First(c) /\ Answer(c, "created")
                         ELSE Goto(c, "exists") /\ UNCHANGED row
     \/ call[c].at = "exists" /\ Answer(c, "exists") /\ UNCHANGED row
  /\ UNCHANGED <<table, lock, born, faults>>

getVersioned(c) ==
  /\ call[c].at = "read"
  /\ Judge(c, Committed)
  /\ UNCHANGED <<table, row, lock, born, faults>>

\* compareAndSetVersioned, compareAndSetVodProducer: an UPDATE waits for the lock
\* and looks at the version it finds then.
MutantCompareAndSet(c) ==
  /\ call[c].at = "update" /\ lock = None
  /\ IF row.state \in Allowed[call[c].op]
       THEN row' = Updated(c, call[c].saw) /\ Answer(c, "applied")
       ELSE Goto(c, "reread") /\ UNCHANGED row
  /\ UNCHANGED <<table, lock, born, faults>>
compareAndSet(c) ==
  /\ call[c].at = "update" /\ lock = None
  /\ IF row.rev = call[c].saw.rev /\ row.state \in Allowed[call[c].op]
       THEN row' = Updated(c, call[c].saw) /\ Answer(c, "applied")
       ELSE Goto(c, "reread") /\ UNCHANGED row
  /\ UNCHANGED <<table, lock, born, faults>>

\* The row is read once more to tell a conflict from a state that is not allowed.
reread(c) ==
  /\ call[c].at = "reread"
  /\ IF row.rev = call[c].saw.rev \/ call[c].op = "produce" THEN Answer(c, Refusal(c, row))
     ELSE IF call[c].tries + 1 = MaxAttempts THEN Answer(c, "conflicted")
     ELSE call' = [call EXCEPT ![c].at = "read", ![c].saw = None, ![c].tries = @ + 1]
  /\ UNCHANGED <<table, row, lock, born, faults>>

\* The connection breaks: before the statement, or after it took effect.
breaks(c) ==
  /\ faults < MaxFaults /\ faults' = faults + 1
  /\ Going(c)
  /\ \/ /\ row' = IF born = c THEN None ELSE row
        /\ lock' = (IF lock = c THEN None ELSE lock) /\ born' = (IF born = c THEN None ELSE born)
     \/ call[c].at = "commit" /\ lock' = None /\ born' = None /\ UNCHANGED row
     \/ /\ call[c].at = "update" /\ lock = None /\ row.rev = call[c].saw.rev /\ row.state \in Allowed[call[c].op]
        /\ row' = Updated(c, call[c].saw) /\ UNCHANGED <<lock, born>>
  /\ Answer(c, "error")
  /\ UNCHANGED table

\* leaseExpiresAt is over; the revision stays.
leaseExpires ==
  /\ lock = None /\ row # None /\ row.live
  /\ row' = [row EXCEPT !.live = FALSE]
  /\ UNCHANGED <<table, lock, born, call, faults>>

-----------------------------------------------------------------------------
Step ==
  \/ leaseExpires
  \/ \E c \in Call : \/ \E o \in Ops : begin(c, o)
                     \/ createSegmentJob(c) \/ selectForUpdate(c) \/ commit(c)
                     \/ createVodProducer(c) \/ getVersioned(c) \/ compareAndSet(c)
                     \/ reread(c) \/ breaks(c)

\* What the properties look back on, for the calls that are not over.
View == IF Committed = None THEN None ELSE [state |-> row.state, live |-> row.live, gen |-> row.gen]
Written == row # None /\ row' # None /\ row'.rev # row.rev
Rival(c) == Written /\ c \notin row'.trail \ row.trail
Watched(A) ==
  /\ A
  /\ held' = [c \in Call |-> IF Going(c)' \/ Going(c) THEN held[c] \cup {View, View'} ELSE {}]
  /\ rivals' = [c \in Call |-> IF ~Going(c) THEN 0
                                ELSE IF Rival(c) /\ rivals[c] < MaxAttempts THEN rivals[c] + 1
                                ELSE rivals[c]]

Next == Watched(Step)

Spec == Init /\ [][Next]_vars

-----------------------------------------------------------------------------
TypeOK ==
  /\ row # None => row.state \in States /\ row.trail \subseteq Call /\ row.live \in BOOLEAN
  /\ {lock, born} \subseteq Call \cup {None}
  /\ \A c \in Call : call[c].at \in {"idle", "insert", "select", "commit", "exists", "read", "update",
                                    "reread", "over"}
  /\ rivals \in [Call -> 0 .. MaxAttempts]

\* createSegmentJob, createVodProducer: of the calls that find no row, one creates
\* it; an update that was answered as applied is part of the row for ever; nobody
\* keeps a lock that is over.
UpdatesKept ==
  /\ \A c, d \in Call : call[c].answer = "created" /\ call[d].answer = "created" => c = d
  /\ \A c \in Call : call[c].answer \in {"created", "applied"} => row # None /\ c \in row.trail
  /\ \A c \in Call : lock = c => call[c].at = "commit"

\* #transitionActiveJob and the others: an update is one step on the row.  It is
\* computed from the row as it is, and what was decided by an earlier statement is
\* still right: a job is recovered only while its lease is over, a producer's row is
\* settled only by its own generation.
UpdatesAtomic ==
  Written => \E c \in Call : /\ call[c].at = "update" /\ row' = Updated(c, row)
                              /\ Verdict(c, row) = "update" /\ row.state \in Allowed[call[c].op]

\* What a call answers was so at some moment since it began, and it gives up for
\* conflicts only if others made as many updates as it made attempts.
AnswersTrue ==
  \A c \in Call : call'[c].answer # call[c].answer =>
    CASE call'[c].answer \in {"applied", "created", "error"} -> TRUE
      [] call'[c].answer = "conflicted" -> rivals'[c] = MaxAttempts
      [] call'[c].answer = "exists" -> \E v \in held'[c] : v # None
      [] OTHER -> \/ \E v \in held'[c] : \/ call'[c].answer = Verdict(c, v)
                                          \/ /\ v # None /\ v.state \notin Allowed[call[c].op]
                                             /\ call'[c].answer = Refusal(c, v)
                  \/ call[c].op = "produce" /\ rivals'[c] > 0

StepsSound == [][UpdatesAtomic /\ AnswersTrue]_vars

=============================================================================
