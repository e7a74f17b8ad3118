-------------------------- MODULE SessionLifecycle --------------------------
(***************************************************************************)
(* The life of a session in the controller, and of the provider connection *)
(* and the profile it refers to: packages/application/src/                 *)
(* session-service.ts, provider-service.ts and profile-service.ts over the *)
(* repository and the secret store, with the retention sweep of apps/relay *)
(* and the start-up sequence of composition/runtime.ts.                    *)
(*                                                                         *)
(* A task is one call in progress (a request, the sweep, or the start-up); *)
(* it is suspended between any two of its awaits.  A call to the           *)
(* repository or to the secret store may fail, with or without its effect, *)
(* and the process may stop between any two steps.                         *)
(***************************************************************************)
EXTENDS Integers, FiniteSets

CONSTANTS Sessions, Providers, Profiles,
          Builtin,               \* the profiles seed() writes
          Requests, Sweeper, Boot,
          NoTask,
          MaxRevision, MaxFaults, MaxCrashes

ASSUME LifecycleAssumption ==
  /\ Boot \notin Requests \cup {Sweeper}
  /\ NoTask \notin Sessions \cup Providers
  /\ Builtin \subseteq Profiles
  /\ MaxFaults \in Nat /\ MaxCrashes \in Nat

VARIABLES store,     \* the repository and the secret store
          task,      \* what each task does next
          producer,  \* per session: the producer of this process
          faults, crashes

vars == <<store, task, producer, faults, crashes>>
Tasks == Requests \cup {Sweeper, Boot}

\* owned: created for a signed-in user, with that user's provider credential.
NoRow == [rev |-> 0, state |-> "stopped", deleting |-> FALSE, owned |-> FALSE,
          profile |-> NoTask, provider |-> NoTask]
Live(s) == store.row[s].rev > 0

\* The store after one write.
SetRow(s, r) == [store EXCEPT !.row[s] = r]
SetMarker(s, b) == [store EXCEPT !.marker[s] = b]
SetSecret(s, b) == [store EXCEPT !.secret[s] = b]
SetProvider(p, state) == [store EXCEPT !.provider[p] = state]
SetProviderSecret(p, b) == [store EXCEPT !.providerSecret[p] = b]
SetProfiles(Q) == [store EXCEPT !.profiles = Q]
Revised(s, state, deleting) == LET r == store.row[s] IN
  SetRow(s, [r EXCEPT !.rev = r.rev + 1, !.state = state, !.deleting = deleting])
Idle == [pc |-> "free", on |-> NoTask, with |-> NoTask, via |-> NoTask,
         owned |-> FALSE, rev |-> 0]
Up == task[Boot].pc = "free"
Continues == {s \in Sessions : store.row[s].state = "active"}

Init ==
  /\ store = [row |-> [s \in Sessions |-> NoRow],
              used |-> {},
              marker |-> [s \in Sessions |-> FALSE],
              secret |-> [s \in Sessions |-> FALSE],
              provider |-> [p \in Providers |-> "none"],
              providerSecret |-> [p \in Providers |-> FALSE],
              profiles |-> {}]
  /\ task = [t \in Tasks |-> IF t = Boot THEN [Idle EXCEPT !.pc = "seed"] ELSE Idle]
  /\ producer = [s \in Sessions |-> "none"]
  /\ faults = 0 /\ crashes = 0

-----------------------------------------------------------------------------
(* Tasks.  An error ends a request; during start-up it ends the process,   *)
(* and the supervisor starts the sequence again.                           *)

Begin(t, pc, on, with, via) ==
  /\ Up /\ task[t] = Idle
  /\ task' = [task EXCEPT ![t] = [Idle EXCEPT !.pc = pc, !.on = on, !.with = with, !.via = via]]

At(t, pc) == task[t].pc = pc
Goto(t, pc) == task' = [task EXCEPT ![t].pc = pc]
Ended(t) == IF t = Boot THEN [Idle EXCEPT !.pc = "recover"] ELSE Idle
Aborted(t) == IF t = Boot THEN [Idle EXCEPT !.pc = "seed"] ELSE Idle
Return(t) == task' = [task EXCEPT ![t] = Ended(t)]
Throw(t) == task' = [task EXCEPT ![t] = Aborted(t)]
Fault == faults < MaxFaults /\ faults' = faults + 1
Reads == UNCHANGED <<store, producer, crashes>>

\* A write that goes through, and one that reports an error whose effect is unknown.
Writes(new) == store' = new /\ UNCHANGED <<producer, faults, crashes>>
Fails(new) == Fault /\ store' \in {store, new} /\ UNCHANGED <<producer, crashes>>

\* The process stops and is started again; what it held in memory is gone.
Crash ==
  /\ crashes < MaxCrashes
  /\ crashes' = crashes + 1
  /\ task' = [t \in Tasks |-> IF t = Boot THEN [Idle EXCEPT !.pc = "seed"] ELSE Idle]
  /\ producer' = [s \in Sessions |-> "none"]
  /\ UNCHANGED <<store, faults>>

-----------------------------------------------------------------------------
(* SessionService.create *)

create(t, s, p, q, owned) ==
  /\ Up /\ task[t] = Idle /\ s \notin store.used
  /\ task' = [task EXCEPT ![t] = [pc |-> "lookup", on |-> s, with |-> p, via |-> q,
                                  owned |-> owned, rev |-> 0]]
  /\ store' = [store EXCEPT !.used = @ \cup {s}]
  /\ UNCHANGED <<producer, faults, crashes>>

\* getProfile and getProvider answer now; the item lookup is awaited after.
Lookup(t) ==
  /\ At(t, "lookup")
  /\ IF task[t].via \in store.profiles /\ store.provider[task[t].with] = "ready"
       THEN Goto(t, IF task[t].owned THEN "marker" ELSE "commit")
       ELSE Throw(t)
  /\ Reads /\ UNCHANGED faults

\* The deterministic reference is made durable before the credential.
PutMarker(t) == LET new == SetMarker(task[t].on, TRUE) IN
  /\ At(t, "marker")
  /\ \/ Goto(t, "secret") /\ Writes(new)
     \/ Throw(t) /\ Fails(new)

PutSecret(t) == LET new == SetSecret(task[t].on, TRUE) IN
  /\ At(t, "secret")
  /\ \/ Goto(t, "commit") /\ Writes(new)
     \/ Goto(t, "reconcile") /\ Fails(new)

NewRow(t) == [rev |-> 1, state |-> "idle", deleting |-> FALSE, owned |-> task[t].owned,
              profile |-> task[t].via, provider |-> task[t].with]

CommitSession(t) == LET new == SetRow(task[t].on, NewRow(t))
                        Failed == IF task[t].owned THEN Goto(t, "reconcile") ELSE Throw(t) IN
  /\ At(t, "commit")
  /\ IF store.provider[task[t].with] = "ready"
       THEN \/ /\ IF task[t].owned THEN Goto(t, "unmark") ELSE Return(t)
               /\ Writes(new)
            \/ Failed /\ Fails(new)
       ELSE Failed /\ Reads /\ UNCHANGED faults

\* deleteSetting(...).catch(() => undefined), then the answer.
Unmark(t) == LET new == SetMarker(task[t].on, FALSE) IN
  /\ At(t, "unmark")
  /\ Return(t)
  /\ Writes(new) \/ Fails(new)

\* #reconcilePendingSessionSourceCredential, after a failure and at start-up.
MutantReconcile(t) == At(t, "reconcile") /\ Goto(t, "undo") /\ Reads /\ UNCHANGED faults
Reconcile(t) ==
  /\ At(t, "reconcile")
  /\ \/ /\ Goto(t, IF store.row[task[t].on].owned THEN "unindex" ELSE "undo")
        /\ UNCHANGED faults
     \/ Throw(t) /\ Fault
  /\ Reads

UndoSecret(t) == LET new == SetSecret(task[t].on, FALSE) IN
  /\ At(t, "undo")
  /\ \/ Goto(t, "unindex") /\ Writes(new)
     \/ Throw(t) /\ Fails(new)

Unindex(t) == LET new == SetMarker(task[t].on, FALSE) IN
  /\ At(t, "unindex")
  /\ \/ Return(t) /\ Writes(new)
     \/ Throw(t) /\ Fails(new)

-----------------------------------------------------------------------------
(* SessionService.control, and the state a finished segment reports. Both  *)
(* are #updateSession: read, change, write at the revision read.           *)

control(t, s, state) ==
  /\ store.row[s].rev < MaxRevision
  /\ Begin(t, "read", s, state, NoTask) /\ Reads /\ UNCHANGED faults

Changed(s, state) ==
  IF state = "active" THEN Live(s) /\ store.row[s].state # "stopped"
                      ELSE Live(s) /\ ~store.row[s].deleting

ReadRow(t) == LET s == task[t].on IN
  /\ At(t, "read")
  /\ IF Changed(s, task[t].with)
       THEN task' = [task EXCEPT ![t].pc = "write", ![t].rev = store.row[s].rev]
       ELSE Throw(t)
  /\ Reads /\ UNCHANGED faults

MutantWritten(t) == Live(task[t].on)
Written(t) == store.row[task[t].on].rev = task[t].rev

WriteRow(t) == LET s == task[t].on
                   new == Revised(s, task[t].with, store.row[s].deleting) IN
  /\ At(t, "write")
  /\ IF ~Written(t) THEN Goto(t, "read") /\ Reads /\ UNCHANGED faults
     ELSE \/ /\ IF task[t].with = "stopped" THEN Goto(t, "quiesce") ELSE Return(t)
             /\ Writes(new)
          \/ Throw(t) /\ Fails(new)

-----------------------------------------------------------------------------
(* Producers of this process.  #stopSessionProducer waits for a start that *)
(* is under way; a start reads the session after it took the lease.        *)

StartProducer(s) ==
  /\ Up /\ producer[s] = "none"
  /\ Live(s) /\ store.row[s].state # "stopped"
  /\ producer' = [producer EXCEPT ![s] = "starting"]
  /\ UNCHANGED <<store, task, faults, crashes>>

\* #prepareVodProducer resolves the credential.
ProducerStarted(s) ==
  /\ producer[s] = "starting"
  /\ producer' = [producer EXCEPT ![s] =
       IF store.row[s].owned => store.secret[s] THEN "running" ELSE "none"]
  /\ UNCHANGED <<store, task, faults, crashes>>

\* The viewers leave, or the demand refresh finds the session stopped.
ProducerEnds(s) ==
  /\ producer[s] = "running"
  /\ producer' = [producer EXCEPT ![s] = "none"]
  /\ UNCHANGED <<store, task, faults, crashes>>

StopSession(t) == LET s == task[t].on IN
  /\ At(t, "quiesce")
  /\ \/ /\ producer[s] # "starting" /\ Return(t)
        /\ producer' = [producer EXCEPT ![s] = "none"] /\ UNCHANGED faults
     \/ Throw(t) /\ Fault /\ UNCHANGED producer
  /\ UNCHANGED <<store, crashes>>

-----------------------------------------------------------------------------
(* SessionService.delete, deleteIfInactive and #finalizeSessionDeletion.   *)

delete(t, s) ==
  /\ s \in store.used
  /\ Begin(t, "delete", s, NoTask, NoTask) /\ Reads /\ UNCHANGED faults

MutantSweepPending(s) ==
  /\ store.row[s].deleting
  /\ Begin(Sweeper, "begin", s, NoTask, NoTask) /\ Reads /\ UNCHANGED faults

\* The sweep retries what listSessionDeletionPending returns.
SweepPending(s) ==
  /\ store.row[s].deleting
  /\ Begin(Sweeper, "delete", s, NoTask, NoTask) /\ Reads /\ UNCHANGED faults

\* deleteIfInactive: the session is unpinned and its last activity is old.
SweepInactive(s) ==
  /\ Live(s) /\ ~store.row[s].deleting
  /\ Up /\ task[Sweeper] = Idle
  /\ task' = [task EXCEPT ![Sweeper].pc = "begin", ![Sweeper].on = s,
                          ![Sweeper].owned = store.row[s].owned]
  /\ Reads /\ UNCHANGED faults

ReadForDeletion(t) == LET s == task[t].on IN
  /\ At(t, "delete")
  /\ IF ~Live(s) THEN Throw(t)
     ELSE task' = [task EXCEPT ![t].pc = IF store.row[s].deleting THEN "stop" ELSE "begin",
                               ![t].owned = store.row[s].owned]
  /\ Reads /\ UNCHANGED faults

BeginDeletion(t) ==
  LET s == task[t].on
      new == Revised(s, "stopped", TRUE) IN
  /\ At(t, "begin")
  /\ IF Live(s) /\ ~store.row[s].deleting
       THEN \/ Goto(t, "stop") /\ Writes(new)
            \/ Throw(t) /\ Fails(new)
       ELSE Throw(t) /\ Reads /\ UNCHANGED faults

StopForDeletion(t) == LET s == task[t].on IN
  /\ At(t, "stop")
  /\ \/ /\ producer[s] # "starting" /\ Goto(t, "fin_secret")
        /\ producer' = [producer EXCEPT ![s] = "none"] /\ UNCHANGED faults
     \/ Throw(t) /\ Fault /\ UNCHANGED producer
  /\ UNCHANGED <<store, crashes>>

DeleteSecret(t) == LET s == task[t].on
                       new == SetSecret(s, FALSE) IN
  /\ At(t, "fin_secret")
  /\ IF ~task[t].owned THEN Goto(t, "fin_row") /\ Reads /\ UNCHANGED faults
     ELSE \/ Goto(t, "fin_marker") /\ Writes(new)
          \/ Throw(t) /\ Fails(new)

DeleteMarker(t) == LET new == SetMarker(task[t].on, FALSE) IN
  /\ At(t, "fin_marker")
  /\ \/ Goto(t, "fin_row") /\ Writes(new)
     \/ Throw(t) /\ Fails(new)

DeleteRow(t) == LET new == SetRow(task[t].on, NoRow) IN
  /\ At(t, "fin_row")
  /\ \/ Return(t) /\ Writes(new)
     \/ Throw(t) /\ Fails(new)

-----------------------------------------------------------------------------
(* ProviderService.create and delete.                                      *)

ProviderSessions(p) == {s \in Sessions : Live(s) /\ store.row[s].provider = p}

createProvider(t, p) ==
  /\ store.provider[p] = "none" /\ ~store.providerSecret[p]
  /\ \A u \in Tasks : task[u].with # p
  /\ Begin(t, "p_secret", NoTask, p, NoTask) /\ Reads /\ UNCHANGED faults

PutProviderSecret(t) == LET new == SetProviderSecret(task[t].with, TRUE) IN
  /\ At(t, "p_secret")
  /\ \/ Goto(t, "p_row") /\ Writes(new)
     \/ Throw(t) /\ Fails(new)

CommitProvider(t) == LET new == SetProvider(task[t].with, "ready") IN
  /\ At(t, "p_row")
  /\ \/ Return(t) /\ Writes(new)
     \/ Goto(t, "p_check") /\ Fails(new)

\* An insert whose acknowledgement was lost is looked up before the secret goes.
CheckProvider(t) ==
  /\ At(t, "p_check")
  /\ \/ /\ IF store.provider[task[t].with] = "none" THEN Goto(t, "p_undo") ELSE Return(t)
        /\ UNCHANGED faults
     \/ Throw(t) /\ Fault
  /\ Reads

UndoProviderSecret(t) == LET new == SetProviderSecret(task[t].with, FALSE) IN
  /\ At(t, "p_undo")
  /\ \/ Throw(t) /\ Writes(new)
     \/ Throw(t) /\ Fails(new)

deleteProvider(t, p) == Begin(t, "p_begin", NoTask, p, NoTask) /\ Reads /\ UNCHANGED faults

\* #beginDeletion: also how a later call finds a deletion to resume.
BeginProviderDeletion(t) ==
  LET p == task[t].with
      new == SetProvider(p, "deleting") IN
  /\ At(t, "p_begin")
  /\ IF store.provider[p] = "none" \/ ProviderSessions(p) # {}
       THEN Throw(t) /\ Reads /\ UNCHANGED faults
       ELSE \/ Goto(t, "p_clean") /\ Writes(new)
            \/ Throw(t) /\ Fails(new)

CleanProvider(t) == LET new == SetProviderSecret(task[t].with, FALSE) IN
  /\ At(t, "p_clean")
  /\ \/ Goto(t, "p_final") /\ Writes(new)
     \/ Throw(t) /\ Fails(new)

\* #finalizeDeletion: an error sends it back to #beginDeletion.
FinalizeProviderDeletion(t) ==
  LET p == task[t].with
      new == SetProvider(p, "none") IN
  /\ At(t, "p_final")
  /\ IF store.provider[p] # "deleting" THEN Return(t) /\ Reads /\ UNCHANGED faults
     ELSE \/ Return(t) /\ Writes(new)
          \/ Goto(t, "p_final") /\ Fails(new)

-----------------------------------------------------------------------------
(* ProfileService.seed at start-up, create and delete.                     *)

putProfile(t, q) ==
  /\ Up /\ task[t] = Idle /\ q \notin store.profiles
  /\ task' = task
  /\ Writes(SetProfiles(store.profiles \cup {q}))

\* The sessions and channels are listed first, the profile is deleted after.
deleteProfile(t, q) ==
  /\ q \in store.profiles
  /\ \A s \in Sessions : Live(s) => store.row[s].profile # q
  /\ Begin(t, "q_delete", NoTask, NoTask, q) /\ Reads /\ UNCHANGED faults

RemoveProfile(t) ==
  /\ At(t, "q_delete") /\ Return(t)
  /\ Writes(SetProfiles(store.profiles \ {task[t].via}))

\* seed writes the built-in profiles one by one, if there is no profile at all.
Seed ==
  /\ At(Boot, "seed")
  /\ IF store.profiles = {} THEN Goto(Boot, "seeding") ELSE Goto(Boot, "recover")
  /\ Reads /\ UNCHANGED faults

SeedProfile(q) ==
  /\ At(Boot, "seeding") /\ q \in Builtin \ store.profiles
  /\ IF Builtin \subseteq store.profiles \cup {q} THEN Goto(Boot, "recover") ELSE task' = task
  /\ Writes(SetProfiles(store.profiles \cup {q}))

-----------------------------------------------------------------------------
(* SessionService.recover: credentials, pending deletions, session states. *)

Marked(s) == store.marker[s]

RecoverCredential(s) ==
  /\ At(Boot, "recover") /\ Marked(s)
  /\ task' = [task EXCEPT ![Boot].pc = "reconcile", ![Boot].on = s]
  /\ Reads /\ UNCHANGED faults

RecoverDeletion(s) ==
  /\ At(Boot, "recover") /\ ~\E r \in Sessions : Marked(r)
  /\ store.row[s].deleting
  /\ task' = [task EXCEPT ![Boot].pc = "stop", ![Boot].on = s,
                          ![Boot].owned = store.row[s].owned]
  /\ Reads /\ UNCHANGED faults

RecoverState(s) ==
  /\ At(Boot, "recover") /\ ~\E r \in Sessions : Marked(r) \/ store.row[r].deleting
  /\ s \in Continues
  /\ task' = task
  /\ Writes(Revised(s, "idle", store.row[s].deleting))

Serve ==
  /\ At(Boot, "recover")
  /\ ~\E s \in Sessions : Marked(s) \/ store.row[s].deleting \/ s \in Continues
  /\ task' = [task EXCEPT ![Boot] = Idle]
  /\ Reads /\ UNCHANGED faults

-----------------------------------------------------------------------------
Step(t) ==
  \/ Lookup(t) \/ PutMarker(t) \/ PutSecret(t) \/ CommitSession(t) \/ Unmark(t)
  \/ Reconcile(t) \/ UndoSecret(t) \/ Unindex(t)
  \/ ReadRow(t) \/ WriteRow(t) \/ StopSession(t)
  \/ ReadForDeletion(t) \/ BeginDeletion(t) \/ StopForDeletion(t)
  \/ DeleteSecret(t) \/ DeleteMarker(t) \/ DeleteRow(t)
  \/ PutProviderSecret(t) \/ CommitProvider(t) \/ CheckProvider(t) \/ UndoProviderSecret(t)
  \/ BeginProviderDeletion(t) \/ CleanProvider(t) \/ FinalizeProviderDeletion(t)
  \/ RemoveProfile(t)

Request(t) ==
  \/ \E s \in Sessions, p \in Providers, q \in Profiles, o \in BOOLEAN : create(t, s, p, q, o)
  \/ \E s \in Sessions, state \in {"idle", "stopped", "active"} : control(t, s, state)
  \/ \E s \in Sessions : delete(t, s)
  \/ \E p \in Providers : createProvider(t, p) \/ deleteProvider(t, p)
  \/ \E q \in Profiles : putProfile(t, q) \/ deleteProfile(t, q)

Recover ==
  \/ Seed \/ Serve
  \/ \E q \in Builtin : SeedProfile(q)
  \/ \E s \in Sessions : RecoverCredential(s) \/ RecoverDeletion(s) \/ RecoverState(s)

Next ==
  \/ \E t \in Tasks : Step(t)
  \/ \E t \in Requests : Request(t)
  \/ \E s \in Sessions : SweepPending(s) \/ SweepInactive(s)
  \/ \E s \in Sessions : StartProducer(s) \/ ProducerStarted(s) \/ ProducerEnds(s)
  \/ Recover
  \/ Crash

\* Awaited calls return, the sweep's timer fires, a start under way settles
\* and the process is started again when it stopped.
Fairness ==
  /\ \A t \in Tasks : WF_vars(Step(t))
  /\ \A s \in Sessions : SF_vars(SweepPending(s)) /\ WF_vars(ProducerStarted(s))
  /\ WF_vars(Recover)

Spec == Init /\ [][Next]_vars /\ Fairness

-----------------------------------------------------------------------------
\* create stages the source credential behind a durable marker and
\* #finalizeSessionDeletion removes the credential before the row: whatever
\* fails or stops in between, a stored credential is always findable, from
\* its marker or from the session that owns it.
NoLostCredential ==
  \A s \in Sessions : store.secret[s] => store.marker[s] \/ Live(s)

\* #reconcilePendingSessionSourceCredential never takes the credential of a
\* session whose commit went through although it was reported as failed.
SessionKeepsCredential ==
  \A s \in Sessions : store.row[s].owned /\ ~store.row[s].deleting => store.secret[s]

\* "the source credential remains available until every producer has been
\* asked to stop": a running producer never outlives its credential.
CredentialOutlivesProducer ==
  \A s \in Sessions : producer[s] = "running" /\ store.row[s].owned => store.secret[s]

\* A provider connection that is not being deleted has its secret, although
\* ProviderService.create removes the secret of an insert that failed.
ProviderKeepsSecret ==
  \A p \in Providers : store.provider[p] = "ready" => store.providerSecret[p]

\* Rows and secrets live in two stores that no transaction spans: none is ever
\* left without what it needs from the other (create, the reconciliation of
\* its marker, ProviderService.create), nor taken from a producer that runs.
CredentialsKept == /\ NoLostCredential /\ SessionKeepsCredential /\ ProviderKeepsSecret
                   /\ CredentialOutlivesProducer

\* A control call or a finishing segment that read the row before the deletion
\* began does not undo it: the fence stays up until the row is gone.
DeletionFence ==
  [][\A s \in Sessions : store.row[s].deleting =>
       \/ store'.row[s] = NoRow
       \/ store'.row[s].deleting /\ store'.row[s].state = "stopped"]_vars

\* A deletion that began is finished, by its own call, by the retention sweep
\* or by the next start, whatever failed on the way.
DeletionEnds == \A s \in Sessions : store.row[s].deleting ~> ~Live(s)
=============================================================================
