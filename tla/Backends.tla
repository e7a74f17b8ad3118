----------------------------- MODULE Backends ------------------------------
(* The hot-swappable backends of the controller                              *)
(* (apps/relay/src/backend-service.ts): the wanted object store, metrics     *)
(* exporter and traffic director are settings of the repository; an operator *)
(* changes them, activations run one after the other, and the controller     *)
(* takes them up when it starts.  During an upgrade two controller processes *)
(* share the repository.                                                     *)
EXTENDS Integers, Sequences, FiniteSets

CONSTANTS None,
          Controller,     \* processes of the controller
          Value,          \* configurations an operator may ask for
          MaxActs,        \* activations and closes asked for
          MaxStarts,      \* starts of a process
          MaxFaults       \* calls that fail

VARIABLES setting,        \* the wanted configuration of each category, with its revision
          applied,        \* the object store each node says it uses
          life,           \* "down", "resolved", "applied", "up"
          active,         \* the object store and the director a process uses
          delegate,       \* SwitchableMetricsExporter: the exporter and its configuration
          running,        \* exporters whose timer runs
          chain,          \* #activationTail: what waits
          task,           \* what runs
          closed,
          writer,         \* whose configuration is in the setting
          made, acts, starts, faults

vars == <<setting, applied, life, active, delegate, running, chain, task, closed, writer, made,
          acts, starts, faults>>

Category == {"object-store", "metrics", "routing"}
\* local, prometheus, builtin: what is used when nothing is set.
Default == "default"
Config == Value \cup {Default}
NoExporter == [id |-> 0, value |-> Default]
Idle == [at |-> "idle"]
Absent == [value |-> None, revision |-> 0]

Init ==
  /\ setting = [k \in Category |-> Absent]
  /\ applied = [c \in Controller |-> None]
  /\ life = [c \in Controller |-> "down"]
  /\ active = [c \in Controller |-> [k \in Category \ {"metrics"} |-> Default]]
  /\ delegate = [c \in Controller |-> NoExporter]
  /\ running = [c \in Controller |-> {}]
  /\ chain = [c \in Controller |-> <<>>] /\ task = [c \in Controller |-> Idle]
  /\ closed = [c \in Controller |-> FALSE]
  /\ writer = [k \in Category |-> None]
  /\ made = 0 /\ acts = 0 /\ starts = 0 /\ faults = 0

Becomes(c, t) == task' = [task EXCEPT ![c] = t]
Goes(c, at) == Becomes(c, [task[c] EXCEPT !.at = at])
Ends(c) == Becomes(c, Idle)
At(c, at) == life[c] = "up" /\ task[c].at = at
Fault == faults < MaxFaults /\ faults' = faults + 1
Fine == UNCHANGED faults

-----------------------------------------------------------------------------
(* The settings of the repository. *)

\* compareAndSetSetting and putSettingIfAbsent: an absent setting has revision 0.
compareAndSetSetting(k, value, expected) ==
  /\ setting[k].revision = expected
  /\ setting' = [setting EXCEPT ![k] = [value |-> value, revision |-> expected + 1]]

\* putSetting: the last one wins.
putSetting(c, value) == applied' = [applied EXCEPT ![c] = value]

-----------------------------------------------------------------------------
(* A process starts. *)

\* resolveConfiguredObjectStore: the wanted store is created and is healthy.
resolveConfiguredObjectStore(c) ==
  /\ life[c] = "down" /\ starts < MaxStarts /\ starts' = starts + 1
  /\ LET wanted == setting["object-store"].value IN
       /\ active' = [active EXCEPT ![c]["object-store"] = IF wanted = None THEN Default ELSE wanted]
       /\ life' = [life EXCEPT ![c] = IF wanted = None THEN "applied" ELSE "resolved"]
  /\ UNCHANGED <<setting, applied, delegate, running, chain, task, closed, writer, made, acts, faults>>

\* It is recorded as applied on this node.
recordsApplied(c) ==
  /\ life[c] = "resolved" /\ putSetting(c, active[c]["object-store"])
  /\ life' = [life EXCEPT ![c] = "applied"]
  /\ UNCHANGED <<setting, active, delegate, running, chain, task, closed, writer, made, acts, starts, faults>>

\* SwitchableTrafficDirector.activate.
routingActivate(c, value) == active' = [active EXCEPT ![c]["routing"] = value]

\* load: the director and the exporter of the settings.
load(c) ==
  /\ life[c] = "applied" /\ life' = [life EXCEPT ![c] = "up"]
  /\ routingActivate(c, IF setting["routing"].value = None THEN Default ELSE setting["routing"].value)
  /\ IF setting["metrics"].value \in {None, Default}
     THEN UNCHANGED <<delegate, running, made>>
     ELSE /\ made' = made + 1
          /\ delegate' = [delegate EXCEPT ![c] = [id |-> made', value |-> setting["metrics"].value]]
          /\ running' = [running EXCEPT ![c] = {made'}]
  /\ UNCHANGED <<setting, applied, chain, task, closed, writer, acts, starts, faults>>

\* The process is killed at any time, or its start fails (an unhealthy store, a
\* credential that is missing); a new one starts from the settings.
Crash(c) ==
  /\ life[c] # "down" /\ starts < MaxStarts /\ life' = [life EXCEPT ![c] = "down"]
  /\ delegate' = [delegate EXCEPT ![c] = NoExporter] /\ running' = [running EXCEPT ![c] = {}]
  /\ chain' = [chain EXCEPT ![c] = <<>>] /\ Ends(c) /\ closed' = [closed EXCEPT ![c] = FALSE]
  /\ UNCHANGED <<setting, applied, active, writer, made, acts, starts, faults>>

-----------------------------------------------------------------------------
(* Activations, one at a time. *)

\* activate: refused once closed, else queued.
activate(c, k, value) ==
  /\ life[c] = "up" /\ ~closed[c] /\ acts < MaxActs /\ acts' = acts + 1
  /\ chain' = [chain EXCEPT ![c] = Append(@, [at |-> "validate", category |-> k, value |-> value])]
  /\ UNCHANGED <<setting, applied, life, active, delegate, running, task, closed, writer, made, starts, faults>>

\* The tail settles and the next one runs.
activationTail(c) ==
  /\ At(c, "idle") /\ chain[c] # <<>>
  /\ Becomes(c, Head(chain[c])) /\ chain' = [chain EXCEPT ![c] = Tail(@)]
  /\ UNCHANGED <<setting, applied, life, active, delegate, running, closed, writer, made, acts, starts, faults>>

\* #activate: the candidate is created and asked for its health; an unhealthy one, or
\* one that cannot be created, is refused.
Validated(c, category, healthy) ==
  /\ At(c, "validate") /\ task[c].category = category
  /\ IF healthy THEN Goes(c, "read") /\ Fine ELSE Ends(c) /\ Fault
  /\ UNCHANGED <<setting, applied, life, active, delegate, running, chain, closed, writer, made, acts, starts>>
createConfiguredObjectStore(c, healthy) == Validated(c, "object-store", healthy)
routingCandidate(c, healthy) == Validated(c, "routing", healthy)
metricsCandidate(c, healthy) == Validated(c, "metrics", healthy)

\* #persistDesired reads the setting: nothing to write when it has the value already.
persistReads(c) ==
  /\ At(c, "read")
  /\ LET s == setting[task[c].category]
         t == [at |-> IF s.value = task[c].value THEN "apply" ELSE "write",
               category |-> task[c].category, value |-> task[c].value,
               revision |-> s.revision, old |-> IF s.value = None THEN Default ELSE s.value,
               changed |-> FALSE, by |-> None, next |-> NoExporter]
     IN Becomes(c, t)
  /\ UNCHANGED <<setting, applied, life, active, delegate, running, chain, closed, writer, made, acts, starts, faults>>

\* It writes: a setting that changed since is a conflict, unless it has the value now.
persistDesired(c) ==
  /\ At(c, "write")
  /\ LET k == task[c].category s == setting[k] IN
       \/ /\ compareAndSetSetting(k, task[c].value, task[c].revision)
          /\ writer' = [writer EXCEPT ![k] = c]
          /\ Becomes(c, [task[c] EXCEPT !.at = "apply", !.changed = TRUE,
                         !.revision = setting'[k].revision, !.by = writer[k]])
       \/ /\ s.revision # task[c].revision /\ UNCHANGED <<setting, writer>>
          /\ IF s.value = task[c].value THEN Goes(c, "apply") ELSE Ends(c)
  /\ UNCHANGED <<applied, life, active, delegate, running, chain, closed, made, acts, starts, faults>>

\* A call to the repository is reported to have failed, though it may have written.
repositoryFails(c) ==
  /\ task[c].at \in {"read", "write", "rollback"} /\ Fault
  /\ Ends(c)
  /\ IF task[c].at = "read" THEN UNCHANGED <<setting, writer>>
     ELSE LET k == task[c].category IN
            /\ writer' = [writer EXCEPT ![k] = None]
            /\ \/ UNCHANGED setting
               \/ task[c].at = "write" /\ compareAndSetSetting(k, task[c].value, task[c].revision)
  /\ UNCHANGED <<applied, life, active, delegate, running, chain, closed, made, acts, starts>>

\* An object store is staged for the next start; a director is replaced at once; an
\* exporter is started, and takes over when there is none before it.
applies(c) ==
  /\ At(c, "apply")
  /\ CASE task[c].category = "object-store" ->
            Ends(c) /\ UNCHANGED <<active, delegate, running, made>>
       [] task[c].category = "routing" ->
            Ends(c) /\ routingActivate(c, task[c].value) /\ UNCHANGED <<delegate, running, made>>
       [] OTHER ->
            LET next == IF task[c].value = Default THEN NoExporter
                        ELSE [id |-> made + 1, value |-> task[c].value] IN
              /\ made' = IF next = NoExporter THEN made ELSE made + 1
              /\ running' = [running EXCEPT ![c] = @ \cup ({next.id} \ {0})]
              /\ IF delegate[c].id = 0 THEN Ends(c) /\ delegate' = [delegate EXCEPT ![c] = next]
                 ELSE Becomes(c, [task[c] EXCEPT !.at = "swap", !.next = next]) /\ UNCHANGED delegate
              /\ UNCHANGED active
  /\ UNCHANGED <<setting, applied, life, chain, closed, writer, acts, starts, faults>>

\* The exporter before it has stopped: its timer is cleared and its last push is over.
MutantExporterActivate(c) ==
  /\ At(c, "swap")
  /\ UNCHANGED running
  /\ delegate' = [delegate EXCEPT ![c] = task[c].next]
  /\ Ends(c)
  /\ UNCHANGED <<setting, applied, life, active, chain, closed, writer, made, acts, starts, faults>>
exporterActivate(c) ==
  /\ At(c, "swap")
  /\ running' = [running EXCEPT ![c] = @ \ {delegate[c].id}]
  /\ delegate' = [delegate EXCEPT ![c] = task[c].next]
  /\ Ends(c)
  /\ UNCHANGED <<setting, applied, life, active, chain, closed, writer, made, acts, starts, faults>>

\* Its stop fails: the new one is stopped, the old one started again.
exporterRollback(c) ==
  /\ At(c, "swap") /\ Fault
  /\ running' = [running EXCEPT ![c] = (@ \ {task[c].next.id}) \cup {delegate[c].id}]
  /\ Goes(c, "rollback")
  /\ UNCHANGED <<setting, applied, life, active, delegate, chain, closed, writer, made, acts, starts>>

\* #rollbackDesired: the setting becomes what it was, unless it changed since.
rollbackDesired(c) ==
  /\ At(c, "rollback") /\ Ends(c)
  /\ LET k == task[c].category IN
       IF ~task[c].changed THEN UNCHANGED <<setting, writer>>
       ELSE \/ /\ compareAndSetSetting(k, task[c].old, task[c].revision)
               /\ writer' = [writer EXCEPT ![k] = IF task[c].by = c THEN c ELSE None]
            \/ setting[k].revision # task[c].revision /\ UNCHANGED <<setting, writer>>
  /\ UNCHANGED <<applied, life, active, delegate, running, chain, closed, made, acts, starts, faults>>

-----------------------------------------------------------------------------
\* close: no activation is accepted any more; the exporter is stopped when those that
\* were accepted are over.
close(c) ==
  /\ life[c] = "up" /\ ~closed[c] /\ acts < MaxActs /\ acts' = acts + 1
  /\ closed' = [closed EXCEPT ![c] = TRUE]
  /\ chain' = [chain EXCEPT ![c] = Append(@, [at |-> "close"])]
  /\ UNCHANGED <<setting, applied, life, active, delegate, running, task, writer, made, starts, faults>>

exporterStop(c) ==
  /\ At(c, "close") /\ Ends(c)
  /\ running' = [running EXCEPT ![c] = @ \ {delegate[c].id}]
  /\ delegate' = [delegate EXCEPT ![c] = NoExporter]
  /\ UNCHANGED <<setting, applied, life, active, chain, closed, writer, made, acts, starts, faults>>

Running(c) ==
  \/ activationTail(c)
  \/ \E healthy \in BOOLEAN : \/ createConfiguredObjectStore(c, healthy)
                              \/ routingCandidate(c, healthy) \/ metricsCandidate(c, healthy)
  \/ persistReads(c) \/ persistDesired(c) \/ applies(c) \/ exporterActivate(c)
  \/ rollbackDesired(c) \/ exporterStop(c)
Next ==
  \E c \in Controller :
    \/ resolveConfiguredObjectStore(c) \/ recordsApplied(c) \/ load(c) \/ Crash(c)
    \/ \E k \in Category, v \in Config : activate(c, k, v)
    \/ Running(c) \/ repositoryFails(c) \/ exporterRollback(c) \/ close(c)

Spec == Init /\ [][Next]_vars

-----------------------------------------------------------------------------
TypeOK ==
  /\ \A k \in Category : setting[k].value \in Config \cup {None} /\ setting[k].revision \in Nat
  /\ life \in [Controller -> {"down", "resolved", "applied", "up"}]
  /\ \A c \in Controller : running[c] \subseteq 1 .. made /\ delegate[c].value \in Config

\* Nothing runs or waits in a process that is up.
Quiet(c) == At(c, "idle") /\ chain[c] = <<>>
Uses(c, k) == IF k = "metrics" THEN delegate[c].value ELSE active[c][k]
\* list: the object store of the settings is not the one this node started with.
restartRequired(c) ==
  setting["object-store"].value # None /\ setting["object-store"].value # applied[c]

\* When a controller has nothing to do, it uses the director and the exporter that
\* are wanted, if it was the last to change them; an activation that failed has put
\* back what it replaced (backend-service.ts #rollbackDesired), and one that another
\* process overtook has not overwritten it.  The exporter in use is the only one whose
\* timer runs, and none runs after close, whatever was being activated then.  A node
\* that does not ask for a restart uses the object store that is wanted.
BackendsSafe ==
  \A c \in Controller :
    /\ Quiet(c) /\ ~closed[c] => \A k \in {"metrics", "routing"} :
         writer[k] = c => Uses(c, k) = setting[k].value
    /\ Quiet(c) => running[c] = IF closed[c] THEN {} ELSE {delegate[c].id} \ {0}
    /\ life[c] \in {"applied", "up"} /\ ~restartRequired(c) /\ setting["object-store"].value # None =>
         active[c]["object-store"] = setting["object-store"].value

=============================================================================
