------------------------------ MODULE Runtime ------------------------------
(* One process of the relay from its start to its end                        *)
(* (apps/relay/src/composition): the start-up of each role as a script whose *)
(* steps may fail, the roll-back of a start that fails, the shutdown that a  *)
(* signal or the exit of the managed MediaMTX brings about, and the timers   *)
(* between them.                                                             *)
(*                                                                           *)
(* A step of a script is <<verb, name>>:                                     *)
(*   "new"    a constructor, which throws when a setting is missing;         *)
(*   "defer"  startup.defer: the stop of that name is due if the start fails;*)
(*   "await"  an operation that leaves nothing to be stopped;                *)
(*   "open"   an operation after which there is something to be stopped.     *)
EXTENDS Integers, Sequences, FiniteSets

CONSTANTS MaxFaults     \* operations and stops that fail or hang

VARIABLES kind,         \* the role plan
          conf,         \* what the settings ask for
          at,           \* the step of the script the start has come to
          phase,        \* "starting", "rollback", "running", "stopping", "ended", "killed"
          deferred,     \* createStartupRollback's steps
          open,         \* what has been opened and not been closed
          done,         \* the operations that were awaited
          todo,         \* the rest of the sequence of stops that runs
          stop,         \* each stop: "no", "running", "done", "failed", "late"
          handlers,     \* the signals bindShutdown listens for, once each
          failure,      \* runtimeFailure is set
          sweep,        \* runs of a background operation in flight
          faults

vars == <<kind, conf, at, phase, deferred, open, done, todo, stop, handlers, failure, sweep,
          faults>>

Kind == {"controller", "source-worker", "ingest-origin", "edge", "standalone"}
Stop == {"background-timers", "live-service", "managed-mediamtx", "agent-controller",
         "backend-service", "vod-producers", "node-agent", "http-server",
         "loopback-http-server", "repository"}
\* Valkey connections, which no stop closes.
Held == Stop \cup {"coordination"}
Setting == {"repository", "secrets", "coordination", "objects"}
Conf == [missing : Setting \cup {"none"}, agent : BOOLEAN, mediamtx : BOOLEAN,
         loopback : BOOLEAN]

\* What a role plan asks for.
ROLE_PLANS ==
  [k \in Kind |-> [hostsController |-> k \in {"controller", "standalone"},
                   managesLiveIngest |-> k \in {"ingest-origin", "standalone"}]]

\* The plan of a set of roles: one role, or all four.
resolveRolePlan(roles) ==
  CASE Cardinality(roles) = 1 -> CHOOSE r \in roles : TRUE
    [] roles = Kind \ {"standalone"} -> "standalone"
    [] OTHER -> "unsupported"

repositorySchemaStartupMethod(k) ==
  IF ROLE_PLANS[k].hostsController THEN "migrate" ELSE "assertSchemaCurrent"

If(condition, step) == IF condition THEN <<step>> ELSE <<>>
managed(k) == ROLE_PLANS[k].managesLiveIngest /\ conf.mediamtx

createRepository == <<"new", "repository">>
createSecretStore == <<"new", "secrets">>
createCoordinationStore == <<"new", "coordination">>
createBootstrapObjectStores == <<"new", "objects">>
resolveConfiguredObjectStore == <<"await", "object store">>
startLoopbackCompanion(k) == If(conf.loopback, <<"open", "loopback-http-server">>)

\* The critical resources come before the listener.
startCriticalResourcesBeforeHttp(operations) == operations \o <<<<"open", "http-server">>>>

opensRepository(k) ==
  <<createRepository, <<"defer", "repository">>, <<"await", repositorySchemaStartupMethod(k)>>,
    createSecretStore>>

\* startControlPlaneRuntime, up to the agent controller and the provider service.
controlPlaneStores(k) ==
  opensRepository(k)
    \o <<<<"await", "discover">>, createCoordinationStore, createBootstrapObjectStores,
         resolveConfiguredObjectStore, <<"defer", "backend-service">>,
         <<"open", "backend-service">>, <<"defer", "agent-controller">>>>

\* The services, and what they bring back from the repository.
controlPlaneServices(k) ==
  <<<<"await", "seed">>, <<"defer", "vod-producers">>, <<"defer", "live-service">>,
    <<"await", "scrub">>, <<"await", "recover">>, <<"await", "auth recover">>>>

\* The servers, the local node, MediaMTX, the agents' listener.
controlPlaneServers(k) ==
  <<<<"await", "create server">>, <<"defer", "http-server">>>>
    \o (IF k = "standalone" THEN startLoopbackCompanion(k) ELSE <<>>)
    \o <<<<"defer", "loopback-http-server">>, <<"await", "register local">>,
         <<"defer", "managed-mediamtx">>>>
    \o startCriticalResourcesBeforeHttp(
         If(managed(k), <<"open", "managed-mediamtx">>)
           \o If(k = "controller", <<"open", "agent-controller">>))

startControlPlaneRuntime(k) ==
  controlPlaneStores(k) \o controlPlaneServices(k) \o controlPlaneServers(k)

\* A worker and an edge: the identity of the node, its stores, its sessions.
workerStores(k) ==
  opensRepository(k)
    \o <<<<"await", "discover">>, <<"defer", "node-agent">>>>
    \o If(conf.agent, <<"await", "identity">>)
    \o <<createCoordinationStore, createBootstrapObjectStores, resolveConfiguredObjectStore>>

roleServer(k) ==
  <<<<"await", "create server">>, <<"defer", "http-server">>>>
    \o startLoopbackCompanion(k) \o <<<<"defer", "loopback-http-server">>>>

startSourceWorkerRuntime(k) ==
  workerStores(k)
    \o <<<<"defer", "vod-producers">>, <<"await", "recover">>>> \o roleServer(k)
    \o startCriticalResourcesBeforeHttp(If(conf.agent, <<"open", "node-agent">>))

startIngestOriginRuntime(k) ==
  opensRepository(k)
    \o <<<<"await", "discover">>, <<"defer", "live-service">>, <<"await", "scrub">>>>
    \o roleServer(k) \o <<<<"defer", "managed-mediamtx">>, <<"defer", "node-agent">>>>
    \o startCriticalResourcesBeforeHttp(
         If(managed(k), <<"open", "managed-mediamtx">>)
           \o If(conf.agent, <<"open", "node-agent">>))

edgeStores(k) ==
  opensRepository(k) \o <<<<"defer", "node-agent">>>>
    \o If(conf.agent, <<"await", "identity">>)
    \o <<createCoordinationStore, createBootstrapObjectStores, resolveConfiguredObjectStore>>

startEdgeRuntime(k) ==
  edgeStores(k) \o <<<<"defer", "vod-producers">>>> \o roleServer(k)
    \o startCriticalResourcesBeforeHttp(If(conf.agent, <<"open", "node-agent">>))

\* composeConfiguredRuntime: the script of the plan.
COMPOSITION_ROOTS(k) ==
  CASE ROLE_PLANS[k].hostsController -> startControlPlaneRuntime(k)
    [] k = "source-worker" -> startSourceWorkerRuntime(k)
    [] k = "ingest-origin" -> startIngestOriginRuntime(k)
    [] k = "edge" -> startEdgeRuntime(k)

\* The order of the stops when the process ends.
controlPlaneShutdown ==
  <<"background-timers", "live-service", "managed-mediamtx", "agent-controller",
    "backend-service", "vod-producers", "http-server", "repository">>
ingestOriginShutdown ==
  <<"background-timers", "live-service", "managed-mediamtx", "node-agent", "http-server",
    "repository">>
sourceWorkerShutdown ==
  <<"background-timers", "node-agent", "vod-producers", "http-server", "repository">>
edgeShutdown ==
  <<"background-timers", "node-agent", "vod-producers", "http-server", "repository">>
shutdownOrder(k) ==
  CASE ROLE_PLANS[k].hostsController -> controlPlaneShutdown
    [] k = "ingest-origin" -> ingestOriginShutdown
    [] k = "source-worker" -> sourceWorkerShutdown
    [] k = "edge" -> edgeShutdown

Script == COMPOSITION_ROOTS(kind)

Init ==
  /\ \E roles \in SUBSET (Kind \ {"standalone"}) :
       kind = resolveRolePlan(roles) /\ kind # "unsupported"
  /\ conf \in Conf
  /\ at = 1 /\ phase = "starting" /\ deferred = <<>> /\ open = {} /\ done = {} /\ todo = <<>>
  /\ stop = [n \in Stop |-> "no"] /\ handlers = {} /\ failure = FALSE /\ sweep = 0 /\ faults = 0

-----------------------------------------------------------------------------
(* The start. *)

\* A step succeeds.
proceeds ==
  /\ phase = "starting" /\ at <= Len(Script)
  /\ LET verb == Script[at][1] name == Script[at][2] IN
       /\ verb = "new" => conf.missing # name
       /\ deferred' = IF verb = "defer" THEN Append(deferred, name) ELSE deferred
       /\ done' = IF verb = "await" THEN done \cup {name} ELSE done
       /\ open' = IF verb = "open" \/ (verb = "new" /\ name \in Held) THEN open \cup {name} ELSE open
  /\ at' = at + 1
  /\ UNCHANGED <<kind, conf, phase, todo, stop, handlers, failure, sweep, faults>>

Reversed(s) == [i \in 1 .. Len(s) |-> s[Len(s) + 1 - i]]

\* startup.rollback: what was deferred is stopped, the last first.
MutantRollback ==
  /\ phase' = "rollback" /\ todo' = deferred
  /\ UNCHANGED <<kind, conf, at, deferred, open, done, stop, handlers, failure, sweep>>
rollback ==
  /\ phase' = "rollback" /\ todo' = Reversed(deferred)
  /\ UNCHANGED <<kind, conf, at, deferred, open, done, stop, handlers, failure, sweep>>

\* A setting is missing, or an operation fails.
throws ==
  /\ phase = "starting" /\ at <= Len(Script)
  /\ CASE Script[at][1] = "new" -> Script[at][2] = conf.missing /\ UNCHANGED faults
       [] Script[at][1] = "defer" -> FALSE
       [] OTHER -> faults < MaxFaults /\ faults' = faults + 1
  /\ rollback

\* The end of a start: the timers run, the signals are bound, the roll-back is off;
\* a MediaMTX that exited meanwhile ends the process at once.
commit ==
  /\ phase = "starting" /\ at > Len(Script)
  /\ open' = open \cup {"background-timers"} /\ handlers' = {"SIGINT", "SIGTERM"}
  /\ deferred' = <<>> /\ todo' = shutdownOrder(kind)
  /\ phase' = IF failure THEN "stopping" ELSE "running"
  /\ UNCHANGED <<kind, conf, at, done, stop, failure, sweep, faults>>

-----------------------------------------------------------------------------
(* The process at work. *)

\* A request, a publisher or an agent's command starts a producer or a normalizer,
\* unless its service has been stopped.
works(n) ==
  /\ phase \in {"starting", "running", "stopping"}
  /\ n \in {"vod-producers", "live-service"} /\ n \in {shutdownOrder(kind)[i] : i \in DOMAIN shutdownOrder(kind)}
  /\ {"http-server", "node-agent"} \cap open # {} /\ n \notin open /\ stop[n] = "no"
  /\ open' = open \cup {n}
  /\ UNCHANGED <<kind, conf, at, phase, deferred, done, todo, stop, handlers, failure, sweep, faults>>

\* createNonOverlappingInterval: a tick while the last run is in flight does nothing.
createNonOverlappingInterval ==
  /\ "background-timers" \in open /\ sweep = 0
  /\ sweep' = sweep + 1
  /\ UNCHANGED <<kind, conf, at, phase, deferred, open, done, todo, stop, handlers, failure, faults>>

\* It ends, well or not, be the repository closed or not.
sweepEnds ==
  /\ sweep > 0 /\ sweep' = sweep - 1
  /\ UNCHANGED <<kind, conf, at, phase, deferred, open, done, todo, stop, handlers, failure, faults>>

\* The shutdown begins, or goes on if it has begun.
shutdown == phase' = IF phase = "running" THEN "stopping" ELSE phase

\* MediaMTX exits: unless it is being stopped the process is to end.
onUnexpectedExit ==
  /\ phase # "killed" /\ "managed-mediamtx" \in open /\ open' = open \ {"managed-mediamtx"}
  /\ IF stop["managed-mediamtx"] = "no"
     THEN failure' = TRUE /\ shutdown ELSE UNCHANGED <<failure, phase>>
  /\ UNCHANGED <<kind, conf, at, deferred, done, todo, stop, handlers, sweep, faults>>

\* A signal: the first of its kind runs the shutdown, any other kills.
bindShutdown(s) ==
  /\ phase \notin {"ended", "killed"}
  /\ handlers' = handlers \ {s}
  /\ IF s \in handlers THEN shutdown ELSE phase' = "killed"
  /\ UNCHANGED <<kind, conf, at, deferred, open, done, todo, stop, failure, sweep, faults>>

-----------------------------------------------------------------------------
(* A sequence of stops (createShutdownSequence): one after the other, each   *)
(* for 15 seconds at most.                                                   *)

Ending == phase \in {"rollback", "stopping"}
\* What a stop closes: in the shutdown the two servers close together.
Closes(n) ==
  IF n = "http-server" /\ phase # "rollback" THEN {n, "loopback-http-server"} ELSE {n}

\* step.stop() is called.
stopCalled ==
  /\ Ending /\ todo # <<>> /\ stop[Head(todo)] = "no"
  /\ stop' = [n \in Stop |-> IF n \in Closes(Head(todo)) THEN "running" ELSE stop[n]]
  /\ UNCHANGED <<kind, conf, at, phase, deferred, open, done, todo, handlers, failure, sweep, faults>>

\* It ends, fails, or takes too long and goes on by itself.
stopSettles(outcome) ==
  /\ Ending /\ todo # <<>> /\ stop[Head(todo)] = "running"
  /\ stop' = [n \in Stop |-> IF n \in Closes(Head(todo)) THEN outcome ELSE stop[n]]
  /\ open' = IF outcome = "done" THEN open \ Closes(Head(todo)) ELSE open
  /\ outcome # "done" => faults < MaxFaults
  /\ faults' = IF outcome # "done" THEN faults + 1 ELSE faults
  /\ todo' = Tail(todo)
  /\ UNCHANGED <<kind, conf, at, phase, deferred, done, handlers, failure, sweep>>

lateEnds(n) ==
  /\ phase # "killed" /\ stop[n] = "late"
  /\ stop' = [stop EXCEPT ![n] = "done"] /\ open' = open \ {n}
  /\ UNCHANGED <<kind, conf, at, phase, deferred, done, todo, handlers, failure, sweep, faults>>

createShutdownSequence ==
  /\ Ending /\ todo = <<>> /\ phase' = "ended"
  /\ UNCHANGED <<kind, conf, at, deferred, open, done, todo, stop, handlers, failure, sweep, faults>>

Starting == proceeds \/ throws \/ commit
Stopping == stopCalled \/ (\E o \in {"done", "failed", "late"} : stopSettles(o)) \/ createShutdownSequence

Next ==
  \/ Starting \/ Stopping
  \/ \E n \in Stop : works(n) \/ lateEnds(n)
  \/ createNonOverlappingInterval \/ sweepEnds \/ onUnexpectedExit
  \/ \E s \in {"SIGINT", "SIGTERM"} : bindShutdown(s)

\* Awaited operations come to an end or fail; a stop ends, fails or is given up.
Spec == Init /\ [][Next]_vars /\ WF_vars(Starting) /\ WF_vars(Stopping)

-----------------------------------------------------------------------------
TypeOK ==
  /\ kind \in Kind /\ conf \in Conf /\ at \in 1 .. Len(Script) + 1
  /\ phase \in {"starting", "rollback", "running", "stopping", "ended", "killed"}
  /\ open \subseteq Held /\ stop \in [Stop -> {"no", "running", "done", "failed", "late"}]
  /\ handlers \subseteq {"SIGINT", "SIGTERM"} /\ failure \in BOOLEAN /\ sweep \in Nat
  /\ faults \in 0 .. MaxFaults

\* What must have been done before a role answers requests.
Needed ==
  {repositorySchemaStartupMethod(kind)}
    \cup (IF kind \in {"ingest-origin", "controller", "standalone"} THEN {"scrub"} ELSE {})
    \cup (IF kind \in {"source-worker", "controller", "standalone"} THEN {"recover"} ELSE {})
Critical ==
  (IF managed(kind) THEN {"managed-mediamtx"} ELSE {})
    \cup (IF kind = "controller" THEN {"agent-controller"} ELSE {})
    \cup (IF conf.agent /\ kind \in {"source-worker", "ingest-origin", "edge"}
          THEN {"node-agent"} ELSE {})

\* A role answers requests (app.listen) only once its schema is settled, its sessions
\* are recovered, its persisted publisher credentials are scrubbed and its critical
\* resources run, unless MediaMTX exited since; the repository is closed only after
\* everything else that is open was asked to stop, in a roll-back from any step as
\* well as in a shutdown; when the process has ended by itself, what is still open is
\* what would not stop, or the Valkey connection; a background operation does not
\* overlap itself.
RuntimeSafe ==
  /\ "http-server" \in open /\ phase \in {"starting", "running"} =>
       /\ Needed \subseteq done
       /\ Critical \subseteq open \cup (IF failure THEN {"managed-mediamtx"} ELSE {})
  /\ stop["repository"] # "no" =>
       \A n \in open \ {"coordination"} : stop[n] # "no"
  /\ phase = "ended" =>
       \A n \in open \ {"coordination"} : stop[n] \in {"failed", "late"}
  /\ sweep <= 1

\* When MediaMTX exits the process ends, also when it exits during the start.
FailureEnds == failure ~> phase \in {"ended", "killed"}

=============================================================================
