--------------------------- MODULE VodCoordinator ---------------------------
(***************************************************************************)
(* The in-process side of one source worker's VodProducerCoordinator: the  *)
(* segment requests (ensure) that start, join and replace producers, the   *)
(* stop, drain and close operations that fence them off, and the maps      *)
(* #active, #starting, #startReservations, #stopOperations, #sessionFences *)
(* and #pendingEnsures they share.  It all runs on one event loop: a step  *)
(* is the code between two awaits.  The durable row and the lease are the  *)
(* subject of module VodProducer; here a start may be denied at any time.  *)
(***************************************************************************)
EXTENDS Naturals, FiniteSets

CONSTANTS
    Session,         \* VOD sessions served by this worker
    Provider,        \* the provider of each session's source
    Request,         \* callers of ensure
    SessionOf,       \* the session each of them plays
    Stopper,         \* calls of stop
    StopSession,     \* the session each of them stops
    Attempt,         \* calls of #startExclusive
    None,
    maxConcurrentProducers,
    maxConcurrentProducersPerProvider,
    MaxLifecycle     \* bound: calls of drain and close

ASSUME CoordinatorAssumption ==
    /\ SessionOf \in [Request -> Session]
    /\ StopSession \in [Stopper -> Session]
    /\ IsFiniteSet(Request)
    /\ None \notin Attempt \cup Stopper \cup Request \cup Session
    /\ Session \cap (Request \cup Stopper) = {} /\ Request \cap Stopper = {}
    /\ Attempt \cap Request = {}
    /\ maxConcurrentProducers \in Nat
    /\ maxConcurrentProducersPerProvider \in Nat
    /\ MaxLifecycle \in Nat

VARIABLES
    closed, draining, lifecycleFence,
    stopOperations,  \* session -> latest stop in progress, or None
    sessionFences,   \* session -> fence (0: no entry)
    pendingEnsures,  \* session -> number of requests inside ensure
    retries,         \* session -> a back-off is running
    starting,        \* session -> attempt in #starting, or None
    active,          \* session -> attempt in #active, or None
    reserved,        \* attempts that hold a start reservation
    phase,           \* attempt -> how far it got
    for,             \* attempt -> its session
    aborted,         \* attempt -> its AbortController
    result,          \* attempt -> what its start resolved to
    acquired,        \* attempts that got a transcode slot
    grants,          \* attempts whose source grant SessionService still honours
    rpc,             \* request -> where it stands
    fence,           \* request -> <<lifecycle fence, session fence>> at entry
    mine,            \* request -> the attempt it judges, joins or waits for
    kpc,             \* stop -> where it stands
    previous,        \* stop -> the stop it waits for first
    stopping,        \* caller of #stopProducer -> the attempts it awaits
    stops,           \* history: session -> completed stops
    epoch            \* history: request or attempt -> completed stops when it began

lifecycleVars == <<closed, draining, lifecycleFence>>
fenceVars == <<stopOperations, sessionFences, pendingEnsures>>
grantVars == <<acquired, grants>>
attemptVars == <<starting, active, reserved, phase, for, aborted, result, grantVars>>
requestVars == <<rpc, fence, mine>>
stopVars == <<kpc, previous>>
vars == <<lifecycleVars, fenceVars, retries, attemptVars, requestVars, stopVars,
          stopping, stops, epoch>>

\* running: #run waits for a slot and its source; producing: FFmpeg reads the source;
\* removed and cleaning: the finally block before and after the lease is released.
Phases == {"unused", "claiming", "starting", "running", "producing", "catching",
           "removed", "cleaning", "over"}
\* The phases in which an attempt holds the session's lease.
Leasing == {"starting", "running", "producing", "catching", "removed"}
Running == {"running", "producing", "catching"}
Live(i) == phase[i] \in {"claiming", "starting"} \cup Running
RequestPcs == {"idle", "session", "demand", "switching", "ending", "joining", "wait", "refused"}
\* #stopProducer is called by requests, stops and, once per session, by drain and close.
Caller == Request \cup Stopper \cup Session

\* What a caller of #stopProducer awaits: first the start, then the producers.
NotStopping == [start |-> None, producers |-> {}]
Stopped(c) == stopping[c] = NotStopping

Init ==
    /\ closed = FALSE /\ draining = FALSE /\ lifecycleFence = 0
    /\ stopOperations = [s \in Session |-> None]
    /\ sessionFences = [s \in Session |-> 0]
    /\ pendingEnsures = [s \in Session |-> 0]
    /\ retries = [s \in Session |-> FALSE]
    /\ starting = [s \in Session |-> None]
    /\ active = [s \in Session |-> None]
    /\ reserved = {}
    /\ phase = [i \in Attempt |-> "unused"]
    /\ for = [i \in Attempt |-> None]
    /\ aborted = [i \in Attempt |-> FALSE]
    /\ result = [i \in Attempt |-> "pending"]
    /\ acquired = {} /\ grants = {}
    /\ rpc = [r \in Request |-> "idle"]
    /\ fence = [r \in Request |-> <<0, 0>>]
    /\ mine = [r \in Request |-> None]
    /\ kpc = [k \in Stopper |-> "idle"]
    /\ previous = [k \in Stopper |-> None]
    /\ stopping = [c \in Caller |-> NotStopping]
    /\ stops = [s \in Session |-> 0]
    /\ epoch = [x \in Request \cup Attempt |-> 0]

---------------------------------------------------------------------------
(* #stopProducer.                                                          *)

AbortAll(A) == aborted' = [i \in Attempt |-> aborted[i] \/ i \in A]

\* Its first step aborts the active producer and the start in progress.  With no
\* start to wait for it goes straight on to await the producer.
MutantStopProducer(c, s) ==
    LET before == {active[s]} \ {None} IN
    /\ AbortAll({starting[s]} \ {None})
    /\ stopping' = [stopping EXCEPT ![c] = [start |-> starting[s], producers |-> before]]
StopProducer(c, s) ==
    LET before == {active[s]} \ {None} IN
    /\ AbortAll(before \cup ({starting[s]} \ {None}))
    /\ stopping' = [stopping EXCEPT ![c] = [start |-> starting[s], producers |-> before]]

\* The start it waited for has settled: what became active meanwhile is aborted.
StartSettled(c) ==
    LET i == stopping[c].start
        after == {active[for[i]]} \ {None} IN
    /\ i # None
    /\ result[i] # "pending"
    /\ AbortAll(after)
    /\ stopping' = [stopping EXCEPT ![c] = [start |-> None, producers |-> @.producers \cup after]]
    /\ UNCHANGED <<lifecycleVars, fenceVars, retries, starting, active, reserved, phase,
                   for, result, grantVars, requestVars, stopVars, stops, epoch>>

\* Every producer it awaits has completed.
ProducersEnded(c) ==
    /\ stopping[c].start = None
    /\ stopping[c].producers # {}
    /\ \A i \in stopping[c].producers : phase[i] = "over"
    /\ stopping' = [stopping EXCEPT ![c] = NotStopping]
    /\ UNCHANGED <<lifecycleVars, fenceVars, retries, attemptVars, requestVars, stopVars,
                   stops, epoch>>

---------------------------------------------------------------------------
(* ensure.                                                                 *)

\* ensure refuses while the worker is closed or draining or the session is being
\* stopped; otherwise it notes both fences.
Enter(r) ==
    LET s == SessionOf[r] IN
    /\ rpc[r] \in {"idle", "refused"}
    /\ ~closed /\ ~draining /\ stopOperations[s] = None
    /\ pendingEnsures' = [pendingEnsures EXCEPT ![s] = @ + 1]
    /\ fence' = [fence EXCEPT ![r] = <<lifecycleFence, sessionFences[s]>>]
    /\ rpc' = [rpc EXCEPT ![r] = "session"]
    /\ epoch' = [epoch EXCEPT ![r] = stops[s]]
    /\ UNCHANGED <<lifecycleVars, stopOperations, sessionFences, retries, attemptVars,
                   mine, stopVars, stopping, stops>>

\* The finally block of ensure, on every way out: the last request of a session
\* drops its fence unless a stop still needs it.
Leave(r, l) ==
    LET s == SessionOf[r] IN
    /\ rpc' = [rpc EXCEPT ![r] = l]
    /\ mine' = [mine EXCEPT ![r] = None]
    /\ pendingEnsures' = [pendingEnsures EXCEPT ![s] = @ - 1]
    /\ sessionFences' = [sessionFences EXCEPT ![s] =
          IF pendingEnsures[s] = 1 /\ stopOperations[s] = None THEN 0 ELSE @]
    /\ fence' = [fence EXCEPT ![r] = <<0, 0>>]
    /\ UNCHANGED stopOperations

\* #assertRequestNotFenced
NotFenced(r) ==
    LET s == SessionOf[r] IN
    /\ ~closed /\ ~draining
    /\ fence[r] = <<lifecycleFence, sessionFences[s]>>
    /\ stopOperations[s] = None

Goto(r, l, i) ==
    /\ rpc' = [rpc EXCEPT ![r] = l]
    /\ mine' = [mine EXCEPT ![r] = i]
    /\ UNCHANGED <<fenceVars, fence>>

\* #reserveProducer
Used(S) == Cardinality({s \in S : active[s] # None}) + Cardinality({i \in reserved : for[i] \in S})
CanReserve(s) ==
    /\ Used(Session) < maxConcurrentProducers
    /\ Used({t \in Session : Provider[t] = Provider[s]}) < maxConcurrentProducersPerProvider

\* #start: joins a start in progress, waits for a back-off, is refused for lack
\* of capacity, or begins an attempt.  #active is not looked at again.  It checks
\* the fences one microtask earlier: drain and close are callbacks of their own (a
\* heartbeat, a closed connection, a signal) and a stop fences a microtask after its
\* call, so none of them comes between the two.
Start(r) ==
    LET s == SessionOf[r] IN
    \/ /\ starting[s] # None
       /\ Goto(r, "joining", starting[s])
       /\ UNCHANGED <<attemptVars, epoch>>
    \/ /\ starting[s] = None
       /\ retries[s]
       /\ Goto(r, "session", None)
       /\ UNCHANGED <<attemptVars, epoch>>
    \/ /\ starting[s] = None
       /\ ~retries[s]
       /\ ~CanReserve(s)
       /\ Leave(r, "refused")
       /\ UNCHANGED <<attemptVars, epoch>>
    \/ /\ starting[s] = None
       /\ ~retries[s]
       /\ CanReserve(s)
       /\ \E i \in Attempt :
            /\ phase[i] = "unused"
            /\ Goto(r, "joining", i)
            /\ reserved' = reserved \cup {i}
            /\ starting' = [starting EXCEPT ![s] = i]
            /\ phase' = [phase EXCEPT ![i] = "claiming"]
            /\ for' = [for EXCEPT ![i] = s]
            /\ epoch' = [epoch EXCEPT ![i] = epoch[r]]
            /\ UNCHANGED <<active, aborted, result, grantVars>>

\* The segment is not in the object store and the session was re-read.  The
\* request notes the active producer, if any, and asks for the viewers' demand.
ReadSession(r) ==
    LET s == SessionOf[r] IN
    /\ rpc[r] = "session"
    /\ \/ /\ ~NotFenced(r)
          /\ Leave(r, "idle")
       \/ /\ NotFenced(r)
          /\ active[s] # None \/ ~retries[s]
          /\ Goto(r, "demand", active[s])
    /\ UNCHANGED <<lifecycleVars, retries, attemptVars, stopVars, stopping, stops, epoch>>

\* The session was found deleted or stopped: its producer is stopped too.
SessionEnded(r) ==
    /\ rpc[r] = "session"
    /\ ~closed /\ ~draining /\ fence[r][1] = lifecycleFence
    /\ retries' = [retries EXCEPT ![SessionOf[r]] = FALSE]
    /\ StopProducer(r, SessionOf[r])
    /\ Goto(r, "ending", None)
    /\ UNCHANGED <<lifecycleVars, starting, active, reserved, phase, for, result,
                   stopVars, stops, epoch, grantVars>>

\* The demand is known: the request waits for the producer it noted, replaces it
\* (whatever #shouldSwitch says is possible), or starts one.
Judge(r) ==
    /\ rpc[r] = "demand"
    /\ \/ /\ ~NotFenced(r)
          /\ Leave(r, "idle")
          /\ UNCHANGED <<attemptVars, stopping, epoch>>
       \/ /\ NotFenced(r)
          /\ mine[r] # None
          /\ Goto(r, "wait", mine[r])
          /\ UNCHANGED <<attemptVars, stopping, epoch>>
       \/ /\ NotFenced(r)
          /\ mine[r] # None
          /\ StopProducer(r, SessionOf[r])
          /\ Goto(r, "switching", mine[r])
          /\ UNCHANGED <<starting, active, reserved, phase, for, result, epoch, grantVars>>
       \/ /\ NotFenced(r)
          /\ mine[r] = None
          /\ Start(r)
          /\ UNCHANGED stopping
    /\ UNCHANGED <<lifecycleVars, retries, stopVars, stops>>

\* The replaced producer is gone (or the ended session's producer is).
Replaced(r) ==
    /\ rpc[r] = "switching"
    /\ Stopped(r)
    /\ IF NotFenced(r)
         THEN Start(r)
         ELSE Leave(r, "idle") /\ UNCHANGED <<attemptVars, epoch>>
    /\ UNCHANGED <<lifecycleVars, retries, stopVars, stopping, stops>>

Ended(r) ==
    /\ rpc[r] = "ending"
    /\ Stopped(r)
    /\ Leave(r, "idle")
    /\ UNCHANGED <<lifecycleVars, retries, attemptVars, stopVars, stopping, stops, epoch>>

\* The start this request began or joined has settled.
Joined(r) ==
    LET i == mine[r] IN
    /\ rpc[r] = "joining"
    /\ result[i] # "pending"
    /\ \/ result[i] = "error" /\ Leave(r, "idle")
       \/ result[i] # "error" /\ ~NotFenced(r) /\ Leave(r, "idle")
       \/ result[i] = "none" /\ NotFenced(r) /\ Goto(r, "session", None)
       \/ result[i] = "handed" /\ NotFenced(r) /\ Goto(r, "wait", i)
    /\ UNCHANGED <<lifecycleVars, retries, attemptVars, stopVars, stopping, stops, epoch>>

\* #waitForObject notices that its producer is no longer the active one: it
\* starts over, or reports the producer's failure.
WaitOver(r) ==
    /\ rpc[r] = "wait"
    /\ active[SessionOf[r]] # mine[r]
    /\ Goto(r, "session", None) \/ Leave(r, "idle")
    /\ UNCHANGED <<lifecycleVars, retries, attemptVars, stopVars, stopping, stops, epoch>>

\* The segment is there, the client has left, or the deadline has passed.
Served(r) ==
    /\ rpc[r] \in {"session", "wait"}
    /\ Leave(r, "idle")
    /\ UNCHANGED <<lifecycleVars, retries, attemptVars, stopVars, stopping, stops, epoch>>

---------------------------------------------------------------------------
(* #startExclusive and #run.                                               *)

SettleStart(i, outcome) ==
    /\ result' = [result EXCEPT ![i] = outcome]
    /\ reserved' = reserved \ {i}
    /\ starting' = [starting EXCEPT ![for[i]] = IF @ = i THEN None ELSE @]

\* The lease: never granted while another attempt of the session holds it.
MutantClaim(i) ==
    /\ phase[i] = "claiming"
    /\ phase' = [phase EXCEPT ![i] = "starting"]
    /\ UNCHANGED <<lifecycleVars, fenceVars, retries, starting, active, reserved, for,
                   aborted, result, requestVars, stopVars, stopping, stops, epoch, grantVars>>
Claim(i) ==
    /\ phase[i] = "claiming"
    /\ \A j \in Attempt : phase[j] \in Leasing => for[j] # for[i]
    /\ phase' = [phase EXCEPT ![i] = "starting"]
    /\ UNCHANGED <<lifecycleVars, fenceVars, retries, starting, active, reserved, for,
                   aborted, result, requestVars, stopVars, stopping, stops, epoch, grantVars>>

\* The start ends without a producer: no lease, an abort, a lost row or an error.
StartFails(i) ==
    /\ phase[i] \in {"claiming", "starting"}
    /\ phase' = [phase EXCEPT ![i] = "over"]
    /\ \/ SettleStart(i, "none")
       \/ ~aborted[i] /\ SettleStart(i, "error")
    /\ UNCHANGED <<lifecycleVars, fenceVars, retries, active, for, aborted, requestVars,
                   stopVars, stopping, stops, epoch, grantVars>>

HandOff(i) ==
    /\ phase[i] = "starting"
    /\ ~aborted[i]
    /\ phase' = [phase EXCEPT ![i] = "running"]
    /\ active' = [active EXCEPT ![for[i]] = i]
    /\ SettleStart(i, "handed")
    /\ UNCHANGED <<lifecycleVars, fenceVars, retries, for, aborted, requestVars,
                   stopVars, stopping, stops, epoch, grantVars>>

\* A transcode slot is free and the source is resolved: SessionService makes the
\* loopback source grant that FFmpeg reads through.
Produce(i) ==
    /\ phase[i] = "running"
    /\ phase' = [phase EXCEPT ![i] = "producing"]
    /\ acquired' = acquired \cup {i}
    /\ grants' = grants \cup {i}
    /\ UNCHANGED <<lifecycleVars, fenceVars, retries, starting, active, reserved, for,
                   aborted, result, requestVars, stopVars, stopping, stops, epoch>>

\* #refreshDemand, the progress watch and the renewal timer abort on their own.
SelfAbort(i) ==
    /\ phase[i] = "producing"
    /\ ~aborted[i]
    /\ AbortAll({i})
    /\ UNCHANGED <<lifecycleVars, fenceVars, retries, starting, active, reserved, phase,
                   for, result, grantVars, requestVars, stopVars, stopping, stops, epoch>>

\* #run completes or enters its catch block, which records a failure for the
\* back-off or, after a stop, forgets earlier ones.
RunEnds(i) ==
    /\ phase[i] \in {"running", "producing"}
    /\ phase' = [phase EXCEPT ![i] = "catching"]
    /\ \E b \in BOOLEAN : retries' = [retries EXCEPT ![for[i]] = b]
    /\ UNCHANGED <<lifecycleVars, fenceVars, starting, active, reserved, for, aborted,
                   result, grantVars, requestVars, stopVars, stopping, stops, epoch>>

\* Its finally block: the map entry goes first, ...
RunRemoved(i) ==
    /\ phase[i] = "catching"
    /\ phase' = [phase EXCEPT ![i] = "removed"]
    /\ active' = [active EXCEPT ![for[i]] = IF @ = i THEN None ELSE @]
    /\ UNCHANGED <<lifecycleVars, fenceVars, retries, starting, reserved, for, aborted,
                   result, grantVars, requestVars, stopVars, stopping, stops, epoch>>

\* ... then the lease, ...
LeaseReleased(i) ==
    /\ phase[i] = "removed"
    /\ phase' = [phase EXCEPT ![i] = "cleaning"]
    /\ UNCHANGED <<lifecycleVars, fenceVars, retries, starting, active, reserved, for,
                   aborted, result, grantVars, requestVars, stopVars, stopping, stops, epoch>>

\* ... and, once the scratch directory is gone, the slot and the session's source
\* grants: all of them, whichever attempt they were made for (released).
RunReleased(i) ==
    /\ phase[i] = "cleaning"
    /\ phase' = [phase EXCEPT ![i] = "over"]
    /\ grants' = IF i \in acquired THEN {j \in grants : for[j] # for[i]} ELSE grants
    /\ acquired' = acquired \ {i}
    /\ UNCHANGED <<lifecycleVars, fenceVars, retries, starting, active, reserved, for,
                   aborted, result, requestVars, stopVars, stopping, stops, epoch>>

\* A published segment, or time, ends the back-off.
RetryDue(s) ==
    /\ retries[s]
    /\ retries' = [retries EXCEPT ![s] = FALSE]
    /\ UNCHANGED <<lifecycleVars, fenceVars, attemptVars, requestVars, stopVars,
                   stopping, stops, epoch>>

---------------------------------------------------------------------------
(* stop, drain, close.                                                     *)

StopCalled(k) ==
    LET s == StopSession[k] IN
    /\ kpc[k] = "idle"
    /\ previous' = [previous EXCEPT ![k] = stopOperations[s]]
    /\ stopOperations' = [stopOperations EXCEPT ![s] = k]
    /\ kpc' = [kpc EXCEPT ![k] = "called"]
    /\ UNCHANGED <<lifecycleVars, sessionFences, pendingEnsures, retries, attemptVars,
                   requestVars, stopping, stops, epoch>>

\* After the previous stop: fence off earlier requests, then stop the producer.
MutantStopFences(k) ==
    LET s == StopSession[k] IN
    /\ kpc[k] = "called"
    /\ previous[k] # None => kpc[previous[k]] = "done"
    /\ retries' = [retries EXCEPT ![s] = FALSE]
    /\ StopProducer(k, s)
    /\ kpc' = [kpc EXCEPT ![k] = "stopping"]
    /\ UNCHANGED <<lifecycleVars, sessionFences, stopOperations, pendingEnsures, starting,
                   active, reserved, phase, for, result, requestVars, previous, stops, epoch, grantVars>>
StopFences(k) ==
    LET s == StopSession[k] IN
    /\ kpc[k] = "called"
    /\ previous[k] # None => kpc[previous[k]] = "done"
    /\ retries' = [retries EXCEPT ![s] = FALSE]
    /\ sessionFences' = [sessionFences EXCEPT ![s] = @ + 1]
    /\ StopProducer(k, s)
    /\ kpc' = [kpc EXCEPT ![k] = "stopping"]
    /\ UNCHANGED <<lifecycleVars, stopOperations, pendingEnsures, starting, active,
                   reserved, phase, for, result, requestVars, previous, stops, epoch, grantVars>>

\* The latest stop of a session lets requests in again.
StopDone(k) ==
    LET s == StopSession[k] IN
    /\ kpc[k] = "stopping"
    /\ Stopped(k)
    /\ kpc' = [kpc EXCEPT ![k] = "done"]
    /\ stops' = [stops EXCEPT ![s] = @ + 1]
    /\ IF stopOperations[s] = k
         THEN /\ stopOperations' = [stopOperations EXCEPT ![s] = None]
              /\ sessionFences' = [sessionFences EXCEPT ![s] =
                    IF pendingEnsures[s] = 0 THEN 0 ELSE @]
         ELSE UNCHANGED <<stopOperations, sessionFences>>
    /\ UNCHANGED <<lifecycleVars, pendingEnsures, retries, attemptVars, requestVars,
                   previous, stopping, epoch>>

\* drain and close abort what every session has in the two maps.
StopEverything ==
    /\ AbortAll({i \in Attempt : \E s \in Session : i \in {active[s], starting[s]}})
    /\ stopping' = [c \in Caller |->
          IF c \in Session
            THEN [start |-> starting[c],
                  producers |-> stopping[c].producers \cup ({active[c]} \ {None})]
            ELSE stopping[c]]

\* Drains may overlap: a later one finds no producer that an earlier one does not await.
Drain ==
    /\ ~closed
    /\ lifecycleFence < MaxLifecycle
    /\ draining' = TRUE
    /\ lifecycleFence' = lifecycleFence + 1
    /\ StopEverything
    /\ UNCHANGED <<closed, fenceVars, retries, starting, active, reserved, phase, for,
                   result, requestVars, stopVars, stops, epoch, grantVars>>

\* The first drain to complete ends the draining; a later one did not find, and so
\* does not await, what had left the maps before.
Drained ==
    /\ draining
    /\ \A s \in Session :
         Stopped(s) \/ (lifecycleFence > 1 /\ starting[s] = None /\ active[s] = None)
    /\ draining' = FALSE
    /\ UNCHANGED <<closed, lifecycleFence, fenceVars, retries, attemptVars, requestVars,
                   stopVars, stopping, stops, epoch>>

\* close does not wait for a drain in progress; its own #stopProducer calls are
\* joined with the drain's here, as both await the same attempts.
Close ==
    /\ ~closed
    /\ lifecycleFence < MaxLifecycle
    /\ closed' = TRUE
    /\ lifecycleFence' = lifecycleFence + 1
    /\ StopEverything
    /\ UNCHANGED <<draining, fenceVars, retries, starting, active, reserved, phase, for,
                   result, requestVars, stopVars, stops, epoch, grantVars>>

---------------------------------------------------------------------------
RequestStep(r) ==
    \/ Enter(r) \/ ReadSession(r) \/ SessionEnded(r) \/ Judge(r) \/ Replaced(r)
    \/ Ended(r) \/ Joined(r) \/ WaitOver(r) \/ Served(r)

AttemptStep(i) ==
    \/ Claim(i) \/ StartFails(i) \/ HandOff(i) \/ Produce(i) \/ SelfAbort(i)
    \/ RunEnds(i) \/ RunRemoved(i) \/ LeaseReleased(i) \/ RunReleased(i)

Next ==
    \/ \E r \in Request : RequestStep(r)
    \/ \E i \in Attempt : AttemptStep(i)
    \/ \E c \in Caller : StartSettled(c) \/ ProducersEnded(c)
    \/ \E k \in Stopper : StopCalled(k) \/ StopFences(k) \/ StopDone(k)
    \/ \E s \in Session : RetryDue(s)
    \/ Drain \/ Drained \/ Close

Spec == Init /\ [][Next]_vars

\* Store calls return, an aborted start or FFmpeg ends, continuations run.
Fairness ==
    /\ \A i \in Attempt :
         /\ WF_vars(Claim(i) \/ StartFails(i) \/ HandOff(i))
         /\ WF_vars(aborted[i] /\ RunEnds(i))
         /\ WF_vars(RunRemoved(i) \/ LeaseReleased(i) \/ RunReleased(i))
    /\ \A c \in Caller : WF_vars(StartSettled(c)) /\ WF_vars(ProducersEnded(c))
    /\ \A k \in Stopper : WF_vars(StopFences(k)) /\ WF_vars(StopDone(k))
    /\ WF_vars(Drained /\ \A s \in Session : Stopped(s))
FairSpec == Spec /\ Fairness

---------------------------------------------------------------------------
\* No producer of a request that entered before a stop is alive once that stop
\* has completed (its finally block may still run), however long the request was
\* held up between its fence checks (#assertRequestNotFenced, stop).
StopIsFinal == \A i \in Attempt : Live(i) => epoch[i] >= stops[for[i]]

\* Every attempt that runs is the one #active knows for its session, and every
\* start is known to #starting: nothing that stop, drain and close could miss.
\* What is over keeps neither a reservation nor a source grant.
Tracked ==
    \A i \in Attempt :
      /\ phase[i] \in Running => active[for[i]] = i
      /\ phase[i] \in {"claiming", "starting"} => starting[for[i]] = i
      /\ phase[i] = "over" => i \notin reserved \cup grants

\* Fences do not pile up: a session nobody requests or stops has none.
FencesCollected ==
    \A s \in Session :
      pendingEnsures[s] = 0 /\ stopOperations[s] = None => sessionFences[s] = 0

\* The maps say exactly what is going on, whoever changed them last.
MapsExact == Tracked /\ FencesCollected

\* Once close has awaited its producers there are none, and none will follow.
CloseIsFinal ==
    closed /\ (\A s \in Session : Stopped(s)) => \A i \in Attempt : ~Live(i)

\* Nothing is produced on behalf of whoever asked before a stop or a close.
StopsAreFinal == StopIsFinal /\ CloseIsFinal

\* Every stop and every drain completes, and requests are let in again: no cycle
\* among starts that outlive their abort, producers, earlier stops of the same
\* session and a drain or close beside them (stop, drain, #stopProducer).
StopsComplete == []<>(~draining /\ \A k \in Stopper : kpc[k] \in {"idle", "done"})

=============================================================================
