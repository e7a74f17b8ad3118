------------------------------ MODULE VodDemand ------------------------------
(***************************************************************************)
(* How viewers' demand steers the producer of one session: the demands     *)
(* recorded in the coordination store, the dominant window the coordinator *)
(* derives from them (#dominantDemand), the decision to join or replace    *)
(* the active producer (#shouldSwitch, in #ensureRequest and               *)
(* #refreshDemand), and the waiting requests (#waitForObject).             *)
(* Starts and stops are single steps here: their awaits and failures are   *)
(* the subject of modules VodCoordinator and VodProducer.                  *)
(***************************************************************************)
EXTENDS Integers, FiniteSets

CONSTANTS
    Viewer,
    Segments,              \* number of segments of the session
    segmentDuration,       \* seconds
    bufferLowWatermarkMs,
    None,
    Asked,                 \* bound: the segments that are asked for
    MaxAsks,               \* bound: requests of all viewers
    MaxStalls              \* bound: producers that stop publishing

Index == 0 .. Segments - 1
ASSUME DemandAssumption ==
    /\ IsFiniteSet(Viewer)
    /\ Segments \in Nat \ {0}
    /\ segmentDuration \in Nat \ {0}
    /\ bufferLowWatermarkMs \in Nat
    /\ None \notin Int
    /\ Asked \subseteq Index
    /\ MaxAsks \in Nat
    /\ MaxStalls \in Nat

VARIABLES
    demand,    \* viewer -> segment it last asked for within the demand window
    waiting,   \* viewer -> segment its request waits for
    joined,    \* viewer -> its request waits on the active producer
    round,     \* viewer -> where its round of #ensureRequest is, and what it has read
    refresh,   \* the call of #refreshDemand that has read the demands, or None
    active,    \* the active producer, or None
    published, \* segments in the object store
    asks,
    stalls,
    switches,  \* history: producers replaced by what was read of them and of the demands
    strays     \* history: viewers whose request stopped the successor of the one it judged

vars == <<demand, waiting, joined, round, refresh, active, published, asks, stalls, switches, strays>>
history == <<switches, strays>>

---------------------------------------------------------------------------
(* The window arithmetic.                                                  *)

Ceil(a, b) == (a + b - 1) \div b
Least(a, b) == IF a < b THEN a ELSE b
Greatest(a, b) == IF a > b THEN a ELSE b
Distance(i, j) == IF i < j THEN j - i ELSE i - j

ForwardJoinSegments ==
    Greatest(2, Ceil(Least(bufferLowWatermarkMs, 10000), segmentDuration * 1000))
Radius == Least(5, Greatest(2, Ceil(10, segmentDuration)))

\* isVodProducerDemandCovered; head is the last published segment, if any.
Covered(p, i) ==
    /\ i >= p.start
    /\ i <= (IF p.head = None THEN p.start ELSE p.head) + ForwardJoinSegments

Recorded(D) == {v \in Viewer : D[v] # None}
ViewersNear(D, i) == Cardinality({v \in Recorded(D) : Distance(D[v], i) <= Radius})

MutantDominant(D, requested, p) == {[index |-> requested, viewers |-> 1, current |-> 0]}
\* #dominantDemand of the demands D: the recorded position with most viewers around it,
\* the nearest to the accepted window of the producer p (or, without one, to the
\* request) among equals.  Several positions can be equally near.
Dominant(D, requested, p) ==
    IF Recorded(D) = {} THEN {[index |-> requested, viewers |-> 1, current |-> 0]}
    ELSE LET reference == IF p = None THEN requested ELSE p.demanded
             crowd(v) == ViewersNear(D, D[v])
             far(v) == Distance(D[v], reference) IN
         {[index |-> D[v], viewers |-> crowd(v),
           current |-> IF p = None THEN 0 ELSE ViewersNear(D, p.demanded)] :
            v \in {w \in Recorded(D) : \A u \in Recorded(D) :
                     \/ crowd(u) < crowd(w)
                     \/ crowd(u) = crowd(w) /\ far(w) <= far(u)}}

\* #shouldSwitch
ShouldSwitch(p, d) ==
    ~Covered(p, d.index) /\ (d.current = 0 \/ d.viewers > d.current)

NoCandidate == [index |-> -1, viewers |-> 0]
Producer == [start: Index, head: Index \cup {None}, demanded: Index,
             candidate: {NoCandidate} \cup [index: Index, viewers: Nat]]
StartedAt(i) == [start |-> i, head |-> None, demanded |-> i, candidate |-> NoCandidate]
ASSUME NoneAssumption == None \notin Producer

\* A round notes the active producer, which may be replaced before it is judged (past).
NoRound == [at |-> "none", index |-> 0, current |-> FALSE, past |-> None, heard |-> None]

Init ==
    /\ demand = [v \in Viewer |-> None]
    /\ waiting = [v \in Viewer |-> None]
    /\ joined = [v \in Viewer |-> FALSE]
    /\ round = [v \in Viewer |-> NoRound]
    /\ refresh = None
    /\ active = None
    /\ published = {}
    /\ asks = 0
    /\ stalls = 0
    /\ switches = 0 /\ strays = {}

Nobody == [v \in Viewer |-> FALSE]
In(v, l) == round[v].at = l
Noted(v) == IF round[v].current THEN active ELSE round[v].past
\* No request is in the middle of a round, which takes far less than the time that
\* demands, idle producers and stalls are measured in.
Settled == \A v \in Viewer : In(v, "none") /\ (waiting[v] # None => joined[v])

Ended == [active EXCEPT !.candidate = NoCandidate]

\* The producer is over: nobody waits on it any more, its timer is cleared, and the
\* rounds that have noted it keep what it was; R are the rounds otherwise.  A refresh
\* in flight goes on, which matters to who has noted the producer.
Over(R) ==
    /\ active' = None /\ joined' = Nobody
    /\ refresh' = IF refresh # None /\ active # None /\ refresh.past = None
                    THEN IF \E v \in Viewer : R[v].current THEN [refresh EXCEPT !.past = Ended] ELSE None
                    ELSE refresh
    /\ round' = [v \in Viewer |-> IF R[v].current THEN [R[v] EXCEPT !.current = FALSE, !.past = Ended]
                                  ELSE R[v]]

\* The accepted window of the producer p, which is over, becomes i where it is noted.
Shift(R, p, i) ==
    \E U \in SUBSET {v \in Viewer : R[v].past = p} :
        round' = [v \in Viewer |-> IF v \in U THEN [R[v] EXCEPT !.past.demanded = i] ELSE R[v]]

---------------------------------------------------------------------------
\* A viewer asks for a segment: the demand is recorded and, unless the segment is
\* published, its request waits.  (Bound: not while a round of its last request runs.)
Ask(v, i) ==
    /\ asks < MaxAsks /\ In(v, "none")
    /\ asks' = asks + 1
    /\ demand' = [demand EXCEPT ![v] = i]
    /\ waiting' = [waiting EXCEPT ![v] = IF i \in published THEN None ELSE i]
    /\ joined' = [joined EXCEPT ![v] = FALSE]
    /\ IF demand[v] = i THEN UNCHANGED history ELSE switches' = 0 /\ strays' = {}
    /\ UNCHANGED <<round, refresh, active, published, stalls>>

\* One round of #ensureRequest begins: #active is looked up ...
Note(v) ==
    /\ In(v, "none")
    /\ waiting[v] # None /\ ~joined[v]
    /\ waiting[v] \notin published
    /\ round' = [round EXCEPT ![v] = [NoRound EXCEPT !.at = "noted", !.index = waiting[v],
                                                     !.current = active # None]]
    /\ UNCHANGED <<demand, waiting, joined, refresh, active, published, asks, stalls, history>>

\* ... then the demands are read ...
Listen(v) ==
    /\ In(v, "noted")
    /\ round' = [round EXCEPT ![v].at = "heard", ![v].heard = demand]
    /\ UNCHANGED <<demand, waiting, joined, refresh, active, published, asks, stalls, history>>

\* What a round does by demands that have changed since it read them begins the
\* account anew.
Account(v, s, t) ==
    IF round[v].heard # demand THEN switches' = 0 /\ strays' = {} ELSE switches' = s /\ strays' = t
Switched == IF switches = 2 THEN 2 ELSE switches + 1

\* The producer that was noted is the one to join, unless the client has left; if it is
\* over by now, the next round begins.
Joins(v, d) ==
    /\ Noted(v) # None /\ ~ShouldSwitch(Noted(v), d)
    /\ \/ /\ waiting[v] # None /\ round[v].current
          /\ active' = [active EXCEPT !.demanded = d.index]
          /\ joined' = [joined EXCEPT ![v] = TRUE]
          /\ round' = [round EXCEPT ![v] = NoRound]
          /\ Account(v, switches, strays)
       \/ /\ waiting[v] # None /\ ~round[v].current
          /\ Shift([round EXCEPT ![v] = NoRound], round[v].past, d.index)
          /\ Account(v, switches, strays)
          /\ UNCHANGED <<active, joined>>
       \/ /\ waiting[v] = None
          /\ round' = [round EXCEPT ![v] = NoRound]
          /\ UNCHANGED <<active, joined, history>>
    /\ UNCHANGED refresh

\* The producer that was noted is to be replaced: #stopProducer stops the one that is
\* active now.
Stops(v, d) ==
    /\ Noted(v) # None /\ ShouldSwitch(Noted(v), d)
    /\ Over([round EXCEPT ![v] = [NoRound EXCEPT !.at = "start", !.index = d.index, !.heard = round[v].heard]])
    /\ IF active = None THEN UNCHANGED history
       ELSE IF round[v].current \/ v \in strays THEN Account(v, Switched, strays)
       ELSE Account(v, switches, strays \cup {v})

\* ... and it is judged whether to join the producer that was noted, to replace it, or
\* to start one.
Judge(v) ==
    /\ In(v, "heard")
    /\ \E d \in Dominant(round[v].heard, round[v].index, Noted(v)) :
         \/ Joins(v, d) \/ Stops(v, d)
         \/ /\ Noted(v) = None
            /\ round' = [round EXCEPT ![v].at = "start", ![v].index = d.index]
            /\ UNCHANGED <<joined, active, refresh, history>>
    /\ UNCHANGED <<demand, waiting, published, asks, stalls>>

\* #start: a producer, unless there is one again, which can be joined while it starts;
\* it has the lease otherwise, and the next round begins.  A client that has left does
\* not wait for what its request has started.
Start(v) ==
    /\ In(v, "start")
    /\ \/ active = None /\ active' = StartedAt(round[v].index)
          /\ joined' = [joined EXCEPT ![v] = waiting[v] # None]
          /\ Account(v, switches, strays)
       \/ active # None /\ active.head = None /\ waiting[v] # None
          /\ active' = [active EXCEPT !.demanded = round[v].index]
          /\ joined' = [joined EXCEPT ![v] = TRUE]
          /\ Account(v, switches, strays)
       \/ active # None /\ UNCHANGED <<active, joined, history>>
    /\ round' = [round EXCEPT ![v] = NoRound]
    /\ UNCHANGED <<demand, waiting, refresh, published, asks, stalls>>

\* #refreshDemand, once a second: the demands are read ...
ListenAgain ==
    /\ active # None /\ refresh = None /\ refresh' = [heard |-> demand, past |-> None]
    /\ UNCHANGED <<demand, waiting, joined, round, active, published, asks, stalls, history>>

\* ... and judged: a switch needs the same demand twice, a second apart; otherwise the
\* accepted window follows the dominant one.
RefreshActive ==
    /\ refresh # None /\ refresh.past = None
    /\ \E d \in Dominant(refresh.heard, active.demanded, active) :
         \/ /\ ~ShouldSwitch(active, d)
            /\ active' = [active EXCEPT !.candidate = NoCandidate, !.demanded = d.index]
            /\ refresh' = None
            /\ IF refresh.heard # demand THEN switches' = 0 /\ strays' = {} ELSE UNCHANGED history
            /\ UNCHANGED <<joined, round>>
         \/ /\ ShouldSwitch(active, d)
            /\ active.candidate # NoCandidate
            /\ active.candidate.viewers = d.viewers
            /\ Distance(active.candidate.index, d.index) <= ForwardJoinSegments
            /\ Over(round)
            /\ IF refresh.heard # demand THEN switches' = 0 /\ strays' = {}
               ELSE switches' = Switched /\ UNCHANGED strays
         \/ /\ ShouldSwitch(active, d)
            /\ active' = [active EXCEPT !.candidate = [index |-> d.index, viewers |-> d.viewers]]
            /\ refresh' = None
            /\ UNCHANGED <<joined, round, history>>
    /\ UNCHANGED <<demand, waiting, published, asks, stalls>>

\* The producer was over before the demands were judged.
RefreshLate ==
    /\ refresh # None /\ refresh.past # None
    /\ \E d \in Dominant(refresh.heard, refresh.past.demanded, refresh.past) :
         \/ /\ ~ShouldSwitch(refresh.past, d) /\ Shift(round, refresh.past, d.index)
            /\ IF refresh.heard # demand THEN switches' = 0 /\ strays' = {} ELSE UNCHANGED history
         \/ ShouldSwitch(refresh.past, d) /\ UNCHANGED <<round, history>>
    /\ refresh' = None
    /\ UNCHANGED <<demand, waiting, joined, active, published, asks, stalls>>
Refresh == RefreshActive \/ RefreshLate

\* Nobody waits and every demand is older than the idle timeout, which by default is
\* longer than the demand window.
Idle ==
    /\ active # None
    /\ joined = Nobody /\ Settled
    /\ Recorded(demand) = {}
    /\ Over(round)
    /\ UNCHANGED <<demand, waiting, published, asks, stalls, history>>

\* The producer publishes its next segment; after the last one it is complete.
Publish ==
    /\ active # None
    /\ LET next == IF active.head = None THEN active.start ELSE active.head + 1 IN
       /\ published' = published \cup {next}
       /\ IF next = Segments - 1 THEN Over(round)
          ELSE active' = [active EXCEPT !.head = next] /\ UNCHANGED <<joined, round, refresh>>
    /\ UNCHANGED <<demand, waiting, asks, stalls, history>>

\* #progressStalled: a producer that has published before stops doing so while a
\* request waits.  It is ended, and the requests go into their next round.
Stall ==
    /\ active # None
    /\ active.head # None
    /\ joined # Nobody /\ Settled
    /\ stalls < MaxStalls
    /\ stalls' = stalls + 1
    /\ Over(round)
    /\ UNCHANGED <<demand, waiting, published, asks, history>>

\* #waitForObject finds the segment.
Serve(v) ==
    /\ In(v, "none")
    /\ waiting[v] # None
    /\ waiting[v] \in published
    /\ waiting' = [waiting EXCEPT ![v] = None]
    /\ joined' = [joined EXCEPT ![v] = FALSE]
    /\ UNCHANGED <<demand, round, refresh, active, published, asks, stalls, history>>

\* The client disconnects, or the request's deadline passes; a start that runs goes on.
\* (Bound: not while a round reads; what it has read serves no one then, or it starts.)
Leave(v) ==
    /\ waiting[v] # None
    /\ In(v, "none") \/ In(v, "start")
    /\ waiting' = [waiting EXCEPT ![v] = None]
    /\ joined' = [joined EXCEPT ![v] = FALSE]
    /\ UNCHANGED <<demand, round, refresh, active, published, asks, stalls, history>>

\* Thirty seconds pass without a new request of the viewer, and its demand leaves the
\* demand window.  By then every round of #ensureRequest has ended.
Age(v) ==
    /\ demand[v] # None
    /\ Settled /\ refresh = None
    /\ demand' = [demand EXCEPT ![v] = None]
    /\ switches' = 0 /\ strays' = {}
    /\ UNCHANGED <<waiting, joined, round, refresh, active, published, asks, stalls>>

\* #ensureRequest goes on.
Ensure(v) == Note(v) \/ Listen(v) \/ Judge(v) \/ Start(v) \/ Serve(v)

Next ==
    \/ \E v \in Viewer, i \in Asked : Ask(v, i)
    \/ \E v \in Viewer : Ensure(v) \/ Leave(v) \/ Age(v)
    \/ ListenAgain \/ Refresh \/ Idle \/ Publish \/ Stall

Spec == Init /\ [][Next]_vars

\* Continuations and timers run and a producer that is left alone publishes.  Time
\* passes however often requests are in the middle of a round: strong fairness.
Fairness ==
    /\ \A v \in Viewer : WF_vars(Ensure(v))
    /\ SF_vars(\E v \in Viewer : Age(v))
    /\ WF_vars(ListenAgain \/ Refresh) /\ SF_vars(Publish)
FairSpec == Spec /\ Fairness

---------------------------------------------------------------------------
\* No thrashing while there are demands: as long as the recorded demands stay the
\* same, the judgements of them replace at most one producer (#dominantDemand's
\* tie-break, #shouldSwitch).  A request that has noted a producer which another has
\* replaced meanwhile stops the successor instead, at most once for each viewer; what
\* is done by demands that have changed since they were read begins the account anew.
AtMostOneSwitch == Recorded(demand) # {} => switches <= 1


=============================================================================
