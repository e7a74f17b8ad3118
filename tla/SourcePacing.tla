---------------------------- MODULE SourcePacing ----------------------------
(***************************************************************************)
(* How fast the producer of a session reads its source, when it counts as  *)
(* stalled, and when another one is started after a failure                *)
(* (vod-source-pacing.ts, vod-producer-coordinator.ts).                    *)
(*                                                                         *)
(* The producer catches up until the viewers have a buffer.  While it      *)
(* catches up, and somebody waits for it, it has to publish something in   *)
(* time: four places of the code keep the moment from which that is        *)
(* counted.  Requests and the timer read the demands first and apply what  *)
(* they read later.  Which demand dominates is the subject of VodDemand.   *)
(***************************************************************************)
EXTENDS Integers, Sequences, FiniteSets

CONSTANTS Waiter,            \* requests that wait for a segment
          Refresher, None,
          Low, High,         \* bufferLowWatermarkMs, bufferHighWatermarkMs
          MaximumRate,       \* maxCatchupRate, percent
          Segment, Segments, \* duration and number
          Timeout,           \* progressStallTimeoutMs
          RetryMin, RetryMax,
          MaxTime,           \* bound of the clock
          MaxAttempts        \* bound: attempts

VARIABLES now,
          jump,              \* the last discontinuity of the dominant demand
          attempts, active, retries,
          round, waiting,
          quiet, ended, refreshed, applied, fruitless  \* see the properties

history == <<quiet, ended, refreshed, applied, fruitless>>
vars == <<now, jump, attempts, active, retries, round, waiting, history>>

Least(a, b) == IF a < b THEN a ELSE b
Greatest(a, b) == IF a > b THEN a ELSE b

NoJump == [index |-> 0, at |-> 0]
NoRetry == [failures |-> 0, notBefore |-> 0]
Idle == [at |-> "idle", jump |-> NoJump, active |-> 0]

Started(id, index) ==
  [id |-> id, anchor |-> [index |-> index, at |-> now], first |-> index, head |-> None,
   rate |-> MaximumRate, watch |-> None, stalled |-> FALSE]

Init ==
  /\ now = 1 /\ jump = NoJump
  /\ attempts = 0 /\ active = None /\ retries = NoRetry
  /\ round = [r \in Waiter \cup {Refresher} |-> Idle] /\ waiting = {}
  /\ quiet = None /\ ended = None /\ refreshed = FALSE /\ applied = NoJump /\ fruitless = <<>>

TimePasses == now < MaxTime /\ now' = now + 1 /\ UNCHANGED <<jump, attempts, active, retries, round, waiting>>

\* A viewer of the dominant window seeks (touchViewer).
Seek ==
  /\ jump.at < now
  /\ \E i \in 0 .. Segments - 1 : jump' = [index |-> i, at |-> now]
  /\ UNCHANGED <<now, attempts, active, retries, round, waiting>>

-----------------------------------------------------------------------------
estimateVodProducerBufferMs(p) ==
  IF p.head = None THEN 0
  ELSE Greatest(0, (p.head + 1) * Segment - (p.anchor.index * Segment + (now - p.anchor.at)))

vodProducerCatchupRate(buffer) ==
  IF MaximumRate = 100 \/ buffer >= High THEN 100
  ELSE IF buffer <= Low THEN MaximumRate
  ELSE 100 + ((MaximumRate - 100) * (High - buffer)) \div (High - Low)

\* The anchor is replaced by a later one only; at first it is the start.
applyPlaybackAnchor(p, j) == IF j.at <= p.anchor.at THEN p ELSE [p EXCEPT !.anchor = j]

resetProgressWatch(p, W) ==
  [p EXCEPT !.watch = IF p.head # None /\ W # {} /\ p.rate > 100 THEN now ELSE None]

reconcilePacing(p) ==
  LET q == [p EXCEPT !.rate = vodProducerCatchupRate(estimateVodProducerBufferMs(p))] IN
  IF p.rate = 100 /\ q.rate > 100 THEN resetProgressWatch(q, waiting) ELSE q

progressStalled(p) ==
  /\ p.head # None /\ waiting # {} /\ p.rate > 100 /\ p.watch # None
  /\ now - p.watch >= Timeout

-----------------------------------------------------------------------------
(* Requests (#ensureRequest, #waitForObject).                              *)

Is(p, id) == p # None /\ p.id = id
Over(r) == round' = [round EXCEPT ![r] = Idle]

\* Without an active producer the delay after a failure passes first.  No
\* discontinuity is read if none is near the window that dominates, or if that window
\* is not the one the timer keeps to.
read(r) ==
  /\ round[r].at = "idle" /\ r \notin waiting
  /\ IF r = Refresher THEN active # None /\ ~active.stalled ELSE active = None => now >= retries.notBefore
  /\ \E j \in {jump, NoJump} :
       round' = [round EXCEPT ![r] = [at |-> "read", jump |-> j,
                                      active |-> IF active = None THEN 0 ELSE active.id]]
  /\ UNCHANGED <<now, jump, attempts, active, retries, waiting>>

\* #start looks at the delay again, and one attempt is started at a time.
start(w) ==
  /\ round[w].at = "read" /\ round[w].active = 0
  /\ IF active # None \/ now < retries.notBefore
       THEN Over(w) /\ UNCHANGED <<attempts, active>>
       ELSE /\ attempts < MaxAttempts /\ attempts' = attempts + 1
            /\ active' = Started(attempts', round[w].jump.index)
            /\ round' = [round EXCEPT ![w].active = attempts']
  /\ UNCHANGED <<now, jump, retries, waiting>>

\* The first one that waits sets the watch.  (The row of the producer is written
\* between the anchor and the wait.)
join(w) ==
  /\ round[w].at = "read" /\ round[w].active # 0
  /\ IF Is(active, round[w].active)
       THEN LET p == applyPlaybackAnchor(active, round[w].jump) IN
            /\ waiting' = waiting \cup {w}
            /\ active' = IF waiting = {} THEN resetProgressWatch(p, {w}) ELSE p
       ELSE UNCHANGED <<waiting, active>>
  /\ Over(w)
  /\ UNCHANGED <<now, jump, attempts, retries>>

\* Served, gone, or past the deadline.
leave(w) ==
  /\ w \in waiting /\ waiting' = waiting \ {w}
  /\ active' = IF waiting' = {} /\ active # None THEN [active EXCEPT !.watch = None] ELSE active
  /\ UNCHANGED <<now, jump, attempts, retries, round>>

-----------------------------------------------------------------------------
(* The attempt (#run, #refreshDemand).                                     *)

\* A segment that is being published when the attempt is aborted counts as well.
publishSegment ==
  /\ active # None
  /\ LET next == IF active.head = None THEN active.first ELSE active.head + 1 IN
     /\ next < Segments
     /\ active' = resetProgressWatch([active EXCEPT !.head = next], waiting)
  /\ retries' = NoRetry
  /\ UNCHANGED <<now, jump, attempts, round, waiting>>

\* What follows the reading of the demands, unless the attempt becomes idle or its
\* window is left.
refreshDemand ==
  /\ round[Refresher].at = "read" /\ Over(Refresher)
  /\ LET p == reconcilePacing(applyPlaybackAnchor(active, round[Refresher].jump)) IN
     active' = [p EXCEPT !.stalled = progressStalled(p)]
  /\ UNCHANGED <<now, jump, attempts, retries, waiting>>

recordFailure(p) ==
  LET failures == IF p.head # None THEN 1 ELSE retries.failures + 1 IN
  [failures |-> failures, notBefore |-> now + Least(RetryMax, RetryMin * 2 ^ (failures - 1))]

\* The attempt is over, with its timer, and those that waited for it look again: it
\* failed, stalled or not; or it is complete; or it was stopped, which forgets the
\* failures.
Ends == active' = None /\ waiting' = {} /\ Over(Refresher) /\ UNCHANGED <<now, jump, attempts>>
fails == active # None /\ retries' = recordFailure(active) /\ Ends
completes ==
  /\ active # None /\ ~active.stalled /\ active.head = Segments - 1
  /\ retries' = NoRetry /\ Ends
stop == (active # None \/ retries # NoRetry) /\ retries' = NoRetry /\ Ends

-----------------------------------------------------------------------------
Step ==
  \/ TimePasses \/ Seek \/ publishSegment \/ refreshDemand \/ fails \/ completes \/ stop
  \/ \E r \in Waiter \cup {Refresher} : read(r)
  \/ \E w \in Waiter : start(w) \/ join(w) \/ leave(w)

\* What the properties look back on: since when the attempt, which has published
\* before, catches up and is waited for without publishing, and how long that was
\* when it was aborted; whether it was refreshed just now; the newest discontinuity that was read in
\* a round since the attempt began; when the attempts began, since one published or
\* was stopped.
Held == active # None /\ active.head # None /\ waiting # {} /\ active.rate > 100
Stalled == active # None /\ active.stalled
Newer(r) == round[r].at = "read" /\ round'[r].at = "idle" /\ round[r].jump.at > applied.at
Watched(A) ==
  /\ A
  /\ quiet' = IF ~Held' THEN None
              ELSE IF ~Held \/ active'.id # active.id \/ active'.head # active.head THEN now
              ELSE quiet
  /\ ended' = IF ~Stalled' THEN None ELSE IF Stalled THEN ended ELSE now - quiet'
  /\ refreshed' = ((refreshed \/ (round[Refresher].at = "read" /\ round'[Refresher].at = "idle"))
                    /\ active' # None /\ now' = now)
  /\ applied' = IF active' = None THEN NoJump
                ELSE IF active = None THEN active'.anchor
                ELSE IF \E r \in DOMAIN round : Newer(r) /\ Is(active, round[r].active)
                     THEN round[CHOOSE r \in DOMAIN round : Newer(r)].jump ELSE applied
  /\ fruitless' = IF active = None /\ active' # None THEN Append(fruitless, now)
                  ELSE IF active # None /\ active' # None /\ active'.head # active.head THEN <<>>
                  ELSE IF retries' = NoRetry /\ ((active # None /\ active' = None) \/ retries # NoRetry)
                       THEN <<>>
                  ELSE fruitless

Next == Watched(Step)

Spec == Init /\ [][Next]_vars

-----------------------------------------------------------------------------
TypeOK ==
  /\ now \in 1 .. MaxTime /\ attempts \in 0 .. MaxAttempts
  /\ active # None => active.rate \in 100 .. MaximumRate /\ active.head \in {None} \cup 0 .. Segments - 1
  /\ waiting \subseteq Waiter /\ (active = None => waiting = {})

\* #progressStalled, #resetProgressWatch: an attempt is aborted as stalled only if for
\* the whole timeout somebody waited for it while it caught up and published nothing,
\* and at the next refresh it is.
StallsTrue ==
  /\ Stalled => ended >= Timeout
  /\ Held /\ ~active.stalled /\ refreshed => now - quiet < Timeout

\* #applyPlaybackAnchor: however requests and the timer overtake each other, the
\* buffer is counted from the newest discontinuity that one of them has read since
\* the attempt began.
AnchorNewest == active # None => active.anchor = applied

\* #recordFailure, #start: between attempts that publish nothing the delay doubles,
\* whichever requests start them.
BackoffKept ==
  \A k \in 1 .. Len(fruitless) - 1 :
    fruitless[k + 1] - fruitless[k] >= Least(RetryMax, RetryMin * 2 ^ (k - 1))

PacingSafe == StallsTrue /\ AnchorNewest /\ BackoffKept
=============================================================================
