----------------------------- MODULE DemandStore -----------------------------
(***************************************************************************)
(* The segment demands of one session in the coordination store:           *)
(* recordSegmentDemand and listSegmentDemands, in the memory of one        *)
(* process (packages/adapters/src/local-infrastructure.ts) or in Valkey    *)
(* for all of them (redis-coordination.ts).                                *)
(*                                                                         *)
(* Valkey keeps a sorted set of times and a hash of values.  A recording   *)
(* is one script; a listing is made of up to four commands, between which  *)
(* other recordings and listings run.  VodDemand takes both for one step.  *)
(***************************************************************************)
EXTENDS Integers, FiniteSets

CONSTANTS Viewer, Recording,  \* requests of viewers
          Listing,      \* calls of listSegmentDemands
          Index, None,
          Window,       \* windowMs of both operations
          MaxTime       \* bound of the clock

VARIABLES kind, now,
          time, value,     \* the two keys; no time is 0
          expiresAt,       \* PEXPIRE, of both
          ask, list,
          said,            \* what was recorded
          newest, anchor,  \* per viewer the last of it, and the last discontinuity
          swept, jumbled   \* see the properties

keys == <<time, value, expiresAt>>
history == <<said, newest, anchor, swept, jumbled>>
vars == <<kind, now, keys, ask, list, history>>

Quiet == [at |-> "idle", viewer |-> None, index |-> 0, stamp |-> 0, jump |-> FALSE]
Idle == [at |-> "idle", stamp |-> 0, expired |-> {}, rows |-> [v \in Viewer |-> 0],
         due |-> {}]

Init ==
  /\ kind \in {"local", "valkey"} /\ now = Window + 1
  /\ time = [v \in Viewer |-> 0] /\ value = [v \in Viewer |-> None] /\ expiresAt = 0
  /\ ask = [a \in Recording |-> Quiet] /\ list = [l \in Listing |-> Idle]
  /\ said = {} /\ newest = [v \in Viewer |-> None] /\ anchor = [v \in Viewer |-> None]
  /\ swept = {} /\ jumbled = {}

\* '-inf' to the cutoff includes it; the map in memory is compared with <.
Old(v, cutoff) == time[v] # 0 /\ IF kind = "valkey" THEN time[v] <= cutoff ELSE time[v] < cutoff

Without(S) ==
  /\ time' = [v \in Viewer |-> IF v \in S THEN 0 ELSE time[v]]
  /\ value' = [v \in Viewer |-> IF v \in S THEN None ELSE value[v]]

TimePasses ==
  /\ now < MaxTime /\ now' = now + 1
  /\ IF kind = "valkey" /\ now' >= expiresAt THEN Without(Viewer) ELSE UNCHANGED <<time, value>>
  /\ list' = [l \in Listing |-> [list[l] EXCEPT !.due = {v \in @ : newest[v].stamp > now' - Window}]]
  /\ UNCHANGED <<kind, expiresAt, ask, history>>

-----------------------------------------------------------------------------
(* Recording.                                                              *)

\* touchViewer takes the time before the command is sent.
touchViewer(a) ==
  /\ ask[a].at = "idle"
  /\ \E v \in Viewer, i \in Index, jump \in BOOLEAN :
       ask' = [ask EXCEPT ![a] = [at |-> "sent", viewer |-> v, index |-> i, stamp |-> now, jump |-> jump]]
  /\ UNCHANGED <<kind, now, keys, list, history>>

\* The last discontinuity stays with the viewer while it is in the window.
Anchor(d) ==
  LET cutoff == d.stamp - Window
      previous == IF kind = "valkey" /\ Old(d.viewer, cutoff) THEN None ELSE value[d.viewer] IN
  IF d.jump THEN [index |-> d.index, stamp |-> d.stamp]
  ELSE IF previous # None /\ previous.anchor # None /\ previous.anchor.stamp >= cutoff THEN previous.anchor
  ELSE None

recordSegmentDemand(a) ==
  LET d == ask[a]
      v == d.viewer
      old == {w \in Viewer \ {v} : Old(w, d.stamp - Window)} IN
  /\ d.at = "sent"
  /\ time' = [w \in Viewer |-> IF w = v THEN d.stamp ELSE IF w \in old THEN 0 ELSE time[w]]
  /\ value' = [w \in Viewer |-> IF w = v THEN [index |-> d.index, anchor |-> Anchor(d)]
                                ELSE IF w \in old THEN None ELSE value[w]]
  /\ expiresAt' = now + 2 * Window
  /\ ask' = [ask EXCEPT ![a] = [Quiet EXCEPT !.at = "over"]]
  /\ said' = said \cup {[d EXCEPT !.at = "over"]}
  /\ newest' = [newest EXCEPT ![v] = d] /\ anchor' = (IF d.jump THEN [anchor EXCEPT ![v] = d] ELSE anchor)
  /\ swept' = IF \E l \in Listing : list[l].at = "remove" /\ v \in list[l].expired
              THEN swept \cup {v} ELSE swept \ {v}
  /\ jumbled' = IF v \in swept' \/ d.stamp < time[v] THEN jumbled \cup {v}
                ELSE IF d.jump THEN jumbled \ {v} ELSE jumbled
  /\ list' = [l \in Listing |-> [list[l] EXCEPT !.due =
                {w \in @ : w \notin swept' /\ (w = v => d.stamp > now - Window)}]]
  /\ UNCHANGED <<kind, now>>

-----------------------------------------------------------------------------
(* Listing.                                                                *)

Cutoff(l) == list[l].stamp - Window

\* Number('') is 0: a value that is gone is a demand for the first segment.
Entries(l, rows) ==
  {[viewer |-> v, stamp |-> rows[v],
    index |-> IF value[v] = None THEN 0 ELSE value[v].index,
    anchor |-> IF value[v] = None \/ value[v].anchor = None THEN None
               ELSE IF kind = "local" \/ value[v].anchor.stamp >= Cutoff(l) THEN value[v].anchor ELSE None] :
     v \in {w \in Viewer : rows[w] # 0}}
Answered(l) == list' = [list EXCEPT ![l] = [Idle EXCEPT !.at = "over"]]

\* due: the demands that the answer has to have.
listSegmentDemands(l) ==
  /\ list[l].at = "idle"
  /\ list' = [list EXCEPT ![l] = [Idle EXCEPT !.at = "expired", !.stamp = now,
                !.due = {v \in Viewer : newest[v] # None /\ newest[v].stamp > now - Window /\ v \notin swept}]]
  /\ UNCHANGED <<kind, now, keys, ask, history>>

InWindow(l) == [v \in Viewer |-> IF time[v] >= Cutoff(l) THEN time[v] ELSE 0]

listLocal(l) ==
  /\ kind = "local" /\ list[l].at = "expired"
  /\ Without({v \in Viewer : Old(v, Cutoff(l))})
  /\ Answered(l)
  /\ UNCHANGED <<kind, now, expiresAt, ask, history>>

readExpired(l) ==
  /\ kind = "valkey" /\ list[l].at = "expired"
  /\ LET old == {v \in Viewer : Old(v, Cutoff(l))} IN
     list' = [list EXCEPT ![l].expired = old, ![l].at = IF old = {} THEN "rows" ELSE "remove"]
  /\ UNCHANGED <<kind, now, keys, ask, history>>

\* By their names, whatever was recorded for them in the meantime.
removeExpired(l) ==
  /\ list[l].at = "remove"
  /\ Without(list[l].expired)
  /\ list' = [list EXCEPT ![l].at = "rows", ![l].expired = {}]
  /\ UNCHANGED <<kind, now, expiresAt, ask, history>>

readRows(l) ==
  /\ list[l].at = "rows"
  /\ IF \A v \in Viewer : InWindow(l)[v] = 0
       THEN Answered(l) ELSE list' = [list EXCEPT ![l].rows = InWindow(l), ![l].at = "values"]
  /\ UNCHANGED <<kind, now, keys, ask, history>>

readValues(l) ==
  /\ list[l].at = "values"
  /\ Answered(l)
  /\ UNCHANGED <<kind, now, keys, ask, history>>

-----------------------------------------------------------------------------
Next ==
  \/ TimePasses
  \/ \E a \in Recording : touchViewer(a) \/ recordSegmentDemand(a)
  \/ \E l \in Listing : \/ listSegmentDemands(l) \/ listLocal(l) \/ readExpired(l)
                        \/ removeExpired(l) \/ readRows(l) \/ readValues(l)

Spec == Init /\ [][Next]_vars

-----------------------------------------------------------------------------
TypeOK ==
  /\ now \in 0 .. MaxTime /\ time \in [Viewer -> 0 .. MaxTime]
  /\ \A v \in Viewer : time[v] = 0 <=> value[v] = None
  /\ \A l \in Listing : list[l].at \in {"idle", "expired", "remove", "rows", "values", "over"}

Fresh(d) == d # None /\ d.stamp > now - Window

\* recordSegmentDemand: the last demand of a viewer stays as long as it is in the
\* window, and so does the last discontinuity.  Exceptions: the demand was recorded
\* while a listing was about to remove the one before it; recordings of the viewer
\* arrived out of order (its anchor only).
DemandsKept ==
  \A v \in Viewer :
    /\ Fresh(newest[v]) /\ v \notin swept => time[v] = newest[v].stamp /\ value[v].index = newest[v].index
    /\ Fresh(anchor[v]) /\ v \notin swept \cup jumbled /\ Fresh(newest[v]) =>
         value[v].anchor = [index |-> anchor[v].index, stamp |-> anchor[v].stamp]

\* listSegmentDemands: what is listed was recorded in the window, by that viewer, and
\* its anchor at a discontinuity; a value may be newer than its time, and is 0 if the
\* demand was removed after its time was read.  What was recorded before the listing
\* began, and did not leave the window since, is listed.
Answering(l) ==
  IF kind = "local" THEN list[l].at = "expired"
  ELSE list[l].at = "values" \/ (list[l].at = "rows" /\ \A v \in Viewer : InWindow(l)[v] = 0)
Listed(l) == Entries(l, IF list[l].at = "values" THEN list[l].rows ELSE InWindow(l))
ListingsTrue ==
  \A l \in Listing : Answering(l) =>
    /\ \A e \in Listed(l) :
         /\ e.stamp >= Cutoff(l)
         /\ \E d \in said : d.viewer = e.viewer /\ d.stamp = e.stamp
         /\ \/ \E d \in said : d.viewer = e.viewer /\ d.index = e.index /\ d.stamp >= Cutoff(l)
            \/ e.index = 0 /\ (Fresh(newest[e.viewer]) => e.viewer \in swept)
         /\ e.anchor # None => \E d \in said : /\ d.viewer = e.viewer /\ d.jump
                                               /\ d.index = e.anchor.index /\ d.stamp = e.anchor.stamp
    /\ \A v \in list[l].due : \E e \in Listed(l) : e.viewer = v

DemandsSafe == DemandsKept /\ ListingsTrue
=============================================================================
