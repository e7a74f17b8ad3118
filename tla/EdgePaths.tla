------------------------------ MODULE EdgePaths ------------------------------
(***************************************************************************)
(* LiveEdgePathManager (live-edge-path-manager.ts) for one path: viewers'  *)
(* fetchHls calls and the pruning timer share one entry of #paths and the  *)
(* promise of its operation, and configure or delete the path in MediaMTX. *)
(* Code of one event loop: whoever awaits the operation resumes, in        *)
(* microtasks, when its owner does.  MediaMTX is external; a call to it    *)
(* may time out and take effect later or not at all.                       *)
(***************************************************************************)
EXTENDS Integers, FiniteSets

CONSTANTS Viewer, Pruner, MaxFaults

VARIABLES entry,      \* #paths.get(path): its existence and its ready flag
          act,        \* per caller: where it is, the MediaMTX call it owns
          wasReady,   \* of the delete under way
          configured, \* MediaMTX has the path
          late,       \* timed-out calls that MediaMTX has not handled yet
          faults

vars == <<entry, act, wasReady, configured, late, faults>>

Caller == Viewer \cup {Pruner}
Absent == [in |-> FALSE, ready |-> FALSE]
Done == [at |-> "idle", call |-> "none"]

Init ==
  /\ entry = Absent /\ act = [a \in Caller |-> Done] /\ wasReady = FALSE
  /\ configured = FALSE /\ late = {} /\ faults = 0

Step(w, c) == [at |-> w, call |-> c]
Waiting == {b \in Caller : act[b].call = "await"}
\* What a caller of ensure does next with the path, and one that awaited a delete.
Fetches(w) == IF w = "ensure1" THEN "fetch1" ELSE "fetch2"
Ensures(w) == IF w = "delete1" THEN "ensure2" ELSE w

-----------------------------------------------------------------------------
(* fetchHls: ensure, fetch, and once more after a delete.  ensure joins a  *)
(* ready entry, awaits its operation, or creates it.                       *)

fetchHls(v) ==
  /\ act[v].at = "idle"
  /\ \/ /\ entry.ready
        /\ act' = [act EXCEPT ![v] = Step("fetch1", "none")]
        /\ UNCHANGED entry
     \/ /\ entry.in /\ ~entry.ready
        /\ act' = [act EXCEPT ![v] = Step("ensure1", "await")]
        /\ UNCHANGED entry
     \/ /\ ~entry.in
        /\ entry' = [in |-> TRUE, ready |-> FALSE]
        /\ act' = [act EXCEPT ![v] = Step("ensure1", "add")]
  /\ UNCHANGED <<wasReady, configured, late, faults>>

\* The playlist is served, or the pull fails: the path may be gone, or its origin.
fetch(v) ==
  /\ act[v].at \in {"fetch1", "fetch2"}
  /\ \/ configured /\ act' = [act EXCEPT ![v] = Done]
     \/ act' = [act EXCEPT ![v] = Step(IF @.at = "fetch1" THEN "delete1" ELSE "delete2", "none")]
  /\ UNCHANGED <<entry, wasReady, configured, late, faults>>

\* #delete up to its await.
MutantDelete(a) ==
  /\ act[a].at \in {"delete1", "delete2"} /\ act[a].call = "none"
  /\ entry' = [in |-> TRUE, ready |-> FALSE]
  /\ wasReady' = entry.ready
  /\ act' = [act EXCEPT ![a].call = "delete"]
  /\ UNCHANGED <<configured, late, faults>>
delete(a) ==
  /\ act[a].at \in {"delete1", "delete2"} /\ act[a].call = "none"
  /\ \/ /\ entry.in /\ ~entry.ready
        /\ act' = [act EXCEPT ![a].call = "await"]
        /\ UNCHANGED <<entry, wasReady>>
     \/ /\ ~entry.in \/ entry.ready
        /\ entry' = [in |-> TRUE, ready |-> FALSE]
        /\ wasReady' = entry.ready
        /\ act' = [act EXCEPT ![a].call = "delete"]
  /\ UNCHANGED <<configured, late, faults>>

\* The timer finds an entry that nobody used for a while.
pruneStale ==
  /\ act[Pruner].at = "idle" /\ entry.ready
  /\ act' = [act EXCEPT ![Pruner] = Step("delete2", "none")]
  /\ UNCHANGED <<entry, wasReady, configured, late, faults>>

-----------------------------------------------------------------------------
(* The answers of MediaMTX. *)

\* The operation fails: whoever awaits it throws, as its owner does.
Thrown(a) == [b \in Caller |-> IF b = a \/ b \in Waiting THEN Done ELSE act[b]]

\* #configure succeeds: the ensures that await it find the entry ready.
Configured(v) ==
  /\ configured' = TRUE
  /\ entry' = [in |-> TRUE, ready |-> TRUE]
  /\ act' = [b \in Caller |->
               IF b \notin Waiting \cup {v} THEN act[b]
               ELSE IF act[b].at = "delete2" THEN Done
               ELSE Step(Fetches(Ensures(act[b].at)), "none")]
  /\ UNCHANGED <<wasReady, late, faults>>

\* add answers 400 for a path that exists, and the path is replaced.
addAnswered(v) ==
  /\ act[v].call = "add"
  /\ \/ ~configured /\ Configured(v)
     \/ /\ configured
        /\ act' = [act EXCEPT ![v].call = "replace"]
        /\ UNCHANGED <<entry, wasReady, configured, late, faults>>

replaceAnswered(v) ==
  /\ act[v].call = "replace"
  /\ \/ configured /\ Configured(v)
     \/ /\ ~configured
        /\ entry' = Absent /\ act' = Thrown(v)
        /\ UNCHANGED <<wasReady, configured, late, faults>>

\* 404 and 400 count as deleted.  The entry goes; whoever wants the path next
\* calls ensure: the first of them creates the entry anew, the others await it.
Wanting(a) == {b \in Waiting \cup {a} : act[b].at # "delete2"}
First(a) == LET earlier == {b \in Wanting(a) : act[b].at # "delete1"}
            IN  IF earlier # {} THEN earlier ELSE Wanting(a)
MutantDeleteAnswered(a) ==
  /\ act[a].call = "delete"
  /\ configured' = FALSE
  /\ entry' = Absent
  /\ act' = [c \in Caller |->
               CASE c \in Wanting(a) -> Step(Ensures(act[c].at), "await")
                 [] c \in (Waiting \cup {a}) \ Wanting(a) -> Done
                 [] OTHER -> act[c]]
  /\ UNCHANGED <<wasReady, late, faults>>
deleteAnswered(a) ==
  /\ act[a].call = "delete"
  /\ configured' = FALSE
  /\ entry' = [in |-> Wanting(a) # {}, ready |-> FALSE]
  /\ \E b \in IF Wanting(a) = {} THEN {a} ELSE First(a) :
       act' = [c \in Caller |->
                 CASE c \in Wanting(a) -> Step(Ensures(act[c].at), IF c = b THEN "add" ELSE "await")
                   [] c \in (Waiting \cup {a}) \ Wanting(a) -> Done
                   [] OTHER -> act[c]]
  /\ UNCHANGED <<wasReady, late, faults>>

\* The call times out or is answered with an error: a delete puts a ready entry
\* back, everything else drops the entry; whoever awaits it throws.
CallFails(a) ==
  /\ act[a].call \in {"add", "replace", "delete"} /\ faults < MaxFaults
  /\ faults' = faults + 1
  /\ late' \in {late, late \cup {act[a].call}}
  /\ entry' = IF act[a].call = "delete" /\ wasReady THEN [in |-> TRUE, ready |-> TRUE] ELSE Absent
  /\ act' = Thrown(a)
  /\ UNCHANGED <<wasReady, configured>>

TakesEffect(c) ==
  /\ c \in late /\ late' = late \ {c}
  /\ configured' = (c = "add" \/ (c = "replace" /\ configured))
  /\ UNCHANGED <<entry, act, wasReady, faults>>

Going(a) ==
  \/ delete(a) \/ deleteAnswered(a)
  \/ a \in Viewer /\ (fetch(a) \/ addAnswered(a) \/ replaceAnswered(a))

Next ==
  \/ \E a \in Caller : Going(a) \/ CallFails(a)
  \/ \E v \in Viewer : fetchHls(v)
  \/ pruneStale
  \/ \E c \in late : TakesEffect(c)

\* Every call to MediaMTX has a timeout, and microtasks run.
Fairness == \A a \in Caller : WF_vars(Going(a))

Spec == Init /\ [][Next]_vars /\ Fairness

-----------------------------------------------------------------------------
\* "Concurrent viewers share setup": one call to MediaMTX for the path at a time,
\* and only while its entry is not ready; without faults a ready entry is
\* configured and a configured path is known to #paths (ensure, #delete).
SharedSetup ==
  /\ Cardinality({a \in Caller : act[a].call \in {"add", "replace", "delete"}}) <= 1
  /\ (\E a \in Caller : act[a].call # "none") => entry.in /\ ~entry.ready
  /\ faults = 0 => configured = entry.ready \/ (entry.in /\ ~entry.ready)

\* Every HLS request ends: awaiting each other's operations, reconfiguring once
\* and pruning never leave a viewer behind (fetchHls).
FetchEnds == \A v \in Viewer : act[v].at # "idle" ~> act[v].at = "idle"

=============================================================================
