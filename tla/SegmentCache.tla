---------------------------- MODULE SegmentCache ----------------------------
(***************************************************************************)
(* The playback cache of one fMP4 session in one process: segment and      *)
(* initSegment of SessionService (session-service.ts) over SessionCache    *)
(* (session-cache.ts).  Segment 0 and the initialization file are files of *)
(* the session's directory, references beside them, and objects of the     *)
(* object store.  Viewers restore, generate and publish them while entries *)
(* expire, an operator evicts, an object is damaged in the store and the   *)
(* process crashes.  The transcode itself is the subject of SegmentJobs,   *)
(* the persistent producer that of VodProducer.                            *)
(***************************************************************************)
EXTENDS Integers, FiniteSets

CONSTANTS Viewer,
          MaxTicks,     \* passing of half a cacheTtlMs
          MaxEvicts,    \* calls of evict
          MaxFaults     \* damaged objects, crashes

VARIABLES local,   \* TRUE: this process generates (#inflight); FALSE: it asks a
                   \* producer or the origin and restores what they publish
          disk,    \* per file: absent, whole, bad, and its age
          ref,     \* per file: the object reference beside it exists
          store,   \* per file: the object, and its age
          req,     \* per viewer: the request
          evict,   \* the files the evict call has yet to visit
          ticks, evicts, faults

vars == <<local, disk, ref, store, req, evict, ticks, evicts, faults>>

File == {"segment", "init"}
Gone == [is |-> "absent", age |-> 0]
Fresh == [is |-> "whole", age |-> 0]
\* want: what the viewer asked for; file: what is being looked up for it; last:
\* the lookup after which a miss is final; copy: what a restore has read
NoRequest == [at |-> "idle", want |-> "segment", file |-> "segment", last |-> FALSE,
              copy |-> "absent"]

Init ==
  /\ local \in BOOLEAN
  /\ disk = [f \in File |-> Gone] /\ ref = [f \in File |-> FALSE]
  /\ store = [f \in File |-> Gone]
  /\ req = [v \in Viewer |-> NoRequest]
  /\ evict = {} /\ ticks = 0 /\ evicts = 0 /\ faults = 0

Expired(x) == x.is # "absent" /\ x.age >= 2
Goto(v, w) == req' = [req EXCEPT ![v].at = w]
\* access and stat see a file as long as it is there.
OnDisk(f) == disk[f].is # "absent"

\* #writeObjectReference: eviction will know the object by it.  #fileSha256: what was
\* copied is compared with the hash that the store keeps.
Referenced(f) == [ref EXCEPT ![f] = TRUE]
Intact(v) == req[v].copy = "whole"

-----------------------------------------------------------------------------
(* The lookup: the disk, then the object store, then a segment of its own. *)

Ask(v) ==
  /\ req[v].at = "idle"
  /\ \E f \in File : req' = [req EXCEPT ![v] = [NoRequest EXCEPT !.at = "access", !.want = f, !.file = f]]
  /\ UNCHANGED <<local, disk, ref, store, evict, ticks, evicts, faults>>

\* The request is answered: with a file, or with an error.
Served(v) == req' = [req EXCEPT ![v] = NoRequest]
Failed(v) == req' = [req EXCEPT ![v] = NoRequest]

\* What follows a hit: initSegment goes on after the segment it asked for.
GoOn(r) == [r EXCEPT !.at = "access", !.file = "init", !.last = TRUE]
Hit(v) ==
  IF req[v].file = req[v].want THEN Served(v)
  ELSE req' = [req EXCEPT ![v] = GoOn(@)]

\* A segment's access touches the file; one of init.mp4 does not.
access(v) ==
  /\ req[v].at = "access"
  /\ LET f == req[v].file IN
     \/ /\ OnDisk(f)
        /\ disk' = IF f = "segment" THEN [disk EXCEPT ![f].age = 0] ELSE disk
        /\ Hit(v)
     \/ /\ ~OnDisk(f)
        /\ Goto(v, "stat")
        /\ UNCHANGED disk
  /\ UNCHANGED <<local, ref, store, evict, ticks, evicts, faults>>

\* restoreObject found nothing: generate the segment, or look the segment up for
\* the initialization file, or give up.
Missed(v) ==
  \/ req[v].last /\ Failed(v)
  \/ /\ ~req[v].last
     /\ req' = [req EXCEPT ![v] = IF @.file = "segment" THEN [@ EXCEPT !.at = "generate"]
                                 ELSE [@ EXCEPT !.at = "access", !.file = "segment"]]


\* An expired object is deleted by the store when it is looked at.
stat(v) ==
  /\ req[v].at = "stat"
  /\ LET f == req[v].file IN
     IF store[f].is = "absent" \/ Expired(store[f])
       THEN store' = [store EXCEPT ![f] = Gone] /\ Missed(v)
       ELSE Goto(v, "open") /\ UNCHANGED store
  /\ UNCHANGED <<local, disk, ref, evict, ticks, evicts, faults>>

open(v) ==
  /\ req[v].at = "open"
  /\ LET f == req[v].file IN
     IF store[f].is = "absent" THEN Missed(v)
     ELSE req' = [req EXCEPT ![v].at = "rename", ![v].copy = store[f].is]
  /\ UNCHANGED <<local, disk, ref, store, evict, ticks, evicts, faults>>

\* The copy is complete in its .part file, a name no lookup sees: size and hash decide.
MutantRename(v) ==
  /\ req[v].at = "rename"
  /\ disk' = [disk EXCEPT ![req[v].file] = [is |-> req[v].copy, age |-> 0]]
  /\ Goto(v, "reference") /\ UNCHANGED store
  /\ UNCHANGED <<local, ref, evict, ticks, evicts, faults>>
restore(v) ==
  /\ req[v].at = "rename"
  /\ LET f == req[v].file IN
     IF Intact(v)
       THEN /\ disk' = [disk EXCEPT ![f] = Fresh]
            /\ Goto(v, "reference") /\ UNCHANGED store
       ELSE /\ store' = [store EXCEPT ![f] = Gone]
            /\ Missed(v) /\ UNCHANGED disk
  /\ UNCHANGED <<local, ref, evict, ticks, evicts, faults>>

\* #writeObjectReference, then cleanupExpired, which spares the restored file; a
\* file goes with its reference (#removeLocalObject).  Of this walk one step is made;
\* the step by step form is cleanupExpired below, which may run at any time.
Cleaned(f, spared) == IF f \notin spared /\ Expired(disk[f]) THEN Gone ELSE disk[f]
Kept(f, spared) == ref[f] /\ Cleaned(f, spared).is # "absent"
restored(v) ==
  /\ req[v].at = "reference"
  /\ LET f == req[v].file IN
     /\ disk' = [g \in File |-> Cleaned(g, {f})]
     /\ ref' = [g \in File |-> Referenced(f)[g] /\ (g = f \/ Kept(g, {f}))]
     /\ Hit(v)
  /\ UNCHANGED <<local, store, evict, ticks, evicts, faults>>

-----------------------------------------------------------------------------
(* Generation.  The steps of the viewer whose call #inflight holds.        *)

Generating == {"transcode", "putSegment", "putInit", "publish"}
Flight == {v \in Viewer : req[v].at \in Generating}

\* In this process: join the flight or start one.  Else ensure, which returns
\* when the segment is in the object store.
generate(v) ==
  /\ req[v].at = "generate"
  /\ Goto(v, IF ~local THEN "ensure" ELSE IF Flight = {} THEN "transcode" ELSE "joined")
  /\ UNCHANGED <<local, disk, ref, store, evict, ticks, evicts, faults>>

\* The producer publishes the segment and the initialization object (external).
ensure(v) ==
  /\ req[v].at = "ensure"
  /\ store' = [f \in File |-> Fresh]
  /\ req' = [req EXCEPT ![v].at = "stat", ![v].last = TRUE]
  /\ UNCHANGED <<local, disk, ref, evict, ticks, evicts, faults>>

\* FFmpeg's output is renamed into place, the segment first.
transcode(v) ==
  /\ req[v].at = "transcode"
  /\ disk' = [f \in File |-> Fresh]
  /\ Goto(v, "putSegment")
  /\ UNCHANGED <<local, ref, store, evict, ticks, evicts, faults>>

\* publishObject: an object is put from the file and then referenced; a file that
\* is gone ends the job.
Finish(v, ok) ==
  LET over == {u \in Viewer : u = v \/ req[u].at = "joined"} IN
  /\ req' = [u \in Viewer |-> IF u \notin over THEN req[u]
                             ELSE IF ok /\ req[u].want = "init" THEN GoOn(req[u])
                             ELSE NoRequest]

put(v) ==
  /\ req[v].at \in {"putSegment", "putInit"}
  /\ LET f == IF req[v].at = "putSegment" THEN "segment" ELSE "init" IN
     IF OnDisk(f)
       THEN /\ store' = [store EXCEPT ![f] = Fresh]
            /\ ref' = Referenced(f)
            /\ Goto(v, IF f = "segment" THEN "putInit" ELSE "publish")
       ELSE Finish(v, FALSE) /\ UNCHANGED <<store, ref>>
  /\ UNCHANGED <<local, disk, evict, ticks, evicts, faults>>

\* cleanupExpired with both files spared; #inflight forgets the call.
publish(v) ==
  /\ req[v].at = "publish"
  /\ Finish(v, TRUE)
  /\ UNCHANGED <<local, disk, ref, store, evict, ticks, evicts, faults>>

-----------------------------------------------------------------------------
(* What fails.  A copy that fails takes its .part file along; FFmpeg, the producer or
   the signal of the viewer who started the call ends it, and the joined with it. *)
fail(v) ==
  /\ \/ req[v].at \in {"rename", "ensure"} /\ Failed(v)
     \/ req[v].at = "transcode" /\ Finish(v, FALSE)
  /\ UNCHANGED <<local, disk, ref, store, evict, ticks, evicts, faults>>

-----------------------------------------------------------------------------
(* Everybody else. *)

\* cleanupExpired of anybody else, one file between two awaits.
cleanupExpired ==
  /\ \E f \in File :
       /\ Expired(disk[f])
       /\ disk' = [disk EXCEPT ![f] = Gone]
       /\ ref' = [ref EXCEPT ![f] = FALSE]
  /\ UNCHANGED <<local, store, req, evict, ticks, evicts, faults>>

\* evict: the inventory, then one file after the other: its reference, the file,
\* the object the reference names.
evictAll ==
  /\ evict = {} /\ evicts < MaxEvicts
  /\ evicts' = evicts + 1
  /\ evict' = {f \in File : OnDisk(f)}
  /\ UNCHANGED <<local, disk, ref, store, req, ticks, faults>>

evictNext ==
  /\ \E f \in evict :
       /\ evict' = evict \ {f}
       /\ disk' = [disk EXCEPT ![f] = Gone]
       /\ ref' = [ref EXCEPT ![f] = FALSE]
       /\ store' = IF ref[f] THEN [store EXCEPT ![f] = Gone] ELSE store
  /\ UNCHANGED <<local, req, ticks, evicts, faults>>

Tick ==
  /\ ticks < MaxTicks /\ ticks' = ticks + 1
  /\ disk' = [f \in File |-> [disk[f] EXCEPT !.age = IF OnDisk(f) THEN @ + 1 ELSE 0]]
  /\ store' = [f \in File |-> [store[f] EXCEPT !.age = IF store[f].is # "absent" THEN @ + 1 ELSE 0]]
  /\ UNCHANGED <<local, ref, req, evict, evicts, faults>>

\* The store returns other bytes than were put (external).
Damage(f) ==
  /\ store[f].is = "whole" /\ faults < MaxFaults /\ faults' = faults + 1
  /\ store' = [store EXCEPT ![f].is = "bad"]
  /\ UNCHANGED <<local, disk, ref, req, evict, ticks, evicts>>

\* recoverPartials removes what a crash leaves half-written.
Crash ==
  /\ faults < MaxFaults /\ faults' = faults + 1
  /\ req' = [v \in Viewer |-> NoRequest] /\ evict' = {}
  /\ UNCHANGED <<local, disk, ref, store, ticks, evicts>>

Serving(v) ==
  \/ access(v) \/ stat(v) \/ open(v) \/ restore(v) \/ restored(v)
  \/ generate(v) \/ ensure(v) \/ transcode(v) \/ put(v) \/ publish(v)

Next ==
  \/ \E v \in Viewer : Ask(v) \/ Serving(v) \/ fail(v)
  \/ cleanupExpired \/ evictAll \/ evictNext \/ Tick \/ Crash
  \/ \E f \in File : Damage(f)

Fairness == \A v \in Viewer : WF_vars(Serving(v))

Spec == Init /\ [][Next]_vars /\ Fairness

-----------------------------------------------------------------------------
\* What the cache shows is whole, and it is made once: no damaged object reaches
\* the session's directory, whatever is restored, evicted and generated at the
\* same time, and at most one call in this process generates the segment
\* (restoreObject, #inflight).
CacheSound == (\A f \in File : disk[f].is # "bad") /\ Cardinality(Flight) <= 1

\* Every request is answered, whoever generates for whom (segment, initSegment).
RequestEnds ==
  \A v \in Viewer : req[v].at # "idle" ~> req[v].at = "idle"

=============================================================================
