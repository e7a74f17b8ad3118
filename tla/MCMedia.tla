------------------------------ MODULE MCMedia ------------------------------
(* What one process keeps running, in one run: the transcode slots          *)
(* (WorkerPool: five callers for two slots, two of them can wait), the      *)
(* playback cache (SegmentCache), the live channel (LivePublishing), the    *)
(* live paths of an edge (EdgePaths), the start and the end of the process  *)
(* (Runtime), its backends (Backends), its files and objects (FileStores),  *)
(* what it takes from an FFmpeg child (TranscoderOutput), and how its       *)
(* transcoders reach the source (SourceAccess).                             *)
(* A behaviour exercises one of them.                                       *)
(* Callers and viewers are interchangeable: what is promised to each of     *)
(* them is checked for one.                                                 *)
EXTENDS Integers, Sequences, FiniteSets

CONSTANTS None, v1, v2, r1, r2, r3, r4, r5, obs1, obs2, pruner,
          Acquirer, Viewer, Publisher, Attempt, RangeRequest, Secret, Value,
          maxWorkers, QueueFactor, MaxBooks, Last, MaxOps, MaxActs, MaxStarts, MaxLosses,
          MaxTicks, MaxEvicts, MaxFaults, MaxTokens, MaxClaims, MaxChildren, MaxExits, MaxAttempts

VARIABLES scope,
          activeWorkers, waiters, st, aborted, swallowed, overtaken,
          local, disk, ref, store, req, evict, ticks, evicts, faults,
          entry, act, wasReady, configured, late, losses,
          row, session, issued, claim, claims, stream, poll, del, make, process, child,
          backoff, exits, phase,
          kind, conf, at, progress, deferred, open, done, todo, stop, handlers, failure, sweep, broken,
          setting, applied, life, active, delegate, running, chain, task, closed, writer, exporters,
          acts, starts, refused,
          driver, backend, secrets, content, meta, queue, op, ca, signed, last, stored, expired, torn, made,
          damaged,
          mode, profile, build, available, usable, encoder, call, ffmpeg, run, files, cut, initFile,
          temporary, destination, ready, published, signalled, disturbed, spoilt,
          worker, owned, hls, credential, grant, asked, trans, pc, halted, halt, deleted, early,
          link, book, current, count

\* The actors that have fairness are among them; a transcoder and an attempt are not the
\* same, and neither is the absent grant.  None is no viewer, no
\* configuration and no version; the authority is a secret of its own.
ASSUME MediaAssumption ==
  /\ IsFiniteSet(Acquirer) /\ IsFiniteSet(RangeRequest)
  /\ {r1, r2, r3, r4, r5} \subseteq Acquirer /\ {v1, v2} \subseteq Viewer
  /\ {obs1, obs2} \subseteq Publisher
  /\ maxWorkers \in Nat /\ QueueFactor \in Nat /\ MaxBooks \in Nat
  /\ MaxChildren \in Nat /\ Last \in Nat
  /\ Viewer \cap Attempt = {} /\ "none" \notin Viewer \cup Attempt
  /\ None \notin Viewer \cup Value \cup {"default"} /\ None \notin Nat
  /\ "cluster:certificate-authority" \notin Secret

pvars == <<activeWorkers, waiters, st, aborted, swallowed, overtaken>>
cvars == <<local, disk, ref, store, req, evict, ticks, evicts, faults>>
evars == <<entry, act, wasReady, configured, late, losses>>
lvars == <<row, session, issued, claim, claims, stream, poll, del, make, process, child,
           backoff, exits, phase>>
rvars == <<kind, conf, at, progress, deferred, open, done, todo, stop, handlers, failure, sweep,
           broken>>
bvars == <<setting, applied, life, active, delegate, running, chain, task, closed, writer,
           exporters, acts, starts, refused>>
fvars == <<driver, backend, secrets, content, meta, queue, op, ca, signed, last, stored, expired, torn,
           made, damaged>>
tvars == <<mode, profile, build, available, usable, encoder, call, ffmpeg, run, files, cut, initFile,
           temporary, destination, ready, published, signalled, disturbed, spoilt>>
svars == <<worker, owned, hls, credential, grant, asked, trans, pc, halted, halt, deleted, early,
           link, book, current, count>>
vars == <<scope, pvars, cvars, evars, lvars, rvars, bvars, fvars, tvars, svars>>

P == INSTANCE WorkerPool WITH Request <- Acquirer
C == INSTANCE SegmentCache
E == INSTANCE EdgePaths WITH Pruner <- pruner, faults <- losses, MaxFaults <- MaxLosses
L == INSTANCE LivePublishing
R == INSTANCE Runtime WITH phase <- progress, faults <- broken
B == INSTANCE Backends WITH made <- exporters, faults <- refused, Controller <- Viewer
F == INSTANCE FileStores WITH faults <- damaged, Op <- Viewer, Ref <- Secret
T == INSTANCE TranscoderOutput WITH task <- mode, at <- call, child <- ffmpeg, aborted <- signalled,
                                    faults <- spoilt
S == INSTANCE SourceAccess WITH Request <- Viewer, Range <- RangeRequest,
                                req <- asked, stop <- halt

Scopes == {"pool", "age", "evict", "fault", "edge", "slot", "child", "pin", "process", "swap",
           "stage", "secrets", "object", "output", "grants", "links"}

\* The channel of the scope "child" has its profile pinned; a process with an
\* agent uses MediaMTX, one that lacks a setting both.
Init ==
  /\ scope \in Scopes
  /\ P!Init /\ C!Init /\ (scope \notin {"age", "evict", "fault"} => local)
  /\ E!Init /\ L!Init /\ row.profile = (scope = "child")
  /\ R!Init /\ conf.loopback = conf.mediamtx /\ (conf.agent => conf.mediamtx)
  /\ (conf.missing # "none" => conf.agent)
  /\ scope # "process" =>
       kind = "edge" /\ conf = [missing |-> "none", agent |-> FALSE, mediamtx |-> FALSE, loopback |-> FALSE]
  /\ B!Init
  /\ F!Init /\ (scope # "object" => driver = "local") /\ (scope # "secrets" => backend = "keychain")
  /\ S!Init /\ (scope \notin {"grants", "links"} => ~worker /\ ~owned /\ ~hls)
  /\ T!Init
  \* The build matters to the choice of the encoder, the number of segments to the scan.
  /\ IF scope = "output"
     THEN mode = "produceVod" /\ build # {} => profile.codec = "h264" /\ ~profile.fmp4
     ELSE /\ build = {} /\ mode = "produceVod"
          /\ profile = [codec |-> "copy", filtered |-> FALSE, preference |-> "auto", fmp4 |-> FALSE]

OfPool(A) == scope = "pool" /\ A /\ UNCHANGED <<scope, cvars, evars, lvars, rvars, bvars, fvars, tvars, svars>>
OfCache(A) == scope \in {"age", "evict", "fault"} /\ A /\ UNCHANGED <<scope, pvars, evars, lvars, rvars, bvars, fvars, tvars, svars>>
OfEdge(A) == scope = "edge" /\ A /\ UNCHANGED <<scope, pvars, cvars, lvars, rvars, bvars, fvars, tvars, svars>>
OfLive(A) == scope \in {"slot", "child", "pin"} /\ A /\ UNCHANGED <<scope, pvars, cvars, evars, rvars, bvars, fvars, tvars, svars>>
OfProcess(A) == scope = "process" /\ A /\ UNCHANGED <<scope, pvars, cvars, evars, lvars, bvars, fvars, tvars, svars>>
OfBackends(A) == scope \in {"swap", "stage"} /\ A /\ UNCHANGED <<scope, pvars, cvars, evars, lvars, rvars, fvars, tvars, svars>>
OfFiles(A) == scope \in {"secrets", "object"} /\ A /\ UNCHANGED <<scope, pvars, cvars, evars, lvars, rvars, bvars, tvars, svars>>
OfOutput(A) == scope = "output" /\ A /\ UNCHANGED <<scope, pvars, cvars, evars, lvars, rvars, bvars, fvars, svars>>
OfSource(A) == scope \in {"grants", "links"} /\ A /\ UNCHANGED <<scope, pvars, cvars, evars, lvars, rvars, bvars, fvars, tvars>>

\* The cache: files age while one viewer asks; or they are evicted, or objects
\* are damaged and the process crashes, while two do.
CacheNext ==
  /\ C!Next
  /\ scope # "age" => ticks' = 0
  /\ scope # "evict" => evicts' = 0
  /\ scope # "fault" => faults' = 0
  /\ scope = "age" => req'[v2].at = "idle"

\* The channel: two publishers and a replacement token, no normalizer; or the
\* normalizer, the deletion and the shutdown; or the session that pins a profile.
LiveNext ==
  /\ L!Next
  /\ scope = "slot" => process' = 0 /\ make'.at = "idle" /\ phase' = "open" /\ del'.at = "idle"
  /\ scope = "child" => issued' = 1 /\ claim'[obs2].at = "idle" /\ make'.at = "idle"
  /\ scope = "pin" => /\ issued' = 1 /\ claim'[obs2].at = "idle" /\ claims' < 2
                      /\ exits' = 0 /\ phase' = "open"

\* The backends: directors and exporters of two processes that stay up; or object stores
\* and processes that crash.
Asked(what(_)) == \A c \in Viewer : \A i \in DOMAIN chain'[c] : what(chain'[c][i])
BackendsNext ==
  /\ B!Next
  /\ scope = "swap" =>
       /\ starts' <= 2 /\ \A c \in Viewer : life'[c] = "down" => life[c] = "down"
       /\ Asked(LAMBDA t : t.at # "close" => t.category # "object-store")
  /\ scope = "stage" => Asked(LAMBDA t : t.at # "close" /\ t.category = "object-store")

FilesNext ==
  \/ F!Crash
  \/ scope = "secrets" /\ F!OfSecrets
  \/ scope = "object" /\ F!OfObjects /\ made' < 4

\* Two viewers and no range request, or one with two.
SourceNext ==
  /\ S!Next
  /\ IF scope = "grants" THEN count' = 0 ELSE asked'[v2] = "idle" /\ trans'[v2] = "idle"

Next ==
  \/ OfPool(P!Next) \/ OfCache(CacheNext) \/ OfEdge(E!Next) \/ OfLive(LiveNext)
  \/ OfProcess(R!Next) \/ OfBackends(BackendsNext) \/ OfFiles(FilesNext) \/ OfOutput(T!Next)
  \/ OfSource(SourceNext)

\* The fairness of the models.  A behaviour moves one of them, so an action of each may
\* share a condition.
Fairness ==
  /\ WF_vars(\/ OfPool(P!Resume(r1) \/ P!Release(r1)) \/ OfCache(C!Serving(v1)) \/ OfEdge(E!Going(v1))
             \/ OfLive(L!Claiming(obs1)) \/ OfProcess(R!Starting \/ R!Stopping)
             \/ OfOutput(T!Monitoring))
  /\ WF_vars(\/ OfPool(P!Resume(r2) \/ P!Release(r2)) \/ OfCache(C!Serving(v2)) \/ OfEdge(E!Going(v2))
             \/ OfLive(L!Claiming(obs2)) \/ OfOutput(T!Stopping))
  /\ WF_vars(OfPool(P!Resume(r3) \/ P!Release(r3)) \/ OfEdge(E!Going(pruner)) \/ OfLive(L!Polling))
  /\ WF_vars(OfPool(P!Resume(r4) \/ P!Release(r4)) \/ OfLive(L!Deleting))
  /\ WF_vars(OfPool(P!Resume(r5) \/ P!Release(r5)) \/ OfLive(L!Creating))
  /\ WF_vars(OfLive(L!BackoffEnds))
  /\ \A c \in 1 .. MaxChildren : WF_vars(OfLive(child[c] = "stopping" /\ L!ChildExits(c)))

Spec == Init /\ [][Next]_vars /\ Fairness

\* What a transcode holds.  See WorkerPool: no slot is lost, those given twice or left idle
\* beside a waiting caller are accounted for, one overtaken or swallowed wake-up each.  See
\* SourceAccess: credentials and grants end with what needs them, source connections are
\* counted.
TranscodesSafe == P!SlotsConserved /\ P!NoSlotTwice /\ P!NoIdleSlot /\ S!TypeOK /\ S!AccessSafe
\* See SegmentCache and TranscoderOutput: files are whole and made once; segments are
\* published in order, and none of them cut short.
SegmentsSound == C!CacheSound /\ T!OutputSound
\* See EdgePaths and LivePublishing: one call to MediaMTX at a time, an entry
\* says what MediaMTX has; no FFmpeg child escapes.
LivePathsKept == E!SharedSetup /\ L!NoStrayNormalizer
\* See LivePublishing: who publishes.
AdmittedOnce == L!AdmittedOnce
\* See Runtime: requests are answered by a complete process only, the repository is the
\* last to close.
RuntimeSafe == R!RuntimeSafe
\* See Backends: a controller uses what is wanted; one exporter runs.
BackendsSafe == B!BackendsSafe
\* See FileStores: no change of a secret is lost, one authority signs, objects are whole.
FilesKept == F!FilesKept
\* Whoever asks is answered: a caller that waits for a slot gets one unless a signal
\* aborts, a segment and a live request end, a process without its MediaMTX ends, a transcode
\* that is aborted is over (see WorkerPool, SegmentCache, EdgePaths, Runtime,
\* TranscoderOutput); and what the poll of MediaMTX has seen
\* is brought about (see LivePublishing).
Waits ==
  \/ st[r1] = "waiting" /\ ~aborted
  \/ req[v1].at # "idle" \/ act[v1].at # "idle"
  \/ failure /\ progress \notin {"ended", "killed"}
  \/ signalled /\ ~T!Over
AnswersCome == []<>~Waits /\ L!PollSettles

=============================================================================
