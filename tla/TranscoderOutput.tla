-------------------------- MODULE TranscoderOutput ---------------------------
(* What the transcoder makes of an FFmpeg child (packages/adapters:          *)
(* FFmpegTranscoder): the discovery of the encoders, one segment at a time   *)
(* (generateSegment), and the persistent VOD producer, whose segments are    *)
(* taken from its directory while FFmpeg writes (produceVod,                 *)
(* monitorVodProducerOutput).                                                *)
EXTENDS Integers, Sequences, FiniteSets

CONSTANTS None,
          Last,         \* segments are 0 .. Last
          MaxFaults     \* failures of FFmpeg, of a publication, of a kill

VARIABLES task,         \* "produceVod" or "generateSegment"
          profile,      \* the profile's codec and segment type, the preferred backend
          build,        \* the encoders of the FFmpeg build
          available,    \* #availableEncoders
          usable,       \* the encoders that passed the self-test of discover
          encoder,      \* of the FFmpeg that was started
          at,           \* where the call stands
          child,        \* "none", "running", "term", "kill", "gone"
          run,          \* the promise of #run
          files,        \* segments that have their final name
          cut,          \* those of them that are shorter than they should be
          initFile,     \* init.mp4 exists
          temporary,    \* generateSegment's own file: "none", "part", "whole"
          destination,
          ready,        \* what is left of the scan
          published,    \* in the order of publication
          aborted,      \* the caller's signal
          disturbed,    \* FFmpeg got a signal, or the end of its input, from elsewhere
          faults

vars == <<task, profile, build, available, usable, encoder, at, child, run, files, cut, initFile, temporary,
          destination, ready, published, aborted, disturbed, faults>>
settings == <<task, profile, build, usable>>
output == <<files, cut, initFile, temporary>>

\* h265 has the backends of h264.
Codec == {"h264", "av1", "copy"}
automaticOrder == <<"software", "videotoolbox", "nvenc", "qsv", "vaapi", "amf">>
Backend == {automaticOrder[i] : i \in DOMAIN automaticOrder}
encoders ==
  [h264 |-> Backend, av1 |-> {"software", "nvenc", "qsv", "amf"}]
Encoder == UNION {{c} \X encoders[c] : c \in {"h264", "av1"}}

Copy == <<"copy", "none">>

\* resolveFfmpegVideoEncoder: None when it throws.
First(choices) ==
  IF choices = {} THEN None
  ELSE automaticOrder[CHOOSE i \in DOMAIN automaticOrder :
         automaticOrder[i] \in choices /\ \A j \in 1 .. i - 1 : automaticOrder[j] \notin choices]
resolveFfmpegVideoEncoder(codec, preference, there) ==
  LET choices == {b \in encoders[codec] : there = {} \/ <<codec, b>> \in there}
      backend == CASE preference # "auto" -> IF preference \in choices THEN preference ELSE None
                   [] there = {} -> "software"
                   [] OTHER -> First(choices)
  IN IF backend = None THEN None ELSE <<codec, backend>>

\* #videoArgs: a copied stream is not filtered.
videoArgs ==
  IF profile.codec = "copy" THEN IF profile.filtered THEN None ELSE Copy
  ELSE resolveFfmpegVideoEncoder(profile.codec, profile.preference, available)

Builds == {{}, {<<"h264", "software">>, <<"h264", "vaapi">>}, {<<"h264", "nvenc">>, <<"h264", "amf">>}}

Init ==
  /\ task \in {"produceVod", "generateSegment"}
  /\ profile \in [codec : Codec, filtered : BOOLEAN, preference : {"auto", "vaapi"}, fmp4 : BOOLEAN]
  /\ profile.codec # "copy" => ~profile.filtered
  /\ build \in Builds
  /\ available = {} /\ usable = {} /\ encoder = None /\ at = "idle" /\ child = "none" /\ run = "none"
  /\ files = {} /\ cut = {} /\ initFile = FALSE /\ temporary = "none" /\ destination = "none"
  /\ ready = <<>> /\ published = <<>> /\ aborted = FALSE /\ disturbed = FALSE /\ faults = 0

Fault == faults < MaxFaults /\ faults' = faults + 1
Over == at \in {"returned", "threw"}
Alive == child \in {"running", "term", "kill"}

-----------------------------------------------------------------------------
(* FFmpeg is asked what it has (discover). *)

discover ==
  /\ at = "idle" /\ available = {} /\ build # {} /\ at' = "asked"
  /\ UNCHANGED <<settings, available, encoder, child, run, output, destination, ready, published,
                 aborted, disturbed, faults>>
\* The encoders of the build are available, be they of use or not; FFmpeg may fail to
\* tell them, which ends the start-up.
Discovered ==
  /\ at = "asked"
  /\ \/ available' = build /\ at' = "probe" /\ UNCHANGED faults
     \/ Fault /\ at' = "threw" /\ UNCHANGED available
  /\ UNCHANGED <<settings, encoder, child, run, output, destination, ready, published, aborted,
                 disturbed>>
\* Each of them encodes a frame: those that cannot are reported as not available.
Reported(failed) == usable' = available \ failed
probeEncoder ==
  /\ at = "probe" /\ at' = "idle"
  /\ \/ Reported({}) /\ UNCHANGED faults
     \/ Fault /\ \E e \in available : Reported({e})
  /\ UNCHANGED <<task, profile, build, available, encoder, child, run, output, destination, ready,
                 published, aborted, disturbed>>

-----------------------------------------------------------------------------
(* The call begins. *)

\* produceVod asks for -readrate_catchup, unless discover has.
capture ==
  /\ at = "idle"
  /\ at' = IF task = "produceVod" /\ available = {} THEN "capture" ELSE "arguments"
  /\ UNCHANGED <<settings, available, encoder, child, run, output, destination, ready, published,
                 aborted, disturbed, faults>>
captured ==
  /\ at = "capture"
  /\ IF aborted THEN at' = "threw" /\ UNCHANGED faults
     ELSE (at' = "arguments" /\ UNCHANGED faults) \/ (at' = "threw" /\ Fault)
  /\ UNCHANGED <<settings, available, encoder, child, run, output, destination, ready, published,
                 aborted, disturbed>>

\* No encoder will do; or #run starts FFmpeg, which is stopped at once when the
\* signal was first.
start ==
  /\ at = "arguments"
  /\ IF videoArgs = None THEN at' = "threw" /\ UNCHANGED <<encoder, child, run, temporary>>
     ELSE /\ encoder' = videoArgs /\ run' = "pending"
          /\ child' = IF aborted THEN "term" ELSE "running"
          /\ at' = IF task = "produceVod" THEN "scan" ELSE "segment"
          /\ temporary' = IF task = "produceVod" THEN "none" ELSE "part"
  /\ UNCHANGED <<settings, available, files, cut, initFile, destination, ready, published, aborted,
                 disturbed, faults>>

-----------------------------------------------------------------------------
(* FFmpeg. *)

Next0 == Cardinality(files \cup {published[i] : i \in DOMAIN published})
\* A segment, or init.mp4, gets its name when it is complete (temp_file).
writes ==
  /\ child = "running" /\ task = "produceVod"
  /\ \/ Next0 <= Last /\ files' = files \cup {Next0} /\ UNCHANGED initFile
     \/ profile.fmp4 /\ ~initFile /\ initFile' = TRUE /\ UNCHANGED files
  /\ UNCHANGED <<settings, available, encoder, at, child, run, cut, temporary, destination, ready,
                 published, aborted, disturbed, faults>>

\* FFmpeg ends the segment it is at, or leaves it.
Finishes(whole) ==
  \/ UNCHANGED output
  \/ /\ ~whole /\ task = "produceVod" /\ Next0 <= Last
     /\ files' = files \cup {Next0} /\ cut' = cut \cup {Next0} /\ UNCHANGED <<initFile, temporary>>
  \/ /\ whole /\ task = "generateSegment" /\ temporary' = "whole" /\ UNCHANGED <<files, cut, initFile>>

\* The child closes: #run rejects when the signal has been aborted or the code is not 0.
closes(resolves) ==
  /\ child' = "gone"
  /\ run' = IF run # "pending" THEN run ELSE IF resolves /\ ~aborted THEN "resolved" ELSE "rejected"
  /\ UNCHANGED <<settings, available, encoder, at, destination, ready, published, aborted>>

\* It has made what it was asked for.
succeeds ==
  /\ child = "running"
  /\ IF task = "produceVod" THEN Next0 > Last /\ (profile.fmp4 => initFile) /\ UNCHANGED output
     ELSE temporary' = "whole" /\ UNCHANGED <<files, cut, initFile>>
  /\ closes(TRUE) /\ UNCHANGED <<disturbed, faults>>
\* It fails, or could not be started.
fails == child = "running" /\ Fault /\ UNCHANGED output /\ closes(FALSE) /\ UNCHANGED disturbed
\* It takes what it has for all, and says so or not.
endsEarly ==
  /\ child = "running" /\ Fault /\ Finishes(FALSE) /\ disturbed' = TRUE
  /\ \E resolves \in BOOLEAN : closes(resolves)
\* It obeys SIGTERM, or SIGKILL.
obeys ==
  /\ child = "term" /\ Finishes(FALSE) /\ closes(FALSE) /\ UNCHANGED <<disturbed, faults>>
dies ==
  /\ child = "kill" /\ UNCHANGED output /\ closes(FALSE) /\ UNCHANGED <<disturbed, faults>>

\* terminateChildProcess: SIGKILL when the grace is over, and the end of the patience.
terminateChildProcess ==
  /\ child = "term" /\ child' = "kill"
  /\ UNCHANGED <<settings, available, encoder, at, run, output, destination, ready, published, aborted,
                 disturbed, faults>>
couldNotBeStopped ==
  /\ child = "kill" /\ run = "pending" /\ Fault /\ run' = "rejected"
  /\ UNCHANGED <<settings, available, encoder, at, child, output, destination, ready, published,
                 aborted, disturbed>>

\* The caller aborts (a stop, a lost lease, a viewer who left).
abort ==
  /\ ~aborted /\ ~Over /\ at \notin {"idle", "asked", "probe"} /\ aborted' = TRUE
  /\ child' = IF child = "running" THEN "term" ELSE child
  /\ UNCHANGED <<settings, available, encoder, at, run, output, destination, ready, published,
                 disturbed, faults>>

-----------------------------------------------------------------------------
(* generateSegment. *)

\* The files get their names when FFmpeg has ended well, the segment before the init.mp4
\* of an fMP4 profile; what is left of them is removed.
generateSegment ==
  /\ at = "segment" /\ run # "pending"
  /\ IF run = "resolved"
     THEN destination' = temporary /\ at' = IF profile.fmp4 THEN "init" ELSE "returned"
     ELSE at' = "threw" /\ UNCHANGED destination
  /\ temporary' = "none"
  /\ UNCHANGED <<settings, available, encoder, child, run, files, cut, initFile, ready, published,
                 aborted, disturbed, faults>>
generateFmp4Segment ==
  /\ at = "init"
  /\ \/ initFile' = TRUE /\ at' = "returned" /\ UNCHANGED faults
     \/ Fault /\ at' = "threw" /\ UNCHANGED initFile
  /\ UNCHANGED <<settings, available, encoder, child, run, files, cut, temporary, destination, ready,
                 published, aborted, disturbed>>

-----------------------------------------------------------------------------
(* monitorVodProducerOutput. *)

Sorted(S) == [i \in 1 .. Cardinality(S) |-> CHOOSE x \in S : Cardinality({y \in S : y < x}) = i - 1]

\* scan: the names in the directory; nothing before init.mp4 is there.
scan ==
  /\ at \in {"scan", "final"}
  /\ ready' = IF profile.fmp4 /\ ~initFile THEN <<>> ELSE Sorted(files)
  /\ at' = IF at = "scan" THEN "publish" ELSE "publish last"
  /\ UNCHANGED <<settings, available, encoder, child, run, output, destination, published, aborted,
                 disturbed, faults>>

Throws == at' = "abort" /\ child' = IF child = "running" THEN "term" ELSE child

\* onSegment of the coordinator: refused after the abort, else put into the store; the
\* file is removed either way.
onSegment ==
  /\ at \in {"publish", "publish last"} /\ ready # <<>>
  /\ IF aborted THEN Throws /\ files' = files \ {Head(ready)} /\ UNCHANGED <<ready, cut>>
     ELSE at' = (IF at = "publish" THEN "put" ELSE "put last") /\ UNCHANGED <<child, files, ready, cut>>
  /\ UNCHANGED <<settings, available, encoder, run, initFile, temporary, destination, published,
                 aborted, disturbed, faults>>
put ==
  /\ at \in {"put", "put last"}
  /\ files' = files \ {Head(ready)}
  /\ \/ /\ published' = Append(published, Head(ready)) /\ ready' = Tail(ready)
        /\ at' = (IF at = "put" THEN "publish" ELSE "publish last") /\ UNCHANGED <<child, faults>>
     \/ Fault /\ Throws /\ UNCHANGED <<published, ready>>
  /\ UNCHANGED <<settings, available, encoder, run, cut, initFile, temporary, destination, aborted,
                 disturbed>>

\* The loop goes on until FFmpeg has ended; then comes the last scan.
scanned ==
  /\ at = "publish" /\ ready = <<>>
  /\ at' = IF run = "pending" THEN "scan" ELSE "final"
  /\ UNCHANGED <<settings, available, encoder, child, run, output, destination, ready, published,
                 aborted, disturbed, faults>>

\* The outcome of FFmpeg; or, when a publication failed, its error once FFmpeg is over.
settles ==
  /\ \/ at = "publish last" /\ ready = <<>> /\ at' = (IF run = "resolved" THEN "returned" ELSE "threw")
     \/ at = "abort" /\ run # "pending" /\ at' = "threw"
  /\ UNCHANGED <<settings, available, encoder, child, run, output, destination, ready, published,
                 aborted, disturbed, faults>>

Monitoring ==
  \/ captured \/ start \/ Discovered \/ probeEncoder \/ generateSegment \/ generateFmp4Segment \/ scan \/ onSegment \/ put \/ scanned \/ settles
Stopping == obeys \/ dies \/ terminateChildProcess
Next ==
  \/ discover \/ capture \/ Monitoring \/ writes \/ succeeds \/ fails \/ endsEarly \/ Stopping
  \/ couldNotBeStopped \/ abort

\* Promises and timers run, and a process that was killed ends.
Spec == Init /\ [][Next]_vars /\ WF_vars(Monitoring) /\ WF_vars(Stopping)

-----------------------------------------------------------------------------
TypeOK ==
  /\ available \subseteq Encoder /\ usable \subseteq available /\ encoder \in Encoder \cup {Copy, None}
  /\ child \in {"none", "running", "term", "kill", "gone"}
  /\ run \in {"none", "pending", "resolved", "rejected"}
  /\ files \subseteq 0 .. Last /\ cut \subseteq 0 .. Last /\ faults \in 0 .. MaxFaults

\* Segments are published in order and without a gap; none that FFmpeg cut short when it
\* was stopped, unless the signal was not ours; a production that returns has published
\* every segment, an init.mp4 is there before the first; a segment file has its name when
\* it is whole.  When the call is over FFmpeg is gone, unless it outlived SIGKILL, so that
\* its directory can be removed.  Once they are known, only encoders of the build are used.
OutputSound ==
  /\ \A i \in DOMAIN published : published[i] = i - 1
  /\ \A i \in DOMAIN published : published[i] \in cut => disturbed
  /\ profile.fmp4 /\ published # <<>> => initFile
  /\ at = "returned" /\ task = "produceVod" /\ ~disturbed => Len(published) = Last + 1
  /\ destination \in {"none", "whole"} \/ disturbed
  /\ at = "returned" /\ profile.fmp4 => initFile \/ disturbed
  /\ Over /\ faults = 0 => ~Alive
  /\ encoder \notin {None, Copy} /\ available # {} => encoder \in build

\* A call that is aborted ends.
AbortEnds == aborted ~> Over

=============================================================================
