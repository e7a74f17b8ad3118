--------------------------- MODULE LivePublishing ---------------------------
(***************************************************************************)
(* One normalized live channel: LiveService (live-service.ts), its FFmpeg  *)
(* normalizer (ffmpeg-live-normalizer.ts, supervised-child-process.ts) and *)
(* the poll of MediaMTX (runtime.ts).  Publishers claim the channel's slot *)
(* through MediaMTX's authorization callback, an operator issues           *)
(* replacement tokens and deletes the channel, sessions pin its profile,   *)
(* and the poll, one round at a time, brings the row and the normalizer in *)
(* line with what MediaMTX publishes.  All of them interleave at their     *)
(* repository calls; a write names the revision it read.                   *)
(* MediaMTX and the FFmpeg children are external.                          *)
(***************************************************************************)
EXTENDS Integers

CONSTANTS Publisher,      \* the encoders (OBS) that know tokens
          None,
          MaxTokens,      \* tokens ever issued for the channel
          MaxClaims,      \* authorization callbacks
          MaxChildren,    \* normalizer processes at a time
          MaxExits,       \* children that end on their own
          MaxAttempts     \* MAX_LIVE_CHANNEL_WRITE_ATTEMPTS, MAX_ATOMIC_WRITE_ATTEMPTS

VARIABLES row,      \* the channel's row
          session,  \* a live session that uses the channel exists
          issued,   \* tokens issued so far: 1 .. issued
          claim,    \* per publisher, its authorization callback
          claims,   \* callbacks so far
          stream,   \* who publishes on the ingest path, as MediaMTX sees it
          poll,     \* the round of reconcilePublisherPaths
          del,      \* the delete call
          make,     \* the session creation call
          process,  \* the channel's entry of #processes: a child, 0 for none
          child,    \* the FFmpeg children
          backoff,  \* #restartNotBefore is in the future
          exits,    \* children that ended on their own
          phase     \* open, then the steps of the shutdown

vars == <<row, session, issued, claim, claims, stream, poll, del, make, process, child,
          backoff, exits, phase>>

Tokens == 1 .. MaxTokens
Children == 1 .. MaxChildren
\* Runs until somebody stops it.
Alive == {c \in Children : child[c] \in {"starting", "running"}}

\* publishTokenHash, replacementPublishTokenHash (0: none), normalizationProfileId
NewRow == [exists |-> TRUE, rev |-> 1, state |-> "offline", primary |-> 1, replacement |-> 0,
           profile |-> FALSE]
NoPoll == [at |-> "idle", seen |-> NewRow, ready |-> FALSE, child |-> 0]
NoDelete == [at |-> "idle", seen |-> NewRow, child |-> 0]
NoCreate == [at |-> "idle", seen |-> NewRow, tries |-> 0]
NoClaim == [at |-> "idle", seen |-> NewRow, token |-> 0, tries |-> 0]

Init ==
  /\ \/ row = NewRow /\ session = FALSE
     \/ row = [NewRow EXCEPT !.profile = TRUE] /\ session \in BOOLEAN
  /\ issued = 1
  /\ claim = [p \in Publisher |-> NoClaim] /\ claims = 0
  /\ stream = None
  /\ poll = NoPoll /\ del = NoDelete /\ make = NoCreate
  /\ process = 0 /\ child = [c \in Children |-> "gone"]
  /\ backoff = FALSE /\ exits = 0 /\ phase = "open"

\* compareAndSetLiveChannel: the row is still the one that was read.
Current(seen) == row.exists /\ row.rev = seen.rev
Write(new) == row' = [new EXCEPT !.rev = row.rev + 1]

-----------------------------------------------------------------------------
(* The authorization callback of MediaMTX and #claimPublisherSlot. *)

Matches(t, seen) == t \in {seen.primary, seen.replacement}
\* The early returns of the loop, in the order the code takes them.
Refused(t, seen) ==
  \/ ~Matches(t, seen)
  \/ t = seen.primary /\ seen.replacement # 0
  \/ t # seen.replacement /\ seen.state \in {"online", "reconnecting"}

authorizeMediaMtx(p, t) ==
  /\ phase # "closed" /\ claim[p].at = "idle" /\ stream # p /\ claims < MaxClaims
  /\ row.exists /\ Matches(t, row)
  /\ claims' = claims + 1
  /\ claim' = [claim EXCEPT ![p] = [NoClaim EXCEPT !.at = "claim", !.token = t]]
  /\ UNCHANGED <<row, session, issued, stream, poll, del, make, process, child, backoff, exits, phase>>

claimRead(p) ==
  /\ claim[p].at = "claim"
  /\ claim' = [claim EXCEPT ![p] =
       IF ~row.exists \/ Refused(@.token, row) THEN NoClaim
       ELSE [@ EXCEPT !.at = "write", !.seen = row]]
  /\ UNCHANGED <<row, session, issued, claims, stream, poll, del, make, process, child, backoff, exits, phase>>

\* #promoteReplacementPublisher
Promoted(seen, t) ==
  IF t = seen.replacement THEN [seen EXCEPT !.primary = t, !.replacement = 0] ELSE seen

MutantClaimWrite(p) ==
  /\ claim[p].at = "write" /\ row.exists
  /\ Write([Promoted(claim[p].seen, claim[p].token) EXCEPT !.state = "reconnecting"])
  /\ claim' = [claim EXCEPT ![p].at = "accepted"]
  /\ UNCHANGED <<session, issued, claims, stream, poll, del, make, process, child, backoff, exits, phase>>
claimWrite(p) ==
  /\ claim[p].at = "write"
  /\ \/ /\ Current(claim[p].seen)
        /\ Write([Promoted(claim[p].seen, claim[p].token) EXCEPT !.state = "reconnecting"])
        /\ claim' = [claim EXCEPT ![p].at = "accepted"]
     \/ /\ ~Current(claim[p].seen)
        /\ claim' = [claim EXCEPT ![p] =
             IF @.tries + 1 = MaxAttempts THEN NoClaim
             ELSE [@ EXCEPT !.at = "claim", !.tries = claim[p].tries + 1]]
        /\ UNCHANGED row
  /\ UNCHANGED <<session, issued, claims, stream, poll, del, make, process, child, backoff, exits, phase>>

\* MediaMTX hears the answer: the publisher takes the path over, or has gone.
PublishStarts(p) ==
  /\ claim[p].at = "accepted"
  /\ stream' \in {stream, p}
  /\ claim' = [claim EXCEPT ![p] = NoClaim]
  /\ UNCHANGED <<row, session, issued, claims, poll, del, make, process, child, backoff, exits, phase>>

PublishEnds ==
  /\ stream # None /\ stream' = None
  /\ UNCHANGED <<row, session, issued, claim, claims, poll, del, make, process, child, backoff, exits, phase>>

\* A write that loses the race is made again on the row it lost to.
replacePublisher ==
  /\ phase = "open" /\ row.exists /\ issued < MaxTokens
  /\ issued' = issued + 1
  /\ Write([row EXCEPT !.replacement = issued + 1])
  /\ UNCHANGED <<session, claim, claims, stream, poll, del, make, process, child, backoff, exits, phase>>

-----------------------------------------------------------------------------
(* The normalizer.  A child that is told to stop is killed in the end.     *)

Told(c) == IF c # 0 /\ child[c] \in {"starting", "running"} THEN [child EXCEPT ![c] = "stopping"]
           ELSE child
Over(c) == c \notin Children \ {d \in Children : child[d] = "gone"}

\* normalizer.stop up to its await: the entry goes first.
stopChild ==
  /\ child' = Told(process)
  /\ process' = 0 /\ backoff' = FALSE

\* normalizer.start up to its await: the entry and the child appear together.
startChild(c) ==
  /\ c = CHOOSE d \in Children : child[d] = "gone" /\ d \notin {poll.child, del.child}
  /\ process' = c
  /\ child' = [child EXCEPT ![c] = "starting"]
  /\ UNCHANGED backoff

\* The end of a child: awaited, in its startup, or unexpected; #recordFailure
\* only for the supervisor that #processes holds.
ChildExits(c) ==
  /\ child[c] \in {"starting", "running", "stopping"}
  /\ child[c] # "stopping" => exits < MaxExits
  /\ exits' = IF child[c] = "stopping" THEN exits ELSE exits + 1
  /\ child' = [child EXCEPT ![c] = "gone"]
  /\ process' = IF process = c THEN 0 ELSE process
  /\ backoff' = (backoff \/ process = c)
  /\ UNCHANGED <<row, session, issued, claim, claims, stream, poll, del, make, phase>>

BackoffEnds ==
  /\ backoff /\ backoff' = FALSE
  /\ UNCHANGED <<row, session, issued, claim, claims, stream, poll, del, make, process, child, exits, phase>>

-----------------------------------------------------------------------------
(* A round of the poll: the ready paths, then row, state, profile, child. *)

pollFetch ==
  /\ phase = "open" /\ poll.at = "idle"
  /\ poll' = [poll EXCEPT !.at = "read", !.ready = stream # None]
  /\ UNCHANGED <<row, session, issued, claim, claims, stream, del, make, process, child, backoff, exits, phase>>

Wanted(ready) == IF ready THEN "online" ELSE "offline"

pollRead ==
  /\ poll.at = "read"
  /\ poll' = IF ~row.exists THEN NoPoll
             ELSE [poll EXCEPT !.seen = row,
                               !.at = IF row.state = Wanted(poll.ready) THEN "profile" ELSE "write"]
  /\ UNCHANGED <<row, session, issued, claim, claims, stream, del, make, process, child, backoff, exits, phase>>

\* A write that loses the race leaves the channel to the next round.
pollWrite ==
  /\ poll.at = "write"
  /\ \/ /\ Current(poll.seen)
        /\ Write([poll.seen EXCEPT !.state = Wanted(poll.ready)])
        /\ poll' = [poll EXCEPT !.at = "profile", !.seen = row']
     \/ /\ ~Current(poll.seen)
        /\ poll' = NoPoll
        /\ UNCHANGED row
  /\ UNCHANGED <<session, issued, claim, claims, stream, del, make, process, child, backoff, exits, phase>>

\* #normalizationProfile, and what follows from it: a stop, a start or nothing.
pollNormalize ==
  /\ poll.at = "profile"
  /\ LET profile == poll.seen.profile \/ session IN
     \/ /\ process # 0 /\ (~profile \/ ~poll.ready)
        /\ stopChild
        /\ poll' = [poll EXCEPT !.at = "stopping", !.child = process]
     \/ /\ process = 0 /\ profile /\ poll.ready /\ ~backoff
        /\ \E c \in Children : startChild(c)
        /\ poll' = [poll EXCEPT !.at = "starting", !.child = process']
     \/ /\ IF process # 0 THEN profile /\ poll.ready ELSE ~profile \/ ~poll.ready \/ backoff
        /\ poll' = NoPoll
        /\ UNCHANGED <<process, child, backoff>>
  /\ UNCHANGED <<row, session, issued, claim, claims, stream, del, make, exits, phase>>

\* The startup grace passes, or the startup has failed.
pollStarted ==
  /\ poll.at = "starting"
  /\ child' = IF child[poll.child] = "starting" THEN [child EXCEPT ![poll.child] = "running"] ELSE child
  /\ poll' = NoPoll
  /\ UNCHANGED <<row, session, issued, claim, claims, stream, del, make, process, backoff, exits, phase>>

pollStopped ==
  /\ poll.at = "stopping" /\ Over(poll.child)
  /\ poll' = NoPoll
  /\ UNCHANGED <<row, session, issued, claim, claims, stream, del, make, process, child, backoff, exits, phase>>

-----------------------------------------------------------------------------
(* delete, and the creation of a session that uses the channel. *)

deleteRead ==
  /\ phase = "open" /\ del.at = "idle" /\ row.exists /\ row.state = "offline"
  /\ del' = [del EXCEPT !.at = "sessions", !.seen = row]
  /\ UNCHANGED <<row, session, issued, claim, claims, stream, poll, make, process, child, backoff, exits, phase>>

deleteStop ==
  /\ del.at = "sessions"
  /\ \/ /\ session
        /\ del' = NoDelete
        /\ UNCHANGED <<process, child, backoff>>
     \/ /\ ~session
        /\ stopChild
        /\ del' = [del EXCEPT !.at = "delete", !.child = process]
  /\ UNCHANGED <<row, session, issued, claim, claims, stream, poll, make, exits, phase>>

\* deleteLiveChannel checks the revision, the state and the sessions together.
deleteRow ==
  /\ del.at = "delete" /\ Over(del.child)
  /\ row' = IF Current(del.seen) /\ row.state = "offline" /\ ~session
            THEN [row EXCEPT !.exists = FALSE] ELSE row
  /\ del' = NoDelete
  /\ UNCHANGED <<session, issued, claim, claims, stream, poll, make, process, child, backoff, exits, phase>>

createRead ==
  /\ phase = "open" /\ ~session /\ make.at = "idle" /\ row.exists
  /\ make' = [at |-> IF row.profile THEN "commit" ELSE "claim", seen |-> row, tries |-> 0]
  /\ UNCHANGED <<row, session, issued, claim, claims, stream, poll, del, process, child, backoff, exits, phase>>

\* #claimLiveNormalizationProfile
createClaim ==
  /\ make.at = "claim"
  /\ \/ /\ Current(make.seen)
        /\ Write([row EXCEPT !.profile = TRUE])
        /\ make' = [make EXCEPT !.at = "commit", !.seen = row']
     \/ /\ ~Current(make.seen)
        /\ make' = IF ~row.exists \/ make.tries + 1 = MaxAttempts THEN NoCreate
                   ELSE [at |-> IF row.profile THEN "commit" ELSE "claim",
                         seen |-> row, tries |-> make.tries + 1]
        /\ UNCHANGED row
  /\ UNCHANGED <<session, issued, claim, claims, stream, poll, del, process, child, backoff, exits, phase>>

\* createSessionWithPlaybackGrant with the revision of the channel
createCommit ==
  /\ make.at = "commit"
  /\ session' = Current(make.seen)
  /\ make' = NoCreate
  /\ UNCHANGED <<row, issued, claim, claims, stream, poll, del, process, child, backoff, exits, phase>>

deleteSession ==
  /\ session /\ session' = FALSE
  /\ UNCHANGED <<row, issued, claim, claims, stream, poll, del, make, process, child, backoff, exits, phase>>

-----------------------------------------------------------------------------
(* The shutdown sequence clears the poll's timer, not the round under way. *)

clearTimers ==
  /\ phase = "open" /\ phase' = "timers"
  /\ UNCHANGED <<row, session, issued, claim, claims, stream, poll, del, make, process, child, backoff, exits>>

stop ==
  /\ phase = "timers" /\ phase' = "closed"
  /\ IF row.exists THEN stopChild ELSE UNCHANGED <<process, child, backoff>>
  /\ UNCHANGED <<row, session, issued, claim, claims, stream, poll, del, make, exits>>

Claiming(p) == claimRead(p) \/ claimWrite(p) \/ PublishStarts(p)
Polling == pollFetch \/ pollRead \/ pollWrite \/ pollNormalize \/ pollStarted \/ pollStopped
Deleting == deleteStop \/ deleteRow
Creating == createClaim \/ createCommit

Next ==
  \/ \E p \in Publisher : Claiming(p) \/ \E t \in 1 .. issued : authorizeMediaMtx(p, t)
  \/ PublishEnds \/ replacePublisher
  \/ Polling \/ deleteRead \/ Deleting \/ createRead \/ Creating \/ deleteSession
  \/ \E c \in Children : ChildExits(c)
  \/ BackoffEnds \/ clearTimers \/ stop

\* Repository calls return, the poll's timer fires, a child that is told to
\* stop is killed, a backoff ends.
Fairness ==
  /\ \A p \in Publisher : WF_vars(Claiming(p))
  /\ WF_vars(Polling) /\ WF_vars(Deleting) /\ WF_vars(Creating) /\ WF_vars(BackoffEnds)
  /\ \A c \in Children : WF_vars(child[c] = "stopping" /\ ChildExits(c))

Spec == Init /\ [][Next]_vars /\ Fairness

-----------------------------------------------------------------------------
\* A publisher is accepted on the channel as it is at that moment: with the
\* replacement token, or with the primary token while no replacement is out and
\* nobody holds the slot; and a token that was replaced stays closed, whatever
\* claims, polls, replacements and deletions read earlier (#claimPublisherSlot).
AdmittedOnce ==
  [][/\ \A p \in Publisher :
          claim[p].at # "accepted" /\ claim'[p].at = "accepted" =>
            /\ row.exists /\ ~Refused(claim[p].token, row)
            /\ row'.primary = claim[p].token /\ row'.state = "reconnecting"
     /\ row'.primary >= row.primary /\ row'.replacement \in {0} \cup row.primary .. issued'
     /\ row'.primary # row.primary => row'.primary = row.replacement]_vars

\* No FFmpeg child escapes: it is the one #processes holds, or it has been told
\* to stop; and a deleted channel has none (FFmpegLiveNormalizer, delete).
NoStrayNormalizer == Alive \subseteq {process} /\ (~row.exists => Alive = {})

\* What MediaMTX publishes for good, the row and the normalizer follow
\* (reconcilePublisherPaths): online with a running child once a profile is
\* pinned; offline, or deleted, without one when nobody publishes.
PollSettles ==
  /\ <>[](stream # None /\ row.exists /\ row.profile /\ phase = "open")
       => <>[](row.state = "online" /\ process # 0 /\ child[process] = "running")
  /\ <>[](stream = None /\ phase = "open")
       => <>[]((row.exists => row.state = "offline") /\ Alive = {})

=============================================================================
