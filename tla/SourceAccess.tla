---------------------------- MODULE SourceAccess ----------------------------
(***************************************************************************)
(* How the transcoders of one session reach the source, in one process:    *)
(* the credential that a remote command brings, the loopback grants that   *)
(* hide it from FFmpeg, and the count of source connections                *)
(* (packages/application/src/session-service.ts).                          *)
(*                                                                         *)
(* On a worker a request is a command of the controller                    *)
(* (executeRemoteSegment); elsewhere it is the request of a viewer, and    *)
(* the credential of an owned session is in the node's own secret store.   *)
(* HLS sessions are served by a producer, whose starts and stops are       *)
(* VodCoordinator's; others by a transcoder for each segment.              *)
(***************************************************************************)
EXTENDS Integers, FiniteSets

CONSTANTS Request,  \* commands, or requests of viewers
          Attempt,  \* attempts to start a producer
          Range,    \* range requests of the transcoders
          MaxBooks  \* bound: maps made for #activeSourceRequests

VARIABLES worker, owned, hls,  \* what runs, and for which kind of session
          credential,  \* #ephemeralSourceCredentials has the session
          grant,       \* per transcoder, its entry of #sourceGrants
          req,         \* executeRemoteSegment
          trans,       \* #generateSegment of the request
          pc, halted,  \* attempts, and those whose signal is aborted
          stop,        \* the stop or deletion in progress, and what it waits for
          deleted,     \* the session's row is gone
          early,       \* a request left before the attempt had its slot
          link,        \* per range request, its grant
          book, current, count  \* #activeSourceRequests, sourceConnectionCount

fixed == <<worker, owned, hls>>
access == <<credential, grant, early>>
books == <<link, book, current, count>>
vars == <<fixed, access, req, trans, pc, halted, stop, deleted, books>>

Token == Request \cup Attempt
Idle == [what |-> "none", awaits |-> {}]

Init ==
  /\ worker \in BOOLEAN /\ owned \in BOOLEAN /\ hls \in BOOLEAN
  /\ credential = FALSE /\ early = FALSE
  /\ grant = [t \in Token |-> "none"]
  /\ req = [c \in Request |-> "idle"] /\ trans = [c \in Request |-> "idle"]
  /\ pc = [a \in Attempt |-> "none"] /\ halted = {}
  /\ stop = Idle /\ deleted = FALSE
  /\ link = [r \in Range |-> "none"] /\ book = [r \in Range |-> 0]
  /\ current = 0 /\ count = 0

\* #starting and #active of the coordinator; an attempt that is ending has
\* left both and still removes its directory.
Starting == {a \in Attempt : pc[a] = "starting"}
Active == {a \in Attempt : pc[a] \in {"waiting", "preparing", "resolving", "running"}}
isActive == Starting \cup Active # {}

deleteSourceGrants == grant' = [t \in Token |-> "none"]
Withdraw == credential' = FALSE /\ early' = FALSE /\ deleteSourceGrants

-----------------------------------------------------------------------------
(* executeRemoteSegment.                                                   *)

\* The controller puts the credential of an owned session in the command.
remoteSegmentCommand == worker /\ owned

executeRemoteSegment(c) ==
  /\ req[c] = "idle" /\ trans[c] = "idle"
  /\ req' = [req EXCEPT ![c] = "loading"]
  /\ credential' = (credential \/ remoteSegmentCommand)
  /\ UNCHANGED <<fixed, grant, early, trans, pc, halted, stop, deleted, books>>

\* The finally block.  The attempt that keeps the credential may not have its slot yet.
Finally ==
  IF ~worker THEN UNCHANGED access
  ELSE IF ~isActive THEN Withdraw
  ELSE /\ early' = (early \/ \E a \in Attempt : pc[a] \in {"starting", "waiting"})
       /\ UNCHANGED <<credential, grant>>

\* The session and its profile are read.  For other than HLS sessions the call
\* of the job is returned and not awaited: the finally block runs while the job
\* reads the session once more.
load(c) ==
  /\ req[c] = "loading"
  /\ \/ /\ ~deleted /\ hls
        /\ req' = [req EXCEPT ![c] = "ensuring"]
        /\ UNCHANGED <<access, trans>>
     \/ /\ ~deleted /\ ~hls
        /\ req' = [req EXCEPT ![c] = "idle"]
        /\ trans' = [trans EXCEPT ![c] = "job"]
        /\ Finally
     \/ req' = [req EXCEPT ![c] = "idle"] /\ Finally /\ UNCHANGED trans
  /\ UNCHANGED <<fixed, pc, halted, stop, deleted, books>>

\* ensure returns when the segment is there, whoever made it, or gives up.
ensured(c) ==
  /\ req[c] = "ensuring"
  /\ req' = [req EXCEPT ![c] = "idle"]
  /\ Finally
  /\ UNCHANGED <<fixed, trans, pc, halted, stop, deleted, books>>

-----------------------------------------------------------------------------
(* Credentials: the one of the command, else the stored one, else the      *)
(* provider's (#providerCredential, #providerSecret).                      *)

MayResolve == owned => credential \/ ~worker

\* The job: executeRemoteSegment of SessionJobCoordinator, or the one of a viewer.  It
\* may refuse, or end before it comes to transcode.
execute(c) ==
  /\ trans[c] = "job"
  /\ \E at \in {"slot", "idle"} : trans' = [trans EXCEPT ![c] = at]
  /\ UNCHANGED <<fixed, access, req, pc, halted, stop, deleted, books>>

\* #generateSegment: a slot, the credential, the source, the grant, FFmpeg.  The state
\* that it writes into the session is not modelled here.
generateSegment(c) ==
  /\ \/ /\ trans[c] = "slot"
        /\ trans' = [trans EXCEPT ![c] = IF MayResolve THEN "resolving" ELSE "idle"]
        /\ UNCHANGED grant
     \/ /\ trans[c] = "resolving"
        /\ trans' = [trans EXCEPT ![c] = "running"]
        /\ grant' = [grant EXCEPT ![c] = "ordinary"]
     \/ trans[c] \in {"slot", "resolving", "running"} /\ trans' = [trans EXCEPT ![c] = "idle"] /\ UNCHANGED grant
  /\ UNCHANGED <<fixed, credential, early, req, pc, halted, stop, deleted, books>>

\* Fifteen minutes; a segment takes less, but its grant stays.
grantExpires(c) ==
  /\ grant[c] = "ordinary" /\ trans[c] # "running"
  /\ grant' = [grant EXCEPT ![c] = "expired"]
  /\ UNCHANGED <<fixed, credential, early, req, trans, pc, halted, stop, deleted, books>>

\* cleanupExpiredCache, for the grants.
cleanupExpired ==
  /\ \E t \in Token : grant[t] = "expired"
  /\ grant' = [t \in Token |-> IF grant[t] = "expired" THEN "none" ELSE grant[t]]
  /\ UNCHANGED <<fixed, credential, early, req, trans, pc, halted, stop, deleted, books>>

-----------------------------------------------------------------------------
(* The producer.                                                           *)

Move(a, at) == pc' = [pc EXCEPT ![a] = at]

start(a) ==
  /\ pc[a] = "none" /\ ~isActive /\ stop = Idle
  /\ \E c \in Request : req[c] = "ensuring"
  /\ Move(a, "starting")
  /\ UNCHANGED <<fixed, access, req, trans, halted, stop, deleted, books>>

\* The lease is taken, the row is refused, the start is aborted.
startFails(a) ==
  /\ pc[a] = "starting" /\ Move(a, "done")
  /\ UNCHANGED <<fixed, access, req, trans, halted, stop, deleted, books>>

handOff(a) ==
  /\ pc[a] = "starting" /\ a \notin halted /\ Move(a, "waiting")
  /\ UNCHANGED <<fixed, access, req, trans, halted, stop, deleted, books>>

\* #acquire; an attempt that fails here is done without the released callback.
acquire(a) ==
  /\ pc[a] = "waiting"
  /\ \/ a \notin halted /\ Move(a, "preparing")
     \/ Move(a, "done")
  /\ UNCHANGED <<fixed, access, req, trans, halted, stop, deleted, books>>

\* #prepareVodProducer up to the credential; then the source and the grant,
\* which does not expire.
prepare(a) ==
  /\ pc[a] = "preparing"
  /\ Move(a, IF MayResolve THEN "resolving" ELSE "ending")
  /\ UNCHANGED <<fixed, access, req, trans, halted, stop, deleted, books>>
proxySource(a) ==
  /\ pc[a] = "resolving" /\ Move(a, "running")
  /\ grant' = [grant EXCEPT ![a] = "producer"]
  /\ UNCHANGED <<fixed, credential, early, req, trans, halted, stop, deleted, books>>

produced(a) ==
  /\ pc[a] \in {"preparing", "resolving", "running"} /\ Move(a, "ending")
  /\ UNCHANGED <<fixed, access, req, trans, halted, stop, deleted, books>>

\* The callback of #run; another attempt may be active by now.
MutantReleased(a) ==
  /\ pc[a] = "ending" /\ Move(a, "done")
  /\ IF isActive THEN UNCHANGED access ELSE Withdraw
  /\ UNCHANGED <<fixed, req, trans, halted, stop, deleted, books>>
released(a) ==
  /\ pc[a] = "ending" /\ Move(a, "done")
  /\ Withdraw
  /\ UNCHANGED <<fixed, req, trans, halted, stop, deleted, books>>

-----------------------------------------------------------------------------
(* stopProducer and close stop what is active and withdraw everything;     *)
(* drainProducers leaves the withdrawing to the attempts; the deletion of  *)
(* a session goes on with the rows and then forgets the connections.       *)

stopProducer(what) ==
  /\ stop = Idle /\ ~deleted /\ (what = "delete" => ~worker)
  /\ stop' = [what |-> what, awaits |-> Starting \cup Active]
  /\ halted' = halted \cup Starting \cup Active
  /\ UNCHANGED <<fixed, access, req, trans, pc, deleted, books>>

stopped ==
  /\ stop.what \in {"stop", "drain", "delete"} /\ \A a \in stop.awaits : pc[a] = "done"
  /\ IF stop.what = "drain" THEN UNCHANGED access ELSE Withdraw
  /\ IF stop.what = "delete"
       THEN stop' = [what |-> "forget", awaits |-> {}] /\ deleted' = TRUE
       ELSE stop' = Idle /\ UNCHANGED deleted
  /\ UNCHANGED <<fixed, req, trans, pc, halted, books>>

forget ==
  /\ stop.what = "forget" /\ stop' = Idle
  /\ current' = 0 /\ count' = 0
  /\ UNCHANGED <<fixed, access, req, trans, pc, halted, deleted, link, book>>

-----------------------------------------------------------------------------
(* openSourceProxy and #openTrackedSource.  A request notes the map it is  *)
(* in, which is not the current one for ever.                              *)

In(n) == {r \in Range : book[r] = n /\ n # 0}
NewBook == IF current # 0 THEN current
           ELSE CHOOSE n \in 1 .. MaxBooks : In(n) = {}

setSourceConnectionCount(n) == count' = n

openTrackedSource(r, t) ==
  /\ \E n \in 1 .. MaxBooks : In(n) = {} \/ n = current
  /\ link' = [link EXCEPT ![r] = t]
  /\ book' = [book EXCEPT ![r] = NewBook] /\ current' = NewBook
  /\ setSourceConnectionCount(Cardinality(In(NewBook)) + 1)

openSourceProxy(r, t) ==
  /\ link[r] = "none"
  /\ \/ grant[t] \in {"ordinary", "producer"} /\ openTrackedSource(r, t) /\ UNCHANGED grant
     \/ grant[t] = "expired" /\ grant' = [grant EXCEPT ![t] = "none"] /\ UNCHANGED books
  /\ UNCHANGED <<fixed, credential, early, req, trans, pc, halted, stop, deleted>>

finish(r) ==
  LET left == In(book[r]) \ {r} IN
  /\ link' = [link EXCEPT ![r] = "none"] /\ book' = [book EXCEPT ![r] = 0]
  /\ current' = (IF left = {} THEN 0 ELSE current)
  /\ setSourceConnectionCount(Cardinality(left))

\* The source refuses, the stream ends, or the reply of /internal/source is closed.
sourceEnds(r) ==
  /\ link[r] # "none" /\ finish(r)
  /\ UNCHANGED <<fixed, access, req, trans, pc, halted, stop, deleted>>

-----------------------------------------------------------------------------
Next ==
  \/ \E c \in Request : \/ executeRemoteSegment(c) \/ load(c) \/ ensured(c)
                        \/ execute(c) \/ generateSegment(c) \/ grantExpires(c)
  \/ \E a \in Attempt : \/ start(a) \/ startFails(a) \/ handOff(a) \/ acquire(a) \/ prepare(a)
                        \/ proxySource(a) \/ produced(a) \/ released(a)
  \/ \E what \in {"stop", "drain", "delete"} : stopProducer(what)
  \/ cleanupExpired \/ stopped \/ forget
  \/ \E r \in Range : sourceEnds(r) \/ \E t \in Token : openSourceProxy(r, t)

Spec == Init /\ [][Next]_vars

-----------------------------------------------------------------------------
TypeOK ==
  /\ {credential, early, deleted} \subseteq BOOLEAN
  /\ grant \in [Token -> {"none", "ordinary", "expired", "producer"}]
  /\ req \in [Request -> {"idle", "loading", "ensuring"}]
  /\ trans \in [Request -> {"idle", "job", "slot", "resolving", "running"}]
  /\ pc \in [Attempt -> {"none", "starting", "waiting", "preparing", "resolving", "running",
                         "ending", "done"}]
  /\ book \in [Range -> 0 .. MaxBooks] /\ current \in 0 .. MaxBooks /\ count \in 0 .. Cardinality(Range)

\* #proxySource ("bounded by the producer signal and removed on release"): a
\* grant that does not expire is there only between the preparation of its
\* attempt and the released callback.
GrantsEnd == \A a \in Attempt : grant[a] # "none" => pc[a] \in {"running", "ending"}

\* executeRemoteSegment: when no command runs and no producer is active or
\* ending, the credential is gone, unless a command left before the attempt it
\* started had its slot and that attempt then ended without one.
CredentialEnds ==
  credential => \/ \E c \in Request : req[c] # "idle"
                \/ isActive \/ (\E a \in Attempt : pc[a] = "ending")
                \/ early

\* #openTrackedSource: while the session exists, the count of connections is the
\* number of range requests, and they are all in the current map.
ConnectionsCounted ==
  ~deleted => LET open == {r \in Range : link[r] # "none"} IN
              count = Cardinality(open) /\ open = In(current)

AccessSafe == GrantsEnd /\ CredentialEnds /\ ConnectionsCounted

=============================================================================
