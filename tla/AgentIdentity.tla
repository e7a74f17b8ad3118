---------------------------- MODULE AgentIdentity ----------------------------
(***************************************************************************)
(* How a node enrols, connects, changes its certificate and is revoked:    *)
(* apps/relay/src/agent-transport.ts (AgentController and NodeAgent) and   *)
(* packages/application/src/cluster-service.ts, for one node.              *)
(*                                                                         *)
(* A connection has a controller side, whose handler of the hello message  *)
(* is suspended at each await and goes on even when the socket is closed   *)
(* in between, and a node side.  Either side may see the connection close  *)
(* before the other.  Both processes may stop and be started again: the    *)
(* node keeps its identity file and its signing requests, the controller   *)
(* the repository and the join claim.                                      *)
(***************************************************************************)
EXTENDS Integers, FiniteSets

CONSTANTS Slots,       \* connections that may exist at the same time
          None,
          MaxCerts,    \* certificates ever signed
          MaxFaults    \* crashes of either side and lost connections

VARIABLES node,     \* the agent: identity file and memory
          claim,    \* the join claim in the coordination store
          db,       \* the node row and the certificate that is not revoked
          ctl,      \* memory of the controller
          conn,     \* the connections
          faults

vars == <<node, claim, db, ctl, conn, faults>>

\* A certificate is known by its serial; the key is the one of the request.
NoCert == [serial |-> 0, key |-> 0]
Closed == [cert |-> NoCert, slot |-> "active", staged |-> FALSE, stage |-> "none",
           shut |-> TRUE, agent |-> "gone", reply |-> FALSE, csr |-> 0, signing |-> NoCert,
           signed |-> NoCert]
NoStage == NoCert

Init ==
  /\ node = [active |-> NoCert, pending |-> NoCert, old |-> FALSE, request |-> 0,
             enrolment |-> 0, prefer |-> FALSE, via |-> None]
  /\ claim = NoCert
  /\ db = [state |-> "absent", cert |-> NoCert]
  /\ ctl = [staged |-> NoStage, current |-> None, notice |-> FALSE, signed |-> 0]
  /\ conn = [c \in Slots |-> Closed]
  /\ faults = 0

-----------------------------------------------------------------------------
(* Enrolment.  The signing request is stored before it is sent and the     *)
(* claim before the node row, so that a repeated enrolment finds the same  *)
(* identity.  ClusterService.enroll holds the consume lease throughout.    *)

Sign(key) == [serial |-> ctl.signed + 1, key |-> key]
CanSign == ctl.signed < MaxCerts

PrepareEnrolment ==
  /\ node.active = NoCert /\ node.enrolment = 0
  /\ node' = [node EXCEPT !.enrolment = 1]
  /\ UNCHANGED <<claim, db, ctl, conn, faults>>

ClaimIdentity ==
  /\ node.enrolment # 0 /\ node.active = NoCert
  /\ claim = NoCert /\ CanSign
  /\ claim' = Sign(node.enrolment)
  /\ ctl' = [ctl EXCEPT !.signed = @ + 1]
  /\ UNCHANGED <<node, db, conn, faults>>

\* #reconcileEnrollment, or createNode when there is no row yet.
CreateNode ==
  /\ node.enrolment # 0 /\ node.active = NoCert
  /\ claim # NoCert /\ db.state = "absent"
  /\ db' = [state |-> "online", cert |-> claim]
  /\ UNCHANGED <<node, claim, ctl, conn, faults>>

\* #reconcileEnrollment: the node of the claim still has the claim's certificate.
Reconciled == db.state # "revoked" /\ db.cert = claim /\ claim # NoCert

\* The answer reaches the node; deleting the request may fail unnoticed.
StoreIdentity ==
  /\ node.enrolment # 0 /\ node.active = NoCert
  /\ Reconciled
  /\ \E e \in {0, node.enrolment} :
       node' = [node EXCEPT !.active = claim, !.enrolment = e]
  /\ UNCHANGED <<claim, db, ctl, conn, faults>>

-----------------------------------------------------------------------------
(* Connecting: the agent alternates between its identities until one is    *)
(* accepted.                                                               *)

Free(c) == conn[c] = Closed

connect(c) ==
  LET slot == IF node.pending # NoCert /\ ~node.prefer THEN "pending" ELSE "active" IN
  /\ node.active # NoCert /\ node.via = None /\ Free(c)
  /\ node' = [node EXCEPT !.via = c]
  /\ conn' = [conn EXCEPT ![c] =
       [Closed EXCEPT !.cert = node[slot], !.slot = slot, !.stage = "handshake",
                      !.shut = FALSE, !.agent = "hello"]]
  /\ UNCHANGED <<claim, db, ctl, faults>>

certificateIsActive(cert) == db.state # "revoked" /\ db.cert = cert
Staged(cert) == ctl.staged # NoStage /\ ctl.staged = cert

\* #authenticate, and #accept when it found an identity.
authenticate(c) ==
  /\ conn[c].stage = "handshake"
  /\ conn' = [conn EXCEPT ![c] =
       IF certificateIsActive(@.cert) THEN [@ EXCEPT !.stage = "candidate"]
       ELSE IF Staged(@.cert) THEN [@ EXCEPT !.stage = "candidate", !.staged = TRUE]
       ELSE [@ EXCEPT !.stage = "none", !.shut = TRUE]]
  /\ UNCHANGED <<node, claim, db, ctl, faults>>

-----------------------------------------------------------------------------
(* The controller's handler of hello, await by await.                      *)

\* #releaseConnection for a set of connections.
Shut(cs, f) == [c \in Slots |-> IF c \in cs THEN [f[c] EXCEPT !.shut = TRUE,
                     !.stage = IF @ \in {"handshake", "candidate", "current"} THEN "none" ELSE @]
                                ELSE f[c]]
Open(c) == ~conn[c].shut
Candidates == {c \in Slots : Open(c) /\ conn[c].stage \notin {"none", "handshake", "current"}}
Others(c) == (Candidates \cup {ctl.current}) \ {c}
Current(cs) == IF ctl.current \in cs THEN None ELSE ctl.current

\* An error in the handler closes the connection; its continuation is over.
Throw(c) ==
  /\ conn' = [conn EXCEPT ![c] = [@ EXCEPT !.stage = "none", !.shut = TRUE]]
  /\ ctl' = [ctl EXCEPT !.current = Current({c})]

hello(c) ==
  /\ conn[c].stage = "candidate" /\ Open(c)
  /\ IF db.state = "revoked" \/ (conn[c].staged /\ ~Staged(conn[c].cert))
       THEN Throw(c)
       ELSE conn' = [conn EXCEPT ![c].stage = "known"] /\ UNCHANGED ctl
  /\ UNCHANGED <<node, claim, db, faults>>

\* After the heartbeat and the drain request: #requireOpenCandidate, then
\* activateNodeCertificate for a staged identity.
requireOpenCandidate(c) ==
  /\ conn[c].stage = "known" /\ conn[c].staged
  /\ IF Open(c) THEN conn' = [conn EXCEPT ![c].stage = "activate"] /\ UNCHANGED ctl
                ELSE Throw(c)
  /\ UNCHANGED <<node, claim, db, faults>>

activateNodeCertificate(c) ==
  /\ conn[c].stage = "activate"
  /\ IF db.state = "revoked" THEN Throw(c) /\ UNCHANGED db
     ELSE /\ db' = [db EXCEPT !.cert = conn[c].cert]
          /\ conn' = [conn EXCEPT ![c].stage = "activated"] /\ UNCHANGED ctl
  /\ UNCHANGED <<node, claim, faults>>

\* The continuation closes every other connection of the node.
replaceConnections(c) ==
  /\ conn[c].stage = "activated"
  /\ conn' = [Shut(Others(c), conn) EXCEPT ![c].stage = "verify"]
  /\ ctl' = [ctl EXCEPT !.current = None]
  /\ UNCHANGED <<node, claim, db, faults>>

\* certificateIsActive is asked; the answer is used one step later.
verify(c) ==
  /\ \/ conn[c].stage = "verify"
     \/ conn[c].stage = "known" /\ ~conn[c].staged
  /\ IF certificateIsActive(conn[c].cert)
       THEN conn' = [conn EXCEPT ![c].stage = "verified"] /\ UNCHANGED ctl
       ELSE Throw(c)
  /\ UNCHANGED <<node, claim, db, faults>>

promote(c) ==
  /\ conn[c].stage = "verified"
  /\ IF ~Open(c) THEN Throw(c)
     ELSE /\ conn' = [Shut(Others(c), conn) EXCEPT
                        ![c].stage = "current", ![c].staged = FALSE, ![c].reply = TRUE]
          /\ ctl' = [ctl EXCEPT !.current = c,
                                !.staged = IF @ = conn[c].cert THEN NoStage ELSE @]
  /\ UNCHANGED <<node, claim, db, faults>>

-----------------------------------------------------------------------------
(* The agent's side. *)

NodeVia(c) == node.via = c /\ conn[c].agent # "gone"

\* #opened after the answer: adopt the pending identity, or drop it when its
\* staging window is over, or go back to trying it.
opened(c) ==
  /\ NodeVia(c) /\ conn[c].agent = "hello" /\ conn[c].reply
  /\ \E r \in {0, node.request} :
       node' = IF conn[c].slot = "pending"
                 THEN [node EXCEPT !.active = node.pending, !.pending = NoCert,
                                   !.old = FALSE, !.request = r, !.prefer = FALSE]
               ELSE IF node.pending # NoCert /\ node.old
                 THEN [node EXCEPT !.pending = NoCert, !.old = FALSE]
               ELSE [node EXCEPT !.prefer = FALSE]
  /\ conn' = [conn EXCEPT ![c].agent = "open", ![c].slot = "active"]
  /\ UNCHANGED <<claim, db, ctl, faults>>

\* #connectionClosed: the socket closed, the request timed out, or the agent
\* closed it itself to come back with the other identity.
Preferred(c) == IF conn[c].agent = "open" THEN node.prefer ELSE conn[c].slot = "pending"

AgentCloses(c) ==
  /\ node' = [node EXCEPT !.via = None, !.prefer = Preferred(c)]
  /\ conn' = [conn EXCEPT ![c].agent = "gone"]

connectionClosed(c) ==
  /\ NodeVia(c) /\ ~Open(c)
  /\ AgentCloses(c) /\ UNCHANGED <<claim, db, ctl, faults>>

retryStaged(c) ==
  /\ NodeVia(c) /\ conn[c].agent = "open" /\ node.pending # NoCert
  /\ AgentCloses(c) /\ UNCHANGED <<claim, db, ctl, faults>>

\* The answer to hello is late, or the connection breaks.
Drop(c) ==
  /\ NodeVia(c) /\ Open(c) /\ faults < MaxFaults
  /\ faults' = faults + 1
  /\ AgentCloses(c) /\ UNCHANGED <<claim, db, ctl>>

\* The controller notices, by the close event or by the hello deadline.
releaseConnection(c) ==
  /\ conn[c].agent = "gone" /\ Open(c)
  /\ conn' = Shut({c}, conn)
  /\ ctl' = [ctl EXCEPT !.current = Current({c})]
  /\ UNCHANGED <<node, claim, db, faults>>

\* The controller closes it: the certificate expires, a message is malformed,
\* too large, too late or one too many.
closeConnection(c) ==
  /\ Open(c) /\ conn[c].stage # "handshake" /\ faults < MaxFaults
  /\ faults' = faults + 1
  /\ conn' = Shut({c}, conn)
  /\ ctl' = [ctl EXCEPT !.current = Current({c})]
  /\ UNCHANGED <<node, claim, db>>

Reuse(c) ==
  /\ conn[c].agent = "gone" /\ conn[c].shut /\ conn[c].stage = "none"
  /\ conn[c].signing = NoCert /\ ~Free(c)
  /\ conn' = [conn EXCEPT ![c] = Closed]
  /\ UNCHANGED <<node, claim, db, ctl, faults>>

-----------------------------------------------------------------------------
(* Rotation.  prepareNodeRotationRequest stores the request, #stageRotation *)
(* sends it, the controller signs and stages, the agent stores the answer. *)

\* A stored request is used again.
prepareNodeRotationRequest == IF node.request # 0 THEN node.request ELSE ctl.signed + 1

stageRotation(c) ==
  /\ NodeVia(c) /\ conn[c].agent = "open" /\ node.pending = NoCert
  /\ conn[c].csr = 0 /\ CanSign
  /\ node' = [node EXCEPT !.request = prepareNodeRotationRequest]
  /\ conn' = [conn EXCEPT ![c].csr = prepareNodeRotationRequest]
  /\ UNCHANGED <<claim, db, ctl, faults>>

\* The handler up to its await.  A staged identity is sent again for the same request only.
signNodeCertificate(c) ==
  /\ conn[c].stage = "current" /\ conn[c].csr # 0
  /\ conn[c].signing = NoCert /\ conn[c].signed = NoCert
  /\ IF ctl.staged # NoStage
       THEN /\ IF ctl.staged.key = conn[c].csr
                 THEN conn' = [conn EXCEPT ![c].signed = ctl.staged]
                 ELSE conn' = [conn EXCEPT ![c].csr = 0]
            /\ UNCHANGED ctl
     ELSE IF db.state = "revoked" \/ ~CanSign THEN Throw(c)
     ELSE /\ conn' = [conn EXCEPT ![c].signing = Sign(conn[c].csr)]
          /\ ctl' = [ctl EXCEPT !.signed = @ + 1]
  /\ UNCHANGED <<node, claim, db, faults>>

\* Its continuation stages and answers, also for a connection that has closed or a node
\* that was revoked meanwhile, and whatever is staged by then.
stageIdentity(c) ==
  /\ conn[c].signing # NoCert
  /\ ctl' = [ctl EXCEPT !.staged = conn[c].signing]
  /\ conn' = [conn EXCEPT ![c].signing = NoCert, ![c].signed = conn[c].signing]
  /\ UNCHANGED <<node, claim, db, faults>>

\* #mutateState, then #rotateAndReconnect closes the connection.
storePending(c) ==
  /\ NodeVia(c) /\ conn[c].agent = "open" /\ conn[c].signed # NoCert
  /\ \E r \in {0, node.request} :
       node' = [node EXCEPT !.pending = conn[c].signed, !.old = FALSE, !.request = r,
                            !.via = None]
  /\ conn' = [conn EXCEPT ![c].agent = "gone"]
  /\ UNCHANGED <<claim, db, ctl, faults>>

\* The staging windows of five minutes.  Staged before it is stored, the
\* controller's window closes first.  A hello takes seconds: no window closes
\* from the moment the controller accepts one until the agent has its answer.
Quiet ==
  \A c \in Slots : /\ conn[c].stage \in {"none", "handshake", "candidate", "current"}
                   /\ conn[c].reply => conn[c].agent # "hello"

StageExpires ==
  /\ ctl.staged # NoStage /\ Quiet
  /\ ctl' = [ctl EXCEPT !.staged = NoStage]
  /\ UNCHANGED <<node, claim, db, conn, faults>>

PendingExpires ==
  /\ node.pending # NoCert /\ ~node.old /\ Quiet
  /\ ~Staged(node.pending)
  /\ node' = [node EXCEPT !.old = TRUE]
  /\ UNCHANGED <<claim, db, ctl, conn, faults>>

-----------------------------------------------------------------------------
(* Revocation: the row first, then a message on cluster:revocations that   *)
(* may not arrive.  A heartbeat of a revoked node closes its connection.   *)

revoke ==
  /\ db.state = "online"
  /\ db' = [state |-> "revoked", cert |-> NoCert]
  /\ ctl' = [ctl EXCEPT !.notice = TRUE]
  /\ UNCHANGED <<node, claim, conn, faults>>

Notice ==
  /\ ctl.notice
  /\ LET cs == Candidates \cup ({ctl.current} \ {None}) IN
       /\ conn' = Shut(cs, conn)
       /\ ctl' = [ctl EXCEPT !.notice = FALSE, !.current = None]
  /\ UNCHANGED <<node, claim, db, faults>>

LoseNotice ==
  /\ ctl.notice /\ faults < MaxFaults
  /\ faults' = faults + 1
  /\ ctl' = [ctl EXCEPT !.notice = FALSE]
  /\ UNCHANGED <<node, claim, db, conn>>

heartbeat(c) ==
  /\ conn[c].stage = "current" /\ conn[c].agent = "open" /\ db.state = "revoked"
  /\ Throw(c)
  /\ UNCHANGED <<node, claim, db, faults>>

-----------------------------------------------------------------------------
(* Crashes. *)

AgentCrash ==
  /\ faults < MaxFaults /\ faults' = faults + 1
  /\ node' = [node EXCEPT !.via = None, !.prefer = FALSE]
  /\ conn' = [c \in Slots |-> [conn[c] EXCEPT !.agent = "gone"]]
  /\ UNCHANGED <<claim, db, ctl>>

\* A write that was under way when the controller stopped is lost or was made
\* just before; both are states the crash may find.
ControllerCrash ==
  /\ faults < MaxFaults /\ faults' = faults + 1
  /\ ctl' = [ctl EXCEPT !.staged = NoStage, !.current = None, !.notice = FALSE]
  /\ conn' = [c \in Slots |-> [conn[c] EXCEPT !.stage = "none", !.shut = TRUE,
                                          !.signing = NoCert]]
  /\ UNCHANGED <<node, claim, db>>

-----------------------------------------------------------------------------
Controller(c) ==
  \/ authenticate(c) \/ hello(c) \/ requireOpenCandidate(c) \/ activateNodeCertificate(c)
  \/ replaceConnections(c) \/ verify(c) \/ promote(c) \/ releaseConnection(c)
  \/ signNodeCertificate(c) \/ stageIdentity(c) \/ heartbeat(c)

Agent(c) == opened(c) \/ connectionClosed(c) \/ retryStaged(c) \/ storePending(c) \/ Reuse(c)

Connecting == \E c \in Slots : connect(c)
Enrolling == PrepareEnrolment \/ ClaimIdentity \/ CreateNode \/ StoreIdentity

Next ==
  \/ Enrolling \/ Connecting
  \/ \E c \in Slots : Controller(c) \/ Agent(c) \/ stageRotation(c) \/ Drop(c)
                     \/ closeConnection(c)
  \/ StageExpires \/ PendingExpires
  \/ revoke \/ Notice \/ LoseNotice
  \/ AgentCrash \/ ControllerCrash

\* Handlers return, sockets report that they closed, timers fire and the agent
\* reconnects (#scheduleReconnect).  Nothing makes a rotation, a revocation or
\* a fault happen.
Fairness ==
  /\ \A c \in Slots : WF_vars(Controller(c)) /\ WF_vars(Agent(c))
  /\ WF_vars(Enrolling) /\ WF_vars(Connecting)
  /\ SF_vars(StageExpires) /\ SF_vars(PendingExpires)

Spec == Init /\ [][Next]_vars /\ Fairness

-----------------------------------------------------------------------------
\* Whatever answer is lost and whichever side stops during a rotation, the
\* certificate the repository holds active is one the node can still present.
NodeKeepsIdentity ==
  node.active # NoCert /\ db.state = "online" => db.cert \in {node.active, node.pending}

\* #connections has one connection of the node: one that was replaced, or that
\* closed while its hello was being handled, is not served.
OneConnection ==
  \A c \in Slots : conn[c].stage = "current" => ctl.current = c /\ Open(c)

\* The registered connection was authenticated with the certificate that is
\* active, except while the handler that activated another one has not gone on.
CurrentCertificate ==
  ctl.current # None /\ db.state = "online" /\ conn[ctl.current].cert # db.cert =>
    \E c \in Slots : conn[c].stage = "activated"

\* Both of the registered connection.
RegisteredConnection == OneConnection /\ CurrentCertificate

\* The identity of a node survives every rotation, and only its holder is served
\* (#opened, #stageRotation, the hello handler of #message).
IdentityHeld == NodeKeepsIdentity /\ RegisteredConnection

\* A node with an identity is connected again and again until it is revoked,
\* whichever certificate the controller accepts by then; once revoked it loses
\* its connection, also when the message on cluster:revocations is lost.
ConnectionFollows ==
  node.active # NoCert ~>
    IF db.state = "revoked" THEN ctl.current = None
    ELSE node.via # None /\ ctl.current = node.via
=============================================================================
