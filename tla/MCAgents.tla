------------------------------ MODULE MCAgents ------------------------------
(* The models of the nodes in one run: the transport (AgentIdentity,         *)
(* AgentRequests) and the choice among nodes (NodeRouting).  A behaviour     *)
(* exercises the identities of the node, the drain state, the segment jobs,  *)
(* or routing; the other models stay in their initial states.                *)
EXTENDS Integers, Sequences, FiniteSets

CONSTANTS Slots, None, MaxCerts, MaxFaults, MaxConns, MaxWishes, MaxOffers,
          n1, n2, q1, b1, b2

VARIABLES scope,
          node, claim, db, ctl, conn, faults,
          row, wish, op, req, hand, registry, down, up, agent, run, offers, losses,
          now, rows, drained, beat, call, asking, seen

ivars == <<node, claim, db, ctl, conn, faults>>
rvars == <<row, wish, op, req, hand, registry, down, up, agent, run, offers, losses>>
nvars == <<now, rows, drained, beat, call, asking, seen>>

I == INSTANCE AgentIdentity
R == INSTANCE AgentRequests WITH ctl <- registry, node <- agent, faults <- losses,
                                 MaxFaults <- MaxFaults - 1
\* One remote node; or one and the controller's own.
region == [n \in {n1, n2} |-> IF n = n1 THEN "here" ELSE "there"]
N == INSTANCE NodeRouting WITH
       Node <- {n2}, Local <- {}, Request <- {q1}, Beat <- {b1, b2},
       MaxAttempts <- 2, MaxTime <- 2, MaxWrites <- 3,
       row <- rows, op <- call, req <- asking
H == INSTANCE NodeRouting WITH
       Node <- {n1, n2}, Local <- {n1}, Request <- {q1}, Beat <- {b1, b2},
       MaxAttempts <- 2, MaxTime <- 2, MaxWrites <- 3,
       row <- rows, op <- call, req <- asking

Remote == {"beats", "operator"}
Routing == Remote \cup {"home"}
Scopes == {"identity", "drain", "jobs"} \cup Routing

Init ==
  /\ scope \in Scopes
  /\ I!Init /\ R!Init
  /\ IF scope = "home" THEN H!Init ELSE N!Init

\* No offer in a behaviour about draining, no decision in one about jobs.
Identity == scope = "identity" /\ I!Next /\ UNCHANGED <<rvars, nvars, scope>>
Requests == /\ scope \in {"drain", "jobs"} /\ R!Next
            /\ scope = "drain" => offers' = 0
            /\ scope = "jobs" => wish'.count = 0
            /\ UNCHANGED <<ivars, nvars, scope>>
\* Two heartbeats of a node that overlap; one, and the operator; two nodes of
\* which the operator drains one, and no heartbeat in time.
Routes == /\ \/ scope = "beats" /\ N!Next /\ call'.at = "idle"
             \/ scope = "operator" /\ N!Next /\ beat'[b2].at = "idle"
             \/ /\ scope = "home" /\ H!Next /\ \A b \in {b1, b2} : beat'[b].at = "idle"
                /\ call'.what \in {"none", "drain", "release"} /\ call'.node # n2
                /\ rows'[n2].rev <= 2
          /\ UNCHANGED <<ivars, rvars, scope>>

Next == Identity \/ Requests \/ Routes

vars == <<ivars, rvars, nvars, scope>>

\* The fairness of the models of the transport, for the one that moves.
OfIdentity(A) == scope = "identity" /\ A /\ UNCHANGED <<rvars, nvars, scope>>
OfRequests(A) == scope \in {"drain", "jobs"} /\ A /\ UNCHANGED <<ivars, nvars, scope>>

Fairness ==
  /\ \A c \in Slots : /\ WF_vars(OfIdentity(I!Controller(c)))
                      /\ WF_vars(OfIdentity(I!Agent(c)))
  /\ WF_vars(OfIdentity(I!Enrolling)) /\ WF_vars(OfIdentity(I!Connecting))
  /\ SF_vars(OfIdentity(I!StageExpires)) /\ SF_vars(OfIdentity(I!PendingExpires))
  /\ WF_vars(OfRequests(R!connect)) /\ WF_vars(OfRequests(R!Closing))
  /\ WF_vars(OfRequests(R!Receiving)) /\ WF_vars(OfRequests(R!Commands))
  /\ WF_vars(OfRequests(R!nodeHeartbeat)) /\ WF_vars(OfRequests(R!setDrainCommand))
  /\ WF_vars(OfRequests(R!setDrainDone))
  /\ \A c \in R!Conns : WF_vars(OfRequests(R!Handling(c)))

Spec == Init /\ [][Next]_vars /\ Fairness

\* See AgentIdentity: the active certificate is one the node can present, and one
\* connection is registered, with that certificate.  See AgentRequests: an answer
\* is of its own run, and there are no stray runs.
TransportSafe == I!IdentityHeld /\ R!RunsAnswerOffers
\* See AgentIdentity: connected until revoked.  See AgentRequests: the node's drain
\* state becomes the one of its row.
TransportSettles == I!ConnectionFollows /\ R!DrainSettles
\* See NodeRouting: requests go to nodes that were online and heard of, a drained
\* node stays drained.
RoutingSafe ==
  /\ scope \in Remote => N!TypeOK /\ N!RoutingSafe
  /\ scope = "home" => H!TypeOK /\ H!RoutingSafe
\* See NodeRouting: a node is declared late when it is, and heartbeats ascend.
HealthFollows ==
  [][/\ scope \in Remote => N!LateOnly /\ N!BeatsAscend
     /\ scope = "home" => H!LateOnly /\ H!BeatsAscend]_vars
=============================================================================
