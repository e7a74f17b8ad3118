----------------------------- MODULE NodeRouting -----------------------------
(***************************************************************************)
(* Which node a request is sent to: ClusterService (list, selectEdge,      *)
(* previewPlacement, heartbeat, drain, revoke, remove) and the traffic     *)
(* directors, packages/application/src/cluster-service.ts.                 *)
(*                                                                         *)
(* Every request for a route lists the nodes and, on the way, corrects the *)
(* rows of those whose heartbeat is late: a row is read, read again and    *)
(* written under its revision, while heartbeats, an operator and other     *)
(* requests write it too.  Time is counted in periods of 45 seconds: a     *)
(* node that was silent for one is degraded, for two offline.              *)
(***************************************************************************)
EXTENDS Integers, FiniteSets

CONSTANTS Node,         \* the nodes
          Local,        \* those of the controller's own process
          Request,      \* callers of selectEdge and previewPlacement
          Beat,         \* handlers of heartbeats; a node may have two of them
          region,       \* of each node
          None,
          MaxAttempts,  \* MAX_ATOMIC_WRITE_ATTEMPTS
          MaxTime,      \* bound of the clock
          MaxWrites     \* bound of a row's revision

VARIABLES now,
          row,        \* the rows of cluster_nodes
          drained,    \* nodes an operator drained, and did not release since
          beat, op, req,
          seen        \* per request, the nodes that were online since it began

vars == <<now, row, drained, beat, op, req, seen>>

Regions == {"here", "there"}
Directors == [kind : {"builtin", "webhook"}, node : {None}, region : {None}]
               \cup [kind : {"static"}, node : Node \cup {None}, region : Regions \cup {None}]
States == {"online", "degraded", "offline", "draining", "revoked", "removed"}
Rows == [rev : 1 .. MaxWrites, state : States, beat : 0 .. MaxTime]

Quiet == [at |-> "idle", node |-> None, what |-> "none", rev |-> 0, stamp |-> 0, tries |-> 0]
\* list holds the rows the request works with, due what is to be done about
\* each, saw the revision read for it.
Idle == [at |-> "idle", list |-> <<>>, cut |-> 0,
         due |-> [n \in Node |-> "none"], saw |-> [n \in Node |-> 0], tries |-> [n \in Node |-> 0],
         fails |-> FALSE, chosen |-> None]

Init ==
  /\ now = 0
  /\ row = [n \in Node |-> [rev |-> 1, state |-> "online", beat |-> 0]]
  /\ drained = {}
  /\ beat = [b \in Beat |-> Quiet] /\ op = Quiet
  /\ req = [q \in Request |-> Idle]
  /\ seen = [q \in Request |-> Node]

Exists(n) == row[n].state # "removed"
CanWrite(n) == row[n].rev < MaxWrites

\* The repository's operations succeed under the revision they were given.
Stored(n, state, at) == row' = [row EXCEPT ![n] = [rev |-> @.rev + 1, state |-> state, beat |-> at]]

TimePasses ==
  /\ now < MaxTime /\ now' = now + 1
  /\ UNCHANGED <<row, drained, beat, op, req>>

-----------------------------------------------------------------------------
(* Heartbeats.  The controller's handler of a message asks for the drain   *)
(* state first (see AgentRequests); the controller's own node and the one  *)
(* of a single process always report that they are online.                 *)

hear(b, n) ==
  /\ beat[b].at = "idle" /\ Exists(n)
  /\ beat' = [beat EXCEPT ![b] = [Quiet EXCEPT !.at = "read", !.node = n,
                !.what = IF n \notin Local /\ row[n].state = "draining" THEN "draining" ELSE "online"]]
  /\ UNCHANGED <<now, row, drained, op, req>>

\* heartbeat: a revoked node keeps its row.
heartbeatRead(b) ==
  /\ beat[b].at = "read"
  /\ LET n == beat[b].node IN
       beat' = [beat EXCEPT ![b] =
                  IF row[n].state \in {"removed", "revoked"} THEN Quiet
                  ELSE [@ EXCEPT !.at = "write", !.rev = row[n].rev, !.stamp = now]]
  /\ UNCHANGED <<now, row, drained, op, req>>

\* recordNodeHeartbeat: draining and revoked are kept.
heartbeatWrite(b) ==
  /\ beat[b].at = "write"
  /\ LET n == beat[b].node IN
       IF Exists(n) /\ row[n].rev # beat[b].rev
         THEN /\ beat' = [beat EXCEPT ![b] = IF @.tries + 1 = MaxAttempts THEN Quiet
                                             ELSE [@ EXCEPT !.at = "read", !.tries = @ + 1]]
              /\ UNCHANGED row
         ELSE /\ beat' = [beat EXCEPT ![b] = Quiet]
              /\ IF Exists(n)
                   THEN /\ CanWrite(n)
                        /\ Stored(n, IF row[n].state \in {"draining", "revoked"}
                                       THEN row[n].state ELSE beat[b].what, beat[b].stamp)
                   ELSE UNCHANGED row
  /\ UNCHANGED <<now, drained, op, req>>

\* registerLocal when the process starts again: ensureLocalNode.
registerLocal(n) ==
  /\ Exists(n) /\ CanWrite(n)
  /\ Stored(n, IF row[n].state \in {"draining", "revoked"} THEN row[n].state ELSE "online", now)
  /\ UNCHANGED <<now, drained, beat, op, req>>

-----------------------------------------------------------------------------
(* The operator: drain, release, revoke, remove.  One call at a time.      *)

\* remove wants a node that was revoked before.
OperatorReads(call) ==
  op' = IF call.what = "remove" /\ row[call.node].state # "revoked" THEN Quiet
        ELSE [call EXCEPT !.at = "write", !.rev = row[call.node].rev]

operate(n, what) ==
  /\ op.at = "idle" /\ Exists(n)
  /\ OperatorReads([Quiet EXCEPT !.node = n, !.what = what])
  /\ UNCHANGED <<now, row, drained, beat, req>>

operatorReads ==
  /\ op.at = "read"
  /\ OperatorReads(op)
  /\ UNCHANGED <<now, row, drained, beat, req>>

\* setNodeDrain, revokeNode and removeNode.
Decided(state) ==
  CASE op.what = "drain"   -> "draining"
    [] op.what = "release" -> IF state = "draining" THEN "online" ELSE state
    [] op.what = "revoke"  -> "revoked"
    [] op.what = "remove"  -> "removed"

operatorWrites ==
  /\ op.at = "write"
  /\ LET n == op.node
         refused == row[n].state = "revoked" /\ op.what \in {"drain", "release"} IN
       IF row[n].rev # op.rev
         THEN /\ op' = IF op.tries + 1 = MaxAttempts THEN Quiet
                       ELSE [op EXCEPT !.at = "read", !.tries = @ + 1]
              /\ UNCHANGED <<row, drained>>
         ELSE /\ op' = Quiet
              /\ IF refused THEN UNCHANGED <<row, drained>>
                 ELSE /\ CanWrite(n)
                      /\ Stored(n, Decided(row[n].state), row[n].beat)
                      /\ drained' = IF op.what = "drain" THEN drained \cup {n} ELSE drained \ {n}
  /\ UNCHANGED <<now, beat, req>>

-----------------------------------------------------------------------------
(* list: the rows, then the cut-off times, then the rows that are late,    *)
(* all at the same time.                                                   *)

Late(r, cut) == r.beat < cut
Stale(r, cut) == r.beat < cut - 1

\* The state a row is due, by the copy of list and by #setOperationalState's own.
Overdue(r, cut) ==
  IF r.state \notin {"revoked", "offline", "removed"} /\ Stale(r, cut) THEN "offline"
  ELSE IF r.state = "online" /\ Late(r, cut) THEN "degraded" ELSE "none"
selectState(due, r, cut) ==
  CASE due = "offline"  -> r.state \in {"online", "degraded"} /\ Stale(r, cut)
    [] due = "degraded" -> r.state = "online" /\ Late(r, cut)

Copy(r) == [state |-> r.state, beat |-> r.beat]

listNodes(q) ==
  /\ req[q].at = "idle"
  /\ req' = [req EXCEPT ![q] = [Idle EXCEPT !.at = "listed", !.list = [n \in Node |-> Copy(row[n])]]]
  /\ UNCHANGED <<now, row, drained, beat, op>>

listCutOff(q) ==
  /\ req[q].at = "listed"
  /\ req' = [req EXCEPT ![q].at = "maintain", ![q].cut = now,
                        ![q].due = [n \in Node |-> Overdue(req[q].list[n], now)]]
  /\ UNCHANGED <<now, row, drained, beat, op>>

\* A node that is gone stays in the list as it was read at first.
maintainRead(q, n) ==
  /\ req[q].at = "maintain" /\ req[q].due[n] # "none" /\ req[q].saw[n] = 0
  /\ req' = [req EXCEPT ![q] =
       IF ~Exists(n) THEN [@ EXCEPT !.due[n] = "none"]
       ELSE IF selectState(@.due[n], row[n], @.cut) THEN [@ EXCEPT !.saw[n] = row[n].rev]
       ELSE [@ EXCEPT !.due[n] = "none", !.list[n] = Copy(row[n])]]
  /\ UNCHANGED <<now, row, drained, beat, op>>

\* setNodeOperationalState.  A row that still has the revision of the read is
\* the row of the read, so that its state needs no second test.
MutantMaintainWrite(q, n) ==
  /\ req[q].at = "maintain" /\ req[q].saw[n] # 0
  /\ LET due == req[q].due[n] IN
       /\ CanWrite(n) /\ Exists(n)
       /\ Stored(n, due, row[n].beat)
       /\ req' = [req EXCEPT ![q].due[n] = "none", ![q].saw[n] = 0, ![q].list[n] = Copy(row'[n])]
  /\ UNCHANGED <<now, drained, beat, op>>
maintainWrite(q, n) ==
  /\ req[q].at = "maintain" /\ req[q].saw[n] # 0
  /\ LET due == req[q].due[n] IN
       IF Exists(n) /\ row[n].rev = req[q].saw[n]
         THEN /\ CanWrite(n)
              /\ Stored(n, due, row[n].beat)
              /\ req' = [req EXCEPT ![q].due[n] = "none", ![q].saw[n] = 0, ![q].list[n] = Copy(row'[n])]
         ELSE /\ req' = [req EXCEPT ![q] =
                   LET over == ~Exists(n) \/ @.tries[n] + 1 = MaxAttempts IN
                   [@ EXCEPT !.saw[n] = 0, !.tries[n] = @ + 1,
                             !.due[n] = IF over THEN "none" ELSE @,
                             !.fails = @ \/ (over /\ Exists(n))]]
              /\ UNCHANGED row
  /\ UNCHANGED <<now, drained, beat, op>>

-----------------------------------------------------------------------------
(* The choice.  Scores, weights and load decide among equals, and any may  *)
(* win.                                                                    *)

Of(S, r) == {n \in S : region[n] = r}
FirstOf(S, T) == IF S # {} THEN S ELSE T
MutantEligible(list) == {n \in Node : list[n].state \notin {"offline", "revoked", "removed"}}
eligible(list) == {n \in Node : list[n].state = "online"}

\* BuiltinTrafficDirector, StaticTrafficDirector and WebhookTrafficDirector, which
\* refuses an answer that is not one of its candidates.
builtinSelects(list, viewer, prefers) ==
  FirstOf(Of(eligible(list), viewer), FirstOf(Of(eligible(list), prefers), eligible(list)))
staticSelects(list, director, viewer, prefers) ==
  LET E == eligible(list) IN
  IF director.node # None
    THEN {n \in E : n = director.node /\ director.region \in {None, region[n]}}
    ELSE FirstOf(Of(E, director.region), FirstOf(Of(E, IF viewer # None THEN viewer ELSE prefers), E))
webhookSelects(list) == eligible(list)

\* The active director, which an administrator may have replaced by now.
selectEdge(list, viewer, prefers) ==
  UNION {CASE director.kind = "builtin" -> builtinSelects(list, viewer, prefers)
           [] director.kind = "static"  -> staticSelects(list, director, viewer, prefers)
           [] director.kind = "webhook" -> webhookSelects(list) : director \in Directors}

\* previewPlacement: which nodes are capable of the profile, and connected by
\* now, is open; the controller's own is always connected.
placementNodeConnectivity(connected) == Local \cup connected
previewPlacement(list, prefers) ==
  UNION {FirstOf(Of(compatible, prefers), compatible) :
           compatible \in {eligible(list) \cap placementNodeConnectivity(connected) \cap capable :
                             connected \in SUBSET Node, capable \in SUBSET Node}}

\* The region that a trusted proxy names counts when a node is there.  The list
\* it is compared with is a request that ends without a choice.
trustedViewerRegion(regions) == regions \cup {None}
viewerRegion == trustedViewerRegion({region[n] : n \in Node})

\* Nothing to choose from, a conflict while the rows were corrected, or a
\* webhook that does not answer: the request fails.
choose(q) ==
  /\ req[q].at = "maintain" /\ \A n \in Node : req[q].due[n] = "none"
  /\ \/ /\ ~req[q].fails
        /\ \E viewer \in viewerRegion, prefers \in Regions \cup {None} :
             \E n \in selectEdge(req[q].list, viewer, prefers) \cup previewPlacement(req[q].list, prefers) :
               req' = [req EXCEPT ![q].at = "chosen", ![q].chosen = n]
     \/ req' = [req EXCEPT ![q] = Idle]
  /\ UNCHANGED <<now, row, drained, beat, op>>

answer(q) ==
  /\ req[q].at = "chosen"
  /\ req' = [req EXCEPT ![q] = Idle]
  /\ UNCHANGED <<now, row, drained, beat, op>>

-----------------------------------------------------------------------------
Routing(q) ==
  \/ listNodes(q) \/ listCutOff(q) \/ choose(q) \/ answer(q)
  \/ \E n \in Node : maintainRead(q, n) \/ maintainWrite(q, n)

Step ==
  \/ TimePasses \/ operatorReads \/ operatorWrites
  \/ \E n \in Local : registerLocal(n)
  \/ \E n \in Node, b \in Beat : hear(b, n)
  \/ \E b \in Beat : heartbeatRead(b) \/ heartbeatWrite(b)
  \/ \E n \in Node, what \in {"drain", "release", "revoke", "remove"} : operate(n, what)
  \/ \E q \in Request : Routing(q)

\* What a request could know: the nodes that were online since it began.
Watched(A) ==
  /\ A
  /\ seen' = [q \in Request |-> (IF req[q].at = "idle" THEN {} ELSE seen[q])
                                   \cup {n \in Node : row'[n].state = "online"}]

Next == Watched(Step)

Spec == Init /\ [][Next]_vars

-----------------------------------------------------------------------------
TypeOK ==
  /\ now \in 0 .. MaxTime
  /\ row \in [Node -> Rows] /\ drained \subseteq Node
  /\ \A b \in Beat : beat[b].at \in {"idle", "read", "write"}
  /\ op.at \in {"idle", "read", "write"}
  /\ \A q \in Request : req[q].at \in {"idle", "listed", "maintain", "chosen"}
  /\ seen \in [Request -> SUBSET Node]

\* selectEdge and previewPlacement: the node that is chosen was online at some
\* moment since the request began.  A request that comes after the operator has
\* drained or revoked a node, or after it was found offline, is not sent there.
RoutedOnline == \A q \in Request : req[q].at = "chosen" => req[q].chosen \in seen[q]

\* list: nobody is sent to a node whose last heartbeat was older than 90
\* seconds, unless the node was removed while the rows were corrected.
RoutedAlive ==
  \A q \in Request : req[q].at = "chosen" =>
    ~Stale(req[q].list[req[q].chosen], req[q].cut) \/ ~Exists(req[q].chosen)

\* setNodeDrain: a drained node stays drained until an operator decides
\* otherwise, whatever heartbeats, corrections and restarts come between.
DrainKept == \A n \in drained : row[n].state = "draining"

RoutingSafe == RoutedOnline /\ RoutedAlive /\ DrainKept

\* #setOperationalState: a row is set to offline or degraded only while its
\* heartbeat is late, even though the row was read twice before.
LateOnly ==
  \A n \in Node : row'[n].state # row[n].state =>
    /\ row'[n].state = "offline" => Stale(row[n], now)
    /\ row'[n].state = "degraded" => Late(row[n], now)

\* heartbeat: the time of the last heartbeat does not go back when the handlers
\* of two connections of a node overlap.
BeatsAscend == \A n \in Node : row'[n].beat >= row[n].beat

HealthFollows == [][LateOnly /\ BeatsAscend]_vars

=============================================================================
