---------------------------- MODULE AgentRequests ----------------------------
(***************************************************************************)
(* Requests between the controller and one node, the drain state and the   *)
(* segment jobs they carry: apps/relay/src/agent-transport.ts              *)
(* (AgentController and NodeAgent), ClusterService.drain and heartbeat.    *)
(*                                                                         *)
(* Connections follow each other; each has a FIFO channel in both          *)
(* directions and one message handler at a time on each side.  Either side *)
(* may see a connection close first.  A handler of the controller that is  *)
(* waiting for the repository goes on after its connection is closed.      *)
(* Certificates are the subject of AgentIdentity.                          *)
(***************************************************************************)
EXTENDS Integers, Sequences

CONSTANTS MaxConns,     \* connections, one after the other
          MaxWishes,    \* decisions of the operator
          MaxOffers,    \* offers of the job
          MaxFaults     \* lost connections, late answers, crashes

VARIABLES row,      \* does the node row say draining
          wish,     \* the operator's last decision, and how many there were
          op,       \* the operator's setDrain call
          req,      \* the controller's requests that somebody waits for
          hand,     \* per connection, the controller's message handler
          ctl,      \* the connection #connections holds, 0 for none, and the open candidate
          down, up, \* the channels of the connection
          node,     \* the agent
          run,      \* per offer, the run the node made of it
          offers, faults

vars == <<row, wish, op, req, hand, ctl, down, up, node, run, offers, faults>>

Conns == 1 .. MaxConns
Offers == 1 .. MaxOffers
\* The caller of a request stands for its identifier; nobody waits for a
\* cancellation or for the drain request after a heartbeat.
Requests == ({"wish"} \X (1 .. MaxWishes)) \cup ({"hello"} \X Conns) \cup ({"offer"} \X Offers)
Nobody == <<"nobody", 0>>
Idle == [at |-> "idle", kind |-> "none", said |-> FALSE, desired |-> FALSE]

Init ==
  /\ row = FALSE /\ wish = [value |-> FALSE, count |-> 0]
  /\ op = "idle"
  /\ req = [r \in Requests |-> [out |-> "unused", link |-> 0]]
  /\ hand = [c \in Conns |-> Idle]
  /\ ctl = [current |-> 0, open |-> 0]
  /\ down = <<>> /\ up = <<>>
  /\ node = [draining |-> FALSE, link |-> 0, opened |-> FALSE, made |-> 0, job |-> 0]
  /\ run = [r \in Offers |-> [state |-> "none", link |-> 0]]
  /\ offers = 0 /\ faults = 0

-----------------------------------------------------------------------------
(* #requestConnection and settlePending. *)

Message(kind, value, r) == [kind |-> kind, value |-> value, id |-> r]

\* A request is settled once: whatever comes after finds no entry.
Settled(q, r, out) ==
  IF r \in Requests /\ q[r].out = "waiting" THEN [q EXCEPT ![r].out = out] ELSE q

\* rejectAllPending
Rejected(q, c) == [r \in Requests |-> IF q[r].link = c THEN Settled(q, r, "failed")[r] ELSE q[r]]

Send(c, kind, value, r) ==
  /\ req' = IF r \in Requests THEN [req EXCEPT ![r] = [out |-> "waiting", link |-> c]] ELSE req
  /\ down' = Append(down, Message(kind, value, r))

\* The answer is late: it finds no entry.
RequestTimesOut(r) ==
  /\ req[r].out = "waiting" /\ faults < MaxFaults
  /\ faults' = faults + 1
  /\ req' = Settled(req, r, "failed")
  /\ UNCHANGED <<row, wish, op, hand, ctl, down, up, node, run, offers>>

-----------------------------------------------------------------------------
(* Connections.  hello is handled in steps; the connection is registered   *)
(* at the end.                                                             *)

connect ==
  /\ node.link = 0 /\ node.made < MaxConns /\ ctl.open = 0
  /\ LET c == node.made + 1 IN
       /\ node' = [node EXCEPT !.link = c, !.made = c, !.opened = FALSE]
       /\ ctl' = [ctl EXCEPT !.open = c]
       /\ up' = <<Message("hello", node.draining, Nobody)>>
  /\ down' = <<>>
  /\ UNCHANGED <<row, wish, op, req, hand, run, offers, faults>>

\* #releaseConnection
Release(c) ==
  /\ ctl' = [current |-> IF ctl.current = c THEN 0 ELSE ctl.current, open |-> 0]
  /\ req' = Rejected(req, c)

controllerCloses ==
  /\ ctl.open # 0 /\ node.link # ctl.open
  /\ Release(ctl.open)
  /\ UNCHANGED <<row, wish, op, hand, down, up, node, run, offers, faults>>

\* #connectionClosed: every job is aborted, and the producers are fenced.
Closed == [node EXCEPT !.link = 0, !.opened = FALSE, !.job = 0]
Aborted == [r \in Offers |-> IF r = node.job /\ run[r].state = "live"
                                 THEN [run[r] EXCEPT !.state = "aborted"] ELSE run[r]]

nodeCloses ==
  /\ node.link # 0 /\ ctl.open # node.link
  /\ node' = Closed /\ run' = Aborted
  /\ UNCHANGED <<row, wish, op, req, hand, ctl, down, up, offers, faults>>

\* The network breaks it: one side sees it first.
Drop ==
  /\ node.link # 0 /\ ctl.open = node.link /\ faults < MaxFaults
  /\ faults' = faults + 1
  /\ \/ Release(ctl.open) /\ UNCHANGED <<node, run>>
     \/ node' = Closed /\ run' = Aborted /\ UNCHANGED <<ctl, req>>
  /\ UNCHANGED <<row, wish, op, hand, down, up, offers>>

AgentCrash ==
  /\ node.link # 0 /\ faults < MaxFaults
  /\ faults' = faults + 1
  /\ node' = Closed
  /\ run' = [r \in Offers |-> IF run[r].state \in {"live", "aborted"}
                                  THEN [run[r] EXCEPT !.state = "lost"] ELSE run[r]]
  /\ UNCHANGED <<row, wish, op, req, hand, ctl, down, up, offers>>

-----------------------------------------------------------------------------
(* The controller's handler of hello and heartbeat. *)

Reachable(c) == ctl.open = c /\ node.link = c

receive ==
  LET c == ctl.open IN
  /\ c # 0 /\ up # <<>> /\ Head(up).kind \in {"hello", "heartbeat"}
  /\ hand[c].at = "idle"
  /\ hand' = [hand EXCEPT ![c] = [Idle EXCEPT !.at = "read", !.kind = Head(up).kind,
                                              !.said = Head(up).value]]
  /\ up' = Tail(up)
  /\ UNCHANGED <<row, wish, op, req, ctl, down, node, run, offers, faults>>

authoritativeDrainState(c) ==
  /\ hand[c].at = "read"
  /\ hand' = [hand EXCEPT ![c].desired = row, ![c].at = "beat"]
  /\ UNCHANGED <<row, wish, op, req, ctl, down, up, node, run, offers, faults>>

\* ClusterService.heartbeat with what was read: the row keeps "draining".
heartbeat(c) ==
  /\ hand[c].at = "beat"
  /\ row' = (row \/ hand[c].desired)
  /\ hand' = [hand EXCEPT ![c].at = "reply"]
  /\ UNCHANGED <<wish, op, req, ctl, down, up, node, run, offers, faults>>

Differs(c) == hand[c].said # hand[c].desired

\* hello waits for the drain request; heartbeat answers first and does not.
helloDrain(c) ==
  /\ hand[c].at = "reply" /\ hand[c].kind = "hello" /\ Differs(c)
  /\ IF ctl.open = c
       THEN /\ Send(c, "drain", hand[c].desired, <<"hello", c>>)
            /\ hand' = [hand EXCEPT ![c].at = "drain"]
       ELSE hand' = [hand EXCEPT ![c] = Idle] /\ UNCHANGED <<req, down>>
  /\ UNCHANGED <<row, wish, op, ctl, up, node, run, offers, faults>>

helloDrained(c) ==
  /\ hand[c].at = "drain" /\ req[<<"hello", c>>].out # "waiting"
  /\ IF req[<<"hello", c>>].out = "ok"
       THEN /\ hand' = [hand EXCEPT ![c].at = "reply", ![c].said = hand[c].desired]
            /\ UNCHANGED <<ctl, req>>
       ELSE /\ hand' = [hand EXCEPT ![c] = Idle]
            /\ IF ctl.open = c THEN Release(c) ELSE UNCHANGED <<ctl, req>>
  /\ UNCHANGED <<row, wish, op, down, up, node, run, offers, faults>>

\* #requireOpenCandidate, then the connection is registered and answered.
promote(c) ==
  /\ hand[c].at = "reply" /\ hand[c].kind = "hello" /\ ~Differs(c)
  /\ hand' = [hand EXCEPT ![c] = Idle]
  /\ IF ctl.open = c
       THEN /\ ctl' = [ctl EXCEPT !.current = c]
            /\ down' = Append(down, Message("welcome", FALSE, Nobody))
       ELSE UNCHANGED <<ctl, down>>
  /\ UNCHANGED <<row, wish, op, req, up, node, run, offers, faults>>

MutantHeartbeatReply(c) ==
  /\ hand[c].at = "reply" /\ hand[c].kind = "heartbeat"
  /\ hand' = [hand EXCEPT ![c] = Idle]
  /\ UNCHANGED <<row, wish, op, req, ctl, down, up, node, run, offers, faults>>
heartbeatReply(c) ==
  /\ hand[c].at = "reply" /\ hand[c].kind = "heartbeat"
  /\ hand' = [hand EXCEPT ![c] = Idle]
  /\ IF Differs(c) /\ ctl.open = c
       THEN Send(c, "drain", hand[c].desired, Nobody) ELSE UNCHANGED <<req, down>>
  /\ UNCHANGED <<row, wish, op, ctl, up, node, run, offers, faults>>

\* #handleReply; an answer nobody waits for is dropped.
handleReply ==
  /\ ctl.open # 0 /\ up # <<>> /\ Head(up).kind \in {"ok", "failed"}
  /\ req' = Settled(req, Head(up).id, Head(up).kind)
  /\ up' = Tail(up)
  /\ UNCHANGED <<row, wish, op, hand, ctl, down, node, run, offers, faults>>

-----------------------------------------------------------------------------
(* The operator's setDrain: the row first, then the command. *)

setDrain ==
  /\ op = "idle" /\ wish.count < MaxWishes
  /\ wish' = [value |-> ~wish.value, count |-> wish.count + 1]
  /\ row' = wish'.value
  /\ op' = "command"
  /\ UNCHANGED <<req, hand, ctl, down, up, node, run, offers, faults>>

setDrainCommand ==
  /\ op = "command"
  /\ IF ctl.current # 0
       THEN /\ Send(ctl.current, "drain", wish.value, <<"wish", wish.count>>)
            /\ op' = "wait"
       ELSE op' = "idle" /\ UNCHANGED <<req, down>>
  /\ UNCHANGED <<row, wish, hand, ctl, up, node, run, offers, faults>>

setDrainDone ==
  /\ op = "wait" /\ req[<<"wish", wish.count>>].out # "waiting"
  /\ op' = "idle"
  /\ UNCHANGED <<row, wish, req, hand, ctl, down, up, node, run, offers, faults>>

-----------------------------------------------------------------------------
(* Jobs.  The lease of the job lets one dispatch at a time be waiting.     *)

dispatch ==
  /\ ctl.current # 0 /\ offers < MaxOffers
  /\ \A i \in Offers : req[<<"offer", i>>].out # "waiting"
  /\ offers' = offers + 1
  /\ Send(ctl.current, "offer", FALSE, <<"offer", offers'>>)
  /\ UNCHANGED <<row, wish, op, hand, ctl, up, node, run, faults>>

\* Bounds the channels: one exchange without a waiting caller at a time.
NobodyWaits == \A i \in DOMAIN (up \o down) : (up \o down)[i].id # Nobody

\* cancelJob, once an offer was made.
cancel ==
  /\ ctl.current # 0 /\ offers > 0
  /\ NobodyWaits
  /\ Send(ctl.current, "cancel", FALSE, Nobody)
  /\ UNCHANGED <<row, wish, op, hand, ctl, up, node, run, offers, faults>>

-----------------------------------------------------------------------------
(* The node: #receive and #message, one command at a time. *)

Command(kind) ==
  /\ node.link # 0
  /\ down # <<>> /\ Head(down).kind = kind
  /\ down' = Tail(down)

Answer(kind) == up' = Append(up, Message(kind, FALSE, Head(down).id))

nodeWelcome ==
  /\ Command("welcome")
  /\ node' = [node EXCEPT !.opened = TRUE]
  /\ UNCHANGED <<row, wish, op, req, hand, ctl, up, run, offers, faults>>

\* #mutateState, onDrain, then the answer.
nodeDrain ==
  /\ Command("drain") /\ Answer("ok")
  /\ node' = [node EXCEPT !.draining = Head(down).value]
  /\ UNCHANGED <<row, wish, op, req, hand, ctl, run, offers, faults>>

\* A draining node, and one that runs the job already, reject the offer.
nodeOffer ==
  /\ Command("offer")
  /\ IF node.draining \/ node.job # 0
       THEN Answer("failed") /\ UNCHANGED <<node, run>>
       ELSE /\ node' = [node EXCEPT !.job = Head(down).id[2]]
            /\ run' = [run EXCEPT ![Head(down).id[2]] = [state |-> "live", link |-> node.link]]
            /\ UNCHANGED up
  /\ UNCHANGED <<row, wish, op, req, hand, ctl, offers, faults>>

nodeCancel ==
  /\ Command("cancel") /\ Answer("ok")
  /\ run' = Aborted
  /\ UNCHANGED <<row, wish, op, req, hand, ctl, node, offers, faults>>

\* #runSegment ends: it answers on its own connection, and removes the job.
MutantRunSegment(r) ==
  /\ run[r].state \in {"live", "aborted"}
  /\ run' = [run EXCEPT ![r].state = IF @ = "live" THEN "done" ELSE "stopped"]
  /\ up' = Append(up, Message("ok", FALSE, <<"offer", r>>))
  /\ node' = [node EXCEPT !.job = 0]
  /\ UNCHANGED <<row, wish, op, req, hand, ctl, down, offers, faults>>
runSegment(r) ==
  /\ run[r].state \in {"live", "aborted"}
  /\ \E ok \in {TRUE, FALSE} :
       /\ ok => run[r].state = "live"
       /\ run' = [run EXCEPT ![r].state = IF ok THEN "done" ELSE "stopped"]
       /\ IF node.link = run[r].link
            THEN up' = Append(up, Message(IF ok THEN "ok" ELSE "failed", FALSE, <<"offer", r>>))
            ELSE UNCHANGED up
  /\ node' = [node EXCEPT !.job = 0]
  /\ UNCHANGED <<row, wish, op, req, hand, ctl, down, offers, faults>>

\* Every 15 seconds: what follows from one heartbeat is over before the next.
nodeHeartbeat ==
  /\ node.opened /\ ctl.open = node.link /\ hand[node.link] = Idle
  /\ NobodyWaits
  /\ up' = Append(up, Message("heartbeat", node.draining, Nobody))
  /\ UNCHANGED <<row, wish, op, req, hand, ctl, down, node, run, offers, faults>>

-----------------------------------------------------------------------------
Handling(c) ==
  \/ authoritativeDrainState(c) \/ heartbeat(c) \/ helloDrain(c) \/ helloDrained(c)
  \/ promote(c) \/ heartbeatReply(c)

Receiving == receive \/ handleReply
Commands == nodeWelcome \/ nodeDrain \/ nodeOffer \/ nodeCancel
Closing == controllerCloses \/ nodeCloses

Next ==
  \/ connect \/ Closing \/ Drop \/ AgentCrash \/ Receiving \/ Commands \/ nodeHeartbeat
  \/ setDrain \/ setDrainCommand \/ setDrainDone \/ dispatch \/ cancel
  \/ \E c \in Conns : Handling(c)
  \/ \E r \in Offers : runSegment(r)
  \/ \E r \in Requests : RequestTimesOut(r)

\* Handlers return, messages arrive, the agent reconnects and
\* sends its heartbeat every 15 seconds; a run ends once it is aborted.
Fairness ==
  /\ WF_vars(connect) /\ WF_vars(Closing) /\ WF_vars(Receiving) /\ WF_vars(Commands)
  /\ WF_vars(nodeHeartbeat) /\ WF_vars(setDrainCommand) /\ WF_vars(setDrainDone)
  /\ \A c \in Conns : WF_vars(Handling(c))

Spec == Init /\ [][Next]_vars /\ Fairness

-----------------------------------------------------------------------------
\* A dispatch that succeeds was answered by the run of that very offer, not by
\* an earlier run of the same job whose connection was lost.
AnswerIsOwn ==
  \A r \in Offers : req[<<"offer", r>>].out = "ok" => run[r].state = "done"

\* A run that nobody told to stop belongs to the connection its answer goes to.
NoStrayRun == \A r \in Offers : run[r].state = "live" => run[r].link = node.link

\* Both of a job's runs.
RunsAnswerOffers == AnswerIsOwn /\ NoStrayRun

\* In the end the node's own drain state is the one of its row, whatever
\* answers were lost and whatever handlers overlapped (reconcile by hello and
\* by heartbeat).
DrainSettles == <>[](node.draining = row)

\* "Drain intent is durable and controller-authoritative": the row keeps the
\* operator's last decision.
DrainIntentKept == row = wish.value
=============================================================================
