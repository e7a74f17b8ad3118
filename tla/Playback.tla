------------------------------ MODULE Playback ------------------------------
(***************************************************************************)
(* A playback link on its way through the nodes: who may play (the grant   *)
(* of the link, the state of the session, links signed for one edge), how  *)
(* viewers are counted (a salt that all nodes share, the viewer sets of    *)
(* the coordination store, the count in the session row) and the timer     *)
(* that corrects the count.  Redis runs command by command; the session    *)
(* row is compared and set.  Segments themselves are the subject of        *)
(* SegmentCache, VodDemand and SegmentJobs.                                *)
(***************************************************************************)
EXTENDS Integers, FiniteSets

CONSTANTS Viewer,
          Home,          \* the node that is a controller too
          Edge,          \* nodes that are edges only
          Timer,         \* cleanupExpiredCache
          None,
          MaxAsks, MaxTries, MaxFaults

Node == {Home} \cup Edge
Task == Viewer \cup {Timer}

VARIABLES grant,     \* the link is neither revoked nor expired
          row,       \* the session: its state and the number of viewers
          salt, key, \* the settings, named by the request that made them
          cached,    \* per node: the salt it keeps
          total,     \* the viewer set: hashes, that is viewer and salt
          old,       \* those of them that are out of the window
          issued,    \* links signed for an edge, with the key
          req,       \* per task: where it is and what it has read
          fresh,     \* tasks that have read the row as it is
          entitled,  \* viewers whose request was permitted at some time
          served, asks, faults

vars == <<grant, row, salt, key, cached, total, old, issued, req, fresh, entitled, served,
          asks, faults>>
settings == <<salt, key, cached, issued>>
sets == <<total, old>>

Plain == [edge |-> None, key |-> None]
Link == {Plain} \cup [edge : Edge, key : Viewer]
Idle == [at |-> "idle", node |-> Home, link |-> Plain, what |-> "segment", hash |-> None,
         seen |-> 0, count |-> 0, tries |-> 0]

TypeOK ==
  /\ grant \in BOOLEAN
  /\ row \in [state : {"idle", "stopped", "deleting", "gone"}, viewers : 0 .. 2 * Cardinality(Viewer)]
  /\ {salt, key} \subseteq Viewer \cup {None} /\ cached \in [Node -> Viewer \cup {None}]
  /\ total \subseteq Viewer \X Viewer /\ old \subseteq total /\ issued \subseteq Link
  /\ \A t \in Task : req[t].link \in Link /\ req[t].tries \in 0 .. MaxTries
  /\ fresh \subseteq Task /\ {entitled, served} \subseteq SUBSET Viewer

Init ==
  /\ grant = TRUE /\ row = [state |-> "idle", viewers |-> 0]
  /\ salt \in Viewer \cup {None} /\ cached \in [Node -> {None, salt}] /\ key = None
  /\ total = {} /\ old = {} /\ issued = {} /\ req = [t \in Task |-> Idle]
  /\ fresh = {} /\ entitled = {} /\ served = {} /\ asks = 0 /\ faults = 0

Goto(t, l) == req' = [req EXCEPT ![t].at = l]
At(t, l) == req[t].at = l
Ends(t) == req' = [req EXCEPT ![t] = Idle]
Playing == row.state = "idle"

\* The link may be used at the node: a link of its own at an edge, there only.
ForNode(link, n) == IF link = Plain THEN n \notin Edge ELSE n \in Edge => link.edge = n
Permitted(r) == grant /\ Playing /\ ForNode(r.link, r.node)

----------------------------------------------------------------------------
(* The routes: a manifest, or something that is played.                      *)

ask(v, n, link, what) ==
  /\ At(v, "idle") /\ asks < MaxAsks /\ asks' = asks + 1
  /\ req' = [req EXCEPT ![v] = [Idle EXCEPT !.at = "salt", !.node = n, !.link = link, !.what = what]]
  /\ served' = served \ {v}
  /\ UNCHANGED <<grant, row, settings, sets, fresh, faults>>

others == <<served, asks, faults>>

\* viewerIdentity: the salt that the node keeps, the stored one, or a new one.
viewerIdentity(v) ==
  LET n == req[v].node IN
  /\ At(v, "salt")
  /\ IF cached[n] = None /\ salt = None
     THEN Goto(v, "newsalt") /\ UNCHANGED cached
     ELSE LET s == IF cached[n] # None THEN cached[n] ELSE salt IN
          /\ cached' = [cached EXCEPT ![n] = s]
          /\ req' = [req EXCEPT ![v].at = "grant", ![v].hash = s]
  /\ UNCHANGED <<grant, row, salt, key, issued, sets, fresh, others>>

\* Stored only if there is none; who comes second takes the first.
getViewerSalt(v) ==
  LET n == req[v].node
      s == IF salt = None THEN v ELSE salt IN
  /\ At(v, "newsalt") /\ salt' = s /\ cached' = [cached EXCEPT ![n] = s]
  /\ req' = [req EXCEPT ![v].at = "grant", ![v].hash = s]
  /\ UNCHANGED <<grant, row, key, issued, sets, fresh, others>>

Refuse(t) == Ends(t)

MutantResolvePlaybackGrant(v) ==
  LET r == req[v] IN
  /\ r.at \in {"grant", "grant2"}
  /\ IF grant /\ (r.link # Plain => r.link.key = key)
     THEN Goto(v, IF r.at = "grant" THEN "session" ELSE "session2") ELSE Refuse(v)
  /\ UNCHANGED <<grant, row, settings, sets, fresh, others>>

\* resolvePlaybackGrant: the signature, the node, the grant.
resolvePlaybackGrant(v) ==
  LET r == req[v] IN
  /\ r.at \in {"grant", "grant2"}
  /\ IF grant /\ ForNode(r.link, r.node) /\ (r.link # Plain => r.link.key = key)
     THEN Goto(v, IF r.at = "grant" THEN "session" ELSE "session2") ELSE Refuse(v)
  /\ UNCHANGED <<grant, row, settings, sets, fresh, others>>

\* #playback goes on: a session that is gone or stopped is not played.
playback(v) ==
  /\ At(v, "session")
  /\ IF Playing THEN req' = [req EXCEPT ![v].at = "zadd", ![v].seen = row.viewers] ELSE Refuse(v)
  /\ UNCHANGED <<grant, row, settings, sets, fresh, others>>

----------------------------------------------------------------------------
(* touchViewer: the set, then the row.                                       *)

recordViewer(v) ==
  LET h == <<v, req[v].hash>> IN
  /\ At(v, "zadd") /\ req' = [req EXCEPT ![v].at = "zrem", ![v].hash = None]
  /\ total' = total \cup {h} /\ old' = old \ {h}
  /\ UNCHANGED <<grant, row, settings, fresh, others>>

\* zremrangebyscore, for both of them.
pruneViewers(t) ==
  /\ At(t, "zrem") /\ total' = total \ old /\ old' = {} /\ Goto(t, "zcard")
  /\ UNCHANGED <<grant, row, settings, fresh, others>>

\* What follows the count: the row, if it says something else.
Onward(t) ==
  req' = [req EXCEPT ![t] = IF t = Timer THEN Idle
                            ELSE [req[t] EXCEPT !.at = "next", !.seen = 0, !.count = 0, !.tries = 0]]
Counted(t, n) ==
  IF req[t].seen = n THEN Onward(t)
  ELSE req' = [req EXCEPT ![t].at = "read", ![t].seen = 0, ![t].count = n]

countViewers(t) ==
  /\ At(t, "zcard")
  /\ IF t = Timer /\ total = {} THEN Goto(t, "del") ELSE Counted(t, Cardinality(total))
  /\ UNCHANGED <<grant, row, settings, sets, fresh, others>>

\* The timer deletes a key that it found empty.
deleteEmpty ==
  /\ At(Timer, "del") /\ total' = {} /\ old' = {} /\ Counted(Timer, 0)
  /\ UNCHANGED <<grant, row, settings, fresh, others>>

readSession(t) ==
  /\ At(t, "read")
  /\ IF row.state = "gone" THEN Ends(t) /\ UNCHANGED fresh
     ELSE Goto(t, "cas") /\ fresh' = fresh \cup {t}
  /\ UNCHANGED <<grant, row, settings, sets, others>>

\* Again, until it has been tried too often.
setSessionViewers(t) ==
  /\ At(t, "cas") /\ fresh' = {}
  /\ IF t \in fresh
     THEN /\ row' = [row EXCEPT !.viewers = req[t].count]
          /\ Onward(t)
     ELSE /\ UNCHANGED row
          /\ IF req[t].tries + 1 = MaxTries THEN Ends(t)
             ELSE req' = [req EXCEPT ![t].at = "read", ![t].tries = @ + 1]
  /\ UNCHANGED <<grant, settings, sets, others>>

----------------------------------------------------------------------------
(* What is asked for.                                                        *)

\* The manifest at home is routed to an edge, for which the link is exchanged; a
\* controller without an edge refuses.
selectEdge(v) ==
  /\ At(v, "next")
  /\ \/ Goto(v, "grant2")
     \/ /\ req[v].what = "manifest" /\ req[v].node = Home
        /\ Refuse(v) \/ (req[v].link = Plain /\ Goto(v, "sign"))
  /\ UNCHANGED <<grant, row, settings, sets, fresh, others>>

\* A link for an edge; a live stream is redirected to it, a manifest is made.
encodeEdgeGrant(v, k) ==
  /\ \E e \in Edge : issued' = issued \cup {[edge |-> e, key |-> k]}
  /\ \/ served' = served \cup {v} /\ Ends(v)
     \/ UNCHANGED served /\ Goto(v, "grant2")

\* createEdgePlaybackGrant: the grant and the session once more, then the key.
createEdgePlaybackGrant(v) ==
  /\ At(v, "sign")
  /\ IF ~grant \/ row.state = "gone" THEN Refuse(v) /\ UNCHANGED <<issued, served>>
     ELSE IF key = None THEN Goto(v, "newkey") /\ UNCHANGED <<issued, served>>
     ELSE encodeEdgeGrant(v, key)
  /\ UNCHANGED <<grant, row, salt, key, cached, sets, fresh, asks, faults>>

edgeGrantSigningKey(v) ==
  LET k == IF key = None THEN v ELSE key IN
  /\ At(v, "newkey") /\ key' = k /\ encodeEdgeGrant(v, k)
  /\ UNCHANGED <<grant, row, salt, cached, sets, fresh, asks, faults>>

\* manifest, segment, initSegment and resolveLive check again, and answer.
serve(v) ==
  /\ At(v, "session2")
  /\ served' = IF Playing THEN served \cup {v} ELSE served
  /\ Ends(v)
  /\ UNCHANGED <<grant, row, settings, sets, fresh, asks, faults>>

\* A call to the repository or to Redis fails, and with it the request.
Fails(t) ==
  /\ ~At(t, "idle") /\ faults < MaxFaults /\ faults' = faults + 1 /\ Ends(t)
  /\ UNCHANGED <<grant, row, settings, sets, fresh, served, asks>>

----------------------------------------------------------------------------
(* The timer, time, and operators.                                           *)

cleanupExpiredCache ==
  /\ At(Timer, "idle") /\ row.state # "gone"
  /\ req' = [req EXCEPT ![Timer].at = "zrem", ![Timer].seen = row.viewers]
  /\ UNCHANGED <<grant, row, settings, sets, fresh, others>>

\* A viewer has asked for nothing for the whole window.
Ages(h) ==
  /\ h \in total \ old /\ At(h[1], "idle") /\ old' = old \cup {h}
  /\ UNCHANGED <<grant, row, settings, total, req, fresh, others>>

\* Retention in Redis: the key of a session nobody touches disappears.
KeyExpires ==
  /\ total # {} /\ total = old /\ total' = {} /\ old' = {}
  /\ UNCHANGED <<grant, row, settings, req, fresh, others>>

Changed(s) == row' = [row EXCEPT !.state = s] /\ fresh' = {}

\* Stopped, or started again.
control(s) ==
  /\ {row.state, s} = {"idle", "stopped"} /\ Changed(s)
  /\ UNCHANGED <<grant, settings, sets, req, others>>
beginSessionDeletion ==
  /\ row.state \in {"idle", "stopped"} /\ Changed("deleting") /\ grant' = FALSE
  /\ UNCHANGED <<settings, sets, req, others>>
deleteSessionAndRevokePlaybackGrants ==
  /\ row.state = "deleting" /\ Changed("gone") /\ UNCHANGED <<grant, settings, sets, req, others>>
grantExpires ==
  /\ grant /\ grant' = FALSE /\ UNCHANGED <<row, settings, sets, req, fresh, others>>

----------------------------------------------------------------------------

Serving(v) ==
  \/ viewerIdentity(v) \/ getViewerSalt(v) \/ resolvePlaybackGrant(v) \/ playback(v)
  \/ recordViewer(v) \/ pruneViewers(v) \/ countViewers(v) \/ readSession(v)
  \/ setSessionViewers(v) \/ selectEdge(v) \/ createEdgePlaybackGrant(v)
  \/ edgeGrantSigningKey(v) \/ serve(v)
Correcting ==
  \/ cleanupExpiredCache \/ pruneViewers(Timer) \/ countViewers(Timer) \/ deleteEmpty
  \/ readSession(Timer) \/ setSessionViewers(Timer)

\* A step, and whose request has been permitted since it was made.
Watched(A) ==
  /\ A
  /\ entitled' = {v \in Viewer : \/ At(v, "idle")' /\ v \in entitled
                                 \/ ~At(v, "idle") /\ v \in entitled
                                 \/ ~At(v, "idle")' /\ Permitted(req[v])'}

Next ==
  \/ \E v \in Viewer, n \in Node, link \in issued \cup {Plain}, what \in {"manifest", "segment"} :
       Watched(ask(v, n, link, what))
  \/ \E v \in Viewer : Watched(Serving(v))
  \/ \E t \in Task : Watched(Fails(t))
  \/ Watched(Correcting)
  \/ \E h \in total : Watched(Ages(h))
  \/ Watched(KeyExpires) \/ (\E s \in {"idle", "stopped"} : Watched(control(s))) \/ Watched(beginSessionDeletion)
  \/ Watched(deleteSessionAndRevokePlaybackGrants) \/ Watched(grantExpires)

\* Requests are carried on with, and the timer comes back.
Fairness ==
  /\ \A v \in Viewer : WF_vars(Watched(Serving(v)))
  /\ WF_vars(Watched(Correcting))

Spec == Init /\ [][Next]_vars /\ Fairness

(***************************************************************************)
(* What is answered was permitted while it was asked for: the link was     *)
(* valid, the session was playing, and at an edge the link was one for     *)
(* that edge, whatever is revoked, stopped or signed meanwhile.  All links *)
(* to edges are signed with the key that is stored and all viewers are     *)
(* hashed with the salt that is stored, though several nodes may be the    *)
(* first to need them: otherwise links are refused by the node they are    *)
(* meant for, and one viewer counts as two.                                *)
(***************************************************************************)
PlaybackSafe ==
  /\ served \subseteq entitled
  /\ \A link \in issued : link.key = key
  /\ \A n \in Node : cached[n] \in {None, salt}
  /\ \A h \in total : h[2] = salt

(***************************************************************************)
(* The number of viewers in the session row comes to be that of the viewer *)
(* set, whatever stale counts requests have written and however often they *)
(* gave up: the timer corrects it, also when nobody is left.               *)
(***************************************************************************)
ViewersSettle ==
  <>[](row.state = "gone" \/ row.viewers = Cardinality(total))

=============================================================================
