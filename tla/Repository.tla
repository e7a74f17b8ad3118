----------------------------- MODULE Repository -----------------------------
(***************************************************************************)
(* What the persistence port promises: every operation of the repository   *)
(* takes effect in one indivisible step.  The operations are those of      *)
(* packages/adapters/src/sqlite-repository.ts, where one process runs each *)
(* of them in an IMMEDIATE transaction or a single statement.  A table is  *)
(* a function from identifiers to rows; revision 0 means "no such row".    *)
(* The documents kept in the rows are reduced to the fields that some      *)
(* operation tests.  Each action is the case in which the operation is     *)
(* applied; Refused stands for every refusal, and for the reads.           *)
(***************************************************************************)
EXTENDS Integers, FiniteSets

CONSTANTS Users, Providers, Sessions, Channels, Nodes, Bindings, Documents,
          None,          \* "no owner" and "no expected provider revision"
          MaxTotal,      \* limits.maxTotal
          MaxPerOwner,   \* limits.maxPerOwner
          Revisions      \* the revisions a caller may name

VARIABLE db

Targets == Providers \cup Channels
NodeStates == {"joining", "online", "draining", "offline", "revoked"}
BindingStates == {"pending", "ready", "revoked"}

\* Rows as the migrations leave them: a JSON document, a revision and, for
\* providers and bindings, the deletion_pending column.
NoUser == [rev |-> 0, owner |-> FALSE, stale |-> FALSE]
NoProvider == [rev |-> 0, pending |-> FALSE]
NoSession == [rev |-> 0, owner |-> None, target |-> None, pinned |-> FALSE,
              recent |-> FALSE, deleting |-> FALSE]
NoChannel == [rev |-> 0, owner |-> None, publishing |-> FALSE]
NoNode == [rev |-> 0, state |-> "offline"]
\* Node identifiers are drawn at enrolment and not used a second time: a node
\* that has been removed is neither created nor ensured again.
RemovedNode == [rev |-> -1, state |-> "offline"]
NoBinding == [rev |-> 0, provider |-> None, node |-> None, state |-> "revoked",
              pending |-> FALSE]
NoDocument == [rev |-> 0, state |-> "open"]

Live(row) == row.rev > 0
At(row, e) == row.rev = e /\ e > 0

\* Every write of a row moves its revision.
Revised(row) == [row EXCEPT !.rev = @ + 1]

Init ==
  db = [users |-> [u \in Users |-> NoUser],
        providers |-> [p \in Providers |-> NoProvider],
        sessions |-> [s \in Sessions |-> NoSession],
        grants |-> [s \in Sessions |-> "none"],
        channels |-> [c \in Channels |-> NoChannel],
        nodes |-> [n \in Nodes |-> NoNode],
        certs |-> [n \in Nodes |-> 0],
        bindings |-> [b \in Bindings |-> NoBinding],
        documents |-> [k \in Documents |-> NoDocument]]

-----------------------------------------------------------------------------
(* Providers: two-phase deletion. *)

ProviderSessions(p) == {s \in Sessions : Live(db.sessions[s]) /\ db.sessions[s].target = p}
ProviderBindings(p) == {b \in Bindings : Live(db.bindings[b]) /\ db.bindings[b].provider = p}
providerDependencies(p) == ProviderSessions(p) \cup ProviderBindings(p)

createProvider(p) ==
  /\ ~Live(db.providers[p])
  /\ db' = [db EXCEPT !.providers[p] = [rev |-> 1, pending |-> FALSE]]

compareAndSetProvider(p, e) ==
  /\ At(db.providers[p], e) /\ ~db.providers[p].pending
  /\ db' = [db EXCEPT !.providers[p] = Revised(@)]

beginProviderDeletion(p) ==
  /\ Live(db.providers[p]) /\ ~db.providers[p].pending
  /\ providerDependencies(p) = {}
  /\ db' = [db EXCEPT !.providers[p] = [rev |-> @.rev + 1, pending |-> TRUE]]

finalizeProviderDeletion(p, e) ==
  /\ At(db.providers[p], e) /\ db.providers[p].pending
  /\ providerDependencies(p) = {}
  /\ db' = [db EXCEPT !.providers[p] = NoProvider]

-----------------------------------------------------------------------------
(* Sessions and the playback grants created and revoked with them. *)

createSessionWithPlaybackGrant(s, owner, target, e) ==
  /\ ~Live(db.sessions[s])
  /\ owner # None => Live(db.users[owner])
  /\ IF target \in Providers
       THEN Live(db.providers[target]) /\ ~db.providers[target].pending
       ELSE At(db.channels[target], e)
  /\ db' = [db EXCEPT !.grants[s] = "live",
              !.sessions[s] = [NoSession EXCEPT !.rev = 1, !.owner = owner,
                                                !.target = target, !.recent = TRUE]]

\* sameSessionIdentity fixes the source; the callers spread the row they read,
\* so the owner and the deletion flag stay as they are.
compareAndSetSession(s, e, pinned) ==
  /\ At(db.sessions[s], e)
  /\ db' = [db EXCEPT !.sessions[s] = [Revised(@) EXCEPT !.pinned = pinned]]

touchSessionPlaybackActivity(s) ==
  /\ Live(db.sessions[s]) /\ ~db.sessions[s].deleting /\ ~db.sessions[s].recent
  /\ db' = [db EXCEPT !.sessions[s] = [Revised(@) EXCEPT !.recent = TRUE]]

\* The inactivity cut-off of the retention sweep passes the last activity.
SessionGoesIdle(s) ==
  /\ Live(db.sessions[s]) /\ db.sessions[s].recent
  /\ db' = [db EXCEPT !.sessions[s].recent = FALSE]

\* listInactiveSessions: what the retention sweep picks its victims from.
listInactiveSessions ==
  {s \in Sessions : LET row == db.sessions[s] IN
     Live(row) /\ ~row.pinned /\ ~row.deleting /\ ~row.recent}

listSessionDeletionPending == {s \in Sessions : db.sessions[s].deleting}

\* sweep: called with requireUnpinned and inactiveBefore.
beginSessionDeletion(s, sweep) ==
  /\ Live(db.sessions[s]) /\ ~db.sessions[s].deleting
  /\ sweep => ~db.sessions[s].pinned /\ ~db.sessions[s].recent
  /\ db' = [db EXCEPT !.sessions[s] = [Revised(@) EXCEPT !.deleting = TRUE],
                      !.grants[s] = "revoked"]

deleteSessionAndRevokePlaybackGrants(s) ==
  /\ Live(db.sessions[s])
  /\ db' = [db EXCEPT !.sessions[s] = NoSession, !.grants[s] = "revoked"]

-----------------------------------------------------------------------------
(* Live channels. *)

LiveChannels == {c \in Channels : Live(db.channels[c])}
OwnedChannels(u) == {c \in LiveChannels : db.channels[c].owner = u}
OwnedSessions(u) == {s \in Sessions : Live(db.sessions[s]) /\ db.sessions[s].owner = u}

createLiveChannelWithinCapacity(c, owner) ==
  /\ ~Live(db.channels[c])
  /\ Cardinality(LiveChannels) < MaxTotal
  /\ owner # None => /\ Live(db.users[owner])
                     /\ Cardinality(OwnedChannels(owner)) < MaxPerOwner
  /\ db' = [db EXCEPT !.channels[c] = [rev |-> 1, owner |-> owner, publishing |-> FALSE]]

compareAndSetLiveChannel(c, e, publishing) ==
  /\ At(db.channels[c], e)
  /\ db' = [db EXCEPT !.channels[c] = [Revised(@) EXCEPT !.publishing = publishing]]

ChannelSessions(c) == {s \in Sessions : Live(db.sessions[s]) /\ db.sessions[s].target = c}

deleteLiveChannel(c, e) ==
  /\ At(db.channels[c], e) /\ ~db.channels[c].publishing
  /\ ChannelSessions(c) = {}
  /\ db' = [db EXCEPT !.channels[c] = NoChannel]

-----------------------------------------------------------------------------
(* User identities.  Someone must keep the owner role. *)

Owners == {u \in Users : Live(db.users[u]) /\ db.users[u].owner}

createUserIdentity(u) ==
  /\ ~Live(db.users[u])
  /\ db' = [db EXCEPT !.users[u] = [rev |-> 1, owner |-> FALSE, stale |-> FALSE]]

\* The sign-in refresh: roles as read, a new lastSeenAt.
compareAndSetUserIdentity(u, e) ==
  /\ At(db.users[u], e)
  /\ db' = [db EXCEPT !.users[u] = [Revised(@) EXCEPT !.stale = FALSE]]

UserGoesStale(u) ==
  /\ Live(db.users[u]) /\ ~db.users[u].stale
  /\ db' = [db EXCEPT !.users[u].stale = TRUE]

\* listUserIdentitiesLastSeenBefore: what the retention sweep may forget.
listUserIdentitiesLastSeenBefore ==
  {u \in Users : /\ Live(db.users[u]) /\ db.users[u].stale /\ ~db.users[u].owner
                 /\ OwnedSessions(u) = {} /\ OwnedChannels(u) = {}}

compareAndSetUserIdentityPreservingOwner(u, e, owner) ==
  /\ At(db.users[u], e)
  /\ db.users[u].owner /\ ~owner => Cardinality(Owners) > 1
  /\ db' = [db EXCEPT !.users[u] = [Revised(@) EXCEPT !.owner = owner]]

deleteUserIdentityPreservingOwner(u, e, sweep) ==
  /\ At(db.users[u], e)
  /\ sweep => db.users[u].stale
  /\ db.users[u].owner => Cardinality(Owners) > 1
  /\ OwnedSessions(u) = {} /\ OwnedChannels(u) = {}
  /\ db' = [db EXCEPT !.users[u] = NoUser]

-----------------------------------------------------------------------------
(* Cluster nodes and their certificates (certs: how many are not revoked). *)

Protected(state) == state \in {"draining", "revoked"}
NodeBindings(n) == {b \in Bindings : Live(db.bindings[b]) /\ db.bindings[b].node = n}

createNode(n) ==
  /\ db.nodes[n].rev = 0
  /\ db' = [db EXCEPT !.nodes[n] = [rev |-> 1, state |-> "joining"], !.certs[n] = @ + 1]

ensureLocalNode(n) ==
  /\ db.nodes[n].rev >= 0
  /\ db' = [db EXCEPT !.nodes[n] =
              [rev |-> @.rev + 1,
               state |-> IF Live(@) /\ Protected(@.state) THEN @.state ELSE "online"]]

recordNodeHeartbeat(n, e) ==
  /\ At(db.nodes[n], e)
  /\ db' = [db EXCEPT !.nodes[n] =
              [rev |-> @.rev + 1, state |-> IF Protected(@.state) THEN @.state ELSE "online"]]

setNodeDrain(n, e, draining) ==
  /\ At(db.nodes[n], e) /\ db.nodes[n].state # "revoked"
  /\ db' = [db EXCEPT !.nodes[n] =
              [rev |-> @.rev + 1,
               state |-> IF draining THEN "draining"
                         ELSE IF @.state = "draining" THEN "online" ELSE @.state]]

setNodeOperationalState(n, e, state) ==
  /\ At(db.nodes[n], e) /\ ~Protected(db.nodes[n].state)
  /\ db' = [db EXCEPT !.nodes[n] = [rev |-> @.rev + 1, state |-> state]]

removeNode(n, e) ==
  /\ At(db.nodes[n], e) /\ db.nodes[n].state = "revoked"
  /\ NodeBindings(n) = {}
  /\ db' = [db EXCEPT !.nodes[n] = RemovedNode]

rotateNodeCertificate(n, e) ==
  /\ At(db.nodes[n], e) /\ db.nodes[n].state # "revoked"
  /\ db' = [db EXCEPT !.nodes[n] = Revised(@), !.certs[n] = 1]

revokeNode(n, e) ==
  /\ At(db.nodes[n], e)
  /\ db' = [db EXCEPT !.nodes[n] = [rev |-> @.rev + 1, state |-> "revoked"],
                      !.certs[n] = 0,
                      !.bindings = [b \in Bindings |->
                         IF b \in NodeBindings(n)
                           THEN [Revised(@[b]) EXCEPT !.state = "revoked"]
                           ELSE @[b]]]

-----------------------------------------------------------------------------
(* Bindings of a provider to the node that holds its credential. *)

\* e: the provider revision the caller read, None to create the provider too.
createProviderBinding(b, p, n, e) ==
  /\ ~Live(db.bindings[b])
  /\ Live(db.nodes[n]) /\ db.nodes[n].state # "revoked"
  /\ IF e = None THEN ~Live(db.providers[p])
                 ELSE At(db.providers[p], e) /\ ~db.providers[p].pending
  /\ db' = [db EXCEPT !.providers[p] = Revised(@),
              !.bindings[b] = [rev |-> 1, provider |-> p, node |-> n,
                               state |-> "pending", pending |-> FALSE]]

compareAndSetProviderBinding(b, e, state) ==
  /\ At(db.bindings[b], e) /\ ~db.bindings[b].pending
  /\ db' = [db EXCEPT !.bindings[b] = [Revised(@) EXCEPT !.state = state]]

beginProviderBindingDeletion(b) ==
  /\ Live(db.bindings[b]) /\ ~db.bindings[b].pending
  /\ db' = [db EXCEPT !.bindings[b] = 
                 [rev |-> @.rev + 1, provider |-> @.provider, node |-> @.node,
                  state |-> "revoked", pending |-> TRUE]]

finalizeProviderBindingDeletion(b, e) ==
  /\ At(db.bindings[b], e) /\ db.bindings[b].pending
  /\ db' = [db EXCEPT !.bindings[b] = NoBinding]

-----------------------------------------------------------------------------
(* Rows that refer to nothing: profiles, settings, compatibility results,  *)
(* segment jobs and VOD producers.                                         *)

insertIfAbsent(k) ==
  /\ ~Live(db.documents[k])
  /\ db' = [db EXCEPT !.documents[k] = [rev |-> 1, state |-> "open"]]

put(k) == db' = [db EXCEPT !.documents[k] = [rev |-> @.rev + 1, state |-> "open"]]

\* A transition names the states it may leave; here only "open" may be left.
compareAndSetVersioned(k, e) ==
  /\ At(db.documents[k], e) /\ db.documents[k].state = "open"
  /\ db' = [db EXCEPT !.documents[k] = [rev |-> @.rev + 1, state |-> "closed"]]

delete(k) ==
  /\ Live(db.documents[k])
  /\ db' = [db EXCEPT !.documents[k] = NoDocument]

-----------------------------------------------------------------------------
ProviderNext == \E p \in Providers :
  \/ createProvider(p) \/ beginProviderDeletion(p)
  \/ \E e \in Revisions : compareAndSetProvider(p, e) \/ finalizeProviderDeletion(p, e)

SessionNext == \E s \in Sessions :
  \/ \E o \in Users \cup {None}, t \in Targets, e \in Revisions :
       createSessionWithPlaybackGrant(s, o, t, e)
  \/ \E e \in Revisions, q \in BOOLEAN : compareAndSetSession(s, e, q)
  \/ touchSessionPlaybackActivity(s) \/ SessionGoesIdle(s)
  \/ \E q \in BOOLEAN : beginSessionDeletion(s, q)
  \/ deleteSessionAndRevokePlaybackGrants(s)

ChannelNext == \E c \in Channels :
  \/ \E o \in Users \cup {None} : createLiveChannelWithinCapacity(c, o)
  \/ \E e \in Revisions, q \in BOOLEAN : compareAndSetLiveChannel(c, e, q)
  \/ \E e \in Revisions : deleteLiveChannel(c, e)

UserNext == \E u \in Users :
  \/ createUserIdentity(u) \/ UserGoesStale(u)
  \/ \E e \in Revisions : compareAndSetUserIdentity(u, e)
  \/ \E e \in Revisions, q \in BOOLEAN :
       \/ compareAndSetUserIdentityPreservingOwner(u, e, q)
       \/ deleteUserIdentityPreservingOwner(u, e, q)

NodeNext == \E n \in Nodes :
  \/ createNode(n) \/ ensureLocalNode(n)
  \/ \E e \in Revisions :
       \/ recordNodeHeartbeat(n, e) \/ removeNode(n, e)
       \/ rotateNodeCertificate(n, e) \/ revokeNode(n, e)
       \/ \E q \in BOOLEAN : setNodeDrain(n, e, q)
       \/ \E q \in {"joining", "online", "offline"} : setNodeOperationalState(n, e, q)

BindingNext == \E b \in Bindings :
  \/ \E p \in Providers, n \in Nodes, e \in Revisions \cup {None} :
       createProviderBinding(b, p, n, e)
  \/ \E e \in Revisions, q \in BindingStates : compareAndSetProviderBinding(b, e, q)
  \/ beginProviderBindingDeletion(b)
  \/ \E e \in Revisions : finalizeProviderBindingDeletion(b, e)

DocumentNext == \E k \in Documents :
  \/ insertIfAbsent(k) \/ put(k) \/ delete(k)
  \/ \E e \in Revisions : compareAndSetVersioned(k, e)

\* not-found, revision-conflict, invalid-state, dependency-conflict, a limit.
Refused == UNCHANGED db

Next == \/ Refused
        \/ ProviderNext \/ SessionNext \/ ChannelNext \/ UserNext
        \/ NodeNext \/ BindingNext \/ DocumentNext

Spec == Init /\ [][Next]_db

-----------------------------------------------------------------------------
(* What callers of the port rely on. *)

\* No row outlives what it refers to: a session its owner and its source, a
\* channel its owner, a binding its provider and its node.
NoDanglingReference ==
  /\ \A s \in Sessions : LET row == db.sessions[s] IN Live(row) =>
       /\ row.owner # None => Live(db.users[row.owner])
       /\ IF row.target \in Providers THEN Live(db.providers[row.target])
                                      ELSE Live(db.channels[row.target])
  /\ \A c \in LiveChannels : db.channels[c].owner # None => Live(db.users[db.channels[c].owner])
  /\ \A b \in Bindings : Live(db.bindings[b]) =>
       Live(db.providers[db.bindings[b].provider]) /\ Live(db.nodes[db.bindings[b].node])

\* A provider being deleted gains no session and no binding.
PendingProviderUnused ==
  \A p \in Providers : db.providers[p].pending => providerDependencies(p) = {}

\* A playback grant works only while its session exists and is not being deleted.
GrantsFollowSession ==
  \A s \in Sessions :
    db.grants[s] = "live" <=> Live(db.sessions[s]) /\ ~db.sessions[s].deleting

\* The channel limits hold however many creations race.
WithinCapacity ==
  /\ Cardinality(LiveChannels) <= MaxTotal
  /\ \A u \in Users : Cardinality(OwnedChannels(u)) <= MaxPerOwner

\* A node has at most one certificate that is not revoked, a revoked node none.
OneActiveCertificate ==
  \A n \in Nodes : db.certs[n] <= IF Live(db.nodes[n]) /\ db.nodes[n].state # "revoked"
                                    THEN 1 ELSE 0

\* The rows agree with one another after every operation.
RowsConsistent == NoDanglingReference /\ PendingProviderUnused /\ GrantsFollowSession
                    /\ WithinCapacity /\ OneActiveCertificate

\* Once someone is owner, someone always is.
OwnerKept == [][Owners # {} => Owners' # {}]_db

\* A revoked node stays revoked until it is removed, whatever heartbeat, drain
\* or rotation was under way.
RevocationFinal ==
  [][\A n \in Nodes : db.nodes[n].state = "revoked" /\ Live(db.nodes[n]) /\ Live(db.nodes[n])' =>
       db'.nodes[n].state = "revoked"]_db
=============================================================================
