------------------------- MODULE PostgresRepository -------------------------
(***************************************************************************)
(* packages/adapters/src/postgres-repository.ts: the same operations, run  *)
(* by several processes against one PostgreSQL server.  A transaction is a *)
(* list of statements executed one by one under READ COMMITTED: a statement *)
(* sees what was committed when it runs, a locking statement waits for the *)
(* holders of its rows and then sees the newest version, locks are kept to *)
(* the end of the transaction, and nothing a transaction writes is visible *)
(* before its COMMIT.  A transaction whose statement finds a reason to     *)
(* refuse rolls back; one whose connection fails, or that PostgreSQL picks *)
(* to break a lock cycle, is rolled back as well.                          *)
(***************************************************************************)
EXTENDS Integers, FiniteSets, Sequences

CONSTANTS Clients,       \* pool connections of all control-plane processes
          Users, Providers, Sessions, Channels, Nodes, Bindings, Documents,
          None, MaxTotal, MaxPerOwner,
          Revisions,     \* the revisions a caller may name
          MaxRevision,   \* bound: only deletions start on a row this old,
          MaxUserRevision, \* and on a user this old
          MaxFailures    \* bound: connections lost in the middle of a transaction

\* The tables that are counted are finite, an identifier names a provider or a
\* channel, and None is neither a revision nor a user.
ASSUME TablesAssumption ==
  /\ IsFiniteSet(Channels) /\ IsFiniteSet(Users)
  /\ MaxTotal \in Nat /\ MaxPerOwner \in Nat
  /\ Providers \cap Channels = {}
  /\ None \notin Int /\ None \notin Users

VARIABLES db,        \* what is committed
          tx,        \* per connection: the request served and the next statement
          locks,     \* row locks held: <<client, row, mode>>
          failures

vars == <<db, tx, locks, failures>>

R == INSTANCE Repository

Live(row) == R!Live(row)
At(row, e) == R!At(row, e)
Revised(row) == R!Revised(row)

Idle == [req |-> None, next |-> 0]

Init == /\ R!Init
        /\ tx = [c \in Clients |-> Idle]
        /\ locks = {}
        /\ failures = 0

-----------------------------------------------------------------------------
(* Statements: the rows locked, the mode, and whether to carry on.          *)

\* The identifier of a removed node is not free again.
Exists(row) == db[row[1]][row[2]].rev # 0

\* SELECT ... FOR UPDATE, FOR SHARE: only a row that exists can be locked.
ForUpdate(row, carryOn) ==
  [rows |-> {r \in {row} : Exists(r)}, mode |-> "exclusive", go |-> carryOn]
ForShare(row, carryOn) ==
  [rows |-> {r \in {row} : Exists(r)}, mode |-> "shared", go |-> carryOn]
\* UPDATE and DELETE lock what they change, INSERT its key.
Write(rows) == [rows |-> rows, mode |-> "exclusive", go |-> TRUE]
Insert(row) == [rows |-> {r \in {row} : ~Exists(r)}, mode |-> "exclusive", go |-> ~Exists(row)]
\* pg_advisory_xact_lock
Advisory(name) == [rows |-> {<<"advisory", name>>}, mode |-> "exclusive", go |-> TRUE]
\* A plain SELECT sees the committed rows and locks nothing.
Read(carryOn) == [rows |-> {}, mode |-> "shared", go |-> carryOn]

Holds(c, row) == \E mode \in {"shared", "exclusive"} : <<c, row, mode>> \in locks

\* A transaction: its statements, and what its COMMIT makes visible.
Transaction(statements, commit) == [statements |-> statements, commit |-> commit]

-----------------------------------------------------------------------------
(* Providers. *)

providerDependencies(p) == R!ProviderSessions(p) \cup R!ProviderBindings(p)

createProvider(q) ==
  Transaction(<<Insert(<<"providers", q.id>>)>>,
              [db EXCEPT !.providers[q.id] = [rev |-> 1, pending |-> FALSE]])

compareAndSetProvider(q) ==
  LET row == db.providers[q.id] IN
  Transaction(<<ForUpdate(<<"providers", q.id>>, At(row, q.rev) /\ ~row.pending)>>,
              [db EXCEPT !.providers[q.id] = Revised(@)])

beginProviderDeletion(q) ==
  LET row == db.providers[q.id] IN
  Transaction(<<ForUpdate(<<"providers", q.id>>, Live(row) /\ ~row.pending),
                Read(providerDependencies(q.id) = {})>>,
              [db EXCEPT !.providers[q.id] = [rev |-> @.rev + 1, pending |-> TRUE]])

finalizeProviderDeletion(q) ==
  LET row == db.providers[q.id] IN
  Transaction(<<ForUpdate(<<"providers", q.id>>, At(row, q.rev) /\ row.pending),
                Read(providerDependencies(q.id) = {})>>,
              [db EXCEPT !.providers[q.id] = R!NoProvider])

-----------------------------------------------------------------------------
(* Sessions. *)

MutantSourceNotLocked(q) ==
  Transaction(<<Read(/\ q.owner # None => Live(db.users[q.owner])
                     /\ IF q.target \in Providers
                          THEN Live(db.providers[q.target]) /\ ~db.providers[q.target].pending
                          ELSE At(db.channels[q.target], q.rev)),
                Insert(<<"sessions", q.id>>)>>,
              [db EXCEPT !.grants[q.id] = "live",
                 !.sessions[q.id] = [R!NoSession EXCEPT !.rev = 1, !.owner = q.owner,
                                       !.target = q.target, !.recent = TRUE]])

\* The owner row, when there is an owner, then the provider or the channel.
createSessionWithPlaybackGrant(q) ==
  LET owner == IF q.owner = None THEN <<>>
               ELSE <<ForShare(<<"users", q.owner>>, Live(db.users[q.owner]))>>
      source == IF q.target \in Providers
                  THEN ForShare(<<"providers", q.target>>,
                                Live(db.providers[q.target]) /\ ~db.providers[q.target].pending)
                  ELSE ForShare(<<"channels", q.target>>, At(db.channels[q.target], q.rev))
  IN Transaction(owner \o <<source, Insert(<<"sessions", q.id>>)>>,
                 [db EXCEPT !.grants[q.id] = "live",
                    !.sessions[q.id] = [R!NoSession EXCEPT !.rev = 1, !.owner = q.owner,
                                          !.target = q.target, !.recent = TRUE]])

\* A read for sameSessionIdentity, then an UPDATE that names the revision.
compareAndSetSession(q) ==
  Transaction(<<Read(At(db.sessions[q.id], q.rev)),
                ForUpdate(<<"sessions", q.id>>, At(db.sessions[q.id], q.rev))>>,
              [db EXCEPT !.sessions[q.id] = [Revised(@) EXCEPT !.pinned = q.flag]])

touchSessionPlaybackActivity(q) ==
  LET row == db.sessions[q.id] IN
  Transaction(<<ForUpdate(<<"sessions", q.id>>, Live(row) /\ ~row.deleting /\ ~row.recent)>>,
              [db EXCEPT !.sessions[q.id] = [Revised(@) EXCEPT !.recent = TRUE]])

beginSessionDeletion(q) ==
  LET row == db.sessions[q.id] IN
  Transaction(<<ForUpdate(<<"sessions", q.id>>,
                          /\ Live(row) /\ ~row.deleting
                          /\ q.flag => ~row.pinned /\ ~row.recent),
                Write({<<"grants", q.id>>})>>,
              [db EXCEPT !.sessions[q.id] = [Revised(@) EXCEPT !.deleting = TRUE],
                         !.grants[q.id] = "revoked"])

\* The grants first, then the session: the opposite order of the operation above.
deleteSessionAndRevokePlaybackGrants(q) ==
  Transaction(<<Write({g \in {<<"grants", q.id>>} : db.grants[q.id] = "live"}),
                ForUpdate(<<"sessions", q.id>>, Live(db.sessions[q.id]))>>,
              [db EXCEPT !.sessions[q.id] = R!NoSession, !.grants[q.id] = "revoked"])

-----------------------------------------------------------------------------
(* Live channels and user identities. *)

createLiveChannelWithinCapacity(q) ==
  LET owner == IF q.owner = None THEN <<>>
               ELSE <<ForShare(<<"users", q.owner>>, Live(db.users[q.owner])),
                      Read(Cardinality(R!OwnedChannels(q.owner)) < MaxPerOwner)>>
  IN Transaction(<<Advisory("vrrelay:live-channels"),
                   Read(Cardinality(R!LiveChannels) < MaxTotal)>>
                   \o owner \o <<Insert(<<"channels", q.id>>)>>,
                 [db EXCEPT !.channels[q.id] =
                    [rev |-> 1, owner |-> q.owner, publishing |-> FALSE]])

compareAndSetLiveChannel(q) ==
  Transaction(<<ForUpdate(<<"channels", q.id>>, At(db.channels[q.id], q.rev))>>,
              [db EXCEPT !.channels[q.id] = [Revised(@) EXCEPT !.publishing = q.flag]])

MutantDeleteOnOldRead(q) ==
  Transaction(<<Read(At(db.channels[q.id], q.rev) /\ ~db.channels[q.id].publishing),
                ForUpdate(<<"channels", q.id>>, Live(db.channels[q.id])),
                Read(R!ChannelSessions(q.id) = {})>>,
              [db EXCEPT !.channels[q.id] = R!NoChannel])

deleteLiveChannel(q) ==
  LET row == db.channels[q.id] IN
  Transaction(<<ForUpdate(<<"channels", q.id>>, At(row, q.rev) /\ ~row.publishing),
                Read(R!ChannelSessions(q.id) = {})>>,
              [db EXCEPT !.channels[q.id] = R!NoChannel])

createUserIdentity(q) ==
  Transaction(<<Insert(<<"users", q.id>>)>>,
              [db EXCEPT !.users[q.id] = [rev |-> 1, owner |-> FALSE, stale |-> FALSE]])

compareAndSetUserIdentity(q) ==
  Transaction(<<ForUpdate(<<"users", q.id>>, At(db.users[q.id], q.rev))>>,
              [db EXCEPT !.users[q.id] = [Revised(@) EXCEPT !.stale = FALSE]])

MutantNoOwnerLock(q) ==
  LET row == db.users[q.id] IN
  Transaction(<<ForUpdate(<<"users", q.id>>, At(row, q.rev)),
                Read(row.owner /\ ~q.flag => Cardinality(R!Owners) > 1)>>,
              [db EXCEPT !.users[q.id] = [Revised(@) EXCEPT !.owner = q.flag]])

compareAndSetUserIdentityPreservingOwner(q) ==
  LET row == db.users[q.id] IN
  Transaction(<<Advisory("vrrelay:user-owners"),
                ForUpdate(<<"users", q.id>>, At(row, q.rev)),
                Read(row.owner /\ ~q.flag => Cardinality(R!Owners) > 1)>>,
              [db EXCEPT !.users[q.id] = [Revised(@) EXCEPT !.owner = q.flag]])

deleteUserIdentityPreservingOwner(q) ==
  LET row == db.users[q.id] IN
  Transaction(<<Advisory("vrrelay:user-owners"),
                ForUpdate(<<"users", q.id>>, At(row, q.rev) /\ (q.flag => row.stale)),
                Read(row.owner => Cardinality(R!Owners) > 1),
                Read(R!OwnedSessions(q.id) = {}),
                Read(R!OwnedChannels(q.id) = {})>>,
              [db EXCEPT !.users[q.id] = R!NoUser])

-----------------------------------------------------------------------------
(* Nodes, certificates and bindings. *)

createNode(q) ==
  Transaction(<<Insert(<<"nodes", q.id>>)>>,
              [db EXCEPT !.nodes[q.id] = [rev |-> 1, state |-> "joining"], !.certs[q.id] = @ + 1])

\* INSERT ... ON CONFLICT DO NOTHING locks the key it inserts; a row that was
\* there is locked next, and one removed in between is an error.
ensureLocalNode(q) ==
  LET row == db.nodes[q.id] IN
  Transaction(<<Write({r \in {<<"nodes", q.id>>} : ~Exists(r)}),
                ForUpdate(<<"nodes", q.id>>, Live(row) \/ Holds(q.by, <<"nodes", q.id>>))>>,
              [db EXCEPT !.nodes[q.id] =
                 [rev |-> @.rev + 1,
                  state |-> IF Live(row) /\ R!Protected(row.state) THEN row.state ELSE "online"]])

\* The next three read the node, build the new document from what they read
\* (kept in the request) and update it if the revision has not moved.
recordNodeHeartbeat(q) ==
  Transaction(<<Read(At(db.nodes[q.id], q.rev)),
                ForUpdate(<<"nodes", q.id>>, At(db.nodes[q.id], q.rev))>>,
              [db EXCEPT !.nodes[q.id] =
                 [rev |-> @.rev + 1, state |-> IF R!Protected(q.seen) THEN q.seen ELSE "online"]])

setNodeDrain(q) ==
  Transaction(<<Read(At(db.nodes[q.id], q.rev) /\ db.nodes[q.id].state # "revoked"),
                ForUpdate(<<"nodes", q.id>>, At(db.nodes[q.id], q.rev))>>,
              [db EXCEPT !.nodes[q.id] =
                 [rev |-> @.rev + 1,
                  state |-> IF q.flag THEN "draining"
                            ELSE IF q.seen = "draining" THEN "online" ELSE q.seen]])

setNodeOperationalState(q) ==
  LET row == db.nodes[q.id] IN
  Transaction(<<Read(At(row, q.rev) /\ ~R!Protected(row.state)),
                ForUpdate(<<"nodes", q.id>>, At(row, q.rev) /\ ~R!Protected(row.state))>>,
              [db EXCEPT !.nodes[q.id] = [rev |-> @.rev + 1, state |-> "offline"]])

removeNode(q) ==
  LET row == db.nodes[q.id] IN
  Transaction(<<ForUpdate(<<"nodes", q.id>>, At(row, q.rev) /\ row.state = "revoked"),
                Read(R!NodeBindings(q.id) = {})>>,
              [db EXCEPT !.nodes[q.id] = R!RemovedNode])

rotateNodeCertificate(q) ==
  LET row == db.nodes[q.id] IN
  Transaction(<<ForUpdate(<<"nodes", q.id>>, At(row, q.rev) /\ row.state # "revoked"),
                Write({<<"certs", q.id>>})>>,
              [db EXCEPT !.nodes[q.id] = Revised(@), !.certs[q.id] = 1])

MutantBindingsLockedFirst(q) ==
  Transaction(<<Write({<<"bindings", b>> : b \in R!NodeBindings(q.id)}),
                ForUpdate(<<"nodes", q.id>>, At(db.nodes[q.id], q.rev)),
                Write({<<"certs", q.id>>})>>,
              [db EXCEPT !.nodes[q.id] = [rev |-> @.rev + 1, state |-> "revoked"],
                         !.certs[q.id] = 0])

revokeNode(q) ==
  Transaction(<<ForUpdate(<<"nodes", q.id>>, At(db.nodes[q.id], q.rev)),
                Write({<<"bindings", b>> : b \in R!NodeBindings(q.id)}),
                Write({<<"certs", q.id>>})>>,
              [db EXCEPT !.nodes[q.id] = [rev |-> @.rev + 1, state |-> "revoked"],
                         !.certs[q.id] = 0,
                         !.bindings = [b \in Bindings |->
                            IF b \in R!NodeBindings(q.id)
                              THEN [Revised(@[b]) EXCEPT !.state = "revoked"]
                              ELSE @[b]]])

\* binding, node, provider, binding again, then the two writes.  A binding
\* found by the first statement is refused after the provider is read FOR SHARE.
createProviderBinding(q) ==
  LET provider == db.providers[q.provider]
      node == db.nodes[q.node]
      binding == <<"bindings", q.id>>
  IN Transaction(<<ForUpdate(binding, TRUE),
                   IF Holds(q.by, binding)
                     THEN ForShare(<<"providers", q.provider>>, FALSE)
                     ELSE ForShare(<<"nodes", q.node>>, Live(node) /\ node.state # "revoked"),
                   ForUpdate(<<"providers", q.provider>>, TRUE),
                   ForUpdate(binding, ~Exists(binding)),
                   IF q.rev = None
                     THEN Insert(<<"providers", q.provider>>)
                     ELSE Read(/\ Holds(q.by, <<"providers", q.provider>>)
                               /\ At(provider, q.rev) /\ ~provider.pending),
                   Insert(binding)>>,
                 [db EXCEPT !.providers[q.provider] = Revised(@),
                    !.bindings[q.id] = [rev |-> 1, provider |-> q.provider, node |-> q.node,
                                        state |-> "pending", pending |-> FALSE]])

compareAndSetProviderBinding(q) ==
  LET row == db.bindings[q.id] IN
  Transaction(<<ForUpdate(<<"bindings", q.id>>, At(row, q.rev) /\ ~row.pending)>>,
              [db EXCEPT !.bindings[q.id] = [Revised(@) EXCEPT !.state = "ready"]])

beginProviderBindingDeletion(q) ==
  LET row == db.bindings[q.id] IN
  Transaction(<<ForUpdate(<<"bindings", q.id>>, Live(row) /\ ~row.pending)>>,
              [db EXCEPT !.bindings[q.id] = 
                 [rev |-> @.rev + 1, provider |-> @.provider, node |-> @.node,
                  state |-> "revoked", pending |-> TRUE]])

finalizeProviderBindingDeletion(q) ==
  LET row == db.bindings[q.id] IN
  Transaction(<<ForUpdate(<<"bindings", q.id>>, At(row, q.rev) /\ row.pending)>>,
              [db EXCEPT !.bindings[q.id] = R!NoBinding])
-----------------------------------------------------------------------------
(* Documents without references. *)

insertIfAbsent(q) ==
  Transaction(<<Insert(<<"documents", q.id>>)>>,
              [db EXCEPT !.documents[q.id] = [rev |-> 1, state |-> "open"]])

put(q) ==
  Transaction(<<Write({<<"documents", q.id>>})>>,
              [db EXCEPT !.documents[q.id] = [rev |-> @.rev + 1, state |-> "open"]])

compareAndSetVersioned(q) ==
  LET row == db.documents[q.id] IN
  Transaction(<<ForUpdate(<<"documents", q.id>>, At(row, q.rev) /\ row.state = "open")>>,
              [db EXCEPT !.documents[q.id] = [rev |-> @.rev + 1, state |-> "closed"]])

delete(q) ==
  Transaction(<<ForUpdate(<<"documents", q.id>>, Exists(<<"documents", q.id>>))>>,
              [db EXCEPT !.documents[q.id] = R!NoDocument])

-----------------------------------------------------------------------------
(* Requests: the callers of the port name a row and the revision they read. *)

Ask(c, op, id, row) ==
  [op |-> op, by |-> c, id |-> id, rev |-> row.rev, flag |-> FALSE, owner |-> None,
   target |-> None, provider |-> None, node |-> None, seen |-> None]

Deletions == {"finalizeProviderDeletion", "deleteSessionAndRevokePlaybackGrants",
              "deleteLiveChannel", "deleteUserIdentityPreservingOwner", "removeNode",
              "finalizeProviderBindingDeletion", "delete"}

\* Only deletions start on a row that has reached the bound on revisions; a
\* removed node is not asked for again.
Table(c, rows, bound, ops) ==
  {Ask(c, op, id, rows[id]) : op \in ops, id \in {i \in DOMAIN rows : rows[i].rev \in 0 .. bound - 1}}
  \cup {Ask(c, op, id, rows[id]) : op \in ops \cap Deletions,
                                   id \in {i \in DOMAIN rows : rows[i].rev >= bound}}
WithFlag(asked) == {[q EXCEPT !.flag = f] : q \in asked, f \in BOOLEAN}
Seen(q) == [q EXCEPT !.seen = db.nodes[q.id].state]
OwnedBy(q, o) == [q EXCEPT !.owner = o]
Watching(q, o, t) ==
  [q EXCEPT !.owner = o, !.target = t, !.rev = IF t \in Channels THEN db.channels[t].rev ELSE 0]
Binding(q, p, n) ==
  [q EXCEPT !.provider = p, !.node = n,
            !.rev = IF Live(db.providers[p]) THEN db.providers[p].rev ELSE None]

\* The requests a caller may send now, of the operations in ops.
Requests(c, ops) ==
  Table(c, db.providers, MaxRevision, ops \cap {"createProvider", "compareAndSetProvider",
                          "beginProviderDeletion", "finalizeProviderDeletion"})
  \cup {Watching(q, o, t) :
          q \in Table(c, db.sessions, MaxRevision, ops \cap {"createSessionWithPlaybackGrant"}),
          o \in Users \cup {None}, t \in Providers \cup Channels}
  \cup WithFlag(Table(c, db.sessions, MaxRevision, ops \cap {"compareAndSetSession", "beginSessionDeletion"}))
  \cup Table(c, db.sessions, MaxRevision, ops \cap {"touchSessionPlaybackActivity",
                              "deleteSessionAndRevokePlaybackGrants"})
  \cup {OwnedBy(q, o) :
          q \in Table(c, db.channels, MaxRevision, ops \cap {"createLiveChannelWithinCapacity"}),
          o \in Users \cup {None}}
  \cup WithFlag(Table(c, db.channels, MaxRevision, ops \cap {"compareAndSetLiveChannel"}))
  \cup Table(c, db.channels, MaxRevision, ops \cap {"deleteLiveChannel"})
  \cup Table(c, db.users, MaxUserRevision, ops \cap {"createUserIdentity", "compareAndSetUserIdentity"})
  \cup WithFlag(Table(c, db.users, MaxUserRevision, ops \cap {"compareAndSetUserIdentityPreservingOwner",
                                    "deleteUserIdentityPreservingOwner"}))
  \cup Table(c, db.nodes, MaxRevision, ops \cap {"createNode", "ensureLocalNode", "removeNode",
                           "rotateNodeCertificate", "revokeNode", "setNodeOperationalState"})
  \cup {Seen(q) : q \in Table(c, db.nodes, MaxRevision, ops \cap {"recordNodeHeartbeat"})
                          \cup WithFlag(Table(c, db.nodes, MaxRevision, ops \cap {"setNodeDrain"}))}
  \cup {Binding(q, p, n) :
          q \in Table(c, db.bindings, MaxRevision, ops \cap {"createProviderBinding"}),
          p \in {p \in Providers : db.providers[p].rev < MaxRevision}, n \in Nodes}
  \cup Table(c, db.bindings, MaxRevision, ops \cap {"compareAndSetProviderBinding", "beginProviderBindingDeletion",
                              "finalizeProviderBindingDeletion"})
  \cup Table(c, db.documents, MaxRevision, ops \cap {"insertIfAbsent", "put", "compareAndSetVersioned", "delete"})

Operations ==
  {"createProvider", "compareAndSetProvider", "beginProviderDeletion",
   "finalizeProviderDeletion", "createSessionWithPlaybackGrant",
   "compareAndSetSession", "touchSessionPlaybackActivity", "beginSessionDeletion",
   "deleteSessionAndRevokePlaybackGrants", "createLiveChannelWithinCapacity",
   "compareAndSetLiveChannel", "deleteLiveChannel", "createUserIdentity",
   "compareAndSetUserIdentity", "compareAndSetUserIdentityPreservingOwner",
   "deleteUserIdentityPreservingOwner", "createNode", "ensureLocalNode",
   "recordNodeHeartbeat", "setNodeDrain", "setNodeOperationalState", "removeNode",
   "rotateNodeCertificate", "revokeNode", "createProviderBinding",
   "compareAndSetProviderBinding", "beginProviderBindingDeletion",
   "finalizeProviderBindingDeletion", "insertIfAbsent", "put",
   "compareAndSetVersioned", "delete"}

Script(q) ==
  CASE q.op = "createProvider" -> createProvider(q)
    [] q.op = "compareAndSetProvider" -> compareAndSetProvider(q)
    [] q.op = "beginProviderDeletion" -> beginProviderDeletion(q)
    [] q.op = "finalizeProviderDeletion" -> finalizeProviderDeletion(q)
    [] q.op = "createSessionWithPlaybackGrant" -> createSessionWithPlaybackGrant(q)
    [] q.op = "compareAndSetSession" -> compareAndSetSession(q)
    [] q.op = "touchSessionPlaybackActivity" -> touchSessionPlaybackActivity(q)
    [] q.op = "beginSessionDeletion" -> beginSessionDeletion(q)
    [] q.op = "deleteSessionAndRevokePlaybackGrants" -> deleteSessionAndRevokePlaybackGrants(q)
    [] q.op = "createLiveChannelWithinCapacity" -> createLiveChannelWithinCapacity(q)
    [] q.op = "compareAndSetLiveChannel" -> compareAndSetLiveChannel(q)
    [] q.op = "deleteLiveChannel" -> deleteLiveChannel(q)
    [] q.op = "createUserIdentity" -> createUserIdentity(q)
    [] q.op = "compareAndSetUserIdentity" -> compareAndSetUserIdentity(q)
    [] q.op = "compareAndSetUserIdentityPreservingOwner" ->
         compareAndSetUserIdentityPreservingOwner(q)
    [] q.op = "deleteUserIdentityPreservingOwner" -> deleteUserIdentityPreservingOwner(q)
    [] q.op = "createNode" -> createNode(q)
    [] q.op = "ensureLocalNode" -> ensureLocalNode(q)
    [] q.op = "recordNodeHeartbeat" -> recordNodeHeartbeat(q)
    [] q.op = "setNodeDrain" -> setNodeDrain(q)
    [] q.op = "setNodeOperationalState" -> setNodeOperationalState(q)
    [] q.op = "removeNode" -> removeNode(q)
    [] q.op = "rotateNodeCertificate" -> rotateNodeCertificate(q)
    [] q.op = "revokeNode" -> revokeNode(q)
    [] q.op = "createProviderBinding" -> createProviderBinding(q)
    [] q.op = "compareAndSetProviderBinding" -> compareAndSetProviderBinding(q)
    [] q.op = "beginProviderBindingDeletion" -> beginProviderBindingDeletion(q)
    [] q.op = "finalizeProviderBindingDeletion" -> finalizeProviderBindingDeletion(q)
    [] q.op = "insertIfAbsent" -> insertIfAbsent(q)
    [] q.op = "put" -> put(q)
    [] q.op = "compareAndSetVersioned" -> compareAndSetVersioned(q)
    [] q.op = "delete" -> delete(q)

-----------------------------------------------------------------------------
(* Running transactions. *)

Busy(c) == tx[c] # Idle
Running(c) == Script(tx[c].req)
MoreStatements(c) == Busy(c) /\ tx[c].next <= Len(Running(c).statements)
Statement(c) == Running(c).statements[tx[c].next]

\* Connections whose locks a statement of c has to wait for.
Blockers(c, statement) ==
  {l[1] : l \in {h \in locks : /\ h[1] # c /\ h[2] \in statement.rows
                              /\ "exclusive" \in {h[3], statement.mode}}}

Release(c) == /\ tx' = [tx EXCEPT ![c] = Idle]
              /\ locks' = {l \in locks : l[1] # c}

Begin(c, q) ==
  /\ ~Busy(c) /\ q.rev \in Revisions \cup {None}
  /\ tx' = [tx EXCEPT ![c] = [req |-> q, next |-> 1]]
  /\ UNCHANGED <<db, locks, failures>>

Execute(c) ==
  /\ MoreStatements(c)
  /\ LET statement == Statement(c) IN
       /\ statement.go /\ Blockers(c, statement) = {}
       /\ locks' = locks \cup {<<c, row, statement.mode>> : row \in statement.rows}
  /\ tx' = [tx EXCEPT ![c].next = @ + 1]
  /\ UNCHANGED <<db, failures>>

Refuse(c) ==
  /\ MoreStatements(c)
  /\ LET statement == Statement(c) IN ~statement.go /\ Blockers(c, statement) = {}
  /\ Release(c)
  /\ UNCHANGED <<db, failures>>

Commit(c) ==
  /\ Busy(c) /\ ~MoreStatements(c)
  /\ db' = Running(c).commit
  /\ Release(c)
  /\ UNCHANGED failures

\* The catch block: ROLLBACK after a statement or the connection failed.
Fail(c) ==
  /\ Busy(c) /\ failures < MaxFailures
  /\ failures' = failures + 1
  /\ Release(c)
  /\ UNCHANGED db

\* PostgreSQL aborts a transaction that waits in a cycle.
WaitsFor(c) == IF MoreStatements(c) THEN Blockers(c, Statement(c)) ELSE {}

InCycle(c) ==
  /\ WaitsFor(c) # {}
  /\ \E S \in SUBSET Clients :
       c \in S /\ \A d \in S : WaitsFor(d) \cap S # {} /\ \E e \in S : d \in WaitsFor(e)

BreakDeadlock(c) ==
  /\ InCycle(c)
  /\ Release(c)
  /\ UNCHANGED <<db, failures>>

\* Time passes the cut-offs the retention sweep compares with.
Age ==
  /\ \/ \E s \in Sessions : R!SessionGoesIdle(s)
     \/ \E u \in Users : R!UserGoesStale(u)
  /\ UNCHANGED <<tx, locks, failures>>

Progress(c) == Execute(c) \/ Refuse(c) \/ Commit(c) \/ BreakDeadlock(c)

Next == \/ \E c \in Clients : (\E q \in Requests(c, Operations) : Begin(c, q)) \/ Progress(c) \/ Fail(c)
        \/ Age

Spec == Init /\ [][Next]_vars

-----------------------------------------------------------------------------
\* Read-committed transactions keep the rows consistent: no session or binding
\* is added below a row whose deletion is under way, grants follow their
\* session, creations that race stay within the channel limits, a node has one
\* active certificate (each guard reads rows the transaction has locked).
RowsConsistent == R!RowsConsistent

\* The last owner is neither demoted nor deleted, however many owners step down
\* at once (the advisory lock of the PreservingOwner operations); and no
\* heartbeat, drain, rotation or state change that read a node before revokeNode
\* committed brings it back (recordNodeHeartbeat, revokeNode).
OwnersAndRevocationsKept == R!OwnerKept /\ R!RevocationFinal

\* Every commit is one operation of the repository, applied to the committed
\* rows as they are at that instant.
Linearizable == R!Spec

\* Transactions lock their rows in compatible orders: PostgreSQL has a cycle to
\* break only when the same binding is created again while its first creators
\* still run, or when a session is deleted while its deletion begins.
LockOrder ==
  \A c \in Clients : InCycle(c) =>
    \/ /\ tx[c].req.op = "createProviderBinding"
       /\ Cardinality({d \in Clients : tx[d].req # None /\ tx[d].req.op = "createProviderBinding"}) > 1
    \/ tx[c].req.op \in {"beginSessionDeletion", "deleteSessionAndRevokePlaybackGrants"}
=============================================================================
