---------------------- MODULE PostgresRepositoryProofs ----------------------
(*****************************************************************************)
(* Theorems about PostgresRepository: every commit is one operation of       *)
(* Repository on the rows as they are at that instant, so the transactions   *)
(* implement the indivisible operations; and what Repository promises of its *)
(* rows therefore holds however the transactions interleave.                 *)
(*                                                                           *)
(* In four parts: what a running transaction relies on, what a commit does,  *)
(* what a statement does, and the theorems.                                  *)
(*****************************************************************************)
EXTENDS PostgresRepository, FiniteSetTheorems, TLAPS

-----------------------------------------------------------------------------
(*****************************************************************************)
(* What a running transaction of PostgresRepository relies on, for any number*)
(* of connections, rows and revisions: the facts its statements have         *)
(* established, each protected by a lock it holds.  A step of another        *)
(* connection that leaves locked rows alone (Spared) leaves these facts true,*)
(* and a commit that writes only what its connection has locked, and refers  *)
(* only to what it has locked, leaves locked rows alone.                     *)
(*****************************************************************************)

-----------------------------------------------------------------------------
(* Types. *)

UserRow == [rev: Nat, owner: BOOLEAN, stale: BOOLEAN]
ProviderRow == [rev: Nat, pending: BOOLEAN]
SessionRow == [rev: Nat, owner: Users \cup {None}, target: Providers \cup Channels \cup {None},
               pinned: BOOLEAN, recent: BOOLEAN, deleting: BOOLEAN]
GrantStates == {"none", "live", "revoked"}
ChannelRow == [rev: Nat, owner: Users \cup {None}, publishing: BOOLEAN]
NodeRow == [rev: Nat \cup {-1}, state: R!NodeStates]
BindingRow == [rev: Nat, provider: Providers \cup {None}, node: Nodes \cup {None},
               state: R!BindingStates, pending: BOOLEAN]
DocumentRow == [rev: Nat, state: {"open", "closed"}]

DbOK ==
  db \in [users: [Users -> UserRow], providers: [Providers -> ProviderRow],
          sessions: [Sessions -> SessionRow], grants: [Sessions -> GrantStates],
          channels: [Channels -> ChannelRow], nodes: [Nodes -> NodeRow],
          certs: [Nodes -> Nat], bindings: [Bindings -> BindingRow],
          documents: [Documents -> DocumentRow]]

ProviderOps == {"createProvider", "compareAndSetProvider", "beginProviderDeletion",
                "finalizeProviderDeletion"}
SessionOps == {"createSessionWithPlaybackGrant", "compareAndSetSession",
               "touchSessionPlaybackActivity", "beginSessionDeletion",
               "deleteSessionAndRevokePlaybackGrants"}
ChannelOps == {"createLiveChannelWithinCapacity", "compareAndSetLiveChannel",
               "deleteLiveChannel"}
UserOps == {"createUserIdentity", "compareAndSetUserIdentity",
            "compareAndSetUserIdentityPreservingOwner",
            "deleteUserIdentityPreservingOwner"}
NodeOps == {"createNode", "ensureLocalNode", "recordNodeHeartbeat", "setNodeDrain",
            "setNodeOperationalState", "removeNode", "rotateNodeCertificate",
            "revokeNode"}
BindingOps == {"createProviderBinding", "compareAndSetProviderBinding",
               "beginProviderBindingDeletion", "finalizeProviderBindingDeletion"}
DocumentOps == {"insertIfAbsent", "put", "compareAndSetVersioned", "delete"}

\* Heartbeats and drains build the new node from the one they have read.
FromRead == {"recordNodeHeartbeat", "setNodeDrain"}

\* A request names a row of the table its operation is about.
Request(c, q) ==
  /\ q.by = c /\ q.flag \in BOOLEAN /\ q.owner \in Users \cup {None}
  /\ q.op \in Operations
  /\ q.op \in ProviderOps => q.id \in Providers
  /\ q.op \in SessionOps => q.id \in Sessions
  /\ q.op \in ChannelOps => q.id \in Channels
  /\ q.op \in UserOps => q.id \in Users
  /\ q.op \in NodeOps => q.id \in Nodes
  /\ q.op \in BindingOps => q.id \in Bindings
  /\ q.op \in DocumentOps => q.id \in Documents
  /\ q.op = "createSessionWithPlaybackGrant" => q.target \in Providers \cup Channels
  /\ IF q.op = "createProviderBinding"
       THEN q.provider \in Providers /\ q.node \in Nodes /\ q.rev \in Revisions \cup {None}
       ELSE q.rev \in Revisions \cap Int

-----------------------------------------------------------------------------
(* What a running transaction relies on. *)

Shares(c, row) == Holds(c, row)
Owns(c, row) == <<c, row, "exclusive">> \in locks

\* No two connections hold a row unless both share it.
LocksAgree ==
  \A l, m \in locks : l[2] = m[2] /\ l[1] # m[1] => l[3] = "shared" /\ m[3] = "shared"

\* A connection holds no lock before its first statement.
LocksFollow == \A l \in locks : l[1] \in Clients /\ l[3] \in {"shared",
                                                              "exclusive"} /\ tx[l[1]].next > 1


(* What the first n statements of request q have established and the locks   *)
(* taken with them keep true, up to the end of the transaction.  A plain read *)
(* that nothing protects is not here: a later statement repeats it.          *)

ProviderWork(q, n) ==
  LET row == db.providers[q.id]
      mine == Owns(q.by, <<"providers", q.id>>)
  IN /\ q.op = "createProvider" /\ n > 0 => mine /\ row.rev = 0
     /\ q.op = "compareAndSetProvider" /\ n > 0 => mine /\ At(row, q.rev) /\ ~row.pending
     /\ q.op = "beginProviderDeletion" /\ n > 0 => mine /\ Live(row) /\ ~row.pending
     /\ q.op = "finalizeProviderDeletion" /\ n > 0 => mine /\ At(row, q.rev) /\ row.pending
     /\ q.op \in {"beginProviderDeletion", "finalizeProviderDeletion"} /\ n > 1 =>
          providerDependencies(q.id) = {}

\* The row of the owner, when there is one, is shared: nobody deletes it.
OwnerStays(q) == Shares(q.by, <<"users", q.owner>>) /\ Live(db.users[q.owner])

SourceStays(q) ==
  IF q.target \in Providers
    THEN /\ Shares(q.by, <<"providers", q.target>>)
         /\ Live(db.providers[q.target]) /\ ~db.providers[q.target].pending
    ELSE Shares(q.by, <<"channels", q.target>>) /\ At(db.channels[q.target], q.rev)

\* The statements about the owner, when there is one.
OwnerSteps(q, count) == IF q.owner = None THEN 0 ELSE count

SessionWork(q, n) ==
  LET row == db.sessions[q.id]
      mine == Owns(q.by, <<"sessions", q.id>>)
  IN /\ q.op = "createSessionWithPlaybackGrant" =>
          /\ q.owner # None /\ n > 0 => OwnerStays(q)
          /\ n > OwnerSteps(q, 1) => SourceStays(q)
          /\ n > OwnerSteps(q, 1) + 1 => mine /\ row.rev = 0
     /\ q.op = "compareAndSetSession" /\ n > 1 => mine /\ At(row, q.rev)
     /\ q.op = "touchSessionPlaybackActivity" /\ n > 0 =>
          mine /\ Live(row) /\ ~row.deleting /\ ~row.recent
     /\ q.op = "beginSessionDeletion" /\ n > 0 =>
          mine /\ Live(row) /\ ~row.deleting /\ (q.flag => ~row.pinned /\ ~row.recent)
     /\ q.op = "deleteSessionAndRevokePlaybackGrants" /\ n > 1 => mine /\ Live(row)

ChannelLimit == <<"advisory", "vrrelay:live-channels">>
OwnerRole == <<"advisory", "vrrelay:user-owners">>

ChannelWork(q, n) ==
  LET row == db.channels[q.id]
      mine == Owns(q.by, <<"channels", q.id>>)
  IN /\ q.op = "createLiveChannelWithinCapacity" =>
          /\ n > 0 => Owns(q.by, ChannelLimit)
          /\ n > 1 => Cardinality(R!LiveChannels) < MaxTotal
          /\ q.owner # None /\ n > 2 => OwnerStays(q)
          /\ q.owner # None /\ n > 3 => Cardinality(R!OwnedChannels(q.owner)) < MaxPerOwner
          /\ n > OwnerSteps(q, 2) + 2 => mine /\ row.rev = 0
     /\ q.op = "compareAndSetLiveChannel" /\ n > 0 => mine /\ At(row, q.rev)
     /\ q.op = "deleteLiveChannel" /\ n > 0 => mine /\ At(row, q.rev) /\ ~row.publishing
     /\ q.op = "deleteLiveChannel" /\ n > 1 => R!ChannelSessions(q.id) = {}

PreservingOwner == {"compareAndSetUserIdentityPreservingOwner",
                    "deleteUserIdentityPreservingOwner"}

UserWork(q, n) ==
  LET row == db.users[q.id]
      mine == Owns(q.by, <<"users", q.id>>)
  IN /\ q.op = "createUserIdentity" /\ n > 0 => mine /\ row.rev = 0
     /\ q.op = "compareAndSetUserIdentity" /\ n > 0 => mine /\ At(row, q.rev)
     /\ q.op \in PreservingOwner /\ n > 0 => Owns(q.by, OwnerRole)
     /\ q.op \in PreservingOwner /\ n > 1 => mine /\ At(row, q.rev)
     /\ q.op = "compareAndSetUserIdentityPreservingOwner" /\ n > 2 =>
          (row.owner /\ ~q.flag => Cardinality(R!Owners) > 1)
     /\ q.op = "deleteUserIdentityPreservingOwner" =>
          /\ n > 1 => (q.flag => row.stale)
          /\ n > 2 => (row.owner => Cardinality(R!Owners) > 1)
          /\ n > 3 => R!OwnedSessions(q.id) = {}
          /\ n > 4 => R!OwnedChannels(q.id) = {}

\* A node's revision only grows, so the node read at q's revision is the node.
SeenIsCurrent(q) ==
  LET node == db.nodes[q.id] IN
  node.rev = -1 \/ (q.rev <= node.rev /\ (node.rev = q.rev => node.state = q.seen))

NodeWork(q, n) ==
  LET row == db.nodes[q.id]
      mine == Owns(q.by, <<"nodes", q.id>>)
  IN /\ q.op = "createNode" /\ n > 0 => mine /\ row.rev = 0
     /\ q.op = "ensureLocalNode" /\ n = 1 /\ Holds(q.by, <<"nodes", q.id>>) =>
          mine /\ row.rev = 0
     /\ q.op = "ensureLocalNode" /\ n > 1 => mine /\ row.rev >= 0
     /\ q.op \in FromRead => SeenIsCurrent(q)
     /\ q.op \in FromRead /\ n > 1 => mine /\ At(row, q.rev)
     /\ q.op = "setNodeDrain" /\ n > 0 => q.seen # "revoked"
     /\ q.op = "setNodeOperationalState" /\ n > 1 =>
          mine /\ At(row, q.rev) /\ ~R!Protected(row.state)
     /\ q.op = "removeNode" /\ n > 0 => mine /\ At(row, q.rev) /\ row.state = "revoked"
     /\ q.op = "removeNode" /\ n > 1 => R!NodeBindings(q.id) = {}
     /\ q.op = "rotateNodeCertificate" /\ n > 0 =>
          mine /\ At(row, q.rev) /\ row.state # "revoked"
     /\ q.op = "revokeNode" /\ n > 0 => mine /\ At(row, q.rev)
     /\ q.op = "revokeNode" /\ n > 1 =>
          \A b \in R!NodeBindings(q.id) : Owns(q.by, <<"bindings", b>>)

\* The rows a transaction that creates a binding locks, and how.
BinderLocks(q) ==
  {<<q.by, <<"bindings", q.id>>, "exclusive">>, <<q.by, <<"nodes", q.node>>, "shared">>,
   <<q.by, <<"providers", q.provider>>, "exclusive">>}

BindingWork(q, n) ==
  LET row == db.bindings[q.id]
      provider == db.providers[q.provider]
      mine == Owns(q.by, <<"bindings", q.id>>)
  IN /\ q.op = "createProviderBinding" =>
          /\ \A l \in locks : l[1] = q.by => l \in BinderLocks(q)
          /\ n > 1 => /\ Shares(q.by, <<"nodes", q.node>>) /\ Live(db.nodes[q.node])
                      /\ db.nodes[q.node].state # "revoked"
          /\ n > 4 => /\ Owns(q.by, <<"providers", q.provider>>)
                      /\ IF q.rev = None THEN provider.rev = 0
                                         ELSE At(provider, q.rev) /\ ~provider.pending
          /\ n > 5 => mine /\ row.rev = 0
     /\ q.op = "compareAndSetProviderBinding" /\ n > 0 => mine /\ At(row, q.rev) /\ ~row.pending
     /\ q.op = "beginProviderBindingDeletion" /\ n > 0 => mine /\ Live(row) /\ ~row.pending
     /\ q.op = "finalizeProviderBindingDeletion" /\ n > 0 => mine /\ At(row, q.rev) /\ row.pending

DocumentWork(q, n) ==
  LET row == db.documents[q.id] IN
  /\ q.op \in DocumentOps /\ n > 0 => Owns(q.by, <<"documents", q.id>>)
  /\ q.op = "insertIfAbsent" /\ n > 0 => row.rev = 0
  /\ q.op = "compareAndSetVersioned" /\ n > 0 => At(row, q.rev) /\ row.state = "open"
  /\ q.op = "delete" /\ n > 0 => Live(row)

Work(q, n) == /\ ProviderWork(q, n) /\ SessionWork(q, n) /\ ChannelWork(q, n)
              /\ UserWork(q, n) /\ NodeWork(q, n) /\ BindingWork(q, n) /\ DocumentWork(q, n)

Relies(c) ==
  LET q == tx[c].req
      n == tx[c].next - 1
  IN /\ Request(c, q) /\ n \in 0 .. Len(Script(q).statements)
     /\ Work(q, n)

TxOK ==
  /\ tx = [c \in Clients |-> [req |-> tx[c].req, next |-> tx[c].next]]
  /\ \A c \in Clients : tx[c].next \in Nat /\ (tx[c].next = 0 => tx[c] = Idle)

IInv == /\ DbOK /\ TxOK /\ LocksAgree /\ LocksFollow
        /\ \A c \in Clients : Busy(c) => tx[c].next > 0 /\ Relies(c)

-----------------------------------------------------------------------------
(* A step that leaves alone what another connection has locked. *)

\* Locked rows stay as they are, or are aged.
RowsSpared(c) ==
  /\ \A p \in Providers : Shares(c, <<"providers", p>>) => db'.providers[p] = db.providers[p]
  /\ \A h \in Channels : Shares(c, <<"channels", h>>) => db'.channels[h] = db.channels[h]
  /\ \A n \in Nodes : Shares(c, <<"nodes", n>>) => db'.nodes[n] = db.nodes[n]
  /\ \A b \in Bindings : Shares(c, <<"bindings", b>>) => db'.bindings[b] = db.bindings[b]
  /\ \A k \in Documents : Shares(c, <<"documents", k>>) => db'.documents[k] = db.documents[k]
  /\ \A u \in Users : Shares(c, <<"users", u>>) =>
       /\ db'.users[u].rev = db.users[u].rev /\ db'.users[u].owner = db.users[u].owner
       /\ db.users[u].stale => db'.users[u].stale
  /\ \A s \in Sessions : Shares(c, <<"sessions", s>>) =>
       /\ db'.sessions[s].rev = db.sessions[s].rev
       /\ db'.sessions[s].pinned = db.sessions[s].pinned
       /\ db'.sessions[s].deleting = db.sessions[s].deleting
       /\ db'.sessions[s].recent => db.sessions[s].recent

\* A row that is owned gains no rows that refer to it.
DependentsSpared(c) ==
  /\ \A p \in Providers : Owns(c, <<"providers", p>>) =>
       providerDependencies(p)' \subseteq providerDependencies(p)
  /\ \A h \in Channels : Owns(c, <<"channels", h>>) =>
       R!ChannelSessions(h)' \subseteq R!ChannelSessions(h)
  /\ \A u \in Users : Owns(c, <<"users", u>>) =>
       /\ R!OwnedSessions(u)' \subseteq R!OwnedSessions(u)
       /\ R!OwnedChannels(u)' \subseteq R!OwnedChannels(u)
  /\ \A n \in Nodes : Owns(c, <<"nodes", n>>) =>
       R!NodeBindings(n)' \subseteq R!NodeBindings(n)

\* What the advisory locks protect.
CountsSpared(c) ==
  /\ Owns(c, ChannelLimit) =>
       /\ R!LiveChannels' \subseteq R!LiveChannels
       /\ \A u \in Users : R!OwnedChannels(u)' \subseteq R!OwnedChannels(u)
  /\ Owns(c, OwnerRole) => R!Owners' = R!Owners

\* The revision of a node grows by one at a time, until the node is removed.
RevisionsGrow ==
  \A n \in Nodes :
    LET old == db.nodes[n] new == db'.nodes[n] IN
    new = old \/ new.rev = -1 \/ (old.rev >= 0 /\ new.rev = old.rev + 1)

Spared(c) ==
  /\ \A l \in locks \cup locks' : l[1] = c => l \in locks /\ l \in locks'
  /\ RowsSpared(c) /\ DependentsSpared(c) /\ CountsSpared(c) /\ RevisionsGrow

\* The locks of a connection that is spared.
LEMMA LocksSpared ==
  ASSUME NEW c, Spared(c), NEW row
  PROVE /\ Owns(c, row)' <=> Owns(c, row)
        /\ Shares(c, row)' <=> Shares(c, row)
<1>1. \A m : <<c, row, m>>[1] = c
  OBVIOUS
<1> QED BY <1>1 DEF Spared, Owns, Shares, Holds

\* An owner of a row also shares it.
LEMMA OwnsShares == ASSUME NEW c, NEW row, Owns(c, row) PROVE Shares(c, row)
BY DEF Owns, Shares, Holds

\* A spared connection keeps what it knows about a provider and its dependants
\* (createProvider, compareAndSetProvider, begin- and finalizeProviderDeletion).
LEMMA ProviderWorkStays ==
  ASSUME DbOK, NEW c \in Clients, NEW q, Request(c, q), NEW n \in Nat, Spared(c),
         ProviderWork(q, n)
  PROVE ProviderWork(q, n)'
<1>1. q.by = c /\ (q.op \in ProviderOps => q.id \in Providers)
  BY DEF Request
<1> DEFINE row == <<"providers", q.id>>
<1>2. Owns(c, row)' <=> Owns(c, row)
  BY LocksSpared
<1>3. q.op \in ProviderOps /\ Owns(c, row) =>
        /\ db'.providers[q.id] = db.providers[q.id]
        /\ providerDependencies(q.id)' \subseteq providerDependencies(q.id)
  BY <1>1, OwnsShares DEF Spared, RowsSpared, DependentsSpared
<1>4. ASSUME q.op \in {"beginProviderDeletion", "finalizeProviderDeletion"}, n > 1
      PROVE  providerDependencies(q.id)' = {}
  BY <1>1, <1>3, <1>4 DEF ProviderWork, ProviderOps
<1> QED BY <1>1, <1>2, <1>3, <1>4 DEF ProviderWork, ProviderOps, At, Live, R!At, R!Live

\* The owner's row and the source of something being created.
LEMMA OwnerStaysSpared ==
  ASSUME NEW c, NEW q, q.by = c, q.owner \in Users, Spared(c), OwnerStays(q)
  PROVE OwnerStays(q)'
BY LocksSpared DEF OwnerStays, Spared, RowsSpared, Live, R!Live

\* A spared connection that shares the source of a session keeps it.
LEMMA SourceStaysSpared ==
  ASSUME NEW c, NEW q, q.by = c, q.target \in Providers \cup Channels, Spared(c), SourceStays(q)
  PROVE SourceStays(q)'
<1>1. CASE q.target \in Providers
  BY <1>1, LocksSpared DEF SourceStays, Spared, RowsSpared, Live, R!Live
<1>2. CASE q.target \notin Providers
  BY <1>2, LocksSpared DEF SourceStays, Spared, RowsSpared, At, R!At
<1> QED BY <1>1, <1>2

\* A spared connection keeps what it knows about a session.
LEMMA SessionWorkStays ==
  ASSUME DbOK, NEW c \in Clients, NEW q, Request(c, q), NEW n \in Nat, Spared(c),
         SessionWork(q, n)
  PROVE SessionWork(q, n)'
<1>1. /\ q.by = c /\ (q.op \in SessionOps => q.id \in Sessions)
      /\ q.owner \in Users \cup {None}
      /\ q.op = "createSessionWithPlaybackGrant" => q.target \in Providers \cup Channels
  BY DEF Request
<1> DEFINE row == <<"sessions", q.id>>
<1>2. Owns(c, row)' <=> Owns(c, row)
  BY LocksSpared
<1>3. q.op \in SessionOps /\ Owns(c, row) =>
        /\ db'.sessions[q.id].rev = db.sessions[q.id].rev
        /\ db'.sessions[q.id].pinned = db.sessions[q.id].pinned
        /\ db'.sessions[q.id].deleting = db.sessions[q.id].deleting
        /\ db'.sessions[q.id].recent => db.sessions[q.id].recent
  BY <1>1, OwnsShares DEF Spared, RowsSpared
<1>4. CASE q.op = "createSessionWithPlaybackGrant"
  <2>1. q.owner # None /\ n > 0 => OwnerStays(q)'
    BY <1>1, <1>4, OwnerStaysSpared DEF SessionWork
  <2>2. n > OwnerSteps(q, 1) => SourceStays(q)'
    BY <1>1, <1>4, SourceStaysSpared DEF SessionWork
  <2> QED BY <1>1, <1>2, <1>3, <1>4, <2>1, <2>2 DEF SessionWork, SessionOps, OwnerSteps
<1>5. CASE q.op # "createSessionWithPlaybackGrant"
  BY <1>1, <1>2, <1>3, <1>5 DEF SessionWork, SessionOps, At, Live, R!At, R!Live
<1> QED BY <1>4, <1>5

\* A spared connection keeps what it knows about a channel and the limits.
LEMMA ChannelWorkStays ==
  ASSUME DbOK, NEW c \in Clients, NEW q, Request(c, q), NEW n \in Nat, Spared(c),
         ChannelWork(q, n)
  PROVE ChannelWork(q, n)'
<1>1. /\ q.by = c /\ (q.op \in ChannelOps => q.id \in Channels)
      /\ q.owner \in Users \cup {None}
  BY DEF Request
<1> DEFINE row == <<"channels", q.id>>
<1>2. (Owns(c, row)' <=> Owns(c, row)) /\ (Owns(c, ChannelLimit)' <=> Owns(c, ChannelLimit))
  BY LocksSpared DEF ChannelLimit
<1>3. q.op \in ChannelOps /\ Owns(c, row) =>
        /\ db'.channels[q.id] = db.channels[q.id]
        /\ R!ChannelSessions(q.id)' \subseteq R!ChannelSessions(q.id)
  BY <1>1, OwnsShares DEF Spared, RowsSpared, DependentsSpared
<1>4. CASE q.op = "createLiveChannelWithinCapacity"
  <2>1. q.owner # None /\ n > 2 => OwnerStays(q)'
    BY <1>1, <1>4, OwnerStaysSpared DEF ChannelWork
  <2>2. ASSUME n > 1 PROVE Cardinality(R!LiveChannels)' < MaxTotal
    <3>1. R!LiveChannels' \subseteq R!LiveChannels /\ Cardinality(R!LiveChannels) < MaxTotal
      BY <1>1, <1>4, <2>2 DEF ChannelWork, Spared, CountsSpared
    <3>2. IsFiniteSet(R!LiveChannels)
      BY TablesAssumption, FS_Subset DEF R!LiveChannels
    <3> QED BY <3>1, <3>2, FS_Subset, FS_CardinalityType, TablesAssumption
  <2>3. ASSUME q.owner # None, n > 3
        PROVE  Cardinality(R!OwnedChannels(q.owner))' < MaxPerOwner
    <3>1. /\ R!OwnedChannels(q.owner)' \subseteq R!OwnedChannels(q.owner)
          /\ Cardinality(R!OwnedChannels(q.owner)) < MaxPerOwner
      BY <1>1, <1>4, <2>3 DEF ChannelWork, Spared, CountsSpared
    <3>2. IsFiniteSet(R!OwnedChannels(q.owner))
      BY TablesAssumption, FS_Subset DEF R!LiveChannels, R!OwnedChannels
    <3> QED BY <3>1, <3>2, FS_Subset, FS_CardinalityType, TablesAssumption
  <2> QED BY <1>1, <1>2, <1>3, <1>4, <2>1, <2>2, <2>3 DEF ChannelWork, ChannelOps, OwnerSteps
<1>5. CASE q.op # "createLiveChannelWithinCapacity"
  BY <1>1, <1>2, <1>3, <1>5 DEF ChannelWork, ChannelOps, At, R!At
<1> QED BY <1>4, <1>5

\* A spared connection keeps what it knows about a user and the owners.
LEMMA UserWorkStays ==
  ASSUME DbOK, NEW c \in Clients, NEW q, Request(c, q), NEW n \in Nat, Spared(c),
         UserWork(q, n)
  PROVE UserWork(q, n)'
<1>1. q.by = c /\ (q.op \in UserOps => q.id \in Users)
  BY DEF Request
<1> DEFINE row == <<"users", q.id>>
<1>2. (Owns(c, row)' <=> Owns(c, row)) /\ (Owns(c, OwnerRole)' <=> Owns(c, OwnerRole))
  BY LocksSpared DEF OwnerRole
<1>3. q.op \in UserOps /\ Owns(c, row) =>
        /\ db'.users[q.id].rev = db.users[q.id].rev /\ db'.users[q.id].owner = db.users[q.id].owner
        /\ db.users[q.id].stale => db'.users[q.id].stale
        /\ R!OwnedSessions(q.id)' \subseteq R!OwnedSessions(q.id)
        /\ R!OwnedChannels(q.id)' \subseteq R!OwnedChannels(q.id)
  BY <1>1, OwnsShares DEF Spared, RowsSpared, DependentsSpared
<1>4. CASE q.op \in PreservingOwner
  <2>1. n > 0 => Owns(c, OwnerRole)
    BY <1>1, <1>4 DEF UserWork
  <2>2. n > 0 => R!Owners' = R!Owners
    BY <2>1 DEF Spared, CountsSpared
  <2>3. n > 1 => Owns(c, row) /\ At(db.users[q.id], q.rev)
    BY <1>1, <1>4 DEF UserWork
  <2> HIDE DEF row
  <2>4. n > 1 => Owns(c, row)' /\ At(db.users[q.id], q.rev)'
    BY <1>2, <1>3, <2>3, <1>4 DEF At, R!At, PreservingOwner, UserOps
  <2>5. CASE q.op = "compareAndSetUserIdentityPreservingOwner"
    BY <1>1, <1>2, <1>3, <2>1, <2>2, <2>3, <2>4, <2>5
       DEF UserWork, PreservingOwner, UserOps, row
  <2>6. CASE q.op = "deleteUserIdentityPreservingOwner"
    BY <1>1, <1>2, <1>3, <2>1, <2>2, <2>3, <2>4, <2>6
       DEF UserWork, PreservingOwner, UserOps, row
  <2> QED BY <1>4, <2>5, <2>6 DEF PreservingOwner
<1>5. CASE q.op \notin PreservingOwner
  BY <1>1, <1>2, <1>3, <1>5 DEF UserWork, PreservingOwner, UserOps, At, R!At
<1> QED BY <1>4, <1>5

\* A spared connection keeps what it knows about a node and its bindings.
LEMMA NodeWorkStays ==
  ASSUME DbOK, NEW c \in Clients, NEW q, Request(c, q), NEW n \in Nat, Spared(c),
         NodeWork(q, n)
  PROVE NodeWork(q, n)'
<1>1. /\ q.by = c /\ (q.op \in NodeOps => q.id \in Nodes)
      /\ q.op # "createProviderBinding" => q.rev \in Int
  BY DEF Request
<1> DEFINE row == <<"nodes", q.id>>
<1>2. (Owns(c, row)' <=> Owns(c, row)) /\ (Shares(c, row)' <=> Shares(c, row))
      /\ \A b : Owns(c, <<"bindings", b>>)' <=> Owns(c, <<"bindings", b>>)
  BY LocksSpared
<1>3. q.op \in NodeOps /\ Owns(c, row) =>
        /\ db'.nodes[q.id] = db.nodes[q.id]
        /\ R!NodeBindings(q.id)' \subseteq R!NodeBindings(q.id)
  BY <1>1, OwnsShares DEF Spared, RowsSpared, DependentsSpared
<1>4. q.op \in NodeOps /\ Shares(c, row) => db'.nodes[q.id] = db.nodes[q.id]
  BY <1>1 DEF Spared, RowsSpared
<1>5. ASSUME q.op \in FromRead PROVE SeenIsCurrent(q)'
  <2>1. q.id \in Nodes /\ q.rev \in Int /\ SeenIsCurrent(q)
    BY <1>1, <1>5 DEF FromRead, NodeOps, NodeWork
  <2>2. db.nodes[q.id].rev \in Int
    BY <2>1 DEF DbOK, NodeRow
  <2>3. LET old == db.nodes[q.id] new == db'.nodes[q.id] IN
        new = old \/ new.rev = -1 \/ (old.rev >= 0 /\ new.rev = old.rev + 1)
    BY <2>1 DEF Spared, RevisionsGrow
  <2> QED BY <2>1, <2>2, <2>3 DEF SeenIsCurrent
<1>6. CASE q.op \in FromRead
  BY <1>1, <1>2, <1>3, <1>5, <1>6 DEF NodeWork, FromRead, NodeOps, At, R!At
<1>7. CASE q.op \in {"ensureLocalNode", "createNode", "setNodeOperationalState"}
  BY <1>1, <1>2, <1>3, <1>4, <1>7 DEF NodeWork, FromRead, NodeOps, At, R!At, Shares
<1>8. CASE q.op \in {"removeNode", "rotateNodeCertificate", "revokeNode"}
  BY <1>1, <1>2, <1>3, <1>8 DEF NodeWork, FromRead, NodeOps, At, R!At
<1>9. CASE q.op \notin NodeOps
  BY <1>9 DEF NodeWork, NodeOps, FromRead
<1> QED BY <1>6, <1>7, <1>8, <1>9 DEF FromRead, NodeOps

\* A spared connection keeps what it knows about a binding, its node and provider.
LEMMA BindingWorkStays ==
  ASSUME DbOK, NEW c \in Clients, NEW q, Request(c, q), NEW n \in Nat, Spared(c),
         BindingWork(q, n)
  PROVE BindingWork(q, n)'
<1>1. /\ q.by = c /\ (q.op \in BindingOps => q.id \in Bindings)
      /\ q.op = "createProviderBinding" => q.provider \in Providers /\ q.node \in Nodes
  BY DEF Request
<1> DEFINE row == <<"bindings", q.id>>
<1>2. /\ Owns(c, row)' <=> Owns(c, row)
      /\ Owns(c, <<"providers", q.provider>>)' <=> Owns(c, <<"providers", q.provider>>)
      /\ Shares(c, <<"nodes", q.node>>)' <=> Shares(c, <<"nodes", q.node>>)
  BY LocksSpared
<1>3. q.op \in BindingOps /\ Owns(c, row) => db'.bindings[q.id] = db.bindings[q.id]
  BY <1>1, OwnsShares DEF Spared, RowsSpared
<1>4. CASE q.op = "createProviderBinding"
  <2>1. \A l \in locks' : l[1] = q.by => l \in BinderLocks(q)
    BY <1>1, <1>4 DEF BindingWork, Spared
  <2>2. Shares(c, <<"nodes", q.node>>) => db'.nodes[q.node] = db.nodes[q.node]
    BY <1>1, <1>4 DEF Spared, RowsSpared
  <2>3. Owns(c, <<"providers", q.provider>>) => db'.providers[q.provider] = db.providers[q.provider]
    BY <1>1, <1>4, OwnsShares DEF Spared, RowsSpared
  <2> QED BY <1>1, <1>2, <1>3, <1>4, <2>1, <2>2, <2>3
          DEF BindingWork, BindingOps, BinderLocks, At, Live, R!At, R!Live
<1>5. CASE q.op # "createProviderBinding"
  BY <1>1, <1>2, <1>3, <1>5 DEF BindingWork, BindingOps, At, Live, R!At, R!Live
<1> QED BY <1>4, <1>5

\* A spared connection keeps what it knows about a document row.
LEMMA DocumentWorkStays ==
  ASSUME DbOK, NEW c \in Clients, NEW q, Request(c, q), NEW n \in Nat, Spared(c),
         DocumentWork(q, n)
  PROVE DocumentWork(q, n)'
<1>1. q.by = c /\ (q.op \in DocumentOps => q.id \in Documents)
  BY DEF Request
<1>2. Owns(c, <<"documents", q.id>>)' <=> Owns(c, <<"documents", q.id>>)
  BY LocksSpared
<1>3. q.op \in DocumentOps /\ Owns(c, <<"documents", q.id>>) =>
        db'.documents[q.id] = db.documents[q.id]
  BY <1>1, OwnsShares DEF Spared, RowsSpared
<1> QED BY <1>1, <1>2, <1>3 DEF DocumentWork, DocumentOps, At, Live, R!At, R!Live

\* What a transaction has established survives every step that spares it.
LEMMA WorkStays ==
  ASSUME DbOK, NEW c \in Clients, NEW q, Request(c, q), NEW n \in Nat, Spared(c), Work(q, n)
  PROVE Work(q, n)'
BY ProviderWorkStays, SessionWorkStays, ChannelWorkStays, UserWorkStays, NodeWorkStays,
   BindingWorkStays, DocumentWorkStays DEF Work

\* What the commit of connection c changes: rows it owns, and rows that refer
\* only to rows it shares.
Commits(c) ==
  /\ \A p \in Providers : db'.providers[p] = db.providers[p] \/ Owns(c, <<"providers", p>>)
  /\ \A h \in Channels : db'.channels[h] = db.channels[h] \/ Owns(c, <<"channels", h>>)
  /\ \A n \in Nodes : db'.nodes[n] = db.nodes[n] \/ Owns(c, <<"nodes", n>>)
  /\ \A b \in Bindings : db'.bindings[b] = db.bindings[b] \/ Owns(c, <<"bindings", b>>)
  /\ \A k \in Documents : db'.documents[k] = db.documents[k] \/ Owns(c, <<"documents", k>>)
  /\ \A u \in Users : db'.users[u] = db.users[u] \/ Owns(c, <<"users", u>>)
  /\ \A s \in Sessions : db'.sessions[s] = db.sessions[s] \/ Owns(c, <<"sessions", s>>)

\* The row that is there after the commit referred to the same rows before it,
\* or the rows it refers to are shared.
Refers(c) ==
  /\ \A s \in Sessions : LET old == db.sessions[s] new == db'.sessions[s] IN
       \/ ~Live(new)
       \/ Live(old) /\ new.owner = old.owner /\ new.target = old.target
       \/ /\ new.target \in Providers => Shares(c, <<"providers", new.target>>)
          /\ new.target \in Channels => Shares(c, <<"channels", new.target>>)
          /\ new.owner \in Users => Shares(c, <<"users", new.owner>>)
  /\ \A b \in Bindings : LET old == db.bindings[b] new == db'.bindings[b] IN
       \/ ~Live(new)
       \/ Live(old) /\ new.provider = old.provider /\ new.node = old.node
       \/ Shares(c, <<"providers", new.provider>>) /\ Shares(c, <<"nodes", new.node>>)
  /\ \A h \in Channels : LET old == db.channels[h] new == db'.channels[h] IN
       \/ ~Live(new)
       \/ Live(old) /\ new.owner = old.owner
       \/ /\ Owns(c, ChannelLimit)
          /\ new.owner \in Users => Shares(c, <<"users", new.owner>>)
  /\ R!Owners' = R!Owners \/ Owns(c, OwnerRole)

\* Two connections never hold a row unless both share it.
LEMMA Apart ==
  ASSUME LocksAgree, LocksFollow, NEW c, NEW d, c # d, NEW row, Owns(c, row)
  PROVE ~Shares(d, row)
<1> SUFFICES ASSUME NEW mode \in {"shared", "exclusive"}, <<d, row, mode>> \in locks
             PROVE FALSE
  BY DEF Shares, Holds
<1> DEFINE l == <<c, row, "exclusive">> m == <<d, row, mode>>
<1>1. l \in locks /\ m \in locks BY DEF Owns
<1>2. l[2] = m[2] /\ l[1] # m[1] /\ l[3] # "shared" OBVIOUS
<1> QED BY <1>1, <1>2 DEF LocksAgree

\* A commit spares every other connection.
LEMMA CommitSpares ==
  ASSUME DbOK, DbOK', LocksAgree, LocksFollow, NEW c, NEW d, c # d,
         Commits(c), Refers(c), RevisionsGrow,
         \A l \in locks \cup locks' : l[1] = d => l \in locks /\ l \in locks'
  PROVE Spared(d)
<1>1. ASSUME NEW row, Shares(d, row) PROVE ~Owns(c, row)
  BY <1>1, Apart
<1>2. ASSUME NEW row, Owns(d, row) PROVE ~Shares(c, row)
  BY <1>2, Apart
<1>3. RowsSpared(d)
  <2>1. \A p \in Providers : Shares(d, <<"providers", p>>) => db'.providers[p] = db.providers[p]
    BY <1>1 DEF Commits
  <2>2. \A h \in Channels : Shares(d, <<"channels", h>>) => db'.channels[h] = db.channels[h]
    BY <1>1 DEF Commits
  <2>3. \A n \in Nodes : Shares(d, <<"nodes", n>>) => db'.nodes[n] = db.nodes[n]
    BY <1>1 DEF Commits
  <2>4. \A b \in Bindings : Shares(d, <<"bindings", b>>) => db'.bindings[b] = db.bindings[b]
    BY <1>1 DEF Commits
  <2>5. \A k \in Documents : Shares(d, <<"documents", k>>) => db'.documents[k] = db.documents[k]
    BY <1>1 DEF Commits
  <2>6. \A u \in Users : Shares(d, <<"users", u>>) => db'.users[u] = db.users[u]
    BY <1>1 DEF Commits
  <2>7. \A s \in Sessions : Shares(d, <<"sessions", s>>) => db'.sessions[s] = db.sessions[s]
    BY <1>1 DEF Commits
  <2> QED BY <2>1, <2>2, <2>3, <2>4, <2>5, <2>6, <2>7 DEF RowsSpared
<1>4. DependentsSpared(d)
  <2>1. ASSUME NEW p \in Providers, Owns(d, <<"providers", p>>)
        PROVE  providerDependencies(p)' \subseteq providerDependencies(p)
    <3>1. ~Shares(c, <<"providers", p>>) BY <1>2, <2>1
    <3>2. R!ProviderSessions(p)' \subseteq R!ProviderSessions(p)
      BY <3>1 DEF R!ProviderSessions, Refers, Live
    <3>3. R!ProviderBindings(p)' \subseteq R!ProviderBindings(p)
      BY <3>1 DEF R!ProviderBindings, Refers, Live
    <3> QED BY <3>2, <3>3 DEF providerDependencies
  <2>2. ASSUME NEW h \in Channels, Owns(d, <<"channels", h>>)
        PROVE  R!ChannelSessions(h)' \subseteq R!ChannelSessions(h)
    <3>1. ~Shares(c, <<"channels", h>>) BY <1>2, <2>2
    <3> QED BY <3>1 DEF R!ChannelSessions, Refers, Live
  <2>3. ASSUME NEW u \in Users, Owns(d, <<"users", u>>)
        PROVE  /\ R!OwnedSessions(u)' \subseteq R!OwnedSessions(u)
               /\ R!OwnedChannels(u)' \subseteq R!OwnedChannels(u)
    <3>1. ~Shares(c, <<"users", u>>) BY <1>2, <2>3
    <3> QED BY <3>1 DEF R!OwnedSessions, R!OwnedChannels, R!LiveChannels, Refers, Live
  <2>4. ASSUME NEW n \in Nodes, Owns(d, <<"nodes", n>>)
        PROVE  R!NodeBindings(n)' \subseteq R!NodeBindings(n)
    <3>1. ~Shares(c, <<"nodes", n>>) BY <1>2, <2>4
    <3> QED BY <3>1 DEF R!NodeBindings, Refers, Live
  <2> QED BY <2>1, <2>2, <2>3, <2>4 DEF DependentsSpared
<1>5. CountsSpared(d)
  <2>1. Owns(d, ChannelLimit) => ~Owns(c, ChannelLimit)
    BY <1>2, OwnsShares
  <2>2. Owns(d, OwnerRole) => ~Owns(c, OwnerRole)
    BY <1>2, OwnsShares
  <2>3. Owns(d, ChannelLimit) =>
          /\ R!LiveChannels' \subseteq R!LiveChannels
          /\ \A u \in Users : R!OwnedChannels(u)' \subseteq R!OwnedChannels(u)
    BY <2>1 DEF Refers, R!LiveChannels, R!OwnedChannels, Live
  <2> QED BY <2>2, <2>3 DEF CountsSpared, Refers
<1> QED BY <1>3, <1>4, <1>5 DEF Spared

\* A step that changes no row spares every connection that keeps its locks.
LEMMA QuietSpares ==
  ASSUME db' = db, NEW d,
         \A l \in locks \cup locks' : l[1] = d => l \in locks /\ l \in locks'
  PROVE Spared(d)
BY DEF Spared, RowsSpared, DependentsSpared, CountsSpared, RevisionsGrow, providerDependencies,
       R!ProviderSessions, R!ProviderBindings, R!ChannelSessions, R!OwnedSessions,
       R!OwnedChannels, R!LiveChannels, R!NodeBindings, R!Owners

\* Time that passes spares everybody.
LEMMA AgeSpares ==
  ASSUME DbOK, Age, NEW d
  PROVE Spared(d)
<1>1. CASE \E s \in Sessions : R!SessionGoesIdle(s)
  <2>1. PICK s \in Sessions : R!SessionGoesIdle(s) BY <1>1
  <2>2. /\ db'.providers = db.providers /\ db'.channels = db.channels
        /\ db'.nodes = db.nodes /\ db'.bindings = db.bindings
        /\ db'.documents = db.documents /\ db'.users = db.users
    BY <2>1 DEF R!SessionGoesIdle, DbOK
  <2>3. \A t \in Sessions :
          /\ db'.sessions[t].rev = db.sessions[t].rev
          /\ db'.sessions[t].owner = db.sessions[t].owner
          /\ db'.sessions[t].target = db.sessions[t].target
          /\ db'.sessions[t].pinned = db.sessions[t].pinned
          /\ db'.sessions[t].deleting = db.sessions[t].deleting
          /\ db'.sessions[t].recent => db.sessions[t].recent
    BY <2>1 DEF R!SessionGoesIdle, DbOK, SessionRow
  <2> QED BY <2>2, <2>3
          DEF Age, Spared, RowsSpared, DependentsSpared, CountsSpared, RevisionsGrow,
              providerDependencies, R!ProviderSessions, R!ProviderBindings, R!ChannelSessions,
              R!OwnedSessions, R!OwnedChannels, R!LiveChannels, R!NodeBindings, R!Owners, R!Live
<1>2. CASE \E u \in Users : R!UserGoesStale(u)
  <2>1. PICK u \in Users : R!UserGoesStale(u) BY <1>2
  <2>2. /\ db'.providers = db.providers /\ db'.channels = db.channels
        /\ db'.nodes = db.nodes /\ db'.bindings = db.bindings
        /\ db'.documents = db.documents /\ db'.sessions = db.sessions
    BY <2>1 DEF R!UserGoesStale, DbOK
  <2>3. \A t \in Users :
          /\ db'.users[t].rev = db.users[t].rev
          /\ db'.users[t].owner = db.users[t].owner
          /\ db.users[t].stale => db'.users[t].stale
    BY <2>1 DEF R!UserGoesStale, DbOK, UserRow
  <2> QED BY <2>2, <2>3
          DEF Age, Spared, RowsSpared, DependentsSpared, CountsSpared, RevisionsGrow,
              providerDependencies, R!ProviderSessions, R!ProviderBindings, R!ChannelSessions,
              R!OwnedSessions, R!OwnedChannels, R!LiveChannels, R!NodeBindings, R!Owners, R!Live
<1> QED BY <1>1, <1>2 DEF Age

-----------------------------------------------------------------------------
(*****************************************************************************)
(* What a commit does.  Each operation of Repository writes the rows of its  *)
(* kind and no other; a transaction whose statements are all done commits its*)
(* operation of Repository, on rows it has locked.                           *)
(*****************************************************************************)

(* Which rows an operation writes. *)
PutsProvider(p) == \E row \in ProviderRow : db' = [db EXCEPT !.providers[p] = row]
PutsSession(s) ==
  \E row \in SessionRow, g \in GrantStates : db' = [db EXCEPT !.sessions[s] = row, !.grants[s] = g]
PutsChannel(h) == \E row \in ChannelRow : db' = [db EXCEPT !.channels[h] = row]
PutsUser(u) == \E row \in UserRow : db' = [db EXCEPT !.users[u] = row]
PutsNode(n) ==
  \E row \in NodeRow, k \in Nat : db' = [db EXCEPT !.nodes[n] = row, !.certs[n] = k]
PutsBinding(b) == \E row \in BindingRow : db' = [db EXCEPT !.bindings[b] = row]
PutsDocument(k) == \E row \in DocumentRow : db' = [db EXCEPT !.documents[k] = row]

\* A revision bump leaves a row of its kind.
LEMMA RevisedRows ==
  /\ \A row \in ProviderRow : R!Revised(row) \in ProviderRow
  /\ \A row \in SessionRow : R!Revised(row) \in SessionRow
  /\ \A row \in ChannelRow : R!Revised(row) \in ChannelRow
  /\ \A row \in UserRow : R!Revised(row) \in UserRow
  /\ \A row \in NodeRow : R!Revised(row) \in [rev: Nat, state: R!NodeStates]
  /\ \A row \in BindingRow : R!Revised(row) \in BindingRow
BY DEF R!Revised, ProviderRow, SessionRow, ChannelRow, UserRow, NodeRow, BindingRow

\* The provider operations write one provider row.
LEMMA ProviderPuts ==
  ASSUME DbOK, NEW p \in Providers,
         \/ R!createProvider(p) \/ R!beginProviderDeletion(p)
         \/ \E e \in Revisions : R!compareAndSetProvider(p, e) \/ R!finalizeProviderDeletion(p, e)
  PROVE PutsProvider(p)
<1> DEFINE old == db.providers[p]
<1> USE DEF PutsProvider
<1>1. old \in ProviderRow BY DEF DbOK
<1>2. CASE R!createProvider(p)
  <2>1. [rev |-> 1, pending |-> FALSE] \in ProviderRow BY DEF ProviderRow
  <2> QED BY <1>2, <2>1 DEF R!createProvider
<1>3. CASE R!beginProviderDeletion(p)
  <2>1. [rev |-> old.rev + 1, pending |-> TRUE] \in ProviderRow BY <1>1 DEF ProviderRow
  <2> QED BY <1>3, <2>1 DEF R!beginProviderDeletion
<1>4. ASSUME NEW e \in Revisions, R!compareAndSetProvider(p, e) PROVE PutsProvider(p)
  <2> DEFINE new == R!Revised(old)
  <2>1. new \in ProviderRow BY <1>1, RevisedRows DEF ProviderRow
  <2>2. db' = [db EXCEPT !.providers[p] = new] BY <1>4 DEF R!compareAndSetProvider
  <2> QED BY <2>1, <2>2
<1>5. ASSUME NEW e \in Revisions, R!finalizeProviderDeletion(p, e) PROVE PutsProvider(p)
  <2>1. R!NoProvider \in ProviderRow BY DEF ProviderRow, R!NoProvider
  <2> QED BY <1>5, <2>1 DEF R!finalizeProviderDeletion
<1> QED BY <1>2, <1>3, <1>4, <1>5

\* The session operations write one session row and the grant of that session.
LEMMA SessionPuts ==
  ASSUME DbOK, NEW s \in Sessions,
         \/ \E o \in Users \cup {None}, t \in R!Targets, e \in Revisions :
              R!createSessionWithPlaybackGrant(s, o, t, e)
         \/ \E e \in Revisions, q \in BOOLEAN : R!compareAndSetSession(s, e, q)
         \/ R!touchSessionPlaybackActivity(s) \/ R!SessionGoesIdle(s)
         \/ \E q \in BOOLEAN : R!beginSessionDeletion(s, q)
         \/ R!deleteSessionAndRevokePlaybackGrants(s)
  PROVE PutsSession(s)
<1> DEFINE old == db.sessions[s] grant == db.grants[s]
<1> USE DEF PutsSession
<1>1. old \in SessionRow /\ grant \in GrantStates BY DEF DbOK
<1>8. ASSUME NEW row, db' = [db EXCEPT !.sessions[s] = row]
      PROVE  db' = [db EXCEPT !.sessions[s] = row, !.grants[s] = grant]
  BY <1>8 DEF DbOK
<1>2. ASSUME NEW o \in Users \cup {None}, NEW t \in R!Targets, NEW e \in Revisions,
             R!createSessionWithPlaybackGrant(s, o, t, e)
      PROVE  PutsSession(s)
  <2> DEFINE new == [R!NoSession EXCEPT !.rev = 1, !.owner = o, !.target = t, !.recent = TRUE]
  <2>1. new \in SessionRow /\ "live" \in GrantStates
    BY DEF SessionRow, GrantStates, R!NoSession, R!Targets
  <2>2. db' = [db EXCEPT !.sessions[s] = new, !.grants[s] = "live"]
    BY <1>2 DEF R!createSessionWithPlaybackGrant, DbOK
  <2> QED BY <2>1, <2>2
<1>3. ASSUME NEW e \in Revisions, NEW q \in BOOLEAN, R!compareAndSetSession(s, e, q)
      PROVE  PutsSession(s)
  <2> DEFINE new == [R!Revised(old) EXCEPT !.pinned = q]
  <2>1. new \in SessionRow BY <1>1, RevisedRows DEF SessionRow
  <2>2. db' = [db EXCEPT !.sessions[s] = new]
    BY <1>3 DEF R!compareAndSetSession
  <2> QED BY <1>1, <1>8, <2>1, <2>2
<1>4. CASE R!touchSessionPlaybackActivity(s)
  <2> DEFINE new == [R!Revised(old) EXCEPT !.recent = TRUE]
  <2>1. new \in SessionRow BY <1>1, RevisedRows DEF SessionRow
  <2>2. db' = [db EXCEPT !.sessions[s] = new]
    BY <1>4 DEF R!touchSessionPlaybackActivity
  <2> QED BY <1>1, <1>8, <2>1, <2>2
<1>5. CASE R!SessionGoesIdle(s)
  <2> DEFINE new == [old EXCEPT !.recent = FALSE]
  <2>1. new \in SessionRow BY <1>1, RevisedRows DEF SessionRow
  <2>2. db' = [db EXCEPT !.sessions[s] = new]
    BY <1>5 DEF R!SessionGoesIdle
  <2> QED BY <1>1, <1>8, <2>1, <2>2
<1>6. ASSUME NEW q \in BOOLEAN, R!beginSessionDeletion(s, q) PROVE PutsSession(s)
  <2> DEFINE new == [R!Revised(old) EXCEPT !.deleting = TRUE]
  <2>1. new \in SessionRow /\ "revoked" \in GrantStates
    BY <1>1, RevisedRows DEF SessionRow, GrantStates
  <2>2. db' = [db EXCEPT !.sessions[s] = new, !.grants[s] = "revoked"]
    BY <1>6 DEF R!beginSessionDeletion
  <2> QED BY <2>1, <2>2
<1>7. CASE R!deleteSessionAndRevokePlaybackGrants(s)
  <2>1. R!NoSession \in SessionRow /\ "revoked" \in GrantStates
    BY DEF SessionRow, GrantStates, R!NoSession
  <2> QED BY <1>7, <2>1 DEF R!deleteSessionAndRevokePlaybackGrants
<1> QED BY <1>2, <1>3, <1>4, <1>5, <1>6, <1>7

\* The channel operations write one channel row.
LEMMA ChannelPuts ==
  ASSUME DbOK, NEW h \in Channels,
         \/ \E o \in Users \cup {None} : R!createLiveChannelWithinCapacity(h, o)
         \/ \E e \in Revisions, q \in BOOLEAN : R!compareAndSetLiveChannel(h, e, q)
         \/ \E e \in Revisions : R!deleteLiveChannel(h, e)
  PROVE PutsChannel(h)
<1> DEFINE old == db.channels[h]
<1> USE DEF PutsChannel
<1>1. old \in ChannelRow BY DEF DbOK
<1>2. ASSUME NEW o \in Users \cup {None}, R!createLiveChannelWithinCapacity(h, o)
      PROVE PutsChannel(h)
  <2>1. [rev |-> 1, owner |-> o, publishing |-> FALSE] \in ChannelRow BY DEF ChannelRow
  <2> QED BY <1>2, <2>1 DEF R!createLiveChannelWithinCapacity
<1>3. ASSUME NEW e \in Revisions, NEW q \in BOOLEAN, R!compareAndSetLiveChannel(h, e, q)
      PROVE  PutsChannel(h)
  <2> DEFINE new == [R!Revised(old) EXCEPT !.publishing = q]
  <2>1. new \in ChannelRow BY <1>1, RevisedRows DEF ChannelRow
  <2>2. db' = [db EXCEPT !.channels[h] = new]
    BY <1>3 DEF R!compareAndSetLiveChannel
  <2> QED BY <2>1, <2>2
<1>4. ASSUME NEW e \in Revisions, R!deleteLiveChannel(h, e) PROVE PutsChannel(h)
  <2>1. R!NoChannel \in ChannelRow BY DEF ChannelRow, R!NoChannel
  <2> QED BY <1>4, <2>1 DEF R!deleteLiveChannel
<1> QED BY <1>2, <1>3, <1>4

\* The user operations write one user row.
LEMMA UserPuts ==
  ASSUME DbOK, NEW u \in Users,
         \/ R!createUserIdentity(u) \/ R!UserGoesStale(u)
         \/ \E e \in Revisions : R!compareAndSetUserIdentity(u, e)
         \/ \E e \in Revisions, q \in BOOLEAN :
              \/ R!compareAndSetUserIdentityPreservingOwner(u, e, q)
              \/ R!deleteUserIdentityPreservingOwner(u, e, q)
  PROVE PutsUser(u)
<1> DEFINE old == db.users[u]
<1> USE DEF PutsUser
<1>1. old \in UserRow BY DEF DbOK
<1>2. CASE R!createUserIdentity(u)
  <2>1. [rev |-> 1, owner |-> FALSE, stale |-> FALSE] \in UserRow BY DEF UserRow
  <2> QED BY <1>2, <2>1 DEF R!createUserIdentity
<1>3. CASE R!UserGoesStale(u)
  <2> DEFINE new == [old EXCEPT !.stale = TRUE]
  <2>1. new \in UserRow BY <1>1, RevisedRows DEF UserRow
  <2>2. db' = [db EXCEPT !.users[u] = new] BY <1>3 DEF R!UserGoesStale, DbOK
  <2> QED BY <2>1, <2>2
<1>4. ASSUME NEW e \in Revisions, R!compareAndSetUserIdentity(u, e) PROVE PutsUser(u)
  <2> DEFINE new == [R!Revised(old) EXCEPT !.stale = FALSE]
  <2>1. new \in UserRow BY <1>1, RevisedRows DEF UserRow
  <2>2. db' = [db EXCEPT !.users[u] = new] BY <1>4 DEF R!compareAndSetUserIdentity, DbOK
  <2> QED BY <2>1, <2>2
<1>5. ASSUME NEW e \in Revisions, NEW q \in BOOLEAN,
             R!compareAndSetUserIdentityPreservingOwner(u, e, q)
      PROVE  PutsUser(u)
  <2> DEFINE new == [R!Revised(old) EXCEPT !.owner = q]
  <2>1. new \in UserRow BY <1>1, RevisedRows DEF UserRow
  <2>2. db' = [db EXCEPT !.users[u] = new]
    BY <1>5 DEF R!compareAndSetUserIdentityPreservingOwner
  <2> QED BY <2>1, <2>2
<1>6. ASSUME NEW e \in Revisions, NEW q \in BOOLEAN,
             R!deleteUserIdentityPreservingOwner(u, e, q)
      PROVE  PutsUser(u)
  <2>1. R!NoUser \in UserRow BY DEF UserRow, R!NoUser
  <2> QED BY <1>6, <2>1 DEF R!deleteUserIdentityPreservingOwner
<1> QED BY <1>2, <1>3, <1>4, <1>5, <1>6

\* The operations on nodes other than revokeNode.
NodeOnly(n) ==
  \/ R!createNode(n) \/ R!ensureLocalNode(n)
  \/ \E e \in Revisions :
       \/ R!recordNodeHeartbeat(n, e) \/ R!removeNode(n, e) \/ R!rotateNodeCertificate(n, e)
       \/ \E q \in BOOLEAN : R!setNodeDrain(n, e, q)
       \/ \E q \in {"joining", "online", "offline"} : R!setNodeOperationalState(n, e, q)

\* The node operations, but for revokeNode, write one node row and its certificates.
LEMMA NodePuts ==
  ASSUME DbOK, NEW n \in Nodes, NodeOnly(n)
  PROVE PutsNode(n)
<1> DEFINE old == db.nodes[n] k == db.certs[n]
<1> USE DEF PutsNode
<1>1. old \in NodeRow /\ old.rev \in Nat \cup {-1} /\ old.state \in R!NodeStates /\ k \in Nat
  BY DEF DbOK, NodeRow
<1>2. ASSUME NEW e \in Nat \cup {-1}, NEW x \in R!NodeStates
      PROVE [rev |-> e, state |-> x] \in NodeRow
  BY DEF NodeRow
<1>3. CASE R!createNode(n)
  <2>1. [rev |-> 1, state |-> "joining"] \in NodeRow
    BY DEF NodeRow, R!NodeStates
  <2>3. k + 1 \in Nat
    BY <1>1
  <2>2. db' = [db EXCEPT !.nodes[n] = [rev |-> 1, state |-> "joining"], !.certs[n] = k + 1]
    BY <1>3 DEF R!createNode, DbOK
  <2> QED BY <2>1, <2>2, <2>3
<1>4. ASSUME NEW x \in R!NodeStates, NEW j \in Nat,
             db' = [db EXCEPT !.nodes[n] = [rev |-> old.rev + 1, state |-> x], !.certs[n] = j]
      PROVE  PutsNode(n)
  <2>1. [rev |-> old.rev + 1, state |-> x] \in NodeRow BY <1>1, <1>2
  <2> QED BY <1>4, <2>1
<1>5. ASSUME NEW x \in R!NodeStates,
             db' = [db EXCEPT !.nodes[n] = [rev |-> old.rev + 1, state |-> x]]
      PROVE  PutsNode(n)
  <2>1. db' = [db EXCEPT !.nodes[n] = [rev |-> old.rev + 1, state |-> x], !.certs[n] = k]
    BY <1>5 DEF DbOK
  <2> QED BY <1>1, <1>4, <2>1
<1>6. CASE R!ensureLocalNode(n)
  <2> DEFINE x == IF R!Live(old) /\ R!Protected(old.state) THEN old.state ELSE "online"
  <2>1. x \in R!NodeStates BY <1>1 DEF R!NodeStates
  <2>2. db' = [db EXCEPT !.nodes[n] = [rev |-> old.rev + 1, state |-> x]]
    BY <1>6 DEF R!ensureLocalNode
  <2> QED BY <1>5, <2>1, <2>2
<1>7. ASSUME NEW e \in Revisions, R!recordNodeHeartbeat(n, e) PROVE PutsNode(n)
  <2> DEFINE x == IF R!Protected(old.state) THEN old.state ELSE "online"
  <2>1. x \in R!NodeStates BY <1>1 DEF R!NodeStates
  <2>2. db' = [db EXCEPT !.nodes[n] = [rev |-> old.rev + 1, state |-> x]]
    BY <1>7 DEF R!recordNodeHeartbeat
  <2> QED BY <1>5, <2>1, <2>2
<1>8. ASSUME NEW e \in Revisions, R!removeNode(n, e) PROVE PutsNode(n)
  <2>1. R!RemovedNode \in NodeRow BY DEF NodeRow, R!RemovedNode, R!NodeStates
  <2>2. db' = [db EXCEPT !.nodes[n] = R!RemovedNode, !.certs[n] = k]
    BY <1>8 DEF R!removeNode, DbOK
  <2> QED BY <1>1, <2>1, <2>2
<1>9. ASSUME NEW e \in Revisions, R!rotateNodeCertificate(n, e) PROVE PutsNode(n)
  <2>1. R!Revised(old) \in NodeRow BY <1>1, RevisedRows DEF NodeRow
  <2>2. db' = [db EXCEPT !.nodes[n] = R!Revised(old), !.certs[n] = 1]
    BY <1>9 DEF R!rotateNodeCertificate
  <2> QED BY <2>1, <2>2
<1>10. ASSUME NEW e \in Revisions, NEW q \in BOOLEAN, R!setNodeDrain(n, e, q) PROVE PutsNode(n)
  <2> DEFINE x
      == IF q THEN "draining" ELSE IF old.state = "draining" THEN "online" ELSE old.state
  <2>1. x \in R!NodeStates BY <1>1 DEF R!NodeStates
  <2>2. db' = [db EXCEPT !.nodes[n] = [rev |-> old.rev + 1, state |-> x]]
    BY <1>10 DEF R!setNodeDrain
  <2> QED BY <1>5, <2>1, <2>2
<1>11. ASSUME NEW e \in Revisions, NEW q \in {"joining", "online", "offline"},
              R!setNodeOperationalState(n, e, q)
       PROVE  PutsNode(n)
  <2>1. q \in R!NodeStates BY DEF R!NodeStates
  <2>2. db' = [db EXCEPT !.nodes[n] = [rev |-> old.rev + 1, state |-> q]]
    BY <1>11 DEF R!setNodeOperationalState
  <2> QED BY <1>5, <2>1, <2>2
<1> QED BY <1>3, <1>6, <1>7, <1>8, <1>9, <1>10, <1>11 DEF NodeOnly

\* The operations on bindings other than createProviderBinding.
BindingOnly(b) ==
  \/ \E e \in Revisions, q \in R!BindingStates : R!compareAndSetProviderBinding(b, e, q)
  \/ R!beginProviderBindingDeletion(b)
  \/ \E e \in Revisions : R!finalizeProviderBindingDeletion(b, e)

\* The binding operations, but for createProviderBinding, write one binding row.
LEMMA BindingPuts ==
  ASSUME DbOK, NEW b \in Bindings, BindingOnly(b)
  PROVE PutsBinding(b)
<1> DEFINE old == db.bindings[b]
<1> USE DEF PutsBinding
<1>1. old \in BindingRow BY DEF DbOK
<1>2. ASSUME NEW e \in Revisions, NEW q \in R!BindingStates, R!compareAndSetProviderBinding(b, e, q)
      PROVE  PutsBinding(b)
  <2> DEFINE new == [R!Revised(old) EXCEPT !.state = q]
  <2>1. new \in BindingRow BY <1>1, RevisedRows DEF BindingRow
  <2>2. db' = [db EXCEPT !.bindings[b] = new]
    BY <1>2 DEF R!compareAndSetProviderBinding
  <2> QED BY <2>1, <2>2
<1>3. CASE R!beginProviderBindingDeletion(b)
  <2> DEFINE new == [rev |-> old.rev + 1, provider |-> old.provider, node |-> old.node,
                 state |-> "revoked", pending |-> TRUE]
  <2>1. new \in BindingRow BY <1>1, RevisedRows DEF BindingRow, R!BindingStates
  <2>2. db' = [db EXCEPT !.bindings[b] = new]
    BY <1>3 DEF R!beginProviderBindingDeletion
  <2> QED BY <2>1, <2>2
<1>4. ASSUME NEW e \in Revisions, R!finalizeProviderBindingDeletion(b, e) PROVE PutsBinding(b)
  <2>1. R!NoBinding \in BindingRow BY DEF BindingRow, R!NoBinding, R!BindingStates
  <2> QED BY <1>4, <2>1 DEF R!finalizeProviderBindingDeletion
<1> QED BY <1>2, <1>3, <1>4 DEF BindingOnly

\* The operations on the other tables write one row.
LEMMA DocumentPuts ==
  ASSUME DbOK, NEW k \in Documents,
         \/ R!insertIfAbsent(k) \/ R!put(k) \/ R!delete(k)
         \/ \E e \in Revisions : R!compareAndSetVersioned(k, e)
  PROVE PutsDocument(k)
<1> DEFINE old == db.documents[k]
<1> USE DEF PutsDocument
<1>1. ASSUME NEW e \in Nat, NEW x \in {"open", "closed"}
      PROVE [rev |-> e, state |-> x] \in DocumentRow
  BY DEF DocumentRow
<1>2. old.rev + 1 \in Nat BY DEF DbOK, DocumentRow
<1>3. CASE R!insertIfAbsent(k) BY <1>1, <1>3 DEF R!insertIfAbsent
<1>4. CASE R!put(k) BY <1>1, <1>2, <1>4 DEF R!put
<1>5. CASE R!delete(k)
  <2>1. R!NoDocument \in DocumentRow BY DEF DocumentRow, R!NoDocument
  <2> QED BY <1>5, <2>1 DEF R!delete
<1>6. ASSUME NEW e \in Revisions, R!compareAndSetVersioned(k, e) PROVE PutsDocument(k)
  BY <1>1, <1>2, <1>6 DEF R!compareAndSetVersioned
<1> QED BY <1>3, <1>4, <1>5, <1>6

\* Writing rows of the right kind keeps the tables well typed.
LEMMA PutsTyped ==
  ASSUME DbOK
  PROVE  /\ \A p \in Providers : PutsProvider(p) => DbOK'
         /\ \A s \in Sessions : PutsSession(s) => DbOK'
         /\ \A h \in Channels : PutsChannel(h) => DbOK'
         /\ \A u \in Users : PutsUser(u) => DbOK'
         /\ \A n \in Nodes : PutsNode(n) => DbOK'
         /\ \A b \in Bindings : PutsBinding(b) => DbOK'
         /\ \A k \in Documents : PutsDocument(k) => DbOK'
<1>1. ASSUME NEW p \in Providers, PutsProvider(p) PROVE DbOK' BY <1>1 DEF DbOK, PutsProvider
<1>2. ASSUME NEW s \in Sessions, PutsSession(s) PROVE DbOK'
  <2>1. PICK row \in SessionRow, g \in GrantStates :
          db' = [db EXCEPT !.sessions[s] = row, !.grants[s] = g]
    BY <1>2 DEF PutsSession
  <2> QED BY <2>1 DEF DbOK
<1>3. ASSUME NEW h \in Channels, PutsChannel(h) PROVE DbOK' BY <1>3 DEF DbOK, PutsChannel
<1>4. ASSUME NEW u \in Users, PutsUser(u) PROVE DbOK' BY <1>4 DEF DbOK, PutsUser
<1>5. ASSUME NEW n \in Nodes, PutsNode(n) PROVE DbOK'
  <2>1. PICK row \in NodeRow, k \in Nat : db' = [db EXCEPT !.nodes[n] = row, !.certs[n] = k]
    BY <1>5 DEF PutsNode
  <2> QED BY <2>1 DEF DbOK
<1>6. ASSUME NEW b \in Bindings, PutsBinding(b) PROVE DbOK' BY <1>6 DEF DbOK, PutsBinding
<1>7. ASSUME NEW k \in Documents, PutsDocument(k) PROVE DbOK' BY <1>7 DEF DbOK, PutsDocument
<1> QED BY <1>1, <1>2, <1>3, <1>4, <1>5, <1>6, <1>7

\* The two operations that write several rows of more than one table.
LEMMA RevokeTyped ==
  ASSUME DbOK, NEW n \in Nodes, NEW e \in Revisions, R!revokeNode(n, e)
  PROVE  DbOK'
<1> DEFINE row == [rev |-> db.nodes[n].rev + 1, state |-> "revoked"]
           rows == [b \in Bindings |->
                      IF b \in R!NodeBindings(n)
                        THEN [R!Revised(db.bindings[b]) EXCEPT !.state = "revoked"]
                        ELSE db.bindings[b]]
<1>1. row \in NodeRow BY DEF DbOK, NodeRow, R!NodeStates
<1>2. rows \in [Bindings -> BindingRow]
  <2> SUFFICES ASSUME NEW b \in Bindings PROVE rows[b] \in BindingRow OBVIOUS
  <2>1. db.bindings[b] \in BindingRow BY DEF DbOK
  <2>2. [R!Revised(db.bindings[b]) EXCEPT !.state = "revoked"] \in BindingRow
    BY <2>1, RevisedRows DEF BindingRow, R!BindingStates
  <2> QED BY <2>1, <2>2
<1>3. db' = [db EXCEPT !.nodes[n] = row, !.certs[n] = 0, !.bindings = rows]
  BY DEF R!revokeNode
<1> QED BY <1>1, <1>2, <1>3 DEF DbOK

\* createProviderBinding, which writes a provider and a binding, keeps the types.
LEMMA BindTyped ==
  ASSUME DbOK, NEW b \in Bindings, NEW p \in Providers, NEW n \in Nodes,
         NEW e, R!createProviderBinding(b, p, n, e)
  PROVE  DbOK'
<1> DEFINE row
    == [rev |-> 1, provider |-> p, node |-> n, state |-> "pending", pending |-> FALSE]
<1>1. row \in BindingRow BY DEF BindingRow, R!BindingStates
<1>2. R!Revised(db.providers[p]) \in ProviderRow BY RevisedRows DEF DbOK
<1>3. db' = [db EXCEPT !.providers[p] = R!Revised(db.providers[p]), !.bindings[b] = row]
  BY DEF R!createProviderBinding
<1> QED BY <1>1, <1>2, <1>3 DEF DbOK

\* Every operation keeps the tables well typed.
LEMMA RowsTyped == DbOK /\ R!Next => DbOK'
<1> SUFFICES ASSUME DbOK, R!Next PROVE DbOK' OBVIOUS
<1>1. CASE R!Refused BY <1>1 DEF R!Refused, DbOK
<1>2. CASE R!ProviderNext BY <1>2, ProviderPuts, PutsTyped DEF R!ProviderNext
<1>3. CASE R!SessionNext BY <1>3, SessionPuts, PutsTyped DEF R!SessionNext
<1>4. CASE R!ChannelNext BY <1>4, ChannelPuts, PutsTyped DEF R!ChannelNext
<1>5. CASE R!UserNext BY <1>5, UserPuts, PutsTyped DEF R!UserNext
<1>6. CASE R!NodeNext
  <2>1. PICK n \in Nodes : NodeOnly(n) \/ \E e \in Revisions : R!revokeNode(n, e)
    BY <1>6 DEF R!NodeNext, NodeOnly
  <2> QED BY <2>1, NodePuts, PutsTyped, RevokeTyped
<1>7. CASE R!BindingNext
  <2>1. PICK b \in Bindings :
          \/ BindingOnly(b)
          \/ \E p \in Providers, n \in Nodes, e \in Revisions \cup {None} :
               R!createProviderBinding(b, p, n, e)
    BY <1>7 DEF R!BindingNext, BindingOnly
  <2> QED BY <2>1, BindingPuts, PutsTyped, BindTyped
<1>8. CASE R!DocumentNext BY <1>8, DocumentPuts, PutsTyped DEF R!DocumentNext
<1> QED BY <1>1, <1>2, <1>3, <1>4, <1>5, <1>6, <1>7, <1>8 DEF R!Next

(* What a write leaves alone. *)

\* Writing a provider row changes no other row.
LEMMA ProviderElsewhere ==
  ASSUME DbOK, NEW p \in Providers, PutsProvider(p)
  PROVE  /\ \A x \in Providers \ {p} : db'.providers[x] = db.providers[x]
         /\ db'.sessions = db.sessions /\ db'.grants = db.grants /\ db'.channels = db.channels
         /\ db'.users = db.users /\ db'.nodes = db.nodes /\ db'.certs = db.certs
         /\ db'.bindings = db.bindings /\ db'.documents = db.documents
BY DEF DbOK, PutsProvider

\* Writing a session row and its grant changes no other row.
LEMMA SessionElsewhere ==
  ASSUME DbOK, NEW s \in Sessions, PutsSession(s)
  PROVE  /\ \A x \in Sessions \ {s} :
              db'.sessions[x] = db.sessions[x] /\ db'.grants[x] = db.grants[x]
         /\ db'.providers = db.providers /\ db'.channels = db.channels /\ db'.users = db.users
         /\ db'.nodes = db.nodes /\ db'.certs = db.certs /\ db'.bindings = db.bindings
         /\ db'.documents = db.documents
BY DEF DbOK, PutsSession

\* Writing a channel row changes no other row.
LEMMA ChannelElsewhere ==
  ASSUME DbOK, NEW h \in Channels, PutsChannel(h)
  PROVE  /\ \A x \in Channels \ {h} : db'.channels[x] = db.channels[x]
         /\ db'.providers = db.providers /\ db'.sessions = db.sessions /\ db'.grants = db.grants
         /\ db'.users = db.users /\ db'.nodes = db.nodes /\ db'.certs = db.certs
         /\ db'.bindings = db.bindings /\ db'.documents = db.documents
BY DEF DbOK, PutsChannel

\* Writing a user row changes no other row.
LEMMA UserElsewhere ==
  ASSUME DbOK, NEW u \in Users, PutsUser(u)
  PROVE  /\ \A x \in Users \ {u} : db'.users[x] = db.users[x]
         /\ db'.providers = db.providers /\ db'.sessions = db.sessions /\ db'.grants = db.grants
         /\ db'.channels = db.channels /\ db'.nodes = db.nodes /\ db'.certs = db.certs
         /\ db'.bindings = db.bindings /\ db'.documents = db.documents
BY DEF DbOK, PutsUser

\* Writing a node row and its certificates changes no other row.
LEMMA NodeElsewhere ==
  ASSUME DbOK, NEW n \in Nodes, PutsNode(n)
  PROVE  /\ \A x \in Nodes \ {n} : db'.nodes[x] = db.nodes[x] /\ db'.certs[x] = db.certs[x]
         /\ db'.providers = db.providers /\ db'.sessions = db.sessions /\ db'.grants = db.grants
         /\ db'.channels = db.channels /\ db'.users = db.users /\ db'.bindings = db.bindings
         /\ db'.documents = db.documents
BY DEF DbOK, PutsNode

\* Writing a binding row changes no other row.
LEMMA BindingElsewhere ==
  ASSUME DbOK, NEW b \in Bindings, PutsBinding(b)
  PROVE  /\ \A x \in Bindings \ {b} : db'.bindings[x] = db.bindings[x]
         /\ db'.providers = db.providers /\ db'.sessions = db.sessions /\ db'.grants = db.grants
         /\ db'.channels = db.channels /\ db'.users = db.users /\ db'.nodes = db.nodes
         /\ db'.certs = db.certs /\ db'.documents = db.documents
BY DEF DbOK, PutsBinding

\* Writing a document row changes no other row.
LEMMA DocumentElsewhere ==
  ASSUME DbOK, NEW k \in Documents, PutsDocument(k)
  PROVE  /\ \A x \in Documents \ {k} : db'.documents[x] = db.documents[x]
         /\ db'.providers = db.providers /\ db'.sessions = db.sessions /\ db'.grants = db.grants
         /\ db'.channels = db.channels /\ db'.users = db.users /\ db'.nodes = db.nodes
         /\ db'.certs = db.certs /\ db'.bindings = db.bindings
BY DEF DbOK, PutsDocument

\* Repository counts with its own instance of FiniteSets.
LEMMA SameCount == ASSUME NEW S PROVE R!Cardinality(S) = Cardinality(S)
BY DEF R!Cardinality, Cardinality

\* A finished createProvider commits it as Repository states it, on rows it owns.
LEMMA CreateProviderEnds ==
  ASSUME DbOK, NEW c \in Clients, NEW q, Request(c, q), q.op = "createProvider",
         ProviderWork(q, Len(Script(q).statements)), db' = Script(q).commit
  PROVE  R!createProvider(q.id) /\ Owns(c, <<"providers", q.id>>)
<1>1. Script(q) = createProvider(q) BY DEF Script
<1>2. Len(Script(q).statements) = 1 BY <1>1 DEF createProvider, Transaction
<1>3. q.by = c /\ q.id \in Providers BY DEF Request, ProviderOps
<1> QED BY <1>1, <1>2, <1>3 DEF ProviderWork, createProvider, Transaction, R!createProvider,
          At, Live, R!At, R!Live, Revised

\* A finished compareAndSetProvider commits it as Repository states it, on rows it owns.
LEMMA CompareAndSetProviderEnds ==
  ASSUME DbOK, NEW c \in Clients, NEW q, Request(c, q), q.op = "compareAndSetProvider",
         ProviderWork(q, Len(Script(q).statements)), db' = Script(q).commit
  PROVE  R!compareAndSetProvider(q.id, q.rev) /\ Owns(c, <<"providers", q.id>>)
<1>1. Script(q) = compareAndSetProvider(q) BY DEF Script
<1>2. Len(Script(q).statements) = 1 BY <1>1 DEF compareAndSetProvider, Transaction
<1>3. q.by = c /\ q.id \in Providers BY DEF Request, ProviderOps
<1> QED
  BY <1>1, <1>2, <1>3
     DEF ProviderWork, compareAndSetProvider, Transaction, R!compareAndSetProvider,
          At, Live, R!At, R!Live, Revised

\* A finished beginProviderDeletion commits it as Repository states it, on rows it owns.
LEMMA BeginProviderDeletionEnds ==
  ASSUME DbOK, NEW c \in Clients, NEW q, Request(c, q), q.op = "beginProviderDeletion",
         ProviderWork(q, Len(Script(q).statements)), db' = Script(q).commit
  PROVE  R!beginProviderDeletion(q.id) /\ Owns(c, <<"providers", q.id>>)
<1>1. Script(q) = beginProviderDeletion(q) BY DEF Script
<1>2. Len(Script(q).statements) = 2 BY <1>1 DEF beginProviderDeletion, Transaction
<1>3. q.by = c /\ q.id \in Providers BY DEF Request, ProviderOps
<1> QED
  BY <1>1, <1>2, <1>3
     DEF ProviderWork, beginProviderDeletion, Transaction, R!beginProviderDeletion,
          At, Live, R!At, R!Live, Revised, providerDependencies, R!providerDependencies

\* A finished finalizeProviderDeletion commits it as Repository states it, on rows it owns.
LEMMA FinalizeProviderDeletionEnds ==
  ASSUME DbOK, NEW c \in Clients, NEW q, Request(c, q), q.op = "finalizeProviderDeletion",
         ProviderWork(q, Len(Script(q).statements)), db' = Script(q).commit
  PROVE  R!finalizeProviderDeletion(q.id, q.rev) /\ Owns(c, <<"providers", q.id>>)
<1>1. Script(q) = finalizeProviderDeletion(q) BY DEF Script
<1>2. Len(Script(q).statements) = 2 BY <1>1 DEF finalizeProviderDeletion, Transaction
<1>3. q.by = c /\ q.id \in Providers BY DEF Request, ProviderOps
<1> QED
  BY <1>1, <1>2, <1>3
     DEF ProviderWork, finalizeProviderDeletion, Transaction, R!finalizeProviderDeletion,
          At, Live, R!At, R!Live, Revised, providerDependencies, R!providerDependencies

\* A finished compareAndSetSession commits it as Repository states it, on rows it owns.
LEMMA CompareAndSetSessionEnds ==
  ASSUME DbOK, NEW c \in Clients, NEW q, Request(c, q), q.op = "compareAndSetSession",
         SessionWork(q, Len(Script(q).statements)), db' = Script(q).commit
  PROVE  R!compareAndSetSession(q.id, q.rev, q.flag) /\ Owns(c, <<"sessions", q.id>>)
<1>1. Script(q) = compareAndSetSession(q) BY DEF Script
<1>2. Len(Script(q).statements) = 2 BY <1>1 DEF compareAndSetSession, Transaction
<1>3. q.by = c /\ q.id \in Sessions BY DEF Request, SessionOps
<1> QED
  BY <1>1, <1>2, <1>3
     DEF SessionWork, compareAndSetSession, Transaction, R!compareAndSetSession,
          At, Live, R!At, R!Live, Revised

\* A finished touchSessionPlaybackActivity commits it as Repository states it, on rows it owns.
LEMMA TouchSessionPlaybackActivityEnds ==
  ASSUME DbOK, NEW c \in Clients, NEW q, Request(c, q), q.op = "touchSessionPlaybackActivity",
         SessionWork(q, Len(Script(q).statements)), db' = Script(q).commit
  PROVE  R!touchSessionPlaybackActivity(q.id) /\ Owns(c, <<"sessions", q.id>>)
<1>1. Script(q) = touchSessionPlaybackActivity(q) BY DEF Script
<1>2. Len(Script(q).statements) = 1 BY <1>1 DEF touchSessionPlaybackActivity, Transaction
<1>3. q.by = c /\ q.id \in Sessions BY DEF Request, SessionOps
<1> QED
  BY <1>1, <1>2, <1>3
     DEF SessionWork, touchSessionPlaybackActivity, Transaction, R!touchSessionPlaybackActivity,
          At, Live, R!At, R!Live, Revised

\* A finished beginSessionDeletion commits it as Repository states it, on rows it owns.
LEMMA BeginSessionDeletionEnds ==
  ASSUME DbOK, NEW c \in Clients, NEW q, Request(c, q), q.op = "beginSessionDeletion",
         SessionWork(q, Len(Script(q).statements)), db' = Script(q).commit
  PROVE  R!beginSessionDeletion(q.id, q.flag) /\ Owns(c, <<"sessions", q.id>>)
<1>1. Script(q) = beginSessionDeletion(q) BY DEF Script
<1>2. Len(Script(q).statements) = 2 BY <1>1 DEF beginSessionDeletion, Transaction
<1>3. q.by = c /\ q.id \in Sessions BY DEF Request, SessionOps
<1> QED
  BY <1>1, <1>2, <1>3
     DEF SessionWork, beginSessionDeletion, Transaction, R!beginSessionDeletion,
          At, Live, R!At, R!Live, Revised

\* A finished deleteSessionAndRevokePlaybackGrants commits it as Repository states it, on rows it owns.
LEMMA DeleteSessionAndRevokePlaybackGrantsEnds ==
  ASSUME DbOK, NEW c \in Clients, NEW q, Request(c, q), q.op = "deleteSessionAndRevokePlaybackGrants",
         SessionWork(q, Len(Script(q).statements)), db' = Script(q).commit
  PROVE  R!deleteSessionAndRevokePlaybackGrants(q.id) /\ Owns(c, <<"sessions", q.id>>)
<1>1. Script(q) = deleteSessionAndRevokePlaybackGrants(q) BY DEF Script
<1>2. Len(Script(q).statements) = 2
  BY <1>1 DEF deleteSessionAndRevokePlaybackGrants, Transaction
<1>3. q.by = c /\ q.id \in Sessions BY DEF Request, SessionOps
<1> QED
  BY <1>1, <1>2, <1>3
     DEF SessionWork, deleteSessionAndRevokePlaybackGrants, Transaction,
       R!deleteSessionAndRevokePlaybackGrants,
          At, Live, R!At, R!Live, Revised

\* A finished compareAndSetLiveChannel commits it as Repository states it, on rows it owns.
LEMMA CompareAndSetLiveChannelEnds ==
  ASSUME DbOK, NEW c \in Clients, NEW q, Request(c, q), q.op = "compareAndSetLiveChannel",
         ChannelWork(q, Len(Script(q).statements)), db' = Script(q).commit
  PROVE  R!compareAndSetLiveChannel(q.id, q.rev, q.flag) /\ Owns(c, <<"channels", q.id>>)
<1>1. Script(q) = compareAndSetLiveChannel(q) BY DEF Script
<1>2. Len(Script(q).statements) = 1 BY <1>1 DEF compareAndSetLiveChannel, Transaction
<1>3. q.by = c /\ q.id \in Channels BY DEF Request, ChannelOps
<1> QED
  BY <1>1, <1>2, <1>3
     DEF ChannelWork, compareAndSetLiveChannel, Transaction, R!compareAndSetLiveChannel,
          At, Live, R!At, R!Live, Revised

\* A finished deleteLiveChannel commits it as Repository states it, on rows it owns.
LEMMA DeleteLiveChannelEnds ==
  ASSUME DbOK, NEW c \in Clients, NEW q, Request(c, q), q.op = "deleteLiveChannel",
         ChannelWork(q, Len(Script(q).statements)), db' = Script(q).commit
  PROVE  R!deleteLiveChannel(q.id, q.rev) /\ Owns(c, <<"channels", q.id>>)
<1>1. Script(q) = deleteLiveChannel(q) BY DEF Script
<1>2. Len(Script(q).statements) = 2 BY <1>1 DEF deleteLiveChannel, Transaction
<1>3. q.by = c /\ q.id \in Channels BY DEF Request, ChannelOps
<1> QED
  BY <1>1, <1>2, <1>3 DEF ChannelWork, deleteLiveChannel, Transaction, R!deleteLiveChannel,
          At, Live, R!At, R!Live, Revised

\* A finished createUserIdentity commits it as Repository states it, on rows it owns.
LEMMA CreateUserIdentityEnds ==
  ASSUME DbOK, NEW c \in Clients, NEW q, Request(c, q), q.op = "createUserIdentity",
         UserWork(q, Len(Script(q).statements)), db' = Script(q).commit
  PROVE  R!createUserIdentity(q.id) /\ Owns(c, <<"users", q.id>>)
<1>1. Script(q) = createUserIdentity(q) BY DEF Script
<1>2. Len(Script(q).statements) = 1 BY <1>1 DEF createUserIdentity, Transaction
<1>3. q.by = c /\ q.id \in Users BY DEF Request, UserOps
<1> QED BY <1>1, <1>2, <1>3 DEF UserWork, createUserIdentity, Transaction, R!createUserIdentity,
          At, Live, R!At, R!Live, Revised

\* A finished compareAndSetUserIdentity commits it as Repository states it, on rows it owns.
LEMMA CompareAndSetUserIdentityEnds ==
  ASSUME DbOK, NEW c \in Clients, NEW q, Request(c, q), q.op = "compareAndSetUserIdentity",
         UserWork(q, Len(Script(q).statements)), db' = Script(q).commit
  PROVE  R!compareAndSetUserIdentity(q.id, q.rev) /\ Owns(c, <<"users", q.id>>)
<1>1. Script(q) = compareAndSetUserIdentity(q) BY DEF Script
<1>2. Len(Script(q).statements) = 1 BY <1>1 DEF compareAndSetUserIdentity, Transaction
<1>3. q.by = c /\ q.id \in Users BY DEF Request, UserOps
<1> QED
  BY <1>1, <1>2, <1>3
     DEF UserWork, compareAndSetUserIdentity, Transaction, R!compareAndSetUserIdentity,
          At, Live, R!At, R!Live, Revised

\* A finished compareAndSetUserIdentityPreservingOwner commits it as Repository states it, on rows it owns.
LEMMA CompareAndSetUserIdentityPreservingOwnerEnds ==
  ASSUME DbOK, NEW c \in Clients, NEW q, Request(c, q),
         q.op = "compareAndSetUserIdentityPreservingOwner",
         UserWork(q, Len(Script(q).statements)), db' = Script(q).commit
  PROVE  /\ R!compareAndSetUserIdentityPreservingOwner(q.id, q.rev, q.flag)
         /\ Owns(c, <<"users", q.id>>) /\ Owns(c, OwnerRole)
<1>1. Script(q) = compareAndSetUserIdentityPreservingOwner(q) BY DEF Script
<1>2. Len(Script(q).statements) = 3
  BY <1>1 DEF compareAndSetUserIdentityPreservingOwner, Transaction
<1>3. q.by = c /\ q.id \in Users BY DEF Request, UserOps
<1>4. UserWork(q, 3) BY <1>2
<1>5. /\ Owns(c, OwnerRole) /\ Owns(c, <<"users", q.id>>) /\ At(db.users[q.id], q.rev)
      /\ db.users[q.id].owner /\ ~q.flag => Cardinality(R!Owners) > 1
  BY <1>3, <1>4 DEF UserWork, PreservingOwner
<1>6. db' = [db EXCEPT !.users[q.id] = [R!Revised(@) EXCEPT !.owner = q.flag]]
  BY <1>1 DEF compareAndSetUserIdentityPreservingOwner, Transaction, Revised
<1> QED BY <1>5, <1>6, SameCount DEF R!compareAndSetUserIdentityPreservingOwner, At

\* A finished deleteUserIdentityPreservingOwner commits it as Repository states it, on rows it owns.
LEMMA DeleteUserIdentityPreservingOwnerEnds ==
  ASSUME DbOK, NEW c \in Clients, NEW q, Request(c, q),
         q.op = "deleteUserIdentityPreservingOwner",
         UserWork(q, Len(Script(q).statements)), db' = Script(q).commit
  PROVE  /\ R!deleteUserIdentityPreservingOwner(q.id, q.rev, q.flag)
         /\ Owns(c, <<"users", q.id>>) /\ Owns(c, OwnerRole)
<1>1. Script(q) = deleteUserIdentityPreservingOwner(q) BY DEF Script
<1>2. Len(Script(q).statements) = 5
  BY <1>1 DEF deleteUserIdentityPreservingOwner, Transaction
<1>3. q.by = c /\ q.id \in Users BY DEF Request, UserOps
<1>4. UserWork(q, 5) BY <1>2
<1>5. /\ Owns(c, OwnerRole) /\ Owns(c, <<"users", q.id>>) /\ At(db.users[q.id], q.rev)
      /\ q.flag => db.users[q.id].stale
      /\ db.users[q.id].owner => Cardinality(R!Owners) > 1
      /\ R!OwnedSessions(q.id) = {} /\ R!OwnedChannels(q.id) = {}
  BY <1>3, <1>4 DEF UserWork, PreservingOwner
<1>6. db' = [db EXCEPT !.users[q.id] = R!NoUser]
  BY <1>1 DEF deleteUserIdentityPreservingOwner, Transaction
<1> QED BY <1>5, <1>6, SameCount DEF R!deleteUserIdentityPreservingOwner, At

\* A finished createNode commits it as Repository states it, on rows it owns.
LEMMA CreateNodeEnds ==
  ASSUME DbOK, NEW c \in Clients, NEW q, Request(c, q), q.op = "createNode",
         NodeWork(q, Len(Script(q).statements)), db' = Script(q).commit
  PROVE  R!createNode(q.id) /\ Owns(c, <<"nodes", q.id>>)
<1>1. Script(q) = createNode(q) BY DEF Script
<1>2. Len(Script(q).statements) = 1 BY <1>1 DEF createNode, Transaction
<1>3. q.by = c /\ q.id \in Nodes BY DEF Request, NodeOps
<1> QED BY <1>1, <1>2, <1>3 DEF NodeWork, createNode, Transaction, R!createNode,
          At, Live, R!At, R!Live, Revised

\* A finished ensureLocalNode commits it as Repository states it, on rows it owns.
LEMMA EnsureLocalNodeEnds ==
  ASSUME DbOK, NEW c \in Clients, NEW q, Request(c, q), q.op = "ensureLocalNode",
         NodeWork(q, Len(Script(q).statements)), db' = Script(q).commit
  PROVE  R!ensureLocalNode(q.id) /\ Owns(c, <<"nodes", q.id>>)
<1>1. Script(q) = ensureLocalNode(q) BY DEF Script
<1>2. Len(Script(q).statements) = 2 BY <1>1 DEF ensureLocalNode, Transaction
<1>3. q.by = c /\ q.id \in Nodes BY DEF Request, NodeOps
<1> QED BY <1>1, <1>2, <1>3 DEF NodeWork, ensureLocalNode, Transaction, R!ensureLocalNode,
          At, Live, R!At, R!Live, Revised

\* A finished recordNodeHeartbeat commits it as Repository states it, on rows it owns.
LEMMA RecordNodeHeartbeatEnds ==
  ASSUME DbOK, NEW c \in Clients, NEW q, Request(c, q), q.op = "recordNodeHeartbeat",
         NodeWork(q, Len(Script(q).statements)), db' = Script(q).commit
  PROVE  R!recordNodeHeartbeat(q.id, q.rev) /\ Owns(c, <<"nodes", q.id>>)
<1>1. Script(q) = recordNodeHeartbeat(q) BY DEF Script
<1>2. Len(Script(q).statements) = 2 BY <1>1 DEF recordNodeHeartbeat, Transaction
<1>3. q.by = c /\ q.id \in Nodes BY DEF Request, NodeOps
<1> QED
  BY <1>1, <1>2, <1>3 DEF NodeWork, recordNodeHeartbeat, Transaction, R!recordNodeHeartbeat,
          At, Live, R!At, R!Live, Revised, FromRead, SeenIsCurrent, R!Protected

\* A finished setNodeDrain commits it as Repository states it, on rows it owns.
LEMMA SetNodeDrainEnds ==
  ASSUME DbOK, NEW c \in Clients, NEW q, Request(c, q), q.op = "setNodeDrain",
         NodeWork(q, Len(Script(q).statements)), db' = Script(q).commit
  PROVE  R!setNodeDrain(q.id, q.rev, q.flag) /\ Owns(c, <<"nodes", q.id>>)
<1>1. Script(q) = setNodeDrain(q) BY DEF Script
<1>2. Len(Script(q).statements) = 2 BY <1>1 DEF setNodeDrain, Transaction
<1>3. q.by = c /\ q.id \in Nodes BY DEF Request, NodeOps
<1> QED BY <1>1, <1>2, <1>3 DEF NodeWork, setNodeDrain, Transaction, R!setNodeDrain,
          At, Live, R!At, R!Live, Revised, FromRead, SeenIsCurrent

\* A finished setNodeOperationalState commits it as Repository states it, on rows it owns.
LEMMA SetNodeOperationalStateEnds ==
  ASSUME DbOK, NEW c \in Clients, NEW q, Request(c, q), q.op = "setNodeOperationalState",
         NodeWork(q, Len(Script(q).statements)), db' = Script(q).commit
  PROVE  R!setNodeOperationalState(q.id, q.rev, "offline") /\ Owns(c, <<"nodes", q.id>>)
<1>1. Script(q) = setNodeOperationalState(q) BY DEF Script
<1>2. Len(Script(q).statements) = 2 BY <1>1 DEF setNodeOperationalState, Transaction
<1>3. q.by = c /\ q.id \in Nodes BY DEF Request, NodeOps
<1> QED
  BY <1>1, <1>2, <1>3
     DEF NodeWork, setNodeOperationalState, Transaction, R!setNodeOperationalState,
          At, Live, R!At, R!Live, Revised

\* A finished removeNode commits it as Repository states it, on rows it owns.
LEMMA RemoveNodeEnds ==
  ASSUME DbOK, NEW c \in Clients, NEW q, Request(c, q), q.op = "removeNode",
         NodeWork(q, Len(Script(q).statements)), db' = Script(q).commit
  PROVE  R!removeNode(q.id, q.rev) /\ Owns(c, <<"nodes", q.id>>)
<1>1. Script(q) = removeNode(q) BY DEF Script
<1>2. Len(Script(q).statements) = 2 BY <1>1 DEF removeNode, Transaction
<1>3. q.by = c /\ q.id \in Nodes BY DEF Request, NodeOps
<1> QED BY <1>1, <1>2, <1>3 DEF NodeWork, removeNode, Transaction, R!removeNode,
          At, Live, R!At, R!Live, Revised

\* A finished rotateNodeCertificate commits it as Repository states it, on rows it owns.
LEMMA RotateNodeCertificateEnds ==
  ASSUME DbOK, NEW c \in Clients, NEW q, Request(c, q), q.op = "rotateNodeCertificate",
         NodeWork(q, Len(Script(q).statements)), db' = Script(q).commit
  PROVE  R!rotateNodeCertificate(q.id, q.rev) /\ Owns(c, <<"nodes", q.id>>)
<1>1. Script(q) = rotateNodeCertificate(q) BY DEF Script
<1>2. Len(Script(q).statements) = 2 BY <1>1 DEF rotateNodeCertificate, Transaction
<1>3. q.by = c /\ q.id \in Nodes BY DEF Request, NodeOps
<1> QED
  BY <1>1, <1>2, <1>3 DEF NodeWork, rotateNodeCertificate, Transaction, R!rotateNodeCertificate,
          At, Live, R!At, R!Live, Revised

\* A finished revokeNode commits it as Repository states it, on rows it owns.
LEMMA RevokeNodeEnds ==
  ASSUME DbOK, NEW c \in Clients, NEW q, Request(c, q), q.op = "revokeNode",
         NodeWork(q, Len(Script(q).statements)), db' = Script(q).commit
  PROVE  R!revokeNode(q.id, q.rev) /\ Owns(c, <<"nodes", q.id>>)
<1>1. Script(q) = revokeNode(q) BY DEF Script
<1>2. Len(Script(q).statements) = 3 BY <1>1 DEF revokeNode, Transaction
<1>3. q.by = c /\ q.id \in Nodes BY DEF Request, NodeOps
<1> QED BY <1>1, <1>2, <1>3 DEF NodeWork, revokeNode, Transaction, R!revokeNode,
          At, Live, R!At, R!Live, Revised

\* A finished compareAndSetProviderBinding commits it as Repository states it, on rows it owns.
LEMMA CompareAndSetProviderBindingEnds ==
  ASSUME DbOK, NEW c \in Clients, NEW q, Request(c, q), q.op = "compareAndSetProviderBinding",
         BindingWork(q, Len(Script(q).statements)), db' = Script(q).commit
  PROVE  R!compareAndSetProviderBinding(q.id, q.rev, "ready") /\ Owns(c, <<"bindings", q.id>>)
<1>1. Script(q) = compareAndSetProviderBinding(q) BY DEF Script
<1>2. Len(Script(q).statements) = 1 BY <1>1 DEF compareAndSetProviderBinding, Transaction
<1>3. q.by = c /\ q.id \in Bindings BY DEF Request, BindingOps
<1> QED
  BY <1>1, <1>2, <1>3
     DEF BindingWork, compareAndSetProviderBinding, Transaction, R!compareAndSetProviderBinding,
          At, Live, R!At, R!Live, Revised

\* A finished beginProviderBindingDeletion commits it as Repository states it, on rows it owns.
LEMMA BeginProviderBindingDeletionEnds ==
  ASSUME DbOK, NEW c \in Clients, NEW q, Request(c, q), q.op = "beginProviderBindingDeletion",
         BindingWork(q, Len(Script(q).statements)), db' = Script(q).commit
  PROVE  R!beginProviderBindingDeletion(q.id) /\ Owns(c, <<"bindings", q.id>>)
<1>1. Script(q) = beginProviderBindingDeletion(q) BY DEF Script
<1>2. Len(Script(q).statements) = 1 BY <1>1 DEF beginProviderBindingDeletion, Transaction
<1>3. q.by = c /\ q.id \in Bindings BY DEF Request, BindingOps
<1> QED
  BY <1>1, <1>2, <1>3
     DEF BindingWork, beginProviderBindingDeletion, Transaction, R!beginProviderBindingDeletion,
          At, Live, R!At, R!Live, Revised

\* A finished finalizeProviderBindingDeletion commits it as Repository states it, on rows it owns.
LEMMA FinalizeProviderBindingDeletionEnds ==
  ASSUME DbOK, NEW c \in Clients, NEW q, Request(c, q), q.op = "finalizeProviderBindingDeletion",
         BindingWork(q, Len(Script(q).statements)), db' = Script(q).commit
  PROVE  R!finalizeProviderBindingDeletion(q.id, q.rev) /\ Owns(c, <<"bindings", q.id>>)
<1>1. Script(q) = finalizeProviderBindingDeletion(q) BY DEF Script
<1>2. Len(Script(q).statements) = 1 BY <1>1 DEF finalizeProviderBindingDeletion, Transaction
<1>3. q.by = c /\ q.id \in Bindings BY DEF Request, BindingOps
<1> QED
  BY <1>1, <1>2, <1>3
     DEF BindingWork, finalizeProviderBindingDeletion, Transaction,
       R!finalizeProviderBindingDeletion,
          At, Live, R!At, R!Live, Revised

\* A finished insertIfAbsent commits it as Repository states it, on rows it owns.
LEMMA InsertIfAbsentEnds ==
  ASSUME DbOK, NEW c \in Clients, NEW q, Request(c, q), q.op = "insertIfAbsent",
         DocumentWork(q, Len(Script(q).statements)), db' = Script(q).commit
  PROVE  R!insertIfAbsent(q.id) /\ Owns(c, <<"documents", q.id>>)
<1>1. Script(q) = insertIfAbsent(q) BY DEF Script
<1>2. Len(Script(q).statements) = 1 BY <1>1 DEF insertIfAbsent, Transaction
<1>3. q.by = c /\ q.id \in Documents BY DEF Request, DocumentOps
<1> QED BY <1>1, <1>2, <1>3 DEF DocumentWork, insertIfAbsent, Transaction, R!insertIfAbsent,
          At, Live, R!At, R!Live, Revised, DocumentOps

\* A finished put commits it as Repository states it, on rows it owns.
LEMMA PutEnds ==
  ASSUME DbOK, NEW c \in Clients, NEW q, Request(c, q), q.op = "put",
         DocumentWork(q, Len(Script(q).statements)), db' = Script(q).commit
  PROVE  R!put(q.id) /\ Owns(c, <<"documents", q.id>>)
<1>1. Script(q) = put(q) BY DEF Script
<1>2. Len(Script(q).statements) = 1 BY <1>1 DEF put, Transaction
<1>3. q.by = c /\ q.id \in Documents BY DEF Request, DocumentOps
<1> QED BY <1>1, <1>2, <1>3 DEF DocumentWork, put, Transaction, R!put,
          At, Live, R!At, R!Live, Revised, DocumentOps

\* A finished compareAndSetVersioned commits it as Repository states it, on rows it owns.
LEMMA CompareAndSetVersionedEnds ==
  ASSUME DbOK, NEW c \in Clients, NEW q, Request(c, q), q.op = "compareAndSetVersioned",
         DocumentWork(q, Len(Script(q).statements)), db' = Script(q).commit
  PROVE  R!compareAndSetVersioned(q.id, q.rev) /\ Owns(c, <<"documents", q.id>>)
<1>1. Script(q) = compareAndSetVersioned(q) BY DEF Script
<1>2. Len(Script(q).statements) = 1 BY <1>1 DEF compareAndSetVersioned, Transaction
<1>3. q.by = c /\ q.id \in Documents BY DEF Request, DocumentOps
<1> QED
  BY <1>1, <1>2, <1>3
     DEF DocumentWork, compareAndSetVersioned, Transaction, R!compareAndSetVersioned,
          At, Live, R!At, R!Live, Revised, DocumentOps

\* A finished delete commits it as Repository states it, on rows it owns.
LEMMA DeleteEnds ==
  ASSUME DbOK, NEW c \in Clients, NEW q, Request(c, q), q.op = "delete",
         DocumentWork(q, Len(Script(q).statements)), db' = Script(q).commit
  PROVE  R!delete(q.id) /\ Owns(c, <<"documents", q.id>>)
<1>1. Script(q) = delete(q) BY DEF Script
<1>2. Len(Script(q).statements) = 1 BY <1>1 DEF delete, Transaction
<1>3. q.by = c /\ q.id \in Documents BY DEF Request, DocumentOps
<1> QED BY <1>1, <1>2, <1>3 DEF DocumentWork, delete, Transaction, R!delete,
          At, Live, R!At, R!Live, Revised, DocumentOps


\* A finished createSessionWithPlaybackGrant commits that operation of Repository;
\* it owns the session and shares the rows the session refers to.
LEMMA CreateSessionEnds ==
  ASSUME DbOK, NEW c \in Clients, NEW q, Request(c, q), q.op = "createSessionWithPlaybackGrant",
         SessionWork(q, Len(Script(q).statements)), db' = Script(q).commit
  PROVE  /\ R!createSessionWithPlaybackGrant(q.id, q.owner, q.target, q.rev)
         /\ Owns(c, <<"sessions", q.id>>) /\ SourceStays(q)
         /\ q.owner # None => OwnerStays(q)
<1>1. Script(q) = createSessionWithPlaybackGrant(q) BY DEF Script
<1>2. Len(Script(q).statements) = OwnerSteps(q, 1) + 2
  BY <1>1 DEF createSessionWithPlaybackGrant, Transaction, OwnerSteps
<1>3. q.by = c /\ q.id \in Sessions BY DEF Request, SessionOps
<1>4. /\ Owns(c, <<"sessions", q.id>>) /\ db.sessions[q.id].rev = 0 /\ SourceStays(q)
      /\ q.owner # None => OwnerStays(q)
  BY <1>2, <1>3 DEF SessionWork, OwnerSteps
<1>5. db' = [db EXCEPT !.grants[q.id] = "live",
               !.sessions[q.id] = [R!NoSession EXCEPT !.rev = 1, !.owner = q.owner,
                                     !.target = q.target, !.recent = TRUE]]
  BY <1>1 DEF createSessionWithPlaybackGrant, Transaction
<1>6. ~R!Live(db.sessions[q.id]) BY <1>4 DEF R!Live
<1>7. q.owner # None => R!Live(db.users[q.owner]) BY <1>4 DEF OwnerStays, Live
<1>8. IF q.target \in Providers
        THEN R!Live(db.providers[q.target]) /\ ~db.providers[q.target].pending
        ELSE R!At(db.channels[q.target], q.rev)
  BY <1>4 DEF SourceStays, Live, At
<1> QED BY <1>4, <1>5, <1>6, <1>7, <1>8 DEF R!createSessionWithPlaybackGrant

\* A finished createLiveChannelWithinCapacity commits that operation of Repository;
\* it owns the channel and the advisory lock on the limits, and shares the owner.
LEMMA CreateLiveChannelEnds ==
  ASSUME DbOK, NEW c \in Clients, NEW q, Request(c, q), q.op = "createLiveChannelWithinCapacity",
         ChannelWork(q, Len(Script(q).statements)), db' = Script(q).commit
  PROVE  /\ R!createLiveChannelWithinCapacity(q.id, q.owner)
         /\ Owns(c, <<"channels", q.id>>) /\ Owns(c, ChannelLimit)
         /\ q.owner # None => OwnerStays(q)
<1>1. Script(q) = createLiveChannelWithinCapacity(q) BY DEF Script
<1>2. Len(Script(q).statements) = OwnerSteps(q, 2) + 3
  BY <1>1 DEF createLiveChannelWithinCapacity, Transaction, OwnerSteps
<1>3. q.by = c /\ q.id \in Channels BY DEF Request, ChannelOps
<1>4. /\ Owns(c, <<"channels", q.id>>) /\ Owns(c, ChannelLimit)
      /\ db.channels[q.id].rev = 0 /\ Cardinality(R!LiveChannels) < MaxTotal
      /\ q.owner # None => OwnerStays(q) /\ Cardinality(R!OwnedChannels(q.owner)) < MaxPerOwner
  BY <1>2, <1>3 DEF ChannelWork, OwnerSteps
<1>5. db' = [db EXCEPT !.channels[q.id] = [rev |-> 1, owner |-> q.owner, publishing |-> FALSE]]
  BY <1>1 DEF createLiveChannelWithinCapacity, Transaction
<1>6. ~R!Live(db.channels[q.id]) BY <1>4 DEF R!Live
<1>7. q.owner # None => R!Live(db.users[q.owner]) BY <1>4 DEF OwnerStays, Live
<1> QED BY <1>4, <1>5, <1>6, <1>7, SameCount DEF R!createLiveChannelWithinCapacity

\* A finished createProviderBinding commits that operation of Repository; it owns
\* the binding and the provider, and shares the node.
LEMMA CreateProviderBindingEnds ==
  ASSUME DbOK, NEW c \in Clients, NEW q, Request(c, q), q.op = "createProviderBinding",
         BindingWork(q, Len(Script(q).statements)), db' = Script(q).commit
  PROVE  /\ R!createProviderBinding(q.id, q.provider, q.node, q.rev)
         /\ Owns(c, <<"bindings", q.id>>) /\ Owns(c, <<"providers", q.provider>>)
         /\ Shares(c, <<"nodes", q.node>>)
<1>1. Script(q) = createProviderBinding(q) BY DEF Script
<1>2. Len(Script(q).statements) = 6 BY <1>1 DEF createProviderBinding, Transaction
<1>3. q.by = c /\ q.id \in Bindings BY DEF Request, BindingOps
<1>4. /\ Owns(c, <<"bindings", q.id>>) /\ Owns(c, <<"providers", q.provider>>)
      /\ Shares(c, <<"nodes", q.node>>) /\ db.bindings[q.id].rev = 0
      /\ Live(db.nodes[q.node]) /\ db.nodes[q.node].state # "revoked"
      /\ IF q.rev = None THEN db.providers[q.provider].rev = 0
           ELSE At(db.providers[q.provider], q.rev) /\ ~db.providers[q.provider].pending
  BY <1>2, <1>3 DEF BindingWork
<1>5. db' = [db EXCEPT !.providers[q.provider] = R!Revised(@),
               !.bindings[q.id] = [rev |-> 1, provider |-> q.provider, node |-> q.node,
                                   state |-> "pending", pending |-> FALSE]]
  BY <1>1 DEF createProviderBinding, Transaction, Revised
<1>6. ~R!Live(db.bindings[q.id]) BY <1>4 DEF R!Live
<1>7. db.providers[q.provider].rev = 0 => ~R!Live(db.providers[q.provider]) BY DEF R!Live
<1> QED BY <1>4, <1>5, <1>6, <1>7 DEF R!createProviderBinding, Live, At

\* A commit is an operation of the repository and changes only what its
\* transaction has locked.
Right(c) == R!Next /\ Commits(c) /\ Refers(c) /\ RevisionsGrow

\* A transaction of connection c whose statements are all done commits.
Ends(c, q) ==
  Request(c, q) /\ Work(q, Len(Script(q).statements)) /\ db' = Script(q).commit

\* Every finished provider transaction commits right.
LEMMA ProviderRight ==
  ASSUME DbOK, NEW c \in Clients, NEW q, Ends(c, q), q.op \in ProviderOps
  PROVE  Right(c)
<1> DEFINE p == q.id
<1>1. p \in Providers /\ q.rev \in Revisions BY DEF Ends, Request, ProviderOps
<1>2. /\ Owns(c, <<"providers", p>>)
      /\ \/ R!createProvider(p) \/ R!beginProviderDeletion(p)
         \/ R!compareAndSetProvider(p, q.rev) \/ R!finalizeProviderDeletion(p, q.rev)
  BY CreateProviderEnds, CompareAndSetProviderEnds, BeginProviderDeletionEnds,
     FinalizeProviderDeletionEnds DEF Ends, Work, ProviderOps
<1>3. PutsProvider(p) BY <1>1, <1>2, ProviderPuts
<1>4. R!Next BY <1>1, <1>2 DEF R!Next, R!ProviderNext
<1>5. Commits(c) /\ Refers(c) /\ RevisionsGrow
  BY <1>1, <1>2, <1>3, ProviderElsewhere DEF Commits, Refers, RevisionsGrow, R!Owners
<1> QED BY <1>4, <1>5 DEF Right

\* Every finished session transaction commits right.
LEMMA SessionRight ==
  ASSUME DbOK, NEW c \in Clients, NEW q, Ends(c, q), q.op \in SessionOps
  PROVE  Right(c)
<1> DEFINE s == q.id
<1>1. s \in Sessions /\ q.rev \in Revisions /\ q.flag \in BOOLEAN /\ q.owner \in Users \cup {None}
  BY DEF Ends, Request, SessionOps
<1>2. CASE q.op = "createSessionWithPlaybackGrant"
  <2>1. /\ q.target \in R!Targets /\ q.by = c
        /\ R!createSessionWithPlaybackGrant(s, q.owner, q.target, q.rev)
        /\ Owns(c, <<"sessions", s>>) /\ SourceStays(q) /\ (q.owner # None => OwnerStays(q))
    BY <1>2, CreateSessionEnds DEF Ends, Work, Request, R!Targets
  <2>2. PutsSession(s) BY <1>1, <2>1, SessionPuts
  <2>3. R!Next BY <1>1, <2>1 DEF R!Next, R!SessionNext
  <2>4. Commits(c) /\ RevisionsGrow
    BY <1>1, <2>1, <2>2, SessionElsewhere DEF Commits, RevisionsGrow
  <2>5. db'.sessions[s].owner = q.owner /\ db'.sessions[s].target = q.target
    BY <1>1, <2>1 DEF R!createSessionWithPlaybackGrant, R!NoSession, DbOK
  <2>6. /\ q.target \in Providers => Shares(c, <<"providers", q.target>>)
        /\ q.target \in Channels => Shares(c, <<"channels", q.target>>)
    BY <2>1, TablesAssumption DEF SourceStays
  <2>7. q.owner \in Users => Shares(c, <<"users", q.owner>>)
    BY <2>1, TablesAssumption DEF OwnerStays
  <2> QED
    BY <1>1, <2>2, <2>3, <2>4, <2>5, <2>6, <2>7, SessionElsewhere DEF Right, Refers, R!Owners
<1>3. CASE q.op # "createSessionWithPlaybackGrant"
  <2>1. /\ Owns(c, <<"sessions", s>>)
        /\ \/ R!compareAndSetSession(s, q.rev, q.flag) \/ R!touchSessionPlaybackActivity(s)
           \/ R!beginSessionDeletion(s, q.flag) \/ R!deleteSessionAndRevokePlaybackGrants(s)
    BY <1>3, CompareAndSetSessionEnds, TouchSessionPlaybackActivityEnds,
       BeginSessionDeletionEnds,
       DeleteSessionAndRevokePlaybackGrantsEnds DEF Ends, Work, SessionOps
  <2>2. PutsSession(s) BY <1>1, <2>1, SessionPuts
  <2>3. R!Next BY <1>1, <2>1 DEF R!Next, R!SessionNext
  <2>4. Commits(c) /\ RevisionsGrow
    BY <1>1, <2>1, <2>2, SessionElsewhere DEF Commits, RevisionsGrow
  <2>5. \/ ~Live(db'.sessions[s])
        \/ /\ Live(db.sessions[s]) /\ db'.sessions[s].owner = db.sessions[s].owner
           /\ db'.sessions[s].target = db.sessions[s].target
    <3> USE DEF DbOK, SessionRow, Live, R!Live, R!At, R!Revised, R!NoSession
    <3>1. CASE R!compareAndSetSession(s, q.rev, q.flag) BY <1>1, <3>1 DEF R!compareAndSetSession
    <3>2. CASE R!touchSessionPlaybackActivity(s)
      BY <1>1, <3>2 DEF R!touchSessionPlaybackActivity
    <3>3. CASE R!beginSessionDeletion(s, q.flag) BY <1>1, <3>3 DEF R!beginSessionDeletion
    <3>4. CASE R!deleteSessionAndRevokePlaybackGrants(s)
      BY <1>1, <3>4 DEF R!deleteSessionAndRevokePlaybackGrants
    <3> QED BY <2>1, <3>1, <3>2, <3>3, <3>4
  <2> QED BY <1>1, <2>2, <2>3, <2>4, <2>5, SessionElsewhere DEF Right, Refers, R!Owners
<1> QED BY <1>2, <1>3

\* Every finished channel transaction commits right.
LEMMA ChannelRight ==
  ASSUME DbOK, NEW c \in Clients, NEW q, Ends(c, q), q.op \in ChannelOps
  PROVE  Right(c)
<1> DEFINE h == q.id
<1>1. h \in Channels /\ q.rev \in Revisions /\ q.flag \in BOOLEAN /\ q.owner \in Users \cup {None}
  BY DEF Ends, Request, ChannelOps
<1>2. CASE q.op = "createLiveChannelWithinCapacity"
  <2>1. /\ R!createLiveChannelWithinCapacity(h, q.owner) /\ q.by = c
        /\ Owns(c, <<"channels", h>>) /\ Owns(c, ChannelLimit)
        /\ q.owner # None => OwnerStays(q)
    BY <1>2, CreateLiveChannelEnds DEF Ends, Work, Request
  <2>2. PutsChannel(h) BY <1>1, <2>1, ChannelPuts
  <2>3. R!Next BY <1>1, <2>1 DEF R!Next, R!ChannelNext
  <2>4. Commits(c) /\ RevisionsGrow
    BY <1>1, <2>1, <2>2, ChannelElsewhere DEF Commits, RevisionsGrow
  <2>5. db'.channels[h].owner = q.owner
    BY <1>1, <2>1 DEF R!createLiveChannelWithinCapacity, DbOK
  <2>6. q.owner \in Users => Shares(c, <<"users", q.owner>>)
    BY <2>1, TablesAssumption DEF OwnerStays
  <2> QED
    BY <1>1, <2>1, <2>2, <2>3, <2>4, <2>5, <2>6, ChannelElsewhere DEF Right, Refers, R!Owners
<1>3. CASE q.op # "createLiveChannelWithinCapacity"
  <2>1. /\ Owns(c, <<"channels", h>>)
        /\ R!compareAndSetLiveChannel(h, q.rev, q.flag) \/ R!deleteLiveChannel(h, q.rev)
    BY <1>3, CompareAndSetLiveChannelEnds, DeleteLiveChannelEnds DEF Ends, Work, ChannelOps
  <2>2. PutsChannel(h) BY <1>1, <2>1, ChannelPuts
  <2>3. R!Next BY <1>1, <2>1 DEF R!Next, R!ChannelNext
  <2>4. Commits(c) /\ RevisionsGrow
    BY <1>1, <2>1, <2>2, ChannelElsewhere DEF Commits, RevisionsGrow
  <2>5. \/ ~Live(db'.channels[h])
        \/ Live(db.channels[h]) /\ db'.channels[h].owner = db.channels[h].owner
    <3> USE DEF DbOK, ChannelRow, Live, R!Live, R!At, R!Revised, R!NoChannel
    <3>1. CASE R!compareAndSetLiveChannel(h, q.rev, q.flag)
      BY <1>1, <3>1 DEF R!compareAndSetLiveChannel
    <3>2. CASE R!deleteLiveChannel(h, q.rev) BY <1>1, <3>2 DEF R!deleteLiveChannel
    <3> QED BY <2>1, <3>1, <3>2
  <2> QED BY <1>1, <2>2, <2>3, <2>4, <2>5, ChannelElsewhere DEF Right, Refers, R!Owners
<1> QED BY <1>2, <1>3

\* Every finished user transaction commits right.
LEMMA UserRight ==
  ASSUME DbOK, NEW c \in Clients, NEW q, Ends(c, q), q.op \in UserOps
  PROVE  Right(c)
<1> DEFINE u == q.id
<1>1. u \in Users /\ q.rev \in Revisions /\ q.flag \in BOOLEAN
  BY DEF Ends, Request, UserOps
<1>2. /\ Owns(c, <<"users", u>>)
      /\ \/ R!createUserIdentity(u) \/ R!compareAndSetUserIdentity(u, q.rev)
         \/ /\ Owns(c, OwnerRole)
            /\ \/ R!compareAndSetUserIdentityPreservingOwner(u, q.rev, q.flag)
               \/ R!deleteUserIdentityPreservingOwner(u, q.rev, q.flag)
  BY CreateUserIdentityEnds, CompareAndSetUserIdentityEnds,
     CompareAndSetUserIdentityPreservingOwnerEnds, DeleteUserIdentityPreservingOwnerEnds
  DEF Ends, Work, UserOps
<1>3. PutsUser(u) BY <1>1, <1>2, UserPuts
<1>4. R!Next BY <1>1, <1>2 DEF R!Next, R!UserNext
<1>5. Commits(c) /\ RevisionsGrow
  BY <1>1, <1>2, <1>3, UserElsewhere DEF Commits, RevisionsGrow
<1>6. R!Owners' = R!Owners \/ Owns(c, OwnerRole)
  <2>1. ASSUME R!createUserIdentity(u) \/ R!compareAndSetUserIdentity(u, q.rev)
        PROVE  u \in R!Owners' <=> u \in R!Owners
    <3> USE DEF R!Owners, R!Live, R!At, R!Revised, DbOK, UserRow
    <3>1. CASE R!createUserIdentity(u) BY <1>1, <3>1 DEF R!createUserIdentity
    <3>2. CASE R!compareAndSetUserIdentity(u, q.rev)
      BY <1>1, <3>2 DEF R!compareAndSetUserIdentity
    <3> QED BY <2>1, <3>1, <3>2
  <2>2. \A x \in Users \ {u} : x \in R!Owners' <=> x \in R!Owners
    BY <1>1, <1>3, UserElsewhere DEF R!Owners
  <2>3. R!Owners \subseteq Users /\ R!Owners' \subseteq Users
    BY DEF R!Owners
  <2> QED BY <1>2, <2>1, <2>2, <2>3
<1> QED BY <1>1, <1>3, <1>4, <1>5, <1>6, UserElsewhere DEF Right, Refers

\* Every finished node transaction, but for revokeNode, commits right.
LEMMA NodeRight ==
  ASSUME DbOK, NEW c \in Clients, NEW q, Ends(c, q), q.op \in NodeOps, q.op # "revokeNode"
  PROVE  Right(c)
<1> DEFINE n == q.id
<1>1. n \in Nodes /\ q.rev \in Revisions /\ q.flag \in BOOLEAN
  BY DEF Ends, Request, NodeOps
<1>2. /\ Owns(c, <<"nodes", n>>)
      /\ \/ R!createNode(n) \/ R!ensureLocalNode(n) \/ R!recordNodeHeartbeat(n, q.rev)
         \/ R!setNodeDrain(n, q.rev, q.flag)
         \/ R!setNodeOperationalState(n, q.rev, "offline")
         \/ R!removeNode(n, q.rev) \/ R!rotateNodeCertificate(n, q.rev)
  BY CreateNodeEnds, EnsureLocalNodeEnds, RecordNodeHeartbeatEnds, SetNodeDrainEnds,
     SetNodeOperationalStateEnds, RemoveNodeEnds, RotateNodeCertificateEnds
  DEF Ends, Work, NodeOps
<1>3. NodeOnly(n) BY <1>1, <1>2 DEF NodeOnly
<1>4. PutsNode(n) BY <1>1, <1>3, NodePuts
<1>5. R!Next BY <1>1, <1>3 DEF NodeOnly, R!Next, R!NodeNext
<1>6. LET old == db.nodes[n] new == db'.nodes[n] IN
      new.rev = -1 \/ (old.rev >= 0 /\ new.rev = old.rev + 1)
  <2> USE DEF DbOK, R!At, R!Revised
  <2>0. db.nodes[n].rev \in Nat \cup {-1} BY <1>1 DEF NodeRow
  <2>1. CASE R!createNode(n) BY <1>1, <2>0, <2>1 DEF R!createNode
  <2>2. CASE R!ensureLocalNode(n) BY <1>1, <2>0, <2>2 DEF R!ensureLocalNode
  <2>3. CASE R!recordNodeHeartbeat(n, q.rev) BY <1>1, <2>0, <2>3 DEF R!recordNodeHeartbeat
  <2>4. CASE R!setNodeDrain(n, q.rev, q.flag) BY <1>1, <2>0, <2>4 DEF R!setNodeDrain
  <2>5. CASE R!setNodeOperationalState(n, q.rev, "offline")
    BY <1>1, <2>0, <2>5 DEF R!setNodeOperationalState
  <2>6. CASE R!removeNode(n, q.rev) BY <1>1, <2>6 DEF R!removeNode, R!RemovedNode
  <2>7. CASE R!rotateNodeCertificate(n, q.rev)
    BY <1>1, <2>0, <2>7 DEF R!rotateNodeCertificate, NodeRow
  <2> QED BY <1>2, <2>1, <2>2, <2>3, <2>4, <2>5, <2>6, <2>7
<1>7. RevisionsGrow BY <1>1, <1>4, <1>6, NodeElsewhere DEF RevisionsGrow
<1>8. Commits(c) /\ Refers(c)
  BY <1>1, <1>2, <1>4, NodeElsewhere DEF Commits, Refers, R!Owners
<1> QED BY <1>5, <1>7, <1>8 DEF Right

\* A finished revokeNode commits right, with the bindings it has locked.
LEMMA RevokeRight ==
  ASSUME DbOK, NEW c \in Clients, NEW q, Ends(c, q), q.op = "revokeNode"
  PROVE  Right(c)
<1> DEFINE n == q.id
<1>1. n \in Nodes /\ q.rev \in Revisions /\ q.by = c
  BY DEF Ends, Request, NodeOps
<1>2. R!revokeNode(n, q.rev) /\ Owns(c, <<"nodes", n>>)
  BY RevokeNodeEnds DEF Ends, Work
<1>3. \A b \in R!NodeBindings(n) : Owns(c, <<"bindings", b>>)
  <2>1. Script(q) = revokeNode(q) BY DEF Script
  <2>2. Len(Script(q).statements) = 3 BY <2>1 DEF revokeNode, Transaction
  <2>3. NodeWork(q, 3) BY <2>2 DEF Ends, Work
  <2>4. \A b \in R!NodeBindings(q.id) : Owns(q.by, <<"bindings", b>>)
    BY ONLY q.op = "revokeNode", <2>3, SMTT(60) DEF NodeWork, Owns
  <2> QED BY <1>1, <2>4
<1>4. R!Next BY <1>1, <1>2 DEF R!Next, R!NodeNext
<1>5. /\ \A x \in Nodes \ {n} : db'.nodes[x] = db.nodes[x]
      /\ db'.providers = db.providers /\ db'.sessions = db.sessions
      /\ db'.channels = db.channels /\ db'.users = db.users /\ db'.documents = db.documents
  BY <1>1, <1>2 DEF R!revokeNode, DbOK
<1>6. db'.nodes[n].rev = db.nodes[n].rev + 1
  BY <1>1, <1>2 DEF R!revokeNode, DbOK
<1>7. \A b \in Bindings :
        /\ b \notin R!NodeBindings(n) => db'.bindings[b] = db.bindings[b]
        /\ b \in R!NodeBindings(n) =>
             db'.bindings[b] = [R!Revised(db.bindings[b]) EXCEPT !.state = "revoked"]
  BY <1>1, <1>2 DEF R!revokeNode, DbOK
<1>8. \A b \in R!NodeBindings(n) :
        /\ Live(db.bindings[b]) /\ db'.bindings[b].provider = db.bindings[b].provider
        /\ db'.bindings[b].node = db.bindings[b].node
  <2> SUFFICES ASSUME NEW b \in R!NodeBindings(n)
               PROVE  /\ Live(db.bindings[b])
                      /\ db'.bindings[b].provider = db.bindings[b].provider
                      /\ db'.bindings[b].node = db.bindings[b].node
    OBVIOUS
  <2>1. b \in Bindings /\ Live(db.bindings[b]) BY DEF R!NodeBindings, Live
  <2>2. PICK row \in BindingRow : db.bindings[b] = row BY <2>1 DEF DbOK
  <2>3. db'.bindings[b] = [R!Revised(row) EXCEPT !.state = "revoked"] BY <1>7, <2>1, <2>2
  <2> QED BY <2>1, <2>2, <2>3 DEF R!Revised, BindingRow
<1>9. RevisionsGrow
  <2>1. db.nodes[n].rev \in Nat \cup {-1} /\ db.nodes[n].rev > 0
    BY <1>1, <1>2 DEF R!revokeNode, R!At, DbOK, NodeRow
  <2> QED BY <1>1, <1>5, <1>6, <2>1 DEF RevisionsGrow
<1>10. Commits(c) BY <1>1, <1>2, <1>3, <1>5, <1>7 DEF Commits
<1>11. Refers(c)
  <2>1. \A b \in Bindings : LET old == db.bindings[b] new == db'.bindings[b] IN
          ~Live(new) \/ (Live(old) /\ new.provider = old.provider /\ new.node = old.node)
    BY <1>7, <1>8
  <2> QED BY <1>5, <2>1 DEF Refers, R!Owners
<1> QED BY <1>4, <1>9, <1>10, <1>11 DEF Right

\* Every finished binding transaction, but for createProviderBinding, commits right.
LEMMA BindingRight ==
  ASSUME DbOK, NEW c \in Clients, NEW q, Ends(c, q), q.op \in BindingOps,
         q.op # "createProviderBinding"
  PROVE  Right(c)
<1> DEFINE b == q.id
<1>1. b \in Bindings /\ q.rev \in Revisions
  BY DEF Ends, Request, BindingOps
<1>2. /\ Owns(c, <<"bindings", b>>)
      /\ \/ R!compareAndSetProviderBinding(b, q.rev, "ready")
         \/ R!beginProviderBindingDeletion(b) \/ R!finalizeProviderBindingDeletion(b, q.rev)
  BY CompareAndSetProviderBindingEnds, BeginProviderBindingDeletionEnds,
     FinalizeProviderBindingDeletionEnds DEF Ends, Work, BindingOps
<1>3. BindingOnly(b) BY <1>1, <1>2 DEF BindingOnly, R!BindingStates
<1>4. PutsBinding(b) BY <1>1, <1>3, BindingPuts
<1>5. R!Next BY <1>1, <1>3 DEF BindingOnly, R!Next, R!BindingNext
<1>6. \/ ~Live(db'.bindings[b])
      \/ /\ Live(db.bindings[b]) /\ db'.bindings[b].provider = db.bindings[b].provider
         /\ db'.bindings[b].node = db.bindings[b].node
  <2> USE DEF DbOK, BindingRow, Live, R!Live, R!At, R!Revised, R!NoBinding
  <2>1. CASE R!compareAndSetProviderBinding(b, q.rev, "ready")
    BY <1>1, <2>1 DEF R!compareAndSetProviderBinding
  <2>2. CASE R!beginProviderBindingDeletion(b) BY <1>1, <2>2 DEF R!beginProviderBindingDeletion
  <2>3. CASE R!finalizeProviderBindingDeletion(b, q.rev)
    BY <1>1, <2>3 DEF R!finalizeProviderBindingDeletion
  <2> QED BY <1>2, <2>1, <2>2, <2>3
<1>7. Commits(c) /\ RevisionsGrow
  BY <1>1, <1>2, <1>4, BindingElsewhere DEF Commits, RevisionsGrow
<1> QED BY <1>1, <1>4, <1>5, <1>6, <1>7, BindingElsewhere DEF Right, Refers, R!Owners

\* A finished createProviderBinding commits right.
LEMMA BindRight ==
  ASSUME DbOK, NEW c \in Clients, NEW q, Ends(c, q), q.op = "createProviderBinding"
  PROVE  Right(c)
<1> DEFINE b == q.id p == q.provider n == q.node
<1>1. /\ b \in Bindings /\ p \in Providers /\ n \in Nodes /\ q.rev \in Revisions \cup {None}
  BY DEF Ends, Request, BindingOps
<1>2. /\ R!createProviderBinding(b, p, n, q.rev)
      /\ Owns(c, <<"bindings", b>>) /\ Owns(c, <<"providers", p>>) /\ Shares(c, <<"nodes", n>>)
  BY CreateProviderBindingEnds DEF Ends, Work
<1>3. R!Next BY <1>1, <1>2 DEF R!Next, R!BindingNext
<1>4. /\ \A x \in Providers \ {p} : db'.providers[x] = db.providers[x]
      /\ \A x \in Bindings \ {b} : db'.bindings[x] = db.bindings[x]
      /\ db'.bindings[b].provider = p /\ db'.bindings[b].node = n
      /\ db'.sessions = db.sessions /\ db'.nodes = db.nodes
      /\ db'.channels = db.channels /\ db'.users = db.users /\ db'.documents = db.documents
  BY <1>1, <1>2 DEF R!createProviderBinding, DbOK
<1>5. Commits(c) /\ RevisionsGrow BY <1>1, <1>2, <1>4 DEF Commits, RevisionsGrow
<1>6. Refers(c) BY <1>1, <1>2, <1>4, OwnsShares DEF Refers, R!Owners
<1> QED BY <1>3, <1>5, <1>6 DEF Right

\* Every finished transaction on the other tables commits right.
LEMMA DocumentRight ==
  ASSUME DbOK, NEW c \in Clients, NEW q, Ends(c, q), q.op \in DocumentOps
  PROVE  Right(c)
<1> DEFINE k == q.id
<1>1. k \in Documents /\ q.rev \in Revisions
  BY DEF Ends, Request, DocumentOps
<1>2. /\ Owns(c, <<"documents", k>>)
      /\ \/ R!insertIfAbsent(k) \/ R!put(k) \/ R!delete(k) \/ R!compareAndSetVersioned(k, q.rev)
  BY InsertIfAbsentEnds, PutEnds, CompareAndSetVersionedEnds, DeleteEnds
  DEF Ends, Work, DocumentOps
<1>3. PutsDocument(k) BY <1>1, <1>2, DocumentPuts
<1>4. R!Next BY <1>1, <1>2 DEF R!Next, R!DocumentNext
<1>5. Commits(c) /\ Refers(c) /\ RevisionsGrow
  BY <1>1, <1>2, <1>3, DocumentElsewhere DEF Commits, Refers, RevisionsGrow, R!Owners
<1> QED BY <1>4, <1>5 DEF Right

\* Every commit is right.
LEMMA CommitRight ==
  ASSUME DbOK, NEW c \in Clients, NEW q, Ends(c, q)
  PROVE  Right(c)
<1>1. q.op \in Operations BY DEF Ends, Request
<1>2. \/ q.op \in ProviderOps \/ q.op \in SessionOps \/ q.op \in ChannelOps \/ q.op \in UserOps
      \/ q.op \in NodeOps \/ q.op \in BindingOps \/ q.op \in DocumentOps
  BY <1>1 DEF Operations, ProviderOps, SessionOps, ChannelOps, UserOps, NodeOps, BindingOps,
              DocumentOps
<1> QED BY <1>2, ProviderRight, SessionRight, ChannelRight, UserRight, NodeRight, RevokeRight,
           BindingRight, BindRight, DocumentRight

-----------------------------------------------------------------------------
(*****************************************************************************)
(* What a statement does.  A statement that runs takes its lock and finds its*)
(* test true, and so adds its part to what the transaction relies on.        *)
(*****************************************************************************)

\* Connection c runs a statement: it waits for nobody and adds its locks.
Runs(c, statement) ==
  /\ statement.go /\ Blockers(c, statement) = {}
  /\ locks' = locks \cup {<<c, row, statement.mode>> : row \in statement.rows}
  /\ db' = db

\* A statement that runs keeps the locks the connection has.
LEMMA RunsKeeps ==
  ASSUME NEW c, NEW statement, Runs(c, statement)
  PROVE  /\ db' = db /\ statement.go
         /\ \A row : Owns(c, row) => Owns(c, row)'
         /\ \A row : Shares(c, row) => Shares(c, row)'
BY DEF Runs, Owns, Shares, Holds

\* SELECT ... FOR UPDATE: the row is owned if it exists.
LEMMA ForUpdateRuns ==
  ASSUME NEW c, NEW row, NEW carryOn, Runs(c, ForUpdate(row, carryOn))
  PROVE  carryOn /\ (Exists(row) => Owns(c, row)')
<1>1. ForUpdate(row, carryOn).go BY DEF Runs
<1>2. carryOn BY <1>1 DEF ForUpdate
<1>3. ASSUME Exists(row) PROVE Owns(c, row)'
  <2>1. row \in ForUpdate(row, carryOn).rows BY <1>3 DEF ForUpdate
  <2>2. <<c, row, ForUpdate(row, carryOn).mode>> \in locks' BY <2>1 DEF Runs
  <2> QED BY <2>2 DEF ForUpdate, Owns
<1> QED BY <1>2, <1>3

\* SELECT ... FOR SHARE: the row is shared if it exists.
LEMMA ForShareRuns ==
  ASSUME NEW c, NEW row, NEW carryOn, Runs(c, ForShare(row, carryOn))
  PROVE  carryOn /\ (Exists(row) => Shares(c, row)')
<1>1. ForShare(row, carryOn).go BY DEF Runs
<1>2. carryOn BY <1>1 DEF ForShare
<1>3. ASSUME Exists(row) PROVE Shares(c, row)'
  <2>1. row \in ForShare(row, carryOn).rows BY <1>3 DEF ForShare
  <2>2. <<c, row, ForShare(row, carryOn).mode>> \in locks' BY <2>1 DEF Runs
  <2> QED BY <2>2 DEF ForShare, Shares, Holds
<1> QED BY <1>2, <1>3

\* A plain SELECT passes its test, and locks nothing.
LEMMA ReadRuns ==
  ASSUME NEW c, NEW carryOn, Runs(c, Read(carryOn))
  PROVE  carryOn
<1>1. Read(carryOn).go BY DEF Runs
<1> QED BY <1>1 DEF Read

\* INSERT: nobody has the key, and the connection has it now.
LEMMA InsertRuns ==
  ASSUME NEW c, NEW row, Runs(c, Insert(row))
  PROVE  ~Exists(row) /\ Owns(c, row)'
<1>1. Insert(row).go BY DEF Runs
<1>2. ~Exists(row) BY <1>1 DEF Insert
<1>3. row \in Insert(row).rows BY <1>2 DEF Insert
<1>4. <<c, row, Insert(row).mode>> \in locks' BY <1>3 DEF Runs
<1> QED BY <1>2, <1>4 DEF Insert, Owns

\* UPDATE or DELETE: the connection owns the rows it writes.
LEMMA WriteRuns ==
  ASSUME NEW c, NEW rows, Runs(c, Write(rows))
  PROVE  \A row \in rows : Owns(c, row)'
<1> SUFFICES ASSUME NEW row \in rows PROVE Owns(c, row)'
  OBVIOUS
<1>1. row \in Write(rows).rows BY DEF Write
<1>2. <<c, row, Write(rows).mode>> \in locks' BY <1>1 DEF Runs
<1> QED BY <1>2 DEF Write, Owns

\* pg_advisory_xact_lock: the connection owns the lock.
LEMMA AdvisoryRuns ==
  ASSUME NEW c, NEW name, Runs(c, Advisory(name))
  PROVE  Owns(c, <<"advisory", name>>)'
<1>1. <<"advisory", name>> \in Advisory(name).rows BY DEF Advisory
<1>2. <<c, <<"advisory", name>>, Advisory(name).mode>> \in locks' BY <1>1 DEF Runs
<1> QED BY <1>2 DEF Advisory, Owns

\* A statement changes no row, so nothing that is counted in the rows changes.
LEMMA SameRows ==
  ASSUME db' = db
  PROVE  /\ R!Owners' = R!Owners /\ R!LiveChannels' = R!LiveChannels
         /\ \A x : /\ providerDependencies(x)' = providerDependencies(x)
                   /\ R!ChannelSessions(x)' = R!ChannelSessions(x)
                   /\ R!OwnedSessions(x)' = R!OwnedSessions(x)
                   /\ R!OwnedChannels(x)' = R!OwnedChannels(x)
                   /\ R!NodeBindings(x)' = R!NodeBindings(x)
BY DEF providerDependencies, R!ProviderSessions, R!ProviderBindings, R!ChannelSessions,
       R!OwnedSessions, R!OwnedChannels, R!LiveChannels, R!NodeBindings, R!Owners

\* Each statement of a provider transaction establishes its part of the work.
LEMMA ProviderExecutes ==
  ASSUME DbOK, NEW c \in Clients, NEW q, Request(c, q), NEW n \in Nat,
         n < Len(Script(q).statements), Runs(c, Script(q).statements[n + 1]),
         ProviderWork(q, n)
  PROVE  ProviderWork(q, n + 1)'
<1> DEFINE row == <<"providers", q.id>>
<1>1. /\ q.by = c /\ (q.op \in ProviderOps => q.id \in Providers /\ q.rev \in Int)
      /\ q.id \in Providers => db.providers[q.id].rev \in Nat
  BY DEF Request, ProviderOps, DbOK, ProviderRow
<1>2. db' = db /\ (Owns(c, row) => Owns(c, row)')
      /\ providerDependencies(q.id)' = providerDependencies(q.id)
  BY RunsKeeps, SameRows
<1>3. Exists(row) <=> db.providers[q.id].rev # 0
  BY DEF Exists
<1>4. CASE q.op = "createProvider"
  <2>1. Script(q) = createProvider(q) BY <1>4 DEF Script
  <2>2. n = 0 /\ Runs(c, Insert(row)) BY <2>1 DEF createProvider, Transaction
  <2>3. ~Exists(row) /\ Owns(c, row)' BY <2>2, InsertRuns
  <2> QED BY <1>1, <1>2, <1>3, <1>4, <2>2, <2>3 DEF ProviderWork
<1>5. CASE q.op = "compareAndSetProvider"
  <2> DEFINE ok == At(db.providers[q.id], q.rev) /\ ~db.providers[q.id].pending
  <2>1. Script(q) = compareAndSetProvider(q) BY <1>5 DEF Script
  <2>2. n = 0 /\ Runs(c, ForUpdate(row, ok)) BY <2>1 DEF compareAndSetProvider, Transaction
  <2>3. ok /\ (Exists(row) => Owns(c, row)') BY <2>2, ForUpdateRuns DEF At, R!At
  <2> QED BY <1>1, <1>2, <1>3, <1>5, <2>2, <2>3 DEF ProviderWork, At, R!At
<1>6. CASE q.op = "beginProviderDeletion"
  <2> DEFINE ok == Live(db.providers[q.id]) /\ ~db.providers[q.id].pending
  <2>1. Script(q) = beginProviderDeletion(q) BY <1>6 DEF Script
  <2>2. n = 0 \/ n = 1 BY <2>1 DEF beginProviderDeletion, Transaction
  <2>3. CASE n = 0
    <3>1. Runs(c, ForUpdate(row, ok)) BY <2>1, <2>3 DEF beginProviderDeletion, Transaction
    <3>2. ok /\ (Exists(row) => Owns(c, row)') BY <3>1, ForUpdateRuns DEF At, R!At
    <3> QED BY <1>1, <1>2, <1>3, <1>6, <2>3, <3>2 DEF ProviderWork, Live, R!Live
  <2>4. CASE n = 1
    <3>1. Runs(c, Read(providerDependencies(q.id) = {}))
      BY <2>1, <2>4 DEF beginProviderDeletion, Transaction
    <3>2. providerDependencies(q.id) = {} BY <3>1, ReadRuns
    <3> QED BY <1>1, <1>2, <1>3, <1>6, <2>4, <3>2 DEF ProviderWork, Live, R!Live
  <2> QED BY <2>2, <2>3, <2>4
<1>7. CASE q.op = "finalizeProviderDeletion"
  <2> DEFINE ok == At(db.providers[q.id], q.rev) /\ db.providers[q.id].pending
  <2>1. Script(q) = finalizeProviderDeletion(q) BY <1>7 DEF Script
  <2>2. n = 0 \/ n = 1 BY <2>1 DEF finalizeProviderDeletion, Transaction
  <2>3. CASE n = 0
    <3>1. Runs(c, ForUpdate(row, ok)) BY <2>1, <2>3 DEF finalizeProviderDeletion, Transaction
    <3>2. ok /\ (Exists(row) => Owns(c, row)') BY <3>1, ForUpdateRuns DEF At, R!At
    <3> QED BY <1>1, <1>2, <1>3, <1>7, <2>3, <3>2 DEF ProviderWork, At, R!At
  <2>4. CASE n = 1
    <3>1. Runs(c, Read(providerDependencies(q.id) = {}))
      BY <2>1, <2>4 DEF finalizeProviderDeletion, Transaction
    <3>2. providerDependencies(q.id) = {} BY <3>1, ReadRuns
    <3> QED BY <1>1, <1>2, <1>3, <1>7, <2>4, <3>2 DEF ProviderWork, At, R!At
  <2> QED BY <2>2, <2>3, <2>4
<1>8. CASE q.op \notin ProviderOps
  BY <1>8 DEF ProviderWork, ProviderOps
<1> QED BY <1>4, <1>5, <1>6, <1>7, <1>8 DEF ProviderOps

\* Each statement of createSessionWithPlaybackGrant establishes its part.
LEMMA CreateSessionExecutes ==
  ASSUME DbOK, NEW c \in Clients, NEW q, Request(c, q), NEW n \in Nat,
         q.op = "createSessionWithPlaybackGrant",
         n < Len(Script(q).statements), Runs(c, Script(q).statements[n + 1]),
         SessionWork(q, n)
  PROVE  SessionWork(q, n + 1)'
<1> DEFINE k == OwnerSteps(q, 1)
           owner == <<"users", q.owner>>
           row == <<"sessions", q.id>>
           good == Live(db.providers[q.target]) /\ ~db.providers[q.target].pending
           first == ForShare(owner, Live(db.users[q.owner]))
           source == IF q.target \in Providers
                       THEN ForShare(<<"providers", q.target>>, good)
                       ELSE ForShare(<<"channels", q.target>>, At(db.channels[q.target], q.rev))
<1>1. /\ q.by = c /\ q.id \in Sessions /\ q.rev \in Int /\ q.owner \in Users \cup {None}
      /\ q.target \in Providers \cup Channels
  BY DEF Request, SessionOps
<1>2. /\ db' = db /\ (Owns(c, row) => Owns(c, row)') /\ (Shares(c, owner) => Shares(c, owner)')
      /\ Shares(c, <<"providers", q.target>>) => Shares(c, <<"providers", q.target>>)'
      /\ Shares(c, <<"channels", q.target>>) => Shares(c, <<"channels", q.target>>)'
  BY RunsKeeps
<1>3. q.owner # None /\ n > 0 => OwnerStays(q)'
  <2>1. q.owner # None /\ n > 0 => OwnerStays(q) BY DEF SessionWork
  <2> QED BY <1>1, <1>2, <2>1 DEF OwnerStays, Live, R!Live
<1>4. n > k => SourceStays(q)'
  <2>1. n > k => SourceStays(q) BY DEF SessionWork
  <2> QED BY <1>1, <1>2, <2>1 DEF SourceStays, At, Live, R!At, R!Live
<1>5. Script(q).statements =
        (IF q.owner = None THEN <<>> ELSE <<first>>) \o <<source, Insert(row)>>
  <2>1. Script(q) = createSessionWithPlaybackGrant(q) BY DEF Script
  <2> QED BY <2>1 DEF createSessionWithPlaybackGrant, Transaction
<1> HIDE DEF first, source
<1>6. k \in {0, 1} /\ (k = 0 <=> q.owner = None) BY DEF OwnerSteps
<1>7. /\ n = k \/ n = k + 1 \/ (k = 1 /\ n = 0)
      /\ n = k => Runs(c, source)
      /\ n = k + 1 => Runs(c, Insert(row))
      /\ k = 1 /\ n = 0 => Runs(c, first)
  <2>1. CASE q.owner = None
    <3>1. Script(q).statements = <<source, Insert(row)>> BY <1>5, <2>1
    <3> QED BY <1>6, <2>1, <3>1
  <2>2. CASE q.owner # None
    <3> DEFINE st == Script(q).statements
    <3>1. st = <<first>> \o <<source, Insert(row)>> BY <1>5, <2>2
    <3>2. Len(st) = 3 /\ st[1] = first /\ st[2] = source /\ st[3] = Insert(row) BY <3>1
    <3> QED BY <1>6, <2>2, <3>2
  <2> QED BY <2>1, <2>2
<1>8. k = 1 /\ n = 0 => OwnerStays(q)'
  <2> SUFFICES ASSUME k = 1, n = 0 PROVE OwnerStays(q)'
    OBVIOUS
  <2>1. Runs(c, ForShare(owner, Live(db.users[q.owner]))) BY <1>7 DEF first
  <2>2. Live(db.users[q.owner]) /\ (Exists(owner) => Shares(c, owner)')
    BY <2>1, ForShareRuns
  <2>3. Exists(owner)
    BY <1>1, <1>6, <2>2 DEF Exists, Live, R!Live, DbOK, UserRow
  <2> QED BY <1>1, <1>2, <2>2, <2>3 DEF OwnerStays, Live, R!Live
<1>9. n = k => SourceStays(q)'
  <2> SUFFICES ASSUME n = k PROVE SourceStays(q)'
    OBVIOUS
  <2>1. CASE q.target \in Providers
    <3>1. Runs(c, ForShare(<<"providers", q.target>>, good)) BY <1>7, <2>1 DEF source
    <3>2. good /\ (Exists(<<"providers", q.target>>) => Shares(c, <<"providers", q.target>>)')
      BY <3>1, ForShareRuns
    <3>3. Exists(<<"providers", q.target>>)
      BY <2>1, <3>2 DEF Exists, Live, R!Live, DbOK, ProviderRow
    <3> QED BY <1>1, <1>2, <2>1, <3>2, <3>3 DEF SourceStays, Live, R!Live
  <2>2. CASE q.target \notin Providers
    <3> DEFINE ok == At(db.channels[q.target], q.rev)
    <3>1. Runs(c, ForShare(<<"channels", q.target>>, ok)) BY <1>7, <2>2 DEF source
    <3>2. ok /\ (Exists(<<"channels", q.target>>) => Shares(c, <<"channels", q.target>>)')
      BY <3>1, ForShareRuns
    <3>3. Exists(<<"channels", q.target>>)
      BY <1>1, <2>2, <3>2 DEF Exists, At, R!At, DbOK, ChannelRow
    <3> QED BY <1>1, <1>2, <2>2, <3>2, <3>3 DEF SourceStays, At, R!At
  <2> QED BY <2>1, <2>2
<1>10. n + 1 > k + 1 => Owns(c, row)' /\ db.sessions[q.id].rev = 0
  <2>1. CASE n = k + 1
    <3>1. ~Exists(row) /\ Owns(c, row)' BY <1>7, <2>1, InsertRuns
    <3> QED BY <1>1, <3>1 DEF Exists
  <2> QED BY <1>6, <1>7, <2>1
<1> QED BY <1>1, <1>2, <1>3, <1>4, <1>6, <1>7, <1>8, <1>9, <1>10 DEF SessionWork, OwnerSteps

\* What a statement of an operation on sessions establishes.
LEMMA SessionExecutes ==
  ASSUME DbOK, NEW c \in Clients, NEW q, Request(c, q), NEW n \in Nat,
         n < Len(Script(q).statements), Runs(c, Script(q).statements[n + 1]),
         SessionWork(q, n)
  PROVE  SessionWork(q, n + 1)'
<1> DEFINE row == <<"sessions", q.id>>
<1>1. /\ q.by = c /\ (q.op \in SessionOps => q.id \in Sessions /\ q.rev \in Int)
      /\ q.id \in Sessions => db.sessions[q.id].rev \in Nat
  BY DEF Request, SessionOps, DbOK, SessionRow
<1>2. db' = db /\ (Owns(c, row) => Owns(c, row)')
  BY RunsKeeps
<1>3. Exists(row) <=> db.sessions[q.id].rev # 0
  BY DEF Exists
<1>4. CASE q.op = "createSessionWithPlaybackGrant"
  BY <1>4, CreateSessionExecutes
<1>5. CASE q.op = "compareAndSetSession"
  <2> DEFINE ok1 == At(db.sessions[q.id], q.rev)
  <2>1. Script(q) = compareAndSetSession(q) BY <1>5 DEF Script
  <2>2. n = 0 \/ n = 1 BY <2>1 DEF compareAndSetSession, Transaction
  <2>3. CASE n = 0
    <3> QED BY <1>1, <1>2, <1>3, <1>5, <2>3 DEF SessionWork, At, Live, R!At, R!Live
  <2>4. CASE n = 1
    <3>1. Runs(c, ForUpdate(row, ok1)) BY <2>1, <2>4 DEF compareAndSetSession, Transaction
    <3>2. ok1 /\ (Exists(row) => Owns(c, row)') BY <3>1, ForUpdateRuns
    <3> QED BY <1>1, <1>2, <1>3, <1>5, <2>4, <3>2 DEF SessionWork, At, Live, R!At, R!Live
  <2> QED BY <2>2, <2>3, <2>4
<1>6. CASE q.op = "touchSessionPlaybackActivity"
  <2> DEFINE ok0
      == Live(db.sessions[q.id]) /\ ~db.sessions[q.id].deleting /\ ~db.sessions[q.id].recent
  <2>1. Script(q) = touchSessionPlaybackActivity(q) BY <1>6 DEF Script
  <2>2. n = 0 BY <2>1 DEF touchSessionPlaybackActivity, Transaction
  <2>3. CASE n = 0
    <3>1. Runs(c, ForUpdate(row, ok0))
      BY <2>1, <2>3 DEF touchSessionPlaybackActivity, Transaction
    <3>2. ok0 /\ (Exists(row) => Owns(c, row)') BY <3>1, ForUpdateRuns
    <3> QED BY <1>1, <1>2, <1>3, <1>6, <2>3, <3>2 DEF SessionWork, At, Live, R!At, R!Live
  <2> QED BY <2>2, <2>3
<1>7. CASE q.op = "beginSessionDeletion"
  <2> DEFINE ok0 == /\ Live(db.sessions[q.id]) /\ ~db.sessions[q.id].deleting
                    /\ q.flag => ~db.sessions[q.id].pinned /\ ~db.sessions[q.id].recent
  <2>1. Script(q) = beginSessionDeletion(q) BY <1>7 DEF Script
  <2>2. n = 0 \/ n = 1 BY <2>1 DEF beginSessionDeletion, Transaction
  <2>3. CASE n = 0
    <3>0. Script(q).statements[1] = ForUpdate(row, ok0)
      BY ONLY <2>1 DEF beginSessionDeletion, Transaction
    <3>a. Runs(c, Script(q).statements[1]) BY <2>3
    <3>1. Runs(c, ForUpdate(row, ok0)) BY ONLY <3>a, <3>0
    <3>2. ok0 /\ (Exists(row) => Owns(c, row)') BY <3>1, ForUpdateRuns
    <3> QED BY <1>1, <1>2, <1>3, <1>7, <2>3, <3>2 DEF SessionWork, At, Live, R!At, R!Live
  <2>4. CASE n = 1
    <3> QED BY <1>1, <1>2, <1>3, <1>7, <2>4 DEF SessionWork, At, Live, R!At, R!Live
  <2> QED BY <2>2, <2>3, <2>4
<1>8. CASE q.op = "deleteSessionAndRevokePlaybackGrants"
  <2> DEFINE ok1 == Live(db.sessions[q.id])
  <2>1. Script(q) = deleteSessionAndRevokePlaybackGrants(q) BY <1>8 DEF Script
  <2>2. n = 0 \/ n = 1 BY <2>1 DEF deleteSessionAndRevokePlaybackGrants, Transaction
  <2>3. CASE n = 0
    <3> QED BY <1>1, <1>2, <1>3, <1>8, <2>3 DEF SessionWork, At, Live, R!At, R!Live
  <2>4. CASE n = 1
    <3>1. Runs(c, ForUpdate(row, ok1))
      BY <2>1, <2>4 DEF deleteSessionAndRevokePlaybackGrants, Transaction
    <3>2. ok1 /\ (Exists(row) => Owns(c, row)') BY <3>1, ForUpdateRuns
    <3> QED BY <1>1, <1>2, <1>3, <1>8, <2>4, <3>2 DEF SessionWork, At, Live, R!At, R!Live
  <2> QED BY <2>2, <2>3, <2>4
<1>9. CASE q.op \notin SessionOps
  BY <1>9 DEF SessionWork, SessionOps
<1> QED BY <1>4, <1>5, <1>6, <1>7, <1>8, <1>9 DEF SessionOps

\* Each statement of createLiveChannelWithinCapacity establishes its part.
LEMMA CreateLiveChannelExecutes ==
  ASSUME DbOK, NEW c \in Clients, NEW q, Request(c, q), NEW n \in Nat,
         q.op = "createLiveChannelWithinCapacity",
         n < Len(Script(q).statements), Runs(c, Script(q).statements[n + 1]),
         ChannelWork(q, n)
  PROVE  ChannelWork(q, n + 1)'
<1> DEFINE k == OwnerSteps(q, 2)
           owner == <<"users", q.owner>>
           row == <<"channels", q.id>>
           total == Cardinality(R!LiveChannels) < MaxTotal
           own == Cardinality(R!OwnedChannels(q.owner)) < MaxPerOwner
           limit == Advisory("vrrelay:live-channels")
           first == ForShare(owner, Live(db.users[q.owner]))
           st == Script(q).statements
<1>1. q.by = c /\ q.id \in Channels /\ q.owner \in Users \cup {None}
  BY DEF Request, ChannelOps
<1>2. /\ db' = db /\ (Owns(c, row) => Owns(c, row)') /\ (Shares(c, owner) => Shares(c, owner)')
      /\ Owns(c, ChannelLimit) => Owns(c, ChannelLimit)'
  BY RunsKeeps
<1>3. /\ Cardinality(R!LiveChannels)' = Cardinality(R!LiveChannels)
      /\ Cardinality(R!OwnedChannels(q.owner))' = Cardinality(R!OwnedChannels(q.owner))
  BY <1>2, SameRows
<1>4. q.owner # None /\ n > 2 => OwnerStays(q)'
  <2>1. q.owner # None /\ n > 2 => OwnerStays(q) BY DEF ChannelWork
  <2> QED BY <1>1, <1>2, <2>1 DEF OwnerStays, Live, R!Live
<1>5. st = (<<limit, Read(total)>> \o
              (IF q.owner = None THEN <<>> ELSE <<first, Read(own)>>)) \o <<Insert(row)>>
  <2>1. Script(q) = createLiveChannelWithinCapacity(q) BY DEF Script
  <2> QED BY <2>1 DEF createLiveChannelWithinCapacity, Transaction
<1> HIDE DEF limit, first, total, own
<1>6. k \in {0, 2} /\ (k = 0 <=> q.owner = None) BY DEF OwnerSteps
<1>7. /\ st[1] = limit /\ st[2] = Read(total) /\ Len(st) = k + 3 /\ st[k + 3] = Insert(row)
      /\ k = 2 => st[3] = first /\ st[4] = Read(own)
  <2>1. CASE q.owner = None
    <3>1. st = (<<limit, Read(total)>> \o <<>>) \o <<Insert(row)>> BY <1>5, <2>1
    <3>2. Len(st) = 3 /\ st[1] = limit /\ st[2] = Read(total) /\ st[3] = Insert(row) BY <3>1
    <3> QED BY <1>6, <2>1, <3>2
  <2>2. CASE q.owner # None
    <3>1. st = (<<limit, Read(total)>> \o <<first, Read(own)>>) \o <<Insert(row)>>
      BY <1>5, <2>2
    <3>2. /\ Len(st) = 5 /\ st[1] = limit /\ st[2] = Read(total)
          /\ st[3] = first /\ st[4] = Read(own) /\ st[5] = Insert(row)
      BY <3>1
    <3> QED BY <1>6, <2>2, <3>2
  <2> QED BY <2>1, <2>2
<1> HIDE DEF st
<1>8. Runs(c, st[n + 1]) /\ n < k + 3 BY <1>7 DEF st
<1>9. n = 0 => Owns(c, ChannelLimit)'
  <2>1. n = 0 => Runs(c, limit) BY <1>7, <1>8
  <2> QED BY <2>1, AdvisoryRuns DEF limit, ChannelLimit
<1>10. n = 1 => total
  <2>1. n = 1 => Runs(c, Read(total)) BY <1>7, <1>8
  <2> QED BY <2>1, ReadRuns
<1>11. k = 2 /\ n = 2 => OwnerStays(q)'
  <2> SUFFICES ASSUME k = 2, n = 2 PROVE OwnerStays(q)'
    OBVIOUS
  <2>1. Runs(c, ForShare(owner, Live(db.users[q.owner]))) BY <1>7, <1>8 DEF first
  <2>2. Live(db.users[q.owner]) /\ (Exists(owner) => Shares(c, owner)')
    BY <2>1, ForShareRuns
  <2>3. Exists(owner)
    BY <1>1, <1>6, <2>2 DEF Exists, Live, R!Live, DbOK, UserRow
  <2> QED BY <1>1, <1>2, <2>2, <2>3 DEF OwnerStays, Live, R!Live
<1>12. k = 2 /\ n = 3 => own
  <2>1. k = 2 /\ n = 3 => Runs(c, Read(own)) BY <1>7, <1>8
  <2> QED BY <2>1, ReadRuns
<1>13. n = k + 2 => Owns(c, row)' /\ db.channels[q.id].rev = 0
  <2>1. n = k + 2 => Runs(c, Insert(row)) BY <1>6, <1>7, <1>8
  <2>2. n = k + 2 => ~Exists(row) /\ Owns(c, row)' BY <2>1, InsertRuns
  <2> QED BY <1>1, <2>2 DEF Exists
<1> HIDE DEF k
<1>14. n > 0 => Owns(c, ChannelLimit) BY <1>1 DEF ChannelWork
<1>15. n > 1 => total BY <1>1 DEF ChannelWork, total
<1>16. q.owner # None /\ n > 3 => own BY <1>1 DEF ChannelWork, own
<1>17. n > k + 2 => FALSE BY <1>6, <1>8
<1>18. /\ n + 1 > 0 => Owns(c, ChannelLimit)'
       /\ n + 1 > 1 => total
       /\ q.owner # None /\ n + 1 > 2 => OwnerStays(q)'
       /\ q.owner # None /\ n + 1 > 3 => own
       /\ n + 1 > k + 2 => Owns(c, row)' /\ db.channels[q.id].rev = 0
  BY <1>2, <1>4, <1>6, <1>9, <1>10, <1>11, <1>12, <1>13, <1>14, <1>15, <1>16, <1>17
<1>19. /\ total' = total /\ own' = own BY <1>3 DEF total, own
<1> QED BY <1>1, <1>2, <1>18, <1>19 DEF ChannelWork, OwnerSteps, total, own, k

\* What a statement of an operation on channels establishes.
LEMMA ChannelExecutes ==
  ASSUME DbOK, NEW c \in Clients, NEW q, Request(c, q), NEW n \in Nat,
         n < Len(Script(q).statements), Runs(c, Script(q).statements[n + 1]),
         ChannelWork(q, n)
  PROVE  ChannelWork(q, n + 1)'
<1> DEFINE row == <<"channels", q.id>>
<1>1. /\ q.by = c /\ (q.op \in ChannelOps => q.id \in Channels /\ q.rev \in Int)
      /\ q.id \in Channels => db.channels[q.id].rev \in Nat
  BY DEF Request, ChannelOps, DbOK, ChannelRow
<1>2. /\ db' = db /\ (Owns(c, row) => Owns(c, row)')
      /\ R!ChannelSessions(q.id)' = R!ChannelSessions(q.id)
  BY RunsKeeps, SameRows
<1>3. Exists(row) <=> db.channels[q.id].rev # 0
  BY DEF Exists
<1>4. CASE q.op = "createLiveChannelWithinCapacity"
  BY <1>4, CreateLiveChannelExecutes
<1>5. CASE q.op = "compareAndSetLiveChannel"
  <2> DEFINE ok0 == At(db.channels[q.id], q.rev)
  <2>1. Script(q) = compareAndSetLiveChannel(q) BY <1>5 DEF Script
  <2>2. n = 0 BY <2>1 DEF compareAndSetLiveChannel, Transaction
  <2>3. CASE n = 0
    <3>1. Runs(c, ForUpdate(row, ok0)) BY <2>1, <2>3 DEF compareAndSetLiveChannel, Transaction
    <3>2. ok0 /\ (Exists(row) => Owns(c, row)') BY <3>1, ForUpdateRuns
    <3> QED BY <1>1, <1>2, <1>3, <1>5, <2>3, <3>2 DEF ChannelWork, At, Live, R!At, R!Live
  <2> QED BY <2>2, <2>3
<1>6. CASE q.op = "deleteLiveChannel"
  <2> DEFINE ok0 == At(db.channels[q.id], q.rev) /\ ~db.channels[q.id].publishing
  <2> DEFINE ok1 == R!ChannelSessions(q.id) = {}
  <2>1. Script(q) = deleteLiveChannel(q) BY <1>6 DEF Script
  <2>2. n = 0 \/ n = 1 BY <2>1 DEF deleteLiveChannel, Transaction
  <2>3. CASE n = 0
    <3>1. Runs(c, ForUpdate(row, ok0)) BY <2>1, <2>3 DEF deleteLiveChannel, Transaction
    <3>2. ok0 /\ (Exists(row) => Owns(c, row)') BY <3>1, ForUpdateRuns
    <3> QED BY <1>1, <1>2, <1>3, <1>6, <2>3, <3>2 DEF ChannelWork, At, Live, R!At, R!Live
  <2>4. CASE n = 1
    <3>1. Runs(c, Read(ok1)) BY <2>1, <2>4 DEF deleteLiveChannel, Transaction
    <3>2. ok1 BY <3>1, ReadRuns
    <3> QED BY <1>1, <1>2, <1>3, <1>6, <2>4, <3>2 DEF ChannelWork, At, Live, R!At, R!Live
  <2> QED BY <2>2, <2>3, <2>4
<1>7. CASE q.op \notin ChannelOps
  BY <1>7 DEF ChannelWork, ChannelOps
<1> QED BY <1>4, <1>5, <1>6, <1>7 DEF ChannelOps

\* What a statement of an operation on users establishes.
LEMMA UserExecutes ==
  ASSUME DbOK, NEW c \in Clients, NEW q, Request(c, q), NEW n \in Nat,
         n < Len(Script(q).statements), Runs(c, Script(q).statements[n + 1]),
         UserWork(q, n)
  PROVE  UserWork(q, n + 1)'
<1> DEFINE row == <<"users", q.id>>
<1>1. /\ q.by = c /\ (q.op \in UserOps => q.id \in Users /\ q.rev \in Int)
      /\ q.id \in Users => db.users[q.id].rev \in Nat
  BY DEF Request, UserOps, DbOK, UserRow
<1>2. /\ db' = db /\ (Owns(c, row) => Owns(c, row)') /\ (Owns(c, OwnerRole) => Owns(c, OwnerRole)')
      /\ R!OwnedSessions(q.id)' = R!OwnedSessions(q.id)
      /\ R!OwnedChannels(q.id)' = R!OwnedChannels(q.id)
      /\ Cardinality(R!Owners)' = Cardinality(R!Owners)
  BY RunsKeeps, SameRows
<1>3. Exists(row) <=> db.users[q.id].rev # 0
  BY DEF Exists
<1>4. CASE q.op = "createUserIdentity"
  <2>1. Script(q) = createUserIdentity(q) BY <1>4 DEF Script
  <2>2. n = 0 BY <2>1 DEF createUserIdentity, Transaction
  <2>3. CASE n = 0
    <3>1. Runs(c, Insert(row)) BY <2>1, <2>3 DEF createUserIdentity, Transaction
    <3>2. ~Exists(row) /\ Owns(c, row)' BY <3>1, InsertRuns
    <3> QED
      BY <1>1, <1>2, <1>3, <1>4, <2>3, <3>2
         DEF UserWork, At, Live, R!At, R!Live, PreservingOwner
  <2> QED BY <2>2, <2>3
<1>5. CASE q.op = "compareAndSetUserIdentity"
  <2> DEFINE ok0 == At(db.users[q.id], q.rev)
  <2>1. Script(q) = compareAndSetUserIdentity(q) BY <1>5 DEF Script
  <2>2. n = 0 BY <2>1 DEF compareAndSetUserIdentity, Transaction
  <2>3. CASE n = 0
    <3>1. Runs(c, ForUpdate(row, ok0)) BY <2>1, <2>3 DEF compareAndSetUserIdentity, Transaction
    <3>2. ok0 /\ (Exists(row) => Owns(c, row)') BY <3>1, ForUpdateRuns
    <3> QED
      BY <1>1, <1>2, <1>3, <1>5, <2>3, <3>2
         DEF UserWork, At, Live, R!At, R!Live, PreservingOwner
  <2> QED BY <2>2, <2>3
<1>6. CASE q.op = "compareAndSetUserIdentityPreservingOwner"
  <2> DEFINE ok1 == At(db.users[q.id], q.rev)
  <2> DEFINE ok2 == db.users[q.id].owner /\ ~q.flag => Cardinality(R!Owners) > 1
  <2>1. Script(q) = compareAndSetUserIdentityPreservingOwner(q) BY <1>6 DEF Script
  <2>2. n = 0 \/ n = 1 \/ n = 2
    BY <2>1 DEF compareAndSetUserIdentityPreservingOwner, Transaction
  <2>3. CASE n = 0
    <3>1. Runs(c, Advisory("vrrelay:user-owners"))
      BY <2>1, <2>3 DEF compareAndSetUserIdentityPreservingOwner, Transaction
    <3>2. Owns(c, OwnerRole)' BY <3>1, AdvisoryRuns DEF OwnerRole
    <3> QED
      BY <1>1, <1>2, <1>3, <1>6, <2>3, <3>2
         DEF UserWork, At, Live, R!At, R!Live, PreservingOwner
  <2>4. CASE n = 1
    <3>1. Runs(c, ForUpdate(row, ok1))
      BY <2>1, <2>4 DEF compareAndSetUserIdentityPreservingOwner, Transaction
    <3>2. ok1 /\ (Exists(row) => Owns(c, row)') BY <3>1, ForUpdateRuns
    <3> QED
      BY <1>1, <1>2, <1>3, <1>6, <2>4, <3>2
         DEF UserWork, At, Live, R!At, R!Live, PreservingOwner
  <2>5. CASE n = 2
    <3>1. Runs(c, Read(ok2))
      BY <2>1, <2>5 DEF compareAndSetUserIdentityPreservingOwner, Transaction
    <3>2. ok2 BY <3>1, ReadRuns
    <3> QED
      BY <1>1, <1>2, <1>3, <1>6, <2>5, <3>2
         DEF UserWork, At, Live, R!At, R!Live, PreservingOwner
  <2> QED BY <2>2, <2>3, <2>4, <2>5
<1>7. CASE q.op = "deleteUserIdentityPreservingOwner"
  <2> DEFINE ok1 == At(db.users[q.id], q.rev) /\ (q.flag => db.users[q.id].stale)
  <2> DEFINE ok2 == db.users[q.id].owner => Cardinality(R!Owners) > 1
  <2> DEFINE ok3 == R!OwnedSessions(q.id) = {}
  <2> DEFINE ok4 == R!OwnedChannels(q.id) = {}
  <2>1. Script(q) = deleteUserIdentityPreservingOwner(q) BY <1>7 DEF Script
  <2>2. n = 0 \/ n = 1 \/ n = 2 \/ n = 3 \/ n = 4
    BY <2>1 DEF deleteUserIdentityPreservingOwner, Transaction
  <2>3. CASE n = 0
    <3>1. Runs(c, Advisory("vrrelay:user-owners"))
      BY <2>1, <2>3 DEF deleteUserIdentityPreservingOwner, Transaction
    <3>2. Owns(c, OwnerRole)' BY <3>1, AdvisoryRuns DEF OwnerRole
    <3> QED
      BY <1>1, <1>2, <1>3, <1>7, <2>3, <3>2
         DEF UserWork, At, Live, R!At, R!Live, PreservingOwner
  <2>4. CASE n = 1
    <3>0. Script(q).statements[2] = ForUpdate(row, ok1)
      BY ONLY <2>1 DEF deleteUserIdentityPreservingOwner, Transaction
    <3>a. Runs(c, Script(q).statements[2]) BY <2>4
    <3>1. Runs(c, ForUpdate(row, ok1)) BY ONLY <3>a, <3>0
    <3>2. ok1 /\ (Exists(row) => Owns(c, row)') BY <3>1, ForUpdateRuns
    <3> QED
      BY <1>1, <1>2, <1>3, <1>7, <2>4, <3>2
         DEF UserWork, At, Live, R!At, R!Live, PreservingOwner
  <2>5. CASE n = 2
    <3>1. Runs(c, Read(ok2)) BY <2>1, <2>5 DEF deleteUserIdentityPreservingOwner, Transaction
    <3>2. ok2 BY <3>1, ReadRuns
    <3> QED
      BY <1>1, <1>2, <1>3, <1>7, <2>5, <3>2
         DEF UserWork, At, Live, R!At, R!Live, PreservingOwner
  <2>6. CASE n = 3
    <3>1. Runs(c, Read(ok3)) BY <2>1, <2>6 DEF deleteUserIdentityPreservingOwner, Transaction
    <3>2. ok3 BY <3>1, ReadRuns
    <3> QED
      BY <1>1, <1>2, <1>3, <1>7, <2>6, <3>2
         DEF UserWork, At, Live, R!At, R!Live, PreservingOwner
  <2>7. CASE n = 4
    <3>1. Runs(c, Read(ok4)) BY <2>1, <2>7 DEF deleteUserIdentityPreservingOwner, Transaction
    <3>2. ok4 BY <3>1, ReadRuns
    <3> QED
      BY <1>1, <1>2, <1>3, <1>7, <2>7, <3>2
         DEF UserWork, At, Live, R!At, R!Live, PreservingOwner
  <2> QED BY <2>2, <2>3, <2>4, <2>5, <2>6, <2>7
<1>8. CASE q.op \notin UserOps
  BY <1>8 DEF UserWork, UserOps, PreservingOwner
<1> QED BY <1>4, <1>5, <1>6, <1>7, <1>8 DEF UserOps

\* What a statement of an operation on documents establishes.
LEMMA DocumentExecutes ==
  ASSUME DbOK, NEW c \in Clients, NEW q, Request(c, q), NEW n \in Nat,
         n < Len(Script(q).statements), Runs(c, Script(q).statements[n + 1]),
         DocumentWork(q, n)
  PROVE  DocumentWork(q, n + 1)'
<1> DEFINE row == <<"documents", q.id>>
<1>1. /\ q.by = c /\ (q.op \in DocumentOps => q.id \in Documents /\ q.rev \in Int)
      /\ q.id \in Documents => db.documents[q.id].rev \in Nat
  BY DEF Request, DocumentOps, DbOK, DocumentRow
<1>2. db' = db /\ (Owns(c, row) => Owns(c, row)')
  BY RunsKeeps
<1>3. Exists(row) <=> db.documents[q.id].rev # 0
  BY DEF Exists
<1>4. CASE q.op = "insertIfAbsent"
  <2>1. Script(q) = insertIfAbsent(q) BY <1>4 DEF Script
  <2>2. n = 0 BY <2>1 DEF insertIfAbsent, Transaction
  <2>3. CASE n = 0
    <3>1. Runs(c, Insert(row)) BY <2>1, <2>3 DEF insertIfAbsent, Transaction
    <3>2. ~Exists(row) /\ Owns(c, row)' BY <3>1, InsertRuns
    <3> QED
      BY <1>1, <1>2, <1>3, <1>4, <2>3, <3>2
         DEF DocumentWork, At, Live, R!At, R!Live, DocumentOps
  <2> QED BY <2>2, <2>3
<1>5. CASE q.op = "put"
  <2>1. Script(q) = put(q) BY <1>5 DEF Script
  <2>2. n = 0 BY <2>1 DEF put, Transaction
  <2>3. CASE n = 0
    <3>1. Runs(c, Write({row})) BY <2>1, <2>3 DEF put, Transaction
    <3>2. \A x \in {row} : Owns(c, x)' BY <3>1, WriteRuns
    <3> QED
      BY <1>1, <1>2, <1>3, <1>5, <2>3, <3>2
         DEF DocumentWork, At, Live, R!At, R!Live, DocumentOps
  <2> QED BY <2>2, <2>3
<1>6. CASE q.op = "compareAndSetVersioned"
  <2> DEFINE ok0 == At(db.documents[q.id], q.rev) /\ db.documents[q.id].state = "open"
  <2>1. Script(q) = compareAndSetVersioned(q) BY <1>6 DEF Script
  <2>2. n = 0 BY <2>1 DEF compareAndSetVersioned, Transaction
  <2>3. CASE n = 0
    <3>1. Runs(c, ForUpdate(row, ok0)) BY <2>1, <2>3 DEF compareAndSetVersioned, Transaction
    <3>2. ok0 /\ (Exists(row) => Owns(c, row)') BY <3>1, ForUpdateRuns
    <3> QED
      BY <1>1, <1>2, <1>3, <1>6, <2>3, <3>2
         DEF DocumentWork, At, Live, R!At, R!Live, DocumentOps
  <2> QED BY <2>2, <2>3
<1>7. CASE q.op = "delete"
  <2> DEFINE ok0 == Exists(row)
  <2>1. Script(q) = delete(q) BY <1>7 DEF Script
  <2>2. n = 0 BY <2>1 DEF delete, Transaction
  <2>3. CASE n = 0
    <3>1. Runs(c, ForUpdate(row, ok0)) BY <2>1, <2>3 DEF delete, Transaction
    <3>2. ok0 /\ (Exists(row) => Owns(c, row)') BY <3>1, ForUpdateRuns
    <3> QED
      BY <1>1, <1>2, <1>3, <1>7, <2>3, <3>2
         DEF DocumentWork, At, Live, R!At, R!Live, DocumentOps
  <2> QED BY <2>2, <2>3
<1>8. CASE q.op \notin DocumentOps
  BY <1>8 DEF DocumentWork, DocumentOps, DocumentOps
<1> QED BY <1>4, <1>5, <1>6, <1>7, <1>8 DEF DocumentOps

\* Each statement of ensureLocalNode, whichever way it goes, establishes its part.
LEMMA EnsureLocalNodeExecutes ==
  ASSUME DbOK, NEW c \in Clients, NEW q, Request(c, q), NEW n \in Nat,
         q.op = "ensureLocalNode",
         n < Len(Script(q).statements), Runs(c, Script(q).statements[n + 1]),
         NodeWork(q, n), n = 0 => \A l \in locks : l[1] # c
  PROVE  NodeWork(q, n + 1)'
<1> DEFINE row == <<"nodes", q.id>>
           ok == Live(db.nodes[q.id]) \/ Holds(q.by, row)
           new == {r \in {row} : ~Exists(r)}
<1>1. q.by = c /\ q.id \in Nodes /\ db.nodes[q.id].rev \in Nat \cup {-1}
  BY DEF Request, NodeOps, DbOK, NodeRow
<1>2. db' = db /\ (Owns(c, row) => Owns(c, row)') BY RunsKeeps
<1>3. Script(q) = ensureLocalNode(q) BY DEF Script
<1>4. n = 0 \/ n = 1 BY <1>3 DEF ensureLocalNode, Transaction
<1>5. CASE n = 0
  <2>1. Runs(c, Write(new)) BY <1>3, <1>5 DEF ensureLocalNode, Transaction
  <2>2. ASSUME Holds(c, row)' PROVE Owns(c, row)' /\ db.nodes[q.id].rev = 0
    <3>1. PICK mode : <<c, row, mode>> \in locks' BY <2>2 DEF Holds
    <3>2. <<c, row, mode>> \notin locks
      <4>1. <<c, row, mode>>[1] = c OBVIOUS
      <4> QED BY <1>5, <4>1
    <3>3. PICK r \in new : <<c, row, mode>> = <<c, r, "exclusive">>
      BY <2>1, <3>1, <3>2 DEF Runs, Write
    <3>4. r = row /\ mode = "exclusive" /\ ~Exists(row) BY <3>3
    <3>5. db.nodes[q.id].rev = 0 BY <3>4 DEF Exists
    <3> QED BY <3>1, <3>4, <3>5 DEF Owns
  <2> QED BY <1>1, <1>2, <1>5, <2>2 DEF NodeWork, FromRead
<1>6. CASE n = 1
  <2>1. Runs(c, ForUpdate(row, ok)) BY <1>3, <1>6 DEF ensureLocalNode, Transaction
  <2>2. ok /\ (Exists(row) => Owns(c, row)') BY <2>1, ForUpdateRuns
  <2>3. CASE Holds(c, row)
    <3>1. Owns(c, row) /\ db.nodes[q.id].rev = 0 BY <1>1, <1>6, <2>3 DEF NodeWork
    <3> QED BY <1>1, <1>2, <1>6, <3>1 DEF NodeWork, FromRead
  <2>4. CASE ~Holds(c, row)
    <3>1. Live(db.nodes[q.id]) BY <1>1, <2>2, <2>4
    <3>2. Owns(c, row)' /\ db.nodes[q.id].rev > 0
      BY <1>1, <2>2, <3>1 DEF Exists, Live, R!Live
    <3> QED BY <1>1, <1>2, <1>6, <3>2 DEF NodeWork, FromRead
  <2> QED BY <2>3, <2>4
<1> QED BY <1>4, <1>5, <1>6

\* A node at the revision that was read is the node that was read.
LEMMA SetNodeDrainExecutes ==
  ASSUME DbOK, NEW c \in Clients, NEW q, Request(c, q), NEW n \in Nat,
         q.op = "setNodeDrain",
         n < Len(Script(q).statements), Runs(c, Script(q).statements[n + 1]),
         NodeWork(q, n)
  PROVE  NodeWork(q, n + 1)'
<1> DEFINE row == <<"nodes", q.id>>
           ok0 == At(db.nodes[q.id], q.rev) /\ db.nodes[q.id].state # "revoked"
           ok1 == At(db.nodes[q.id], q.rev)
<1>1. q.by = c /\ q.id \in Nodes /\ q.rev \in Int /\ db.nodes[q.id].rev \in Nat \cup {-1}
  BY DEF Request, NodeOps, DbOK, NodeRow
<1>2. db' = db /\ (Owns(c, row) => Owns(c, row)') BY RunsKeeps
<1>3. Script(q) = setNodeDrain(q) BY DEF Script
<1>4. n = 0 \/ n = 1 BY <1>3 DEF setNodeDrain, Transaction
<1>5. SeenIsCurrent(q) BY DEF NodeWork, FromRead
<1>6. SeenIsCurrent(q)' BY <1>2, <1>5 DEF SeenIsCurrent
<1>7. CASE n = 0
  <2>1. Runs(c, Read(ok0)) BY <1>3, <1>7 DEF setNodeDrain, Transaction
  <2>2. ok0 BY <2>1, ReadRuns
  <2>3. q.seen # "revoked" BY <1>1, <1>5, <2>2 DEF SeenIsCurrent, At, R!At
  <2> QED BY <1>1, <1>2, <1>6, <1>7, <2>3 DEF NodeWork, FromRead
<1>8. CASE n = 1
  <2>1. Runs(c, ForUpdate(row, ok1)) BY <1>3, <1>8 DEF setNodeDrain, Transaction
  <2>2. ok1 /\ (Exists(row) => Owns(c, row)') BY <2>1, ForUpdateRuns
  <2>3. Owns(c, row)' BY <1>1, <2>2 DEF Exists, At, R!At
  <2>4. q.seen # "revoked" BY <1>8 DEF NodeWork
  <2> QED BY <1>1, <1>2, <1>6, <1>8, <2>2, <2>3, <2>4 DEF NodeWork, FromRead, At, R!At
<1> QED BY <1>4, <1>7, <1>8

\* What a statement of an operation on nodes establishes.
LEMMA NodeExecutes ==
  ASSUME DbOK, NEW c \in Clients, NEW q, Request(c, q), NEW n \in Nat,
         n < Len(Script(q).statements), Runs(c, Script(q).statements[n + 1]),
         NodeWork(q, n), n = 0 => \A l \in locks : l[1] # c
  PROVE  NodeWork(q, n + 1)'
<1> DEFINE row == <<"nodes", q.id>>
<1>1. /\ q.by = c /\ (q.op \in NodeOps => q.id \in Nodes /\ q.rev \in Int)
      /\ q.id \in Nodes => db.nodes[q.id].rev \in Nat \cup {-1}
  BY DEF Request, NodeOps, DbOK, NodeRow
<1>2. /\ db' = db /\ (Owns(c, row) => Owns(c, row)')
      /\ \A b : Owns(c, <<"bindings", b>>) => Owns(c, <<"bindings", b>>)'
      /\ R!NodeBindings(q.id)' = R!NodeBindings(q.id)
      /\ SeenIsCurrent(q)' <=> SeenIsCurrent(q)
  BY RunsKeeps, SameRows DEF SeenIsCurrent
<1>3. Exists(row) <=> db.nodes[q.id].rev # 0
  BY DEF Exists
<1>4. CASE q.op = "createNode"
  <2>1. Script(q) = createNode(q) BY <1>4 DEF Script
  <2>2. n = 0 BY <2>1 DEF createNode, Transaction
  <2>3. CASE n = 0
    <3>1. Runs(c, Insert(row)) BY <2>1, <2>3 DEF createNode, Transaction
    <3>2. ~Exists(row) /\ Owns(c, row)' BY <3>1, InsertRuns
    <3> QED BY <1>1, <1>2, <1>3, <1>4, <2>3, <3>2 DEF NodeWork, At, Live, R!At, R!Live, FromRead
  <2> QED BY <2>2, <2>3
<1>5. CASE q.op = "ensureLocalNode"
  BY <1>5, EnsureLocalNodeExecutes
<1>6. CASE q.op = "recordNodeHeartbeat"
  <2> DEFINE ok1 == At(db.nodes[q.id], q.rev)
  <2>1. Script(q) = recordNodeHeartbeat(q) BY <1>6 DEF Script
  <2>2. n = 0 \/ n = 1 BY <2>1 DEF recordNodeHeartbeat, Transaction
  <2>3. CASE n = 0
    <3> QED BY <1>1, <1>2, <1>3, <1>6, <2>3 DEF NodeWork, At, Live, R!At, R!Live, FromRead
  <2>4. CASE n = 1
    <3>1. Runs(c, ForUpdate(row, ok1)) BY <2>1, <2>4 DEF recordNodeHeartbeat, Transaction
    <3>2. ok1 /\ (Exists(row) => Owns(c, row)') BY <3>1, ForUpdateRuns
    <3> QED BY <1>1, <1>2, <1>3, <1>6, <2>4, <3>2 DEF NodeWork, At, Live, R!At, R!Live, FromRead
  <2> QED BY <2>2, <2>3, <2>4
<1>7. CASE q.op = "setNodeDrain"
  BY <1>7, SetNodeDrainExecutes
<1>8. CASE q.op = "setNodeOperationalState"
  <2> DEFINE ok1 == At(db.nodes[q.id], q.rev) /\ ~R!Protected(db.nodes[q.id].state)
  <2>1. Script(q) = setNodeOperationalState(q) BY <1>8 DEF Script
  <2>2. n = 0 \/ n = 1 BY <2>1 DEF setNodeOperationalState, Transaction
  <2>3. CASE n = 0
    <3> QED BY <1>1, <1>2, <1>3, <1>8, <2>3 DEF NodeWork, At, Live, R!At, R!Live, FromRead
  <2>4. CASE n = 1
    <3>1. Runs(c, ForUpdate(row, ok1)) BY <2>1, <2>4 DEF setNodeOperationalState, Transaction
    <3>2. ok1 /\ (Exists(row) => Owns(c, row)') BY <3>1, ForUpdateRuns
    <3> QED BY <1>1, <1>2, <1>3, <1>8, <2>4, <3>2 DEF NodeWork, At, Live, R!At, R!Live, FromRead
  <2> QED BY <2>2, <2>3, <2>4
<1>9. CASE q.op = "removeNode"
  <2> DEFINE ok0 == At(db.nodes[q.id], q.rev) /\ db.nodes[q.id].state = "revoked"
  <2> DEFINE ok1 == R!NodeBindings(q.id) = {}
  <2>1. Script(q) = removeNode(q) BY <1>9 DEF Script
  <2>2. n = 0 \/ n = 1 BY <2>1 DEF removeNode, Transaction
  <2>3. CASE n = 0
    <3>1. Runs(c, ForUpdate(row, ok0)) BY <2>1, <2>3 DEF removeNode, Transaction
    <3>2. ok0 /\ (Exists(row) => Owns(c, row)') BY <3>1, ForUpdateRuns
    <3> QED BY <1>1, <1>2, <1>3, <1>9, <2>3, <3>2 DEF NodeWork, At, Live, R!At, R!Live, FromRead
  <2>4. CASE n = 1
    <3>1. Runs(c, Read(ok1)) BY <2>1, <2>4 DEF removeNode, Transaction
    <3>2. ok1 BY <3>1, ReadRuns
    <3> QED BY <1>1, <1>2, <1>3, <1>9, <2>4, <3>2 DEF NodeWork, At, Live, R!At, R!Live, FromRead
  <2> QED BY <2>2, <2>3, <2>4
<1>10. CASE q.op = "rotateNodeCertificate"
  <2> DEFINE ok0 == At(db.nodes[q.id], q.rev) /\ db.nodes[q.id].state # "revoked"
  <2>1. Script(q) = rotateNodeCertificate(q) BY <1>10 DEF Script
  <2>2. n = 0 \/ n = 1 BY <2>1 DEF rotateNodeCertificate, Transaction
  <2>3. CASE n = 0
    <3>1. Runs(c, ForUpdate(row, ok0)) BY <2>1, <2>3 DEF rotateNodeCertificate, Transaction
    <3>2. ok0 /\ (Exists(row) => Owns(c, row)') BY <3>1, ForUpdateRuns
    <3> QED
      BY <1>1, <1>2, <1>3, <1>10, <2>3, <3>2 DEF NodeWork, At, Live, R!At, R!Live, FromRead
  <2>4. CASE n = 1
    <3> QED BY <1>1, <1>2, <1>3, <1>10, <2>4 DEF NodeWork, At, Live, R!At, R!Live, FromRead
  <2> QED BY <2>2, <2>3, <2>4
<1>11. CASE q.op = "revokeNode"
  <2> DEFINE ok0 == At(db.nodes[q.id], q.rev)
  <2>1. Script(q) = revokeNode(q) BY <1>11 DEF Script
  <2>2. n = 0 \/ n = 1 \/ n = 2 BY <2>1 DEF revokeNode, Transaction
  <2>3. CASE n = 0
    <3>1. Runs(c, ForUpdate(row, ok0)) BY <2>1, <2>3 DEF revokeNode, Transaction
    <3>2. ok0 /\ (Exists(row) => Owns(c, row)') BY <3>1, ForUpdateRuns
    <3> QED
      BY <1>1, <1>2, <1>3, <1>11, <2>3, <3>2 DEF NodeWork, At, Live, R!At, R!Live, FromRead
  <2>4. CASE n = 1
    <3>1. Runs(c, Write({<<"bindings", b>> : b \in R!NodeBindings(q.id)}))
      BY <2>1, <2>4 DEF revokeNode, Transaction
    <3>2. \A x \in {<<"bindings", b>> : b \in R!NodeBindings(q.id)} : Owns(c, x)'
      BY <3>1, WriteRuns
    <3> QED
      BY <1>1, <1>2, <1>3, <1>11, <2>4, <3>2 DEF NodeWork, At, Live, R!At, R!Live, FromRead
  <2>5. CASE n = 2
    <3> QED BY <1>1, <1>2, <1>3, <1>11, <2>5 DEF NodeWork, At, Live, R!At, R!Live, FromRead
  <2> QED BY <2>2, <2>3, <2>4, <2>5
<1>12. CASE q.op \notin NodeOps
  BY <1>12 DEF NodeWork, NodeOps, FromRead
<1> QED BY <1>4, <1>5, <1>6, <1>7, <1>8, <1>9, <1>10, <1>11, <1>12 DEF NodeOps

\* The statements of the transaction that creates a binding.
LEMMA BinderStatements ==
  ASSUME NEW q
  PROVE  createProviderBinding(q).statements =
           <<ForUpdate(<<"bindings", q.id>>, TRUE),
             IF Holds(q.by, <<"bindings", q.id>>)
               THEN ForShare(<<"providers", q.provider>>, FALSE)
               ELSE ForShare(<<"nodes", q.node>>,
                             Live(db.nodes[q.node]) /\ db.nodes[q.node].state # "revoked"),
             ForUpdate(<<"providers", q.provider>>, TRUE),
             ForUpdate(<<"bindings", q.id>>, ~Exists(<<"bindings", q.id>>)),
             IF q.rev = None
               THEN Insert(<<"providers", q.provider>>)
               ELSE Read(/\ Holds(q.by, <<"providers", q.provider>>)
                         /\ At(db.providers[q.provider], q.rev)
                         /\ ~db.providers[q.provider].pending),
             Insert(<<"bindings", q.id>>)>>
BY DEF createProviderBinding, Transaction

\* Each statement of createProviderBinding establishes its part.
LEMMA CreateProviderBindingExecutes ==
  ASSUME DbOK, NEW c \in Clients, NEW q, Request(c, q), NEW n \in Nat,
         q.op = "createProviderBinding",
         n < Len(Script(q).statements), Runs(c, Script(q).statements[n + 1]),
         BindingWork(q, n)
  PROVE  BindingWork(q, n + 1)'
<1> DEFINE binding == <<"bindings", q.id>>
           node == <<"nodes", q.node>>
           provider == <<"providers", q.provider>>
           free == Live(db.nodes[q.node]) /\ db.nodes[q.node].state # "revoked"
           current == /\ Holds(q.by, provider)
                      /\ At(db.providers[q.provider], q.rev) /\ ~db.providers[q.provider].pending
           st == Script(q).statements
           Only == \A l \in locks' : l[1] = c => l \in BinderLocks(q)
           NodeKept == Shares(c, node)' /\ free
           ProviderKept == /\ Owns(c, provider)'
                           /\ IF q.rev = None THEN db.providers[q.provider].rev = 0
                              ELSE /\ At(db.providers[q.provider], q.rev)
                                   /\ ~db.providers[q.provider].pending
<1>1. /\ q.by = c /\ q.id \in Bindings /\ q.provider \in Providers /\ q.node \in Nodes
      /\ db.nodes[q.node].rev \in Nat \cup {-1} /\ db.providers[q.provider].rev \in Nat
  BY DEF Request, BindingOps, DbOK, NodeRow, ProviderRow
<1>2. /\ db' = db /\ (Owns(c, provider) => Owns(c, provider)')
      /\ (Shares(c, node) => Shares(c, node)')
  BY RunsKeeps
<1> DEFINE first == ForUpdate(binding, TRUE)
           found == ForShare(provider, FALSE)
           second == IF Holds(q.by, binding) THEN found ELSE ForShare(node, free)
           third == ForUpdate(provider, TRUE)
           fourth == ForUpdate(binding, ~Exists(binding))
           fifth == IF q.rev = None THEN Insert(provider) ELSE Read(current)
<1>3. st = <<first, second, third, fourth, fifth, Insert(binding)>>
  <2>1. Script(q) = createProviderBinding(q) BY DEF Script
  <2> QED BY <2>1, BinderStatements
<1> HIDE DEF st, first, second, third, fourth, fifth
<1>4. /\ Len(st) = 6 /\ st[1] = first /\ st[2] = second /\ st[3] = third
      /\ st[4] = fourth /\ st[5] = fifth /\ st[6] = Insert(binding)
  BY <1>3
<1>5. Runs(c, st[n + 1]) /\ n \in 0 .. 5 BY <1>4 DEF st
<1> HIDE DEF free, current, found
<1>6. n = 1 => second = ForShare(node, free) /\ Runs(c, ForShare(node, free))
  <2>1. ~Runs(c, found) BY ForShareRuns DEF found
  <2>2. n = 1 => Runs(c, second) BY <1>4, <1>5
  <2>3. second = found \/ second = ForShare(node, free) BY DEF second
  <2> QED BY <2>1, <2>2, <2>3
<1>7. n = 4 => IF q.rev = None THEN Runs(c, Insert(provider)) ELSE Runs(c, Read(current))
  BY <1>4, <1>5 DEF fifth
<1>8. Only
  <2>1. \A l \in locks : l[1] = c => l \in BinderLocks(q) BY <1>1 DEF BindingWork
  <2>2. ASSUME NEW row \in st[n + 1].rows
        PROVE  <<c, row, st[n + 1].mode>> \in BinderLocks(q)
    <3> USE <1>1 DEF BinderLocks
    <3>1. CASE n = 0 BY <1>4, <2>2, <3>1 DEF first, ForUpdate
    <3>2. CASE n = 1
      <4>1. st[2] = ForShare(node, free) BY <1>4, <1>6, <3>2
      <4> QED BY <2>2, <3>2, <4>1 DEF ForShare
    <3>3. CASE n = 2 BY <1>4, <2>2, <3>3 DEF third, ForUpdate
    <3>4. CASE n = 3 BY <1>4, <2>2, <3>4 DEF fourth, ForUpdate
    <3>5. CASE n = 4 BY <1>4, <2>2, <3>5 DEF fifth, Insert, Read
    <3>6. CASE n = 5 BY <1>4, <2>2, <3>6 DEF Insert
    <3> QED BY <1>5, <3>1, <3>2, <3>3, <3>4, <3>5, <3>6
  <2>3. locks' = locks \cup {<<c, row, st[n + 1].mode>> : row \in st[n + 1].rows}
    BY <1>5 DEF Runs
  <2> QED BY <2>1, <2>2, <2>3
<1>9. n = 1 => NodeKept
  <2> SUFFICES ASSUME n = 1 PROVE NodeKept
    OBVIOUS
  <2>1. Runs(c, ForShare(node, free)) BY <1>6
  <2>2. free /\ (Exists(node) => Shares(c, node)') BY <2>1, ForShareRuns
  <2>3. Exists(node) BY <1>1, <2>2 DEF Exists, Live, R!Live, free
  <2> QED BY <2>2, <2>3
<1>10. n = 4 => ProviderKept
  <2> SUFFICES ASSUME n = 4 PROVE ProviderKept
    OBVIOUS
  <2>1. CASE q.rev = None
    <3>1. Runs(c, Insert(provider)) BY <1>7, <2>1
    <3>2. ~Exists(provider) /\ Owns(c, provider)' BY <3>1, InsertRuns
    <3> QED BY <1>1, <2>1, <3>2 DEF Exists
  <2>2. CASE q.rev # None
    <3>1. Runs(c, Read(current)) BY <1>7, <2>2
    <3>2. current BY <3>1, ReadRuns
    <3>3. PICK mode : <<c, provider, mode>> \in locks BY <1>1, <3>2 DEF current, Holds
    <3>4. <<c, provider, mode>> \in BinderLocks(q)
      <4>1. <<c, provider, mode>>[1] = c OBVIOUS
      <4> QED BY <1>1, <3>3, <4>1 DEF BindingWork
    <3>5. mode = "exclusive" BY <3>4 DEF BinderLocks
    <3>6. Owns(c, provider) BY <3>3, <3>5 DEF Owns
    <3> QED BY <1>2, <2>2, <3>2, <3>6 DEF current
  <2> QED BY <2>1, <2>2
<1>11. n = 5 => Owns(c, binding)' /\ db.bindings[q.id].rev = 0
  <2>1. n = 5 => Runs(c, Insert(binding)) BY <1>4, <1>5
  <2>2. n = 5 => ~Exists(binding) /\ Owns(c, binding)' BY <2>1, InsertRuns
  <2> QED BY <2>2 DEF Exists
<1>12. n > 1 => NodeKept
  <2>1. n > 1 => Shares(c, node) /\ free BY <1>1 DEF BindingWork, free
  <2> QED BY <1>2, <2>1
<1>13. n > 4 => ProviderKept
  <2>1. n > 4 => /\ Owns(c, provider)
                 /\ IF q.rev = None THEN db.providers[q.provider].rev = 0
                    ELSE /\ At(db.providers[q.provider], q.rev)
                         /\ ~db.providers[q.provider].pending
    BY <1>1 DEF BindingWork
  <2> QED BY <1>2, <2>1
<1> HIDE DEF NodeKept, ProviderKept, Only
<1>14. /\ n + 1 > 1 => NodeKept
       /\ n + 1 > 4 => ProviderKept
       /\ n + 1 > 5 => Owns(c, binding)' /\ db.bindings[q.id].rev = 0
  BY <1>5, <1>9, <1>10, <1>11, <1>12, <1>13
<1> QED BY <1>1, <1>2, <1>8, <1>14
        DEF BindingWork, Only, NodeKept, ProviderKept, free, BinderLocks, At, Live, R!At, R!Live

\* What a statement of an operation on bindings establishes.
LEMMA BindingExecutes ==
  ASSUME DbOK, NEW c \in Clients, NEW q, Request(c, q), NEW n \in Nat,
         n < Len(Script(q).statements), Runs(c, Script(q).statements[n + 1]),
         BindingWork(q, n)
  PROVE  BindingWork(q, n + 1)'
<1> DEFINE row == <<"bindings", q.id>>
<1>1. /\ q.by = c /\ (q.op \in BindingOps => q.id \in Bindings)
      /\ q.op # "createProviderBinding" => q.rev \in Int
      /\ q.id \in Bindings => db.bindings[q.id].rev \in Nat
  BY DEF Request, BindingOps, DbOK, BindingRow
<1>2. db' = db /\ (Owns(c, row) => Owns(c, row)')
  BY RunsKeeps
<1>3. Exists(row) <=> db.bindings[q.id].rev # 0
  BY DEF Exists
<1>4. CASE q.op = "compareAndSetProviderBinding"
  <2> DEFINE ok0 == At(db.bindings[q.id], q.rev) /\ ~db.bindings[q.id].pending
  <2>1. Script(q) = compareAndSetProviderBinding(q) BY <1>4 DEF Script
  <2>2. n = 0 BY <2>1 DEF compareAndSetProviderBinding, Transaction
  <2>3. CASE n = 0
    <3>1. Runs(c, ForUpdate(row, ok0))
      BY <2>1, <2>3 DEF compareAndSetProviderBinding, Transaction
    <3>2. ok0 /\ (Exists(row) => Owns(c, row)') BY <3>1, ForUpdateRuns
    <3> QED
      BY <1>1, <1>2, <1>3, <1>4, <2>3, <3>2 DEF BindingWork, At, Live, R!At, R!Live, BindingOps
  <2> QED BY <2>2, <2>3
<1>5. CASE q.op = "beginProviderBindingDeletion"
  <2> DEFINE ok0 == Live(db.bindings[q.id]) /\ ~db.bindings[q.id].pending
  <2>1. Script(q) = beginProviderBindingDeletion(q) BY <1>5 DEF Script
  <2>2. n = 0 BY <2>1 DEF beginProviderBindingDeletion, Transaction
  <2>3. CASE n = 0
    <3>1. Runs(c, ForUpdate(row, ok0))
      BY <2>1, <2>3 DEF beginProviderBindingDeletion, Transaction
    <3>2. ok0 /\ (Exists(row) => Owns(c, row)') BY <3>1, ForUpdateRuns
    <3> QED
      BY <1>1, <1>2, <1>3, <1>5, <2>3, <3>2 DEF BindingWork, At, Live, R!At, R!Live, BindingOps
  <2> QED BY <2>2, <2>3
<1>6. CASE q.op = "finalizeProviderBindingDeletion"
  <2> DEFINE ok0 == At(db.bindings[q.id], q.rev) /\ db.bindings[q.id].pending
  <2>1. Script(q) = finalizeProviderBindingDeletion(q) BY <1>6 DEF Script
  <2>2. n = 0 BY <2>1 DEF finalizeProviderBindingDeletion, Transaction
  <2>3. CASE n = 0
    <3>1. Runs(c, ForUpdate(row, ok0))
      BY <2>1, <2>3 DEF finalizeProviderBindingDeletion, Transaction
    <3>2. ok0 /\ (Exists(row) => Owns(c, row)') BY <3>1, ForUpdateRuns
    <3> QED
      BY <1>1, <1>2, <1>3, <1>6, <2>3, <3>2 DEF BindingWork, At, Live, R!At, R!Live, BindingOps
  <2> QED BY <2>2, <2>3
<1>7. CASE q.op = "createProviderBinding"
  BY <1>7, CreateProviderBindingExecutes
<1>8. CASE q.op \notin BindingOps
  BY <1>8 DEF BindingWork, BindingOps, BindingOps
<1> QED BY <1>4, <1>5, <1>6, <1>7, <1>8 DEF BindingOps

\* How many statements a request takes; it does not depend on the rows.
Short == {"createProvider", "compareAndSetProvider", "touchSessionPlaybackActivity",
  "compareAndSetLiveChannel", "createUserIdentity", "compareAndSetUserIdentity",
  "createNode", "compareAndSetProviderBinding", "beginProviderBindingDeletion",
  "finalizeProviderBindingDeletion", "insertIfAbsent", "put", "compareAndSetVersioned",
  "delete"}
Double == {"beginProviderDeletion", "finalizeProviderDeletion", "compareAndSetSession",
  "beginSessionDeletion", "deleteSessionAndRevokePlaybackGrants", "deleteLiveChannel",
  "ensureLocalNode", "recordNodeHeartbeat", "setNodeDrain", "setNodeOperationalState",
  "removeNode", "rotateNodeCertificate"}
Size(q) ==
  CASE q.op \in Short -> 1
    [] q.op \in Double -> 2
    [] q.op \in {"compareAndSetUserIdentityPreservingOwner", "revokeNode"} -> 3
    [] q.op = "deleteUserIdentityPreservingOwner" -> 5
    [] q.op = "createProviderBinding" -> 6
    [] q.op = "createSessionWithPlaybackGrant" -> 2 + OwnerSteps(q, 1)
    [] q.op = "createLiveChannelWithinCapacity" -> 3 + OwnerSteps(q, 2)

\* Every request takes that many statements, now and later.
LEMMA SizeOf ==
  ASSUME NEW q, q.op \in Operations
  PROVE  /\ Len(Script(q).statements) = Size(q) /\ Size(q) \in Nat
         /\ Len(Script(q).statements)' = Size(q)
<1> DEFINE Fits == /\ Len(Script(q).statements) = Size(q) /\ Size(q) \in Nat
                   /\ Len(Script(q).statements)' = Size(q)
<1>1. CASE q.op = "createProvider"
  <2>1. Script(q) = createProvider(q) /\ Script(q)' = createProvider(q)' BY <1>1 DEF Script
  <2>2. Len(createProvider(q).statements) = 1 /\ Len(createProvider(q).statements)' = 1
    BY DEF createProvider, Transaction
  <2> QED BY <1>1, <2>1, <2>2 DEF Size, Short, Double
<1>2. CASE q.op = "compareAndSetProvider"
  <2>1. Script(q) = compareAndSetProvider(q) /\ Script(q)' = compareAndSetProvider(q)'
    BY <1>2 DEF Script
  <2>2. Len(compareAndSetProvider(q).statements) = 1
        /\ Len(compareAndSetProvider(q).statements)' = 1
    BY DEF compareAndSetProvider, Transaction
  <2> QED BY <1>2, <2>1, <2>2 DEF Size, Short, Double
<1>3. CASE q.op = "touchSessionPlaybackActivity"
  <2>1. Script(q) = touchSessionPlaybackActivity(q)
        /\ Script(q)' = touchSessionPlaybackActivity(q)'
    BY <1>3 DEF Script
  <2>2. Len(touchSessionPlaybackActivity(q).statements) = 1
        /\ Len(touchSessionPlaybackActivity(q).statements)' = 1
    BY DEF touchSessionPlaybackActivity, Transaction
  <2> QED BY <1>3, <2>1, <2>2 DEF Size, Short, Double
<1>4. CASE q.op = "compareAndSetLiveChannel"
  <2>1. Script(q) = compareAndSetLiveChannel(q) /\ Script(q)' = compareAndSetLiveChannel(q)'
    BY <1>4 DEF Script
  <2>2. Len(compareAndSetLiveChannel(q).statements) = 1
        /\ Len(compareAndSetLiveChannel(q).statements)' = 1
    BY DEF compareAndSetLiveChannel, Transaction
  <2> QED BY <1>4, <2>1, <2>2 DEF Size, Short, Double
<1>5. CASE q.op = "createUserIdentity"
  <2>1. Script(q) = createUserIdentity(q) /\ Script(q)' = createUserIdentity(q)'
    BY <1>5 DEF Script
  <2>2. Len(createUserIdentity(q).statements) = 1 /\ Len(createUserIdentity(q).statements)' = 1
    BY DEF createUserIdentity, Transaction
  <2> QED BY <1>5, <2>1, <2>2 DEF Size, Short, Double
<1>6. CASE q.op = "compareAndSetUserIdentity"
  <2>1. Script(q) = compareAndSetUserIdentity(q) /\ Script(q)' = compareAndSetUserIdentity(q)'
    BY <1>6 DEF Script
  <2>2. Len(compareAndSetUserIdentity(q).statements) = 1
        /\ Len(compareAndSetUserIdentity(q).statements)' = 1
    BY DEF compareAndSetUserIdentity, Transaction
  <2> QED BY <1>6, <2>1, <2>2 DEF Size, Short, Double
<1>7. CASE q.op = "createNode"
  <2>1. Script(q) = createNode(q) /\ Script(q)' = createNode(q)' BY <1>7 DEF Script
  <2>2. Len(createNode(q).statements) = 1 /\ Len(createNode(q).statements)' = 1
    BY DEF createNode, Transaction
  <2> QED BY <1>7, <2>1, <2>2 DEF Size, Short, Double
<1>8. CASE q.op = "compareAndSetProviderBinding"
  <2>1. Script(q) = compareAndSetProviderBinding(q)
        /\ Script(q)' = compareAndSetProviderBinding(q)'
    BY <1>8 DEF Script
  <2>2. Len(compareAndSetProviderBinding(q).statements) = 1
        /\ Len(compareAndSetProviderBinding(q).statements)' = 1
    BY DEF compareAndSetProviderBinding, Transaction
  <2> QED BY <1>8, <2>1, <2>2 DEF Size, Short, Double
<1>9. CASE q.op = "beginProviderBindingDeletion"
  <2>1. Script(q) = beginProviderBindingDeletion(q)
        /\ Script(q)' = beginProviderBindingDeletion(q)'
    BY <1>9 DEF Script
  <2>2. Len(beginProviderBindingDeletion(q).statements) = 1
        /\ Len(beginProviderBindingDeletion(q).statements)' = 1
    BY DEF beginProviderBindingDeletion, Transaction
  <2> QED BY <1>9, <2>1, <2>2 DEF Size, Short, Double
<1>10. CASE q.op = "finalizeProviderBindingDeletion"
  <2>1. Script(q) = finalizeProviderBindingDeletion(q)
        /\ Script(q)' = finalizeProviderBindingDeletion(q)'
    BY <1>10 DEF Script
  <2>2. Len(finalizeProviderBindingDeletion(q).statements) = 1
        /\ Len(finalizeProviderBindingDeletion(q).statements)' = 1
    BY DEF finalizeProviderBindingDeletion, Transaction
  <2> QED BY <1>10, <2>1, <2>2 DEF Size, Short, Double
<1>11. CASE q.op = "insertIfAbsent"
  <2>1. Script(q) = insertIfAbsent(q) /\ Script(q)' = insertIfAbsent(q)' BY <1>11 DEF Script
  <2>2. Len(insertIfAbsent(q).statements) = 1 /\ Len(insertIfAbsent(q).statements)' = 1
    BY DEF insertIfAbsent, Transaction
  <2> QED BY <1>11, <2>1, <2>2 DEF Size, Short, Double
<1>12. CASE q.op = "put"
  <2>1. Script(q) = put(q) /\ Script(q)' = put(q)' BY <1>12 DEF Script
  <2>2. Len(put(q).statements) = 1 /\ Len(put(q).statements)' = 1
    BY DEF put, Transaction
  <2> QED BY <1>12, <2>1, <2>2 DEF Size, Short, Double
<1>13. CASE q.op = "compareAndSetVersioned"
  <2>1. Script(q) = compareAndSetVersioned(q) /\ Script(q)' = compareAndSetVersioned(q)'
    BY <1>13 DEF Script
  <2>2. Len(compareAndSetVersioned(q).statements) = 1
        /\ Len(compareAndSetVersioned(q).statements)' = 1
    BY DEF compareAndSetVersioned, Transaction
  <2> QED BY <1>13, <2>1, <2>2 DEF Size, Short, Double
<1>14. CASE q.op = "delete"
  <2>1. Script(q) = delete(q) /\ Script(q)' = delete(q)' BY <1>14 DEF Script
  <2>2. Len(delete(q).statements) = 1 /\ Len(delete(q).statements)' = 1
    BY DEF delete, Transaction
  <2> QED BY <1>14, <2>1, <2>2 DEF Size, Short, Double
<1>15. CASE q.op = "beginProviderDeletion"
  <2>1. Script(q) = beginProviderDeletion(q) /\ Script(q)' = beginProviderDeletion(q)'
    BY <1>15 DEF Script
  <2>2. Len(beginProviderDeletion(q).statements) = 2
        /\ Len(beginProviderDeletion(q).statements)' = 2
    BY DEF beginProviderDeletion, Transaction
  <2> QED BY <1>15, <2>1, <2>2 DEF Size, Short, Double
<1>16. CASE q.op = "finalizeProviderDeletion"
  <2>1. Script(q) = finalizeProviderDeletion(q) /\ Script(q)' = finalizeProviderDeletion(q)'
    BY <1>16 DEF Script
  <2>2. Len(finalizeProviderDeletion(q).statements) = 2
        /\ Len(finalizeProviderDeletion(q).statements)' = 2
    BY DEF finalizeProviderDeletion, Transaction
  <2> QED BY <1>16, <2>1, <2>2 DEF Size, Short, Double
<1>17. CASE q.op = "compareAndSetSession"
  <2>1. Script(q) = compareAndSetSession(q) /\ Script(q)' = compareAndSetSession(q)'
    BY <1>17 DEF Script
  <2>2. Len(compareAndSetSession(q).statements) = 2
        /\ Len(compareAndSetSession(q).statements)' = 2
    BY DEF compareAndSetSession, Transaction
  <2> QED BY <1>17, <2>1, <2>2 DEF Size, Short, Double
<1>18. CASE q.op = "beginSessionDeletion"
  <2>1. Script(q) = beginSessionDeletion(q) /\ Script(q)' = beginSessionDeletion(q)'
    BY <1>18 DEF Script
  <2>2. Len(beginSessionDeletion(q).statements) = 2
        /\ Len(beginSessionDeletion(q).statements)' = 2
    BY DEF beginSessionDeletion, Transaction
  <2> QED BY <1>18, <2>1, <2>2 DEF Size, Short, Double
<1>19. CASE q.op = "deleteSessionAndRevokePlaybackGrants"
  <2>1. Script(q) = deleteSessionAndRevokePlaybackGrants(q)
        /\ Script(q)' = deleteSessionAndRevokePlaybackGrants(q)'
    BY <1>19 DEF Script
  <2>2. Len(deleteSessionAndRevokePlaybackGrants(q).statements) = 2
        /\ Len(deleteSessionAndRevokePlaybackGrants(q).statements)' = 2
    BY DEF deleteSessionAndRevokePlaybackGrants, Transaction
  <2> QED BY <1>19, <2>1, <2>2 DEF Size, Short, Double
<1>20. CASE q.op = "deleteLiveChannel"
  <2>1. Script(q) = deleteLiveChannel(q) /\ Script(q)' = deleteLiveChannel(q)'
    BY <1>20 DEF Script
  <2>2. Len(deleteLiveChannel(q).statements) = 2 /\ Len(deleteLiveChannel(q).statements)' = 2
    BY DEF deleteLiveChannel, Transaction
  <2> QED BY <1>20, <2>1, <2>2 DEF Size, Short, Double
<1>21. CASE q.op = "ensureLocalNode"
  <2>1. Script(q) = ensureLocalNode(q) /\ Script(q)' = ensureLocalNode(q)' BY <1>21 DEF Script
  <2>2. Len(ensureLocalNode(q).statements) = 2 /\ Len(ensureLocalNode(q).statements)' = 2
    BY DEF ensureLocalNode, Transaction
  <2> QED BY <1>21, <2>1, <2>2 DEF Size, Short, Double
<1>22. CASE q.op = "recordNodeHeartbeat"
  <2>1. Script(q) = recordNodeHeartbeat(q) /\ Script(q)' = recordNodeHeartbeat(q)'
    BY <1>22 DEF Script
  <2>2. Len(recordNodeHeartbeat(q).statements) = 2
        /\ Len(recordNodeHeartbeat(q).statements)' = 2
    BY DEF recordNodeHeartbeat, Transaction
  <2> QED BY <1>22, <2>1, <2>2 DEF Size, Short, Double
<1>23. CASE q.op = "setNodeDrain"
  <2>1. Script(q) = setNodeDrain(q) /\ Script(q)' = setNodeDrain(q)' BY <1>23 DEF Script
  <2>2. Len(setNodeDrain(q).statements) = 2 /\ Len(setNodeDrain(q).statements)' = 2
    BY DEF setNodeDrain, Transaction
  <2> QED BY <1>23, <2>1, <2>2 DEF Size, Short, Double
<1>24. CASE q.op = "setNodeOperationalState"
  <2>1. Script(q) = setNodeOperationalState(q) /\ Script(q)' = setNodeOperationalState(q)'
    BY <1>24 DEF Script
  <2>2. Len(setNodeOperationalState(q).statements) = 2
        /\ Len(setNodeOperationalState(q).statements)' = 2
    BY DEF setNodeOperationalState, Transaction
  <2> QED BY <1>24, <2>1, <2>2 DEF Size, Short, Double
<1>25. CASE q.op = "removeNode"
  <2>1. Script(q) = removeNode(q) /\ Script(q)' = removeNode(q)' BY <1>25 DEF Script
  <2>2. Len(removeNode(q).statements) = 2 /\ Len(removeNode(q).statements)' = 2
    BY DEF removeNode, Transaction
  <2> QED BY <1>25, <2>1, <2>2 DEF Size, Short, Double
<1>26. CASE q.op = "rotateNodeCertificate"
  <2>1. Script(q) = rotateNodeCertificate(q) /\ Script(q)' = rotateNodeCertificate(q)'
    BY <1>26 DEF Script
  <2>2. Len(rotateNodeCertificate(q).statements) = 2
        /\ Len(rotateNodeCertificate(q).statements)' = 2
    BY DEF rotateNodeCertificate, Transaction
  <2> QED BY <1>26, <2>1, <2>2 DEF Size, Short, Double
<1>27. CASE q.op = "compareAndSetUserIdentityPreservingOwner"
  <2>1. Script(q) = compareAndSetUserIdentityPreservingOwner(q)
        /\ Script(q)' = compareAndSetUserIdentityPreservingOwner(q)'
    BY <1>27 DEF Script
  <2>2. Len(compareAndSetUserIdentityPreservingOwner(q).statements) = 3
        /\ Len(compareAndSetUserIdentityPreservingOwner(q).statements)' = 3
    BY DEF compareAndSetUserIdentityPreservingOwner, Transaction
  <2> QED BY <1>27, <2>1, <2>2 DEF Size, Short, Double
<1>28. CASE q.op = "revokeNode"
  <2>1. Script(q) = revokeNode(q) /\ Script(q)' = revokeNode(q)' BY <1>28 DEF Script
  <2>2. Len(revokeNode(q).statements) = 3 /\ Len(revokeNode(q).statements)' = 3
    BY DEF revokeNode, Transaction
  <2> QED BY <1>28, <2>1, <2>2 DEF Size, Short, Double
<1>29. CASE q.op = "deleteUserIdentityPreservingOwner"
  <2>1. Script(q) = deleteUserIdentityPreservingOwner(q)
        /\ Script(q)' = deleteUserIdentityPreservingOwner(q)'
    BY <1>29 DEF Script
  <2>2. Len(deleteUserIdentityPreservingOwner(q).statements) = 5
        /\ Len(deleteUserIdentityPreservingOwner(q).statements)' = 5
    BY DEF deleteUserIdentityPreservingOwner, Transaction
  <2> QED BY <1>29, <2>1, <2>2 DEF Size, Short, Double
<1>30. CASE q.op = "createProviderBinding"
  <2>1. Script(q) = createProviderBinding(q) /\ Script(q)' = createProviderBinding(q)'
    BY <1>30 DEF Script
  <2>2. Len(createProviderBinding(q).statements) = 6
        /\ Len(createProviderBinding(q).statements)' = 6
    BY DEF createProviderBinding, Transaction
  <2> QED BY <1>30, <2>1, <2>2 DEF Size, Short, Double
<1>31. CASE q.op = "createSessionWithPlaybackGrant"
  <2>1. Script(q) = createSessionWithPlaybackGrant(q)
        /\ Script(q)' = createSessionWithPlaybackGrant(q)'
    BY <1>31 DEF Script
  <2>2. q.owner = None => /\ Len(createSessionWithPlaybackGrant(q).statements) = 2
                          /\ Len(createSessionWithPlaybackGrant(q).statements)' = 2
    BY DEF createSessionWithPlaybackGrant, Transaction
  <2>3. q.owner # None => /\ Len(createSessionWithPlaybackGrant(q).statements) = 3
                          /\ Len(createSessionWithPlaybackGrant(q).statements)' = 3
    BY DEF createSessionWithPlaybackGrant, Transaction
  <2>4. Size(q) = 2 + OwnerSteps(q, 1) BY <1>31 DEF Size, Short, Double
  <2>5. CASE q.owner = None BY <2>1, <2>2, <2>4, <2>5 DEF OwnerSteps
  <2>6. CASE q.owner # None BY <2>1, <2>3, <2>4, <2>6 DEF OwnerSteps
  <2> QED BY <2>5, <2>6
<1>32. CASE q.op = "createLiveChannelWithinCapacity"
  <2>1. Script(q) = createLiveChannelWithinCapacity(q)
        /\ Script(q)' = createLiveChannelWithinCapacity(q)'
    BY <1>32 DEF Script
  <2>2. q.owner = None => /\ Len(createLiveChannelWithinCapacity(q).statements) = 3
                          /\ Len(createLiveChannelWithinCapacity(q).statements)' = 3
    BY DEF createLiveChannelWithinCapacity, Transaction
  <2>3. q.owner # None => /\ Len(createLiveChannelWithinCapacity(q).statements) = 5
                          /\ Len(createLiveChannelWithinCapacity(q).statements)' = 5
    BY DEF createLiveChannelWithinCapacity, Transaction
  <2>4. Size(q) = 3 + OwnerSteps(q, 2) BY <1>32 DEF Size, Short, Double
  <2>5. CASE q.owner = None BY <2>1, <2>2, <2>4, <2>5 DEF OwnerSteps
  <2>6. CASE q.owner # None BY <2>1, <2>3, <2>4, <2>6 DEF OwnerSteps
  <2> QED BY <2>5, <2>6
<1> QED
  BY <1>1, <1>2, <1>3, <1>4, <1>5, <1>6, <1>7, <1>8, <1>9, <1>10, <1>11, <1>12, <1>13, <1>14,
     <1>15, <1>16, <1>17, <1>18, <1>19, <1>20, <1>21, <1>22, <1>23, <1>24, <1>25, <1>26,
          <1>27, <1>28, <1>29, <1>30, <1>31, <1>32 DEF Operations

\* What the statement of any request establishes.
LEMMA WorkExecutes ==
  ASSUME DbOK, NEW c \in Clients, NEW q, Request(c, q), NEW n \in Nat,
         n < Len(Script(q).statements), Runs(c, Script(q).statements[n + 1]),
         Work(q, n), n = 0 => \A l \in locks : l[1] # c
  PROVE  Work(q, n + 1)'
BY ProviderExecutes, SessionExecutes, ChannelExecutes, UserExecutes, NodeExecutes,
   BindingExecutes, DocumentExecutes DEF Work

-----------------------------------------------------------------------------
(*****************************************************************************)
(* The theorems.                                                             *)
(*****************************************************************************)

\* A request names a row of its table and the revision of that row.
LEMMA Asked ==
  ASSUME NEW c, NEW rows, NEW bound, NEW ops, NEW q \in Table(c, rows, bound, ops)
  PROVE  \E op \in ops, id \in DOMAIN rows : q = Ask(c, op, id, rows[id])
BY DEF Table

\* A request that carries a flag was made from one that does not.
LEMMA AskedWithFlag ==
  ASSUME NEW c, NEW rows, NEW bound, NEW ops, NEW q \in WithFlag(Table(c, rows, bound, ops))
  PROVE  \E op \in ops, id \in DOMAIN rows, f \in BOOLEAN :
           q = [Ask(c, op, id, rows[id]) EXCEPT !.flag = f]
BY Asked DEF WithFlag

\* What a request has in common with the one it was made from.
Asks(c, q, ops, rows) ==
  /\ q.by = c /\ q.op \in ops /\ q.id \in DOMAIN rows
  /\ q.rev = rows[q.id].rev /\ q.flag \in BOOLEAN /\ q.owner = None

\* Requests about the rows of a table name one of its rows and its revision.
LEMMA AsksTable ==
  ASSUME NEW c, NEW rows, NEW bound, NEW ops,
         NEW q \in Table(c, rows, bound, ops) \cup WithFlag(Table(c, rows, bound, ops))
  PROVE  Asks(c, q, ops, rows)
<1>1. CASE q \in Table(c, rows, bound, ops)
  <2>1. PICK op \in ops, id \in DOMAIN rows : q = Ask(c, op, id, rows[id]) BY <1>1, Asked
  <2> QED BY <2>1 DEF Ask, Asks
<1>2. CASE q \in WithFlag(Table(c, rows, bound, ops))
  <2>1. PICK op \in ops, id \in DOMAIN rows, f \in BOOLEAN :
          q = [Ask(c, op, id, rows[id]) EXCEPT !.flag = f]
    BY <1>2, AskedWithFlag
  <2> QED BY <2>1 DEF Ask, Asks
<1> QED BY <1>1, <1>2

\* A request that is sent names existing tables, and has done nothing yet.
LEMMA RequestsFit ==
  ASSUME DbOK, NEW c \in Clients, NEW q \in Requests(c, Operations),
         q.rev \in Revisions \cup {None}, \A l \in locks : l[1] # c
  PROVE  Request(c, q) /\ Work(q, 0)
<1> DEFINE T(rows, bound, ops) == Table(c, rows, bound, Operations \cap ops)
           sessions == T(db.sessions, MaxRevision, {"createSessionWithPlaybackGrant"})
           viewing == {Watching(r, o, t) :
                         r \in sessions, o \in Users \cup {None}, t \in Providers \cup Channels}
           channels == T(db.channels, MaxRevision, {"createLiveChannelWithinCapacity"})
           publishing == {OwnedBy(r, o) : r \in channels, o \in Users \cup {None}}
           reads == T(db.nodes, MaxRevision, {"recordNodeHeartbeat"})
                      \cup WithFlag(T(db.nodes, MaxRevision, {"setNodeDrain"}))
           seen == {Seen(r) : r \in reads}
           binders == T(db.bindings, MaxRevision, {"createProviderBinding"})
           old == {p \in Providers : db.providers[p].rev < MaxRevision}
           binding == {Binding(r, p, n) :
                         r \in binders, p \in old, n \in Nodes}
<1> DEFINE A1 == T(db.providers, MaxRevision, {"createProvider", "compareAndSetProvider",
                                               "beginProviderDeletion",
                                                 "finalizeProviderDeletion"})
           A3 == WithFlag(T(db.sessions, MaxRevision, {"compareAndSetSession",
                                                       "beginSessionDeletion"}))
           A4 == T(db.sessions, MaxRevision, {"touchSessionPlaybackActivity",
                                              "deleteSessionAndRevokePlaybackGrants"})
           A6 == WithFlag(T(db.channels, MaxRevision, {"compareAndSetLiveChannel"}))
           A7 == T(db.channels, MaxRevision, {"deleteLiveChannel"})
           A8 == T(db.users, MaxUserRevision, {"createUserIdentity",
                                               "compareAndSetUserIdentity"})
           A9 == WithFlag(T(db.users, MaxUserRevision,
             {"compareAndSetUserIdentityPreservingOwner", "deleteUserIdentityPreservingOwner"}))
           A10 == T(db.nodes, MaxRevision, {"createNode", "ensureLocalNode", "removeNode",
                                            "rotateNodeCertificate", "revokeNode",
                                              "setNodeOperationalState"})
           A13 == T(db.bindings, MaxRevision, {"compareAndSetProviderBinding",
                                               "beginProviderBindingDeletion",
                                                 "finalizeProviderBindingDeletion"})
           A14 == T(db.documents, MaxRevision, {"insertIfAbsent", "put",
                                                "compareAndSetVersioned", "delete"})
<1>1. /\ DOMAIN db.providers = Providers /\ DOMAIN db.sessions = Sessions
      /\ DOMAIN db.channels = Channels /\ DOMAIN db.users = Users /\ DOMAIN db.nodes = Nodes
      /\ DOMAIN db.bindings = Bindings /\ DOMAIN db.documents = Documents
  BY DEF DbOK
<1>2. /\ \A p \in Providers : db.providers[p].rev \in Int
      /\ \A s \in Sessions : db.sessions[s].rev \in Int
      /\ \A h \in Channels : db.channels[h].rev \in Int
      /\ \A u \in Users : db.users[u].rev \in Int
      /\ \A n \in Nodes : db.nodes[n].rev \in Int
      /\ \A b \in Bindings : db.bindings[b].rev \in Int
      /\ \A k \in Documents : db.documents[k].rev \in Int
  BY DEF DbOK, ProviderRow, SessionRow, ChannelRow, UserRow, NodeRow, BindingRow, DocumentRow
<1>3. ASSUME q.by = c, q.op \notin FromRead
      PROVE  Work(q, 0)
  <2>1. ProviderWork(q, 0) BY DEF ProviderWork
  <2>2. SessionWork(q, 0) BY DEF SessionWork, OwnerSteps
  <2>3. ChannelWork(q, 0) BY DEF ChannelWork, OwnerSteps
  <2>4. UserWork(q, 0) BY DEF UserWork
  <2>5. NodeWork(q, 0) BY <1>3 DEF NodeWork
  <2>6. BindingWork(q, 0) BY <1>3 DEF BindingWork
  <2>7. DocumentWork(q, 0) BY DEF DocumentWork
  <2> QED BY <2>1, <2>2, <2>3, <2>4, <2>5, <2>6, <2>7 DEF Work
<1>4. ASSUME Asks(c, q, Operations \cap ProviderOps, db.providers)
      PROVE  Request(c, q) /\ Work(q, 0)
  <2>1. Request(c, q)
    BY <1>1, <1>2, <1>4, TablesAssumption
       DEF Asks, Request, ProviderOps, SessionOps, ChannelOps,
       UserOps, NodeOps, BindingOps, DocumentOps
  <2> QED BY <1>3, <1>4, <2>1 DEF Asks, ProviderOps, FromRead
<1>5. ASSUME Asks(c, q, Operations \cap (SessionOps \ {"createSessionWithPlaybackGrant"}),
      db.sessions)
      PROVE  Request(c, q) /\ Work(q, 0)
  <2>1. Request(c, q)
    BY <1>1, <1>2, <1>5, TablesAssumption
       DEF Asks, Request, ProviderOps, SessionOps, ChannelOps,
       UserOps, NodeOps, BindingOps, DocumentOps
  <2> QED BY <1>3, <1>5, <2>1 DEF Asks, SessionOps, FromRead
<1>6. ASSUME Asks(c, q, Operations \cap ChannelOps, db.channels)
      PROVE  Request(c, q) /\ Work(q, 0)
  <2>1. Request(c, q)
    BY <1>1, <1>2, <1>6, TablesAssumption
       DEF Asks, Request, ProviderOps, SessionOps, ChannelOps,
       UserOps, NodeOps, BindingOps, DocumentOps
  <2> QED BY <1>3, <1>6, <2>1 DEF Asks, ChannelOps, FromRead
<1>7. ASSUME Asks(c, q, Operations \cap UserOps, db.users)
      PROVE  Request(c, q) /\ Work(q, 0)
  <2>1. Request(c, q)
    BY <1>1, <1>2, <1>7, TablesAssumption
       DEF Asks, Request, ProviderOps, SessionOps, ChannelOps,
       UserOps, NodeOps, BindingOps, DocumentOps
  <2> QED BY <1>3, <1>7, <2>1 DEF Asks, UserOps, FromRead
<1>8. ASSUME Asks(c, q, Operations \cap (NodeOps \ FromRead), db.nodes)
      PROVE  Request(c, q) /\ Work(q, 0)
  <2>1. Request(c, q)
    BY <1>1, <1>2, <1>8, TablesAssumption
       DEF Asks, Request, ProviderOps, SessionOps, ChannelOps,
       UserOps, NodeOps, BindingOps, DocumentOps
  <2> QED BY <1>3, <1>8, <2>1 DEF Asks, NodeOps, FromRead
<1>9. ASSUME Asks(c, q, Operations \cap (BindingOps \ {"createProviderBinding"}), db.bindings)
      PROVE  Request(c, q) /\ Work(q, 0)
  <2>1. Request(c, q)
    BY <1>1, <1>2, <1>9, TablesAssumption
       DEF Asks, Request, ProviderOps, SessionOps, ChannelOps,
       UserOps, NodeOps, BindingOps, DocumentOps
  <2> QED BY <1>3, <1>9, <2>1 DEF Asks, BindingOps, FromRead
<1>10. ASSUME Asks(c, q, Operations \cap DocumentOps, db.documents)
      PROVE  Request(c, q) /\ Work(q, 0)
  <2>1. Request(c, q)
    BY <1>1, <1>2, <1>10, TablesAssumption
       DEF Asks, Request, ProviderOps, SessionOps, ChannelOps,
       UserOps, NodeOps, BindingOps, DocumentOps
  <2> QED BY <1>3, <1>10, <2>1 DEF Asks, DocumentOps, FromRead
<1>11. CASE q \in A1
  <2> DEFINE ops == Operations \cap {"createProvider", "compareAndSetProvider",
                                     "beginProviderDeletion", "finalizeProviderDeletion"}
  <2>1. Asks(c, q, ops, db.providers) BY <1>11, AsksTable
  <2>2. ops \subseteq Operations \cap ProviderOps BY DEF ProviderOps
  <2> QED BY <1>4, <2>1, <2>2 DEF Asks
<1>12. CASE q \in A3
  <2> DEFINE ops == Operations \cap {"compareAndSetSession", "beginSessionDeletion"}
  <2>1. Asks(c, q, ops, db.sessions) BY <1>12, AsksTable
  <2>2. ops \subseteq Operations \cap (SessionOps \ {"createSessionWithPlaybackGrant"})
    BY DEF SessionOps
  <2> QED BY <1>5, <2>1, <2>2 DEF Asks
<1>13. CASE q \in A4
  <2> DEFINE ops == Operations \cap {"touchSessionPlaybackActivity",
                                     "deleteSessionAndRevokePlaybackGrants"}
  <2>1. Asks(c, q, ops, db.sessions) BY <1>13, AsksTable
  <2>2. ops \subseteq Operations \cap (SessionOps \ {"createSessionWithPlaybackGrant"})
    BY DEF SessionOps
  <2> QED BY <1>5, <2>1, <2>2 DEF Asks
<1>14. CASE q \in A6
  <2> DEFINE ops == Operations \cap {"compareAndSetLiveChannel"}
  <2>1. Asks(c, q, ops, db.channels) BY <1>14, AsksTable
  <2>2. ops \subseteq Operations \cap ChannelOps BY DEF ChannelOps
  <2> QED BY <1>6, <2>1, <2>2 DEF Asks
<1>15. CASE q \in A7
  <2> DEFINE ops == Operations \cap {"deleteLiveChannel"}
  <2>1. Asks(c, q, ops, db.channels) BY <1>15, AsksTable
  <2>2. ops \subseteq Operations \cap ChannelOps BY DEF ChannelOps
  <2> QED BY <1>6, <2>1, <2>2 DEF Asks
<1>16. CASE q \in A8
  <2> DEFINE ops == Operations \cap {"createUserIdentity", "compareAndSetUserIdentity"}
  <2>1. Asks(c, q, ops, db.users) BY <1>16, AsksTable
  <2>2. ops \subseteq Operations \cap UserOps BY DEF UserOps
  <2> QED BY <1>7, <2>1, <2>2 DEF Asks
<1>17. CASE q \in A9
  <2> DEFINE ops == Operations \cap {"compareAndSetUserIdentityPreservingOwner",
                                     "deleteUserIdentityPreservingOwner"}
  <2>1. Asks(c, q, ops, db.users) BY <1>17, AsksTable
  <2>2. ops \subseteq Operations \cap UserOps BY DEF UserOps
  <2> QED BY <1>7, <2>1, <2>2 DEF Asks
<1>18. CASE q \in A10
  <2> DEFINE ops == Operations \cap {"createNode", "ensureLocalNode", "removeNode",
                                     "rotateNodeCertificate", "revokeNode", "setNodeOperationalState"}
  <2>1. Asks(c, q, ops, db.nodes) BY <1>18, AsksTable
  <2>2. ops \subseteq Operations \cap (NodeOps \ FromRead) BY DEF NodeOps, FromRead
  <2> QED BY <1>8, <2>1, <2>2 DEF Asks
<1>19. CASE q \in A13
  <2> DEFINE ops == Operations \cap {"compareAndSetProviderBinding",
                                     "beginProviderBindingDeletion", "finalizeProviderBindingDeletion"}
  <2>1. Asks(c, q, ops, db.bindings) BY <1>19, AsksTable
  <2>2. ops \subseteq Operations \cap (BindingOps \ {"createProviderBinding"}) BY DEF BindingOps
  <2> QED BY <1>9, <2>1, <2>2 DEF Asks
<1>20. CASE q \in A14
  <2> DEFINE ops == Operations \cap {"insertIfAbsent", "put", "compareAndSetVersioned",
                                     "delete"}
  <2>1. Asks(c, q, ops, db.documents) BY <1>20, AsksTable
  <2>2. ops \subseteq Operations \cap DocumentOps BY DEF DocumentOps
  <2> QED BY <1>10, <2>1, <2>2 DEF Asks
<1>21. CASE q \in viewing
  <2> HIDE DEF sessions
  <2>1. PICK r \in sessions, o \in Users \cup {None}, t \in Providers \cup Channels :
          q = Watching(r, o, t)
    BY <1>21
  <2>2. PICK op \in Operations \cap {"createSessionWithPlaybackGrant"}, id \in Sessions :
          r = Ask(c, op, id, db.sessions[id])
    BY <1>1, Asked DEF sessions
  <2>3. /\ q.by = c /\ q.op = "createSessionWithPlaybackGrant" /\ q.id \in Sessions
        /\ q.flag \in BOOLEAN /\ q.owner \in Users \cup {None} /\ q.rev \in Int
        /\ q.target \in Providers \cup Channels
    BY <1>2, <2>1, <2>2 DEF Ask, Watching
  <2>4. Request(c, q)
    BY <2>3, TablesAssumption
       DEF Request, ProviderOps, SessionOps, ChannelOps, UserOps, NodeOps,
       BindingOps, DocumentOps, Operations
  <2> QED BY <1>3, <2>3, <2>4 DEF FromRead
<1>22. CASE q \in publishing
  <2>1. PICK r \in channels, o \in Users \cup {None} : q = OwnedBy(r, o)
    BY <1>22
  <2>2. PICK op \in Operations \cap {"createLiveChannelWithinCapacity"}, id \in Channels :
          r = Ask(c, op, id, db.channels[id])
    BY <1>1, Asked
  <2>3. /\ q.by = c /\ q.op = "createLiveChannelWithinCapacity" /\ q.id \in Channels
        /\ q.flag \in BOOLEAN /\ q.owner \in Users \cup {None} /\ q.rev \in Int
    BY <1>2, <2>1, <2>2 DEF Ask, OwnedBy
  <2>4. Request(c, q)
    BY <2>3, TablesAssumption
       DEF Request, ProviderOps, SessionOps, ChannelOps, UserOps, NodeOps,
       BindingOps, DocumentOps, Operations
  <2> QED BY <1>3, <2>3, <2>4 DEF FromRead
<1>23. CASE q \in seen
  <2>1. PICK r \in reads : q = Seen(r) BY <1>23
  <2>2. Asks(c, r, FromRead, db.nodes) /\ DOMAIN r = DOMAIN Ask(c, r.op, r.id, db.nodes[r.id])
    <3>1. CASE r \in T(db.nodes, MaxRevision, {"recordNodeHeartbeat"})
      <4>1. PICK op \in Operations \cap {"recordNodeHeartbeat"}, id \in Nodes :
              r = Ask(c, op, id, db.nodes[id])
        BY <1>1, <3>1, Asked
      <4> QED BY <1>1, <4>1 DEF Ask, Asks, FromRead
    <3>2. CASE r \in WithFlag(T(db.nodes, MaxRevision, {"setNodeDrain"}))
      <4>1. PICK op \in Operations \cap {"setNodeDrain"}, id \in Nodes, f \in BOOLEAN :
              r = [Ask(c, op, id, db.nodes[id]) EXCEPT !.flag = f]
        BY <1>1, <3>2, AskedWithFlag
      <4> QED BY <1>1, <4>1 DEF Ask, Asks, FromRead
    <3> QED BY <3>1, <3>2
  <2>3. /\ q.by = c /\ q.op \in FromRead /\ q.id \in Nodes /\ q.flag \in BOOLEAN
        /\ q.owner = None /\ q.rev = db.nodes[q.id].rev /\ q.seen = db.nodes[q.id].state
    BY <1>1, <2>1, <2>2 DEF Ask, Asks, Seen
  <2>4. Request(c, q)
    BY <1>2, <2>3, TablesAssumption DEF Request, ProviderOps, SessionOps, ChannelOps, UserOps,
       NodeOps, BindingOps, DocumentOps, Operations, FromRead
  <2>5. SeenIsCurrent(q) BY <1>2, <2>3 DEF SeenIsCurrent
  <2>6. ProviderWork(q, 0) BY DEF ProviderWork
  <2>7. SessionWork(q, 0) BY DEF SessionWork, OwnerSteps
  <2>8. ChannelWork(q, 0) BY DEF ChannelWork, OwnerSteps
  <2>9. UserWork(q, 0) BY DEF UserWork
  <2>10. NodeWork(q, 0) BY <2>5 DEF NodeWork
  <2>11. BindingWork(q, 0) BY <2>3 DEF BindingWork
  <2>12. DocumentWork(q, 0) BY DEF DocumentWork
  <2> QED BY <2>4, <2>6, <2>7, <2>8, <2>9, <2>10, <2>11, <2>12 DEF Work
<1>24. CASE q \in binding
  <2> HIDE DEF binders, old
  <2>1. PICK r \in binders, p \in old, n \in Nodes :
          q = Binding(r, p, n)
    BY <1>24
  <2>2. PICK op \in Operations \cap {"createProviderBinding"}, id \in Bindings :
          r = Ask(c, op, id, db.bindings[id])
    BY <1>1, Asked DEF binders
  <2>3. /\ q.by = c /\ q.op = "createProviderBinding" /\ q.id \in Bindings
        /\ q.flag \in BOOLEAN /\ q.owner = None
        /\ q.provider \in Providers /\ q.node \in Nodes
    BY <2>1, <2>2 DEF Ask, old, Binding
  <2>4. Request(c, q)
    BY <2>3 DEF Request, ProviderOps, SessionOps, ChannelOps, UserOps, NodeOps,
       BindingOps, DocumentOps, Operations
  <2> QED BY <1>3, <2>3, <2>4 DEF FromRead
<1>25. Requests(c, Operations) =
         A1 \cup viewing \cup A3 \cup A4 \cup publishing \cup A6 \cup A7 \cup A8
           \cup A9 \cup A10 \cup seen \cup binding \cup A13 \cup A14
  BY DEF Requests
<1> HIDE DEF A1, viewing, A3, A4, publishing, A6, A7, A8, A9, A10, seen, binding, A13, A14
<1>26. q \in A1 \/ q \in viewing \/ q \in A3 \/ q \in A4 \/ q \in publishing \/ q \in A6
        \/ q \in A7 \/ q \in A8 \/ q \in A9 \/ q \in A10 \/ q \in seen \/ q \in binding
        \/ q \in A13 \/ q \in A14
  BY <1>25
<1> QED
  BY <1>11, <1>12, <1>13, <1>14, <1>15, <1>16, <1>17, <1>18, <1>19, <1>20, <1>21, <1>22,
     <1>23, <1>24, <1>26

\* A statement takes shared or exclusive locks.
LEMMA ModesOf ==
  ASSUME NEW q, q.op \in Operations
  PROVE  \A i \in 1 .. Len(Script(q).statements) :
           Script(q).statements[i].mode \in {"shared", "exclusive"}
<1> USE DEF ForUpdate, ForShare, Read, Write, Insert, Advisory
<1>1. CASE q.op = "createProvider"
  <2>1. Script(q) = createProvider(q) BY <1>1 DEF Script
  <2> QED BY <2>1 DEF createProvider, Transaction
<1>2. CASE q.op = "compareAndSetProvider"
  <2>1. Script(q) = compareAndSetProvider(q) BY <1>2 DEF Script
  <2> QED BY <2>1 DEF compareAndSetProvider, Transaction
<1>3. CASE q.op = "touchSessionPlaybackActivity"
  <2>1. Script(q) = touchSessionPlaybackActivity(q) BY <1>3 DEF Script
  <2> QED BY <2>1 DEF touchSessionPlaybackActivity, Transaction
<1>4. CASE q.op = "compareAndSetLiveChannel"
  <2>1. Script(q) = compareAndSetLiveChannel(q) BY <1>4 DEF Script
  <2> QED BY <2>1 DEF compareAndSetLiveChannel, Transaction
<1>5. CASE q.op = "createUserIdentity"
  <2>1. Script(q) = createUserIdentity(q) BY <1>5 DEF Script
  <2> QED BY <2>1 DEF createUserIdentity, Transaction
<1>6. CASE q.op = "compareAndSetUserIdentity"
  <2>1. Script(q) = compareAndSetUserIdentity(q) BY <1>6 DEF Script
  <2> QED BY <2>1 DEF compareAndSetUserIdentity, Transaction
<1>7. CASE q.op = "createNode"
  <2>1. Script(q) = createNode(q) BY <1>7 DEF Script
  <2> QED BY <2>1 DEF createNode, Transaction
<1>8. CASE q.op = "compareAndSetProviderBinding"
  <2>1. Script(q) = compareAndSetProviderBinding(q) BY <1>8 DEF Script
  <2> QED BY <2>1 DEF compareAndSetProviderBinding, Transaction
<1>9. CASE q.op = "beginProviderBindingDeletion"
  <2>1. Script(q) = beginProviderBindingDeletion(q) BY <1>9 DEF Script
  <2> QED BY <2>1 DEF beginProviderBindingDeletion, Transaction
<1>10. CASE q.op = "finalizeProviderBindingDeletion"
  <2>1. Script(q) = finalizeProviderBindingDeletion(q) BY <1>10 DEF Script
  <2> QED BY <2>1 DEF finalizeProviderBindingDeletion, Transaction
<1>11. CASE q.op = "insertIfAbsent"
  <2>1. Script(q) = insertIfAbsent(q) BY <1>11 DEF Script
  <2> QED BY <2>1 DEF insertIfAbsent, Transaction
<1>12. CASE q.op = "put"
  <2>1. Script(q) = put(q) BY <1>12 DEF Script
  <2> QED BY <2>1 DEF put, Transaction
<1>13. CASE q.op = "compareAndSetVersioned"
  <2>1. Script(q) = compareAndSetVersioned(q) BY <1>13 DEF Script
  <2> QED BY <2>1 DEF compareAndSetVersioned, Transaction
<1>14. CASE q.op = "delete"
  <2>1. Script(q) = delete(q) BY <1>14 DEF Script
  <2> QED BY <2>1 DEF delete, Transaction
<1>15. CASE q.op = "beginProviderDeletion"
  <2>1. Script(q) = beginProviderDeletion(q) BY <1>15 DEF Script
  <2> QED BY <2>1 DEF beginProviderDeletion, Transaction
<1>16. CASE q.op = "finalizeProviderDeletion"
  <2>1. Script(q) = finalizeProviderDeletion(q) BY <1>16 DEF Script
  <2> QED BY <2>1 DEF finalizeProviderDeletion, Transaction
<1>17. CASE q.op = "compareAndSetSession"
  <2>1. Script(q) = compareAndSetSession(q) BY <1>17 DEF Script
  <2> QED BY <2>1 DEF compareAndSetSession, Transaction
<1>18. CASE q.op = "beginSessionDeletion"
  <2>1. Script(q) = beginSessionDeletion(q) BY <1>18 DEF Script
  <2> QED BY <2>1 DEF beginSessionDeletion, Transaction
<1>19. CASE q.op = "deleteSessionAndRevokePlaybackGrants"
  <2>1. Script(q) = deleteSessionAndRevokePlaybackGrants(q) BY <1>19 DEF Script
  <2> QED BY <2>1 DEF deleteSessionAndRevokePlaybackGrants, Transaction
<1>20. CASE q.op = "deleteLiveChannel"
  <2>1. Script(q) = deleteLiveChannel(q) BY <1>20 DEF Script
  <2> QED BY <2>1 DEF deleteLiveChannel, Transaction
<1>21. CASE q.op = "ensureLocalNode"
  <2>1. Script(q) = ensureLocalNode(q) BY <1>21 DEF Script
  <2> QED BY <2>1 DEF ensureLocalNode, Transaction
<1>22. CASE q.op = "recordNodeHeartbeat"
  <2>1. Script(q) = recordNodeHeartbeat(q) BY <1>22 DEF Script
  <2> QED BY <2>1 DEF recordNodeHeartbeat, Transaction
<1>23. CASE q.op = "setNodeDrain"
  <2>1. Script(q) = setNodeDrain(q) BY <1>23 DEF Script
  <2> QED BY <2>1 DEF setNodeDrain, Transaction
<1>24. CASE q.op = "setNodeOperationalState"
  <2>1. Script(q) = setNodeOperationalState(q) BY <1>24 DEF Script
  <2> QED BY <2>1 DEF setNodeOperationalState, Transaction
<1>25. CASE q.op = "removeNode"
  <2>1. Script(q) = removeNode(q) BY <1>25 DEF Script
  <2> QED BY <2>1 DEF removeNode, Transaction
<1>26. CASE q.op = "rotateNodeCertificate"
  <2>1. Script(q) = rotateNodeCertificate(q) BY <1>26 DEF Script
  <2> QED BY <2>1 DEF rotateNodeCertificate, Transaction
<1>27. CASE q.op = "compareAndSetUserIdentityPreservingOwner"
  <2>1. Script(q) = compareAndSetUserIdentityPreservingOwner(q) BY <1>27 DEF Script
  <2> QED BY <2>1 DEF compareAndSetUserIdentityPreservingOwner, Transaction
<1>28. CASE q.op = "revokeNode"
  <2>1. Script(q) = revokeNode(q) BY <1>28 DEF Script
  <2> QED BY <2>1 DEF revokeNode, Transaction
<1>29. CASE q.op = "deleteUserIdentityPreservingOwner"
  <2>1. Script(q) = deleteUserIdentityPreservingOwner(q) BY <1>29 DEF Script
  <2> QED BY <2>1 DEF deleteUserIdentityPreservingOwner, Transaction
<1>30. CASE q.op = "createProviderBinding"
  <2>1. Script(q) = createProviderBinding(q) BY <1>30 DEF Script
  <2> DEFINE st == createProviderBinding(q).statements
             a == ForUpdate(<<"bindings", q.id>>, TRUE)
             b1 == ForShare(<<"providers", q.provider>>, FALSE)
             b2 == ForShare(<<"nodes", q.node>>,
                            Live(db.nodes[q.node]) /\ db.nodes[q.node].state # "revoked")
             d == ForUpdate(<<"providers", q.provider>>, TRUE)
             e == ForUpdate(<<"bindings", q.id>>, ~Exists(<<"bindings", q.id>>))
             f1 == Insert(<<"providers", q.provider>>)
             f2 == Read(/\ Holds(q.by, <<"providers", q.provider>>)
                        /\ At(db.providers[q.provider], q.rev)
                        /\ ~db.providers[q.provider].pending)
             last == Insert(<<"bindings", q.id>>)
             held == Holds(q.by, <<"bindings", q.id>>)
  <2>2. st = <<a, IF held THEN b1 ELSE b2, d, e, IF q.rev = None THEN f1 ELSE f2, last>>
    BY BinderStatements
  <2>3. /\ a.mode = "exclusive" /\ b1.mode = "shared" /\ b2.mode = "shared"
        /\ d.mode = "exclusive" /\ e.mode = "exclusive" /\ f1.mode = "exclusive"
        /\ f2.mode = "shared" /\ last.mode = "exclusive"
    OBVIOUS
  <2> HIDE DEF st, a, b1, b2, d, e, f1, f2, last, held
  <2>4. /\ Len(st) = 6 /\ st[1] = a /\ st[2] \in {b1, b2} /\ st[3] = d /\ st[4] = e
        /\ st[5] \in {f1, f2} /\ st[6] = last
    BY <2>2
  <2>5. \A i \in 1 .. Len(st) : st[i].mode \in {"shared", "exclusive"} BY <2>3, <2>4
  <2> QED BY <2>1, <2>5 DEF st
<1>31. CASE q.op = "createSessionWithPlaybackGrant"
  <2> DEFINE st == createSessionWithPlaybackGrant(q).statements
             first == ForShare(<<"users", q.owner>>, Live(db.users[q.owner]))
             source == IF q.target \in Providers
                         THEN ForShare(<<"providers", q.target>>,
                                       Live(db.providers[q.target]) /\ ~db.providers[q.target].pending)
                         ELSE ForShare(<<"channels", q.target>>, At(db.channels[q.target], q.rev))
             last == Insert(<<"sessions", q.id>>)
  <2>1. Script(q) = createSessionWithPlaybackGrant(q) BY <1>31 DEF Script
  <2>2. st = (IF q.owner = None THEN <<>> ELSE <<first>>) \o <<source, last>>
    BY DEF createSessionWithPlaybackGrant, Transaction
  <2>3. first.mode = "shared" /\ source.mode = "shared" /\ last.mode = "exclusive" OBVIOUS
  <2> HIDE DEF st, first, source, last
  <2>4. CASE q.owner = None
    <3>1. st = <<source, last>> BY <2>2, <2>4
    <3>2. Len(st) = 2 /\ st[1] = source /\ st[2] = last BY <3>1
    <3>3. \A i \in 1 .. Len(st) : st[i].mode \in {"shared", "exclusive"} BY <2>3, <3>2
    <3> QED BY <2>1, <3>3 DEF st
  <2>5. CASE q.owner # None
    <3>1. st = <<first>> \o <<source, last>> BY <2>2, <2>5
    <3>2. Len(st) = 3 /\ st[1] = first /\ st[2] = source /\ st[3] = last BY <3>1
    <3>3. \A i \in 1 .. Len(st) : st[i].mode \in {"shared", "exclusive"} BY <2>3, <3>2
    <3> QED BY <2>1, <3>3 DEF st
  <2> QED BY <2>4, <2>5
<1>32. CASE q.op = "createLiveChannelWithinCapacity"
  <2> DEFINE st == createLiveChannelWithinCapacity(q).statements
             limit == Advisory("vrrelay:live-channels")
             total == Read(Cardinality(R!LiveChannels) < MaxTotal)
             first == ForShare(<<"users", q.owner>>, Live(db.users[q.owner]))
             own == Read(Cardinality(R!OwnedChannels(q.owner)) < MaxPerOwner)
             last == Insert(<<"channels", q.id>>)
  <2>1. Script(q) = createLiveChannelWithinCapacity(q) BY <1>32 DEF Script
  <2>2. st = (<<limit, total>> \o (IF q.owner = None THEN <<>> ELSE <<first, own>>)) \o <<last>>
    BY DEF createLiveChannelWithinCapacity, Transaction
  <2>3. /\ limit.mode = "exclusive" /\ total.mode = "shared" /\ first.mode = "shared"
        /\ own.mode = "shared" /\ last.mode = "exclusive"
    OBVIOUS
  <2> HIDE DEF st, limit, total, first, own, last
  <2>4. CASE q.owner = None
    <3>1. st = (<<limit, total>> \o <<>>) \o <<last>> BY <2>2, <2>4
    <3>2. Len(st) = 3 /\ st[1] = limit /\ st[2] = total /\ st[3] = last BY <3>1
    <3>3. \A i \in 1 .. Len(st) : st[i].mode \in {"shared", "exclusive"} BY <2>3, <3>2
    <3> QED BY <2>1, <3>3 DEF st
  <2>5. CASE q.owner # None
    <3>1. st = (<<limit, total>> \o <<first, own>>) \o <<last>> BY <2>2, <2>5
    <3>2. /\ Len(st) = 5 /\ st[1] = limit /\ st[2] = total /\ st[3] = first
          /\ st[4] = own /\ st[5] = last
      BY <3>1
    <3>3. \A i \in 1 .. Len(st) : st[i].mode \in {"shared", "exclusive"} BY <2>3, <3>2
    <3> QED BY <2>1, <3>3 DEF st
  <2> QED BY <2>4, <2>5
<1> QED
  BY <1>1, <1>2, <1>3, <1>4, <1>5, <1>6, <1>7, <1>8, <1>9, <1>10, <1>11, <1>12, <1>13, <1>14,
     <1>15, <1>16, <1>17, <1>18, <1>19, <1>20, <1>21, <1>22, <1>23, <1>24, <1>25, <1>26,
          <1>27, <1>28, <1>29, <1>30, <1>31, <1>32 DEF Operations

\* A connection that a step spares goes on with its transaction.
LEMMA SparedRelies ==
  ASSUME DbOK, NEW d \in Clients, Relies(d), tx[d].next \in Nat, tx[d].next > 0,
         Spared(d), tx'[d] = tx[d]
  PROVE  Relies(d)'
<1>1. PICK q : q = tx[d].req OBVIOUS
<1>2. PICK n \in Nat : n = tx[d].next - 1 OBVIOUS
<1>3. Request(d, q) /\ n \in 0 .. Len(Script(q).statements) /\ Work(q, n)
  BY <1>1, <1>2 DEF Relies
<1>4. Work(q, n)' BY <1>3, WorkStays
<1>5. Len(Script(q).statements)' = Len(Script(q).statements)
  BY <1>3, SizeOf DEF Request
<1>6. q = tx'[d].req /\ n = tx'[d].next - 1 BY <1>1, <1>2
<1> QED BY <1>3, <1>4, <1>5, <1>6 DEF Relies

\* The invariant holds when every connection is idle and the tables are empty.
LEMMA InitHolds == ASSUME Init PROVE IInv
<1>1. DbOK
  BY DEF Init, R!Init, DbOK, UserRow, ProviderRow, SessionRow, GrantStates, ChannelRow, NodeRow,
         BindingRow, DocumentRow, R!NoUser, R!NoProvider, R!NoSession, R!NoChannel, R!NoNode,
         R!NoBinding, R!NoDocument, R!NodeStates, R!BindingStates
<1>2. TxOK BY DEF Init, TxOK, Idle
<1>3. LocksAgree /\ LocksFollow BY DEF Init, LocksAgree, LocksFollow
<1>4. \A c \in Clients : ~Busy(c) BY DEF Init, Busy
<1> QED BY <1>1, <1>2, <1>3, <1>4 DEF IInv

\* A connection that waits for a request holds nothing.
LEMMA NothingHeld ==
  ASSUME IInv, NEW c \in Clients, tx[c].next <= 1
  PROVE  \A l \in locks : l[1] # c
BY DEF IInv, LocksFollow, TxOK

\* A connection that begins has done nothing, so it relies on nothing but its request.
LEMMA BeginHolds ==
  ASSUME IInv, NEW c \in Clients, NEW q \in Requests(c, Operations), Begin(c, q)
  PROVE  IInv'
<1> USE DEF IInv
<1>1. /\ tx' = [tx EXCEPT ![c] = [req |-> q, next |-> 1]] /\ db' = db /\ locks' = locks
      /\ q.rev \in Revisions \cup {None} /\ tx[c].next = 0
  BY DEF Begin, Busy, Idle
<1>2. \A l \in locks : l[1] # c BY <1>1, NothingHeld
<1>3. Request(c, q) /\ Work(q, 0) BY <1>1, <1>2, RequestsFit
<1>4. \A d : Spared(d) BY <1>1, QuietSpares
<1>5. TxOK' /\ tx'[c].req = q /\ tx'[c].next = 1 /\ \A d \in Clients \ {c} : tx'[d] = tx[d]
  BY <1>1 DEF TxOK, Idle
<1>6. DbOK' /\ LocksAgree' BY <1>1 DEF DbOK, LocksAgree
<1>7. LocksFollow' BY <1>1, <1>2, <1>5 DEF LocksFollow
<1>8. Relies(c)'
  <2>1. Work(q, 0)' BY <1>3, <1>4, WorkStays
  <2>2. 0 \in 0 .. Len(Script(q).statements)' BY <1>3, SizeOf DEF Request
  <2> QED BY <1>3, <1>5, <2>1, <2>2 DEF Relies
<1>9. ASSUME NEW d \in Clients, d # c, Busy(d)' PROVE tx'[d].next > 0 /\ Relies(d)'
  <2>1. Busy(d) BY <1>5, <1>9 DEF Busy, Idle
  <2>2. tx[d].next \in Nat BY DEF TxOK
  <2> QED BY <1>4, <1>5, <1>9, <2>1, <2>2, SparedRelies
<1> QED BY <1>5, <1>6, <1>7, <1>8, <1>9

\* The end of a transaction, committed or not, that spares the others.
LEMMA ReleaseHolds ==
  ASSUME IInv, NEW c \in Clients, Release(c), DbOK',
         \A d \in Clients \ {c} : Spared(d)
  PROVE  IInv'
<1> USE DEF IInv
<1>1. tx' = [tx EXCEPT ![c] = Idle] /\ locks' = {l \in locks : l[1] # c}
  BY DEF Release
<1>2. /\ TxOK' /\ tx'[c] = Idle /\ \A d \in Clients \ {c} : tx'[d] = tx[d]
  BY <1>1 DEF TxOK, Idle
<1>3. LocksAgree' BY <1>1 DEF LocksAgree
<1>4. LocksFollow' BY <1>1, <1>2 DEF LocksFollow
<1>5. ASSUME NEW d \in Clients, Busy(d)' PROVE tx'[d].next > 0 /\ Relies(d)'
  <2>1. d # c BY <1>2, <1>5 DEF Busy, Idle
  <2>2. Busy(d) BY <1>2, <1>5, <2>1 DEF Busy, Idle
  <2>3. tx[d].next \in Nat BY DEF TxOK
  <2> QED BY <1>2, <1>5, <2>1, <2>2, <2>3, SparedRelies
<1> QED BY <1>2, <1>3, <1>4, <1>5

\* The locks of the other connections stay when one releases its own.
LEMMA ReleaseLocks ==
  ASSUME NEW c, NEW d, d # c, Release(c)
  PROVE  \A l \in locks \cup locks' : l[1] = d => l \in locks /\ l \in locks'
BY DEF Release

\* A transaction that has run all its statements ends.
LEMMA CommitEnds ==
  ASSUME IInv, NEW c \in Clients, Commit(c)
  PROVE  Ends(c, tx[c].req) /\ Release(c)
<1> USE DEF IInv
<1>1. PICK q : q = tx[c].req OBVIOUS
<1>2. PICK n : n = tx[c].next - 1 OBVIOUS
<1>3. Busy(c) /\ ~MoreStatements(c) /\ db' = Script(q).commit /\ Release(c)
  BY <1>1 DEF Commit, Running
<1>4. /\ tx[c].next \in Nat /\ tx[c].next > 0 /\ Request(c, q) /\ Work(q, n)
      /\ n \in 0 .. Len(Script(q).statements)
  BY <1>1, <1>2, <1>3 DEF Relies, TxOK
<1>5. n = Len(Script(q).statements)
  <2>1. Len(Script(q).statements) \in Nat BY <1>4, SizeOf DEF Request
  <2> QED BY <1>1, <1>2, <1>3, <1>4, <2>1 DEF MoreStatements, Running
<1> QED BY <1>1, <1>3, <1>4, <1>5 DEF Ends

\* A commit keeps the invariant and is one operation of the repository.
LEMMA CommitHolds ==
  ASSUME IInv, NEW c \in Clients, Commit(c)
  PROVE  IInv' /\ R!Next
<1> USE DEF IInv
<1>1. Ends(c, tx[c].req) /\ Release(c) BY CommitEnds
<1>2. Right(c) BY <1>1, CommitRight
<1>3. DbOK' BY <1>2, RowsTyped DEF Right
<1>4. \A d \in Clients \ {c} : Spared(d)
  BY <1>1, <1>2, <1>3, CommitSpares, ReleaseLocks DEF Right
<1>5. IInv' BY <1>1, <1>3, <1>4, ReleaseHolds
<1> QED BY <1>2, <1>5 DEF Right

\* Refused, failed and aborted transactions change nothing.
LEMMA RollbackHolds ==
  ASSUME IInv, NEW c \in Clients, Release(c), db' = db
  PROVE  IInv'
<1>1. DbOK' BY DEF IInv, DbOK
<1>2. \A d \in Clients \ {c} : Spared(d) BY QuietSpares, ReleaseLocks
<1> QED BY <1>1, <1>2, ReleaseHolds

\* A statement waits for the locks that exclude its own.
LEMMA ExecuteLocks ==
  ASSUME LocksAgree, LocksFollow, NEW c \in Clients, NEW statement, Runs(c, statement),
         statement.mode \in {"shared", "exclusive"}
  PROVE  LocksAgree'
<1> DEFINE new == {<<c, row, statement.mode>> : row \in statement.rows}
<1>1. locks' = locks \cup new BY DEF Runs
<1>2. ASSUME NEW m \in locks, NEW row \in statement.rows, m[2] = row, m[1] # c
      PROVE  m[3] = "shared" /\ statement.mode = "shared"
  <2>1. m[1] \notin Blockers(c, statement) BY DEF Runs
  <2>2. ~("exclusive" \in {m[3], statement.mode}) BY <1>2, <2>1 DEF Blockers
  <2> QED BY <2>2 DEF LocksFollow
<1>3. ASSUME NEW l \in new, NEW m \in locks, l[2] = m[2], l[1] # m[1]
      PROVE  l[3] = "shared" /\ m[3] = "shared"
  <2>1. PICK row \in statement.rows : l = <<c, row, statement.mode>> OBVIOUS
  <2> QED BY <1>2, <1>3, <2>1
<1>4. \A l, m \in new : l[1] = m[1] OBVIOUS
<1>5. \A l, m \in locks : l[2] = m[2] /\ l[1] # m[1] => l[3] = "shared" /\ m[3] = "shared"
  BY DEF LocksAgree
<1>6. ASSUME NEW l \in locks', NEW m \in locks', l[2] = m[2], l[1] # m[1]
      PROVE  l[3] = "shared" /\ m[3] = "shared"
  <2>1. CASE l \in locks /\ m \in locks BY <1>5, <1>6, <2>1
  <2>2. CASE l \in new /\ m \in locks BY <1>3, <1>6, <2>2
  <2>3. CASE l \in locks /\ m \in new BY <1>3, <1>6, <2>3
  <2>4. CASE l \in new /\ m \in new BY <1>4, <1>6, <2>4
  <2> QED BY <1>1, <2>1, <2>2, <2>3, <2>4
<1> QED BY <1>6 DEF LocksAgree

\* A statement keeps the invariant and changes no row.
LEMMA ExecuteHolds ==
  ASSUME IInv, NEW c \in Clients, Execute(c)
  PROVE  IInv'
<1> USE DEF IInv
<1>1. PICK q : q = tx[c].req OBVIOUS
<1>2. PICK n : n = tx[c].next - 1 OBVIOUS
<1>3. Busy(c) /\ MoreStatements(c) /\ tx[c].next <= Len(Script(q).statements)
  BY <1>1 DEF Execute, MoreStatements, Running
<1>4. /\ tx[c].next \in Nat /\ tx[c].next > 0 /\ Request(c, q) /\ Work(q, n)
      /\ n \in Nat
  BY <1>1, <1>2, <1>3 DEF Relies, TxOK
<1> DEFINE statement == Script(q).statements[n + 1]
<1>5. Runs(c, statement)
  BY <1>1, <1>2, <1>4 DEF Execute, Statement, Running, Runs
<1>6. Len(Script(q).statements) \in Nat
      /\ Len(Script(q).statements)' = Len(Script(q).statements)
  BY <1>4, SizeOf DEF Request
<1>7. n < Len(Script(q).statements) /\ n + 1 \in 1 .. Len(Script(q).statements)
  BY <1>2, <1>3, <1>4, <1>6
<1>8. statement.mode \in {"shared", "exclusive"} BY <1>4, <1>7, ModesOf DEF Request
<1>9. n = 0 => \A l \in locks : l[1] # c BY <1>2, <1>4, NothingHeld
<1>10. Work(q, n + 1)' BY <1>4, <1>5, <1>7, <1>9, WorkExecutes
<1>11. tx' = [tx EXCEPT ![c].next = @ + 1] /\ db' = db BY DEF Execute
<1>12. /\ TxOK' /\ tx'[c].req = q /\ tx'[c].next = n + 2
       /\ \A d \in Clients \ {c} : tx'[d] = tx[d]
  <2>1. tx'[c] = [req |-> tx[c].req, next |-> tx[c].next + 1] BY <1>11 DEF TxOK
  <2>2. \A d \in Clients \ {c} : tx'[d] = tx[d] BY <1>11 DEF TxOK
  <2>3. tx' = [d \in Clients |-> [req |-> tx'[d].req, next |-> tx'[d].next]]
    BY <1>11, <2>1, <2>2 DEF TxOK
  <2>4. \A d \in Clients : tx'[d].next \in Nat /\ (tx'[d].next = 0 => tx'[d] = Idle)
    BY <2>1, <2>2, <1>4 DEF TxOK
  <2> QED BY <1>1, <1>2, <1>4, <2>1, <2>2, <2>3, <2>4 DEF TxOK
<1>13. DbOK' BY <1>11 DEF DbOK
<1>14. LocksAgree' BY <1>5, <1>8, ExecuteLocks
<1> HIDE DEF statement
<1>15. LocksFollow'
  <2>1. locks' = locks \cup {<<c, row, statement.mode>> : row \in statement.rows}
    BY <1>5 DEF Runs
  <2>2. tx'[c].next > 1 BY <1>4, <1>12
  <2>3. ASSUME NEW l \in locks'
        PROVE l[1] \in Clients /\ l[3] \in {"shared", "exclusive"} /\ tx'[l[1]].next > 1
    <3>1. CASE l \in locks
      <4>1. l[1] \in Clients /\ l[3] \in {"shared", "exclusive"} /\ tx[l[1]].next > 1
        BY <3>1 DEF LocksFollow
      <4> QED BY <1>12, <2>2, <4>1
    <3>2. CASE l \notin locks
      <4>1. PICK row \in statement.rows : l = <<c, row, statement.mode>> BY <2>1, <2>3, <3>2
      <4> QED BY <1>8, <2>2, <4>1
    <3> QED BY <3>1, <3>2
  <2> QED BY <2>3 DEF LocksFollow
<1>16. Relies(c)'
  <2>1. n + 1 \in 0 .. Len(Script(q).statements)' BY <1>4, <1>6, <1>7
  <2>2. n + 1 = tx'[c].next - 1 BY <1>4, <1>12
  <2> QED BY <1>4, <1>10, <1>12, <2>1, <2>2 DEF Relies
<1>17. ASSUME NEW d \in Clients, d # c, Busy(d)' PROVE tx'[d].next > 0 /\ Relies(d)'
  <2>1. Busy(d) BY <1>12, <1>17 DEF Busy, Idle
  <2>2. tx[d].next \in Nat BY DEF TxOK
  <2>3. \A l \in locks \cup locks' : l[1] = d => l \in locks /\ l \in locks'
    BY <1>5, <1>17 DEF Runs
  <2>4. Spared(d) BY <1>11, <2>3, QuietSpares
  <2> QED BY <1>12, <1>17, <2>1, <2>2, <2>4, SparedRelies
<1>18. tx'[c].next > 0 BY <1>4, <1>12
<1> QED BY <1>12, <1>13, <1>14, <1>15, <1>16, <1>17, <1>18

\* Time that passes keeps the invariant and is a step of the repository.
LEMMA AgeHolds ==
  ASSUME IInv, Age
  PROVE  IInv' /\ R!Next
<1> USE DEF IInv
<1>1. R!Next BY DEF Age, R!Next, R!SessionNext, R!UserNext
<1>2. DbOK' BY <1>1, RowsTyped
<1>3. tx' = tx /\ locks' = locks BY DEF Age
<1>4. \A d \in Clients : Spared(d) BY AgeSpares
<1>5. TxOK' /\ LocksAgree' /\ LocksFollow' BY <1>3 DEF TxOK, LocksAgree, LocksFollow
<1>6. ASSUME NEW d \in Clients, Busy(d)' PROVE tx'[d].next > 0 /\ Relies(d)'
  <2>1. Busy(d) BY <1>3, <1>6 DEF Busy, Idle
  <2>2. tx[d].next \in Nat BY DEF TxOK
  <2> QED BY <1>3, <1>4, <2>1, <2>2, SparedRelies
<1>7. IInv' BY <1>2, <1>5, <1>6
<1> QED BY <1>1, <1>7

\* Every step keeps the invariant, and is a step of the repository or changes
\* no row.
LEMMA NextHolds ==
  ASSUME IInv, [Next]_vars
  PROVE  IInv' /\ [R!Next]_db
<1>1. CASE UNCHANGED vars
  <2>1. db' = db /\ tx' = tx /\ locks' = locks BY <1>1 DEF vars
  <2>2. \A d : Spared(d) BY <2>1, QuietSpares
  <2>3. DbOK' /\ TxOK' /\ LocksAgree' /\ LocksFollow'
    BY <2>1 DEF IInv, DbOK, TxOK, LocksAgree, LocksFollow
  <2>4. ASSUME NEW d \in Clients, Busy(d)' PROVE tx'[d].next > 0 /\ Relies(d)'
    <3>1. Busy(d) /\ tx[d].next \in Nat BY <2>1, <2>4 DEF Busy, Idle, IInv, TxOK
    <3> QED BY <2>1, <2>2, <3>1, SparedRelies DEF IInv
  <2> QED BY <2>1, <2>3, <2>4 DEF IInv
<1>2. ASSUME NEW c \in Clients, NEW q \in Requests(c, Operations), Begin(c, q)
      PROVE  IInv' /\ [R!Next]_db
  BY <1>2, BeginHolds DEF Begin
<1>3. ASSUME NEW c \in Clients, Execute(c) PROVE IInv' /\ [R!Next]_db
  BY <1>3, ExecuteHolds DEF Execute
<1>4. ASSUME NEW c \in Clients, Refuse(c) \/ Fail(c) \/ BreakDeadlock(c)
      PROVE  IInv' /\ [R!Next]_db
  BY <1>4, RollbackHolds DEF Refuse, Fail, BreakDeadlock
<1>5. ASSUME NEW c \in Clients, Commit(c) PROVE IInv' /\ [R!Next]_db
  BY <1>5, CommitHolds
<1>6. CASE Age BY <1>6, AgeHolds
<1> QED BY <1>1, <1>2, <1>3, <1>4, <1>5, <1>6 DEF Next, Progress

\* Every commit of every connection is one operation of the repository, on the
\* rows as they are at that instant, whatever the other connections have
\* locked, read or rolled back (the transactions of postgres-repository.ts
\* against those of sqlite-repository.ts).
THEOREM Linearizes == Spec => Linearizable
<1>1. Init => R!Init BY DEF Init
<1>2. Init => IInv BY InitHolds
<1>3. IInv /\ [Next]_vars => IInv' /\ [R!Next]_db BY NextHolds
<1> QED BY <1>1, <1>2, <1>3, PTL DEF Spec, Linearizable, R!Spec

\* What a running transaction has read under a lock is still so.
THEOREM LocksProtect == Spec => []IInv
<1>1. Init => IInv BY InitHolds
<1>2. IInv /\ [Next]_vars => IInv' BY NextHolds
<1> QED BY <1>1, <1>2, PTL DEF Spec

-----------------------------------------------------------------------------
(* The rows agree with one another after every operation.                  *)

SessionsRefer ==
  \A s \in Sessions : LET row == db.sessions[s] IN R!Live(row) =>
    /\ row.owner # None => R!Live(db.users[row.owner])
    /\ row.target \in Providers \cup Channels
    /\ row.target \in Providers => R!Live(db.providers[row.target])
    /\ row.target \in Channels => R!Live(db.channels[row.target])

ChannelsRefer ==
  \A h \in Channels : LET row == db.channels[h] IN
    R!Live(row) /\ row.owner # None => R!Live(db.users[row.owner])

BindingsRefer ==
  \A b \in Bindings : LET row == db.bindings[b] IN R!Live(row) =>
    /\ row.provider \in Providers /\ R!Live(db.providers[row.provider])
    /\ row.node \in Nodes /\ R!Live(db.nodes[row.node])

\* A provider whose deletion has begun is still there, and nothing refers to it.
PendingUnused ==
  \A p \in Providers : db.providers[p].pending =>
    /\ R!Live(db.providers[p])
    /\ \A s \in Sessions : ~(R!Live(db.sessions[s]) /\ db.sessions[s].target = p)
    /\ \A b \in Bindings : ~(R!Live(db.bindings[b]) /\ db.bindings[b].provider = p)

RowsOK == /\ DbOK /\ SessionsRefer /\ ChannelsRefer /\ BindingsRefer /\ PendingUnused
          /\ R!GrantsFollowSession /\ R!WithinCapacity /\ R!OneActiveCertificate

\* The rows that the invariant describes agree with one another.
LEMMA RowsOKConsistent == RowsOK => RowsConsistent
<1> SUFFICES ASSUME RowsOK PROVE R!RowsConsistent BY DEF RowsConsistent
<1> USE DEF RowsOK
<1>1. R!NoDanglingReference
  BY TablesAssumption DEF R!NoDanglingReference, SessionsRefer, ChannelsRefer, BindingsRefer,
     R!LiveChannels
<1>2. R!PendingProviderUnused
  BY DEF R!PendingProviderUnused, PendingUnused, R!providerDependencies, R!ProviderSessions,
     R!ProviderBindings
<1> QED BY <1>1, <1>2 DEF R!RowsConsistent

\* Empty tables agree.
LEMMA RowsOKInit == R!Init => RowsOK
<1> SUFFICES ASSUME R!Init PROVE RowsOK OBVIOUS
<1>1. DbOK
  BY DEF R!Init, DbOK, R!NoUser, R!NoProvider, R!NoSession, R!NoChannel, R!NoNode, R!NoBinding,
     R!NoDocument, UserRow, ProviderRow, SessionRow, ChannelRow, NodeRow, BindingRow,
       DocumentRow,
     R!NodeStates, R!BindingStates, GrantStates
<1>2. SessionsRefer /\ ChannelsRefer /\ BindingsRefer /\ PendingUnused
  BY DEF R!Init, R!NoUser, R!NoProvider, R!NoSession, R!NoChannel, R!NoNode, R!NoBinding,
     SessionsRefer, ChannelsRefer, BindingsRefer, PendingUnused, R!Live
<1>3. R!GrantsFollowSession /\ R!OneActiveCertificate
  BY DEF R!Init, R!NoSession, R!NoNode, R!GrantsFollowSession, R!OneActiveCertificate, R!Live
<1>4. R!LiveChannels = {} /\ \A u \in Users : R!OwnedChannels(u) = {}
  BY DEF R!Init, R!NoChannel, R!LiveChannels, R!OwnedChannels, R!Live
<1>5. R!WithinCapacity
  BY <1>4, SameCount, FS_EmptySet, TablesAssumption DEF R!WithinCapacity
<1> QED BY <1>1, <1>2, <1>3, <1>5 DEF RowsOK

\* Operations that write no live channel keep within the limits.
LEMMA CapacityStays ==
  ASSUME R!WithinCapacity, R!LiveChannels' \subseteq R!LiveChannels,
         \A u \in Users : R!OwnedChannels(u)' \subseteq R!OwnedChannels(u)
  PROVE  R!WithinCapacity'
<1>1. IsFiniteSet(R!LiveChannels) /\ \A u \in Users : IsFiniteSet(R!OwnedChannels(u))
  BY FS_Subset, TablesAssumption DEF R!LiveChannels, R!OwnedChannels
<1>2. ASSUME NEW S, NEW T, IsFiniteSet(T), S \subseteq T
      PROVE  Cardinality(S) <= Cardinality(T) /\ Cardinality(S) \in Nat /\ Cardinality(T) \in Nat
  BY <1>2, FS_Subset, FS_CardinalityType
<1>3. Cardinality(R!LiveChannels') <= MaxTotal
  <2>1. Cardinality(R!LiveChannels) <= MaxTotal BY SameCount DEF R!WithinCapacity
  <2> QED BY <1>1, <1>2, <2>1, TablesAssumption
<1>4. ASSUME NEW u \in Users PROVE Cardinality(R!OwnedChannels(u)') <= MaxPerOwner
  <2>1. Cardinality(R!OwnedChannels(u)) <= MaxPerOwner BY SameCount DEF R!WithinCapacity
  <2>2. /\ IsFiniteSet(R!OwnedChannels(u))
        /\ R!OwnedChannels(u)' \subseteq R!OwnedChannels(u)
    BY <1>1
  <2> QED BY <1>2, <2>1, <2>2, TablesAssumption
<1> QED BY <1>3, <1>4, SameCount DEF R!WithinCapacity

\* Provider operations keep the rows in agreement: a provider is marked or removed
\* only while nothing refers to it (beginProviderDeletion, finalizeProviderDeletion).
LEMMA ProviderKeepsRows ==
  ASSUME RowsOK, NEW p \in Providers,
         \/ R!createProvider(p) \/ R!beginProviderDeletion(p)
         \/ \E e \in Revisions : R!compareAndSetProvider(p, e) \/ R!finalizeProviderDeletion(p, e)
  PROVE  RowsOK'
<1> DEFINE old == db.providers[p] new == db'.providers[p]
<1> USE DEF RowsOK
<1>1. PutsProvider(p) BY ProviderPuts
<1>2. /\ old \in ProviderRow /\ old.rev \in Nat
      /\ R!Revised(old).rev = old.rev + 1 /\ R!Revised(old).pending = old.pending
  BY DEF DbOK, ProviderRow, R!Revised
<1>3. /\ R!Live(new) \/ R!providerDependencies(p) = {}
      /\ new.pending => R!Live(new) /\ R!providerDependencies(p) = {}
  BY <1>2 DEF R!createProvider, R!beginProviderDeletion, R!compareAndSetProvider,
     R!finalizeProviderDeletion, R!NoProvider, R!Live, R!At, DbOK
<1>4. R!providerDependencies(p) = {} =>
        /\ \A s \in Sessions : ~(R!Live(db.sessions[s]) /\ db.sessions[s].target = p)
        /\ \A b \in Bindings : ~(R!Live(db.bindings[b]) /\ db.bindings[b].provider = p)
  BY DEF R!providerDependencies, R!ProviderSessions, R!ProviderBindings
<1>5. DbOK' BY <1>1, PutsTyped
<1>6. SessionsRefer' /\ BindingsRefer' /\ PendingUnused'
  BY <1>1, <1>3, <1>4, ProviderElsewhere DEF SessionsRefer, BindingsRefer, PendingUnused, R!Live
<1>7. ChannelsRefer' /\ R!GrantsFollowSession' /\ R!WithinCapacity' /\ R!OneActiveCertificate'
  BY <1>1, ProviderElsewhere DEF ChannelsRefer, R!GrantsFollowSession, R!WithinCapacity,
     R!OneActiveCertificate, R!LiveChannels, R!OwnedChannels
<1> QED BY <1>5, <1>6, <1>7

\* Session operations keep the rows in agreement: a new session refers to rows that
\* are there, and the grant is live exactly while the session is not being deleted.
LEMMA SessionKeepsRows ==
  ASSUME RowsOK, NEW s \in Sessions,
         \/ \E o \in Users \cup {None}, t \in R!Targets, e \in Revisions :
              R!createSessionWithPlaybackGrant(s, o, t, e)
         \/ \E e \in Revisions, q \in BOOLEAN : R!compareAndSetSession(s, e, q)
         \/ R!touchSessionPlaybackActivity(s) \/ R!SessionGoesIdle(s)
         \/ \E q \in BOOLEAN : R!beginSessionDeletion(s, q)
         \/ R!deleteSessionAndRevokePlaybackGrants(s)
  PROVE  RowsOK'
<1> DEFINE old == db.sessions[s] new == db'.sessions[s]
           Kept == R!Live(old) /\ new.owner = old.owner /\ new.target = old.target
           Fresh == /\ new.owner # None => R!Live(db.users[new.owner])
                    /\ new.target \in Providers \cup Channels
                    /\ new.target \in Providers =>
                         R!Live(db.providers[new.target]) /\ ~db.providers[new.target].pending
                    /\ new.target \in Channels => R!Live(db.channels[new.target])
           Granted == db'.grants[s] = "live" <=> R!Live(new) /\ ~new.deleting
<1> USE DEF RowsOK
<1>1. PutsSession(s) BY SessionPuts
<1>2. /\ old \in SessionRow /\ old.rev \in Nat
      /\ R!Revised(old).rev = old.rev + 1 /\ R!Revised(old).owner = old.owner
      /\ R!Revised(old).target = old.target /\ R!Revised(old).deleting = old.deleting
      /\ R!Revised(old) \in SessionRow
  BY RevisedRows DEF DbOK, SessionRow, R!Revised
<1>3. db.grants[s] = "live" <=> R!Live(old) /\ ~old.deleting
  BY DEF R!GrantsFollowSession
<1>4. (~R!Live(new) \/ Kept \/ Fresh) /\ Granted
  <2>1. ASSUME NEW o \in Users \cup {None}, NEW t \in R!Targets, NEW e \in Revisions,
               R!createSessionWithPlaybackGrant(s, o, t, e)
        PROVE  Fresh /\ Granted
    <3>1. /\ new = [R!NoSession EXCEPT !.rev = 1, !.owner = o, !.target = t, !.recent = TRUE]
          /\ db'.grants[s] = "live"
      BY <2>1 DEF R!createSessionWithPlaybackGrant, DbOK
    <3>2. new.rev = 1 /\ new.owner = o /\ new.target = t /\ ~new.deleting
      BY <3>1 DEF R!NoSession
    <3>3. Granted BY <3>1, <3>2 DEF R!Live
    <3>4. Fresh
      BY <2>1, <3>2, TablesAssumption
         DEF R!createSessionWithPlaybackGrant, R!Targets, R!At, R!Live
    <3> QED BY <3>3, <3>4
  <2>2. ASSUME NEW e \in Revisions, NEW q \in BOOLEAN, R!compareAndSetSession(s, e, q)
        PROVE  Kept /\ Granted
    <3>1. new = [R!Revised(old) EXCEPT !.pinned = q] /\ db'.grants = db.grants /\ R!At(old, e)
      BY <2>2 DEF R!compareAndSetSession, DbOK
    <3> QED BY <1>2, <1>3, <3>1 DEF R!At, R!Live, SessionRow
  <2>3. CASE R!touchSessionPlaybackActivity(s)
    <3>1. new = [R!Revised(old) EXCEPT !.recent = TRUE] /\ db'.grants = db.grants /\ R!Live(old)
      BY <2>3 DEF R!touchSessionPlaybackActivity, DbOK
    <3> QED BY <1>2, <1>3, <3>1 DEF R!Live, SessionRow
  <2>4. CASE R!SessionGoesIdle(s)
    <3>1. new = [old EXCEPT !.recent = FALSE] /\ db'.grants = db.grants /\ R!Live(old)
      BY <2>4 DEF R!SessionGoesIdle, DbOK
    <3> QED BY <1>2, <1>3, <3>1 DEF R!Live, SessionRow
  <2>5. ASSUME NEW q \in BOOLEAN, R!beginSessionDeletion(s, q) PROVE Kept /\ Granted
    <3>1. /\ new = [R!Revised(old) EXCEPT !.deleting = TRUE] /\ db'.grants[s] = "revoked"
          /\ R!Live(old)
      BY <2>5 DEF R!beginSessionDeletion, DbOK
    <3> QED BY <1>2, <3>1 DEF R!Live, SessionRow
  <2>6. CASE R!deleteSessionAndRevokePlaybackGrants(s)
    <3>1. new = R!NoSession /\ db'.grants[s] = "revoked"
      BY <2>6 DEF R!deleteSessionAndRevokePlaybackGrants, DbOK
    <3> QED BY <3>1 DEF R!Live, R!NoSession
  <2> QED BY <2>1, <2>2, <2>3, <2>4, <2>5, <2>6
<1> HIDE DEF Granted
<1>5. DbOK' BY <1>1, PutsTyped
<1>6. SessionsRefer' BY <1>1, <1>4, SessionElsewhere DEF SessionsRefer
<1>7. PendingUnused'
  BY <1>1, <1>4, SessionElsewhere DEF PendingUnused
<1>8. R!GrantsFollowSession' BY <1>1, <1>4, SessionElsewhere DEF R!GrantsFollowSession, Granted
<1>9. /\ ChannelsRefer' /\ BindingsRefer' /\ R!WithinCapacity' /\ R!OneActiveCertificate'
  BY <1>1, SessionElsewhere DEF ChannelsRefer, BindingsRefer, R!WithinCapacity,
     R!OneActiveCertificate, R!LiveChannels, R!OwnedChannels
<1> QED BY <1>5, <1>6, <1>7, <1>8, <1>9

\* Channel operations keep the rows in agreement, and within the limits.
LEMMA ChannelKeepsRows ==
  ASSUME RowsOK, NEW h \in Channels,
         \/ \E o \in Users \cup {None} : R!createLiveChannelWithinCapacity(h, o)
         \/ \E e \in Revisions, q \in BOOLEAN : R!compareAndSetLiveChannel(h, e, q)
         \/ \E e \in Revisions : R!deleteLiveChannel(h, e)
  PROVE  RowsOK'
<1> DEFINE old == db.channels[h] new == db'.channels[h]
<1> USE DEF RowsOK
<1>1. PutsChannel(h) BY ChannelPuts
<1>2. old \in ChannelRow /\ R!Revised(old).rev = old.rev + 1 /\ old.rev \in Nat
      /\ R!Revised(old).owner = old.owner /\ R!Revised(old) \in ChannelRow
  BY RevisedRows DEF DbOK, ChannelRow, R!Revised
<1>3. ASSUME (~R!Live(new) /\ R!ChannelSessions(h) = {}) \/ (R!Live(new) /\ R!Live(old)
                /\ new.owner = old.owner)
      PROVE  RowsOK'
  <2>1. DbOK' BY <1>1, PutsTyped
  <2>2. SessionsRefer'
    BY <1>1, <1>3, ChannelElsewhere DEF SessionsRefer, R!ChannelSessions
  <2>3. ChannelsRefer' BY <1>1, <1>3, ChannelElsewhere DEF ChannelsRefer
  <2>4. /\ R!LiveChannels' \subseteq R!LiveChannels
        /\ \A u \in Users : R!OwnedChannels(u)' \subseteq R!OwnedChannels(u)
    BY <1>1, <1>3, ChannelElsewhere DEF R!LiveChannels, R!OwnedChannels
  <2>5. R!WithinCapacity' BY <2>4, CapacityStays
  <2>6. /\ BindingsRefer' /\ PendingUnused' /\ R!GrantsFollowSession' /\ R!OneActiveCertificate'
    BY <1>1, ChannelElsewhere DEF BindingsRefer, PendingUnused, R!GrantsFollowSession,
       R!OneActiveCertificate
  <2> QED BY <2>1, <2>2, <2>3, <2>5, <2>6
<1>4. ASSUME NEW e \in Revisions, NEW q \in BOOLEAN, R!compareAndSetLiveChannel(h, e, q)
      PROVE  RowsOK'
  <2>1. new = [R!Revised(old) EXCEPT !.publishing = q] /\ R!At(old, e)
    BY <1>4 DEF R!compareAndSetLiveChannel, DbOK
  <2>2. R!Live(new) /\ R!Live(old) /\ new.owner = old.owner
    BY <1>2, <2>1 DEF R!At, R!Live, ChannelRow
  <2> QED BY <1>3, <2>2
<1>5. ASSUME NEW e \in Revisions, R!deleteLiveChannel(h, e) PROVE RowsOK'
  <2>1. new = R!NoChannel /\ R!ChannelSessions(h) = {}
    BY <1>5 DEF R!deleteLiveChannel, DbOK
  <2> QED BY <1>3, <2>1 DEF R!NoChannel, R!Live
<1>6. ASSUME NEW o \in Users \cup {None}, R!createLiveChannelWithinCapacity(h, o)
      PROVE  RowsOK'
  <2>1. /\ new.rev = 1 /\ new.owner = o /\ ~R!Live(old)
        /\ o # None => R!Live(db.users[o])
    BY <1>6 DEF R!createLiveChannelWithinCapacity, DbOK
  <2>2. DbOK' BY <1>1, PutsTyped
  <2>3. SessionsRefer'
    BY <1>1, <2>1, ChannelElsewhere DEF SessionsRefer, R!Live
  <2>4. ChannelsRefer' BY <1>1, <2>1, ChannelElsewhere DEF ChannelsRefer
  <2>5. /\ BindingsRefer' /\ PendingUnused' /\ R!GrantsFollowSession' /\ R!OneActiveCertificate'
    BY <1>1, ChannelElsewhere DEF BindingsRefer, PendingUnused, R!GrantsFollowSession,
       R!OneActiveCertificate
  <2>6. /\ R!LiveChannels' = R!LiveChannels \cup {h}
        /\ \A u \in Users : R!OwnedChannels(u)' =
             IF u = o THEN R!OwnedChannels(u) \cup {h} ELSE R!OwnedChannels(u)
    BY <1>1, <2>1, ChannelElsewhere DEF R!LiveChannels, R!OwnedChannels, R!Live
  <2>7. IsFiniteSet(R!LiveChannels) /\ \A u \in Users : IsFiniteSet(R!OwnedChannels(u))
    BY FS_Subset, TablesAssumption DEF R!LiveChannels, R!OwnedChannels
  <2>8. h \notin R!LiveChannels /\ \A u \in Users : h \notin R!OwnedChannels(u)
    BY <2>1 DEF R!LiveChannels, R!OwnedChannels
  <2>9. ASSUME NEW S, NEW x, NEW k \in Nat, IsFiniteSet(S), x \notin S, Cardinality(S) < k
        PROVE  Cardinality(S \cup {x}) <= k
    <3>1. Cardinality(S) \in Nat BY <2>9, FS_CardinalityType
    <3>2. Cardinality(S \cup {x}) = Cardinality(S) + 1 BY <2>9, FS_AddElement
    <3> QED BY <2>9, <3>1, <3>2
  <2>10. Cardinality(R!LiveChannels') <= MaxTotal
    <3>1. Cardinality(R!LiveChannels) < MaxTotal
      BY <1>6, SameCount DEF R!createLiveChannelWithinCapacity
    <3> QED BY <2>6, <2>7, <2>8, <2>9, <3>1, TablesAssumption
  <2>11. ASSUME NEW u \in Users PROVE Cardinality(R!OwnedChannels(u)') <= MaxPerOwner
    <3>1. CASE u # o
      <4>1. R!OwnedChannels(u)' = R!OwnedChannels(u) BY <2>6, <3>1
      <4> QED BY <4>1, SameCount DEF R!WithinCapacity
    <3>2. CASE u = o
      <4>1. R!OwnedChannels(u)' = R!OwnedChannels(u) \cup {h} BY <2>6, <3>2
      <4>2. Cardinality(R!OwnedChannels(u)) < MaxPerOwner
        BY <1>6, <3>2, SameCount, TablesAssumption DEF R!createLiveChannelWithinCapacity
      <4> QED BY <2>7, <2>8, <2>9, <4>1, <4>2, TablesAssumption
    <3> QED BY <3>1, <3>2
  <2>12. R!WithinCapacity' BY <2>10, <2>11, SameCount DEF R!WithinCapacity
  <2> QED BY <2>2, <2>3, <2>4, <2>5, <2>12
<1> QED BY <1>4, <1>5, <1>6

\* User operations keep the rows in agreement: a user who owns something stays.
LEMMA UserKeepsRows ==
  ASSUME RowsOK, NEW u \in Users,
         \/ R!createUserIdentity(u) \/ R!UserGoesStale(u)
         \/ \E e \in Revisions : R!compareAndSetUserIdentity(u, e)
         \/ \E e \in Revisions, q \in BOOLEAN :
              \/ R!compareAndSetUserIdentityPreservingOwner(u, e, q)
              \/ R!deleteUserIdentityPreservingOwner(u, e, q)
  PROVE  RowsOK'
<1> DEFINE old == db.users[u] new == db'.users[u]
<1> USE DEF RowsOK
<1>1. PutsUser(u) BY UserPuts
<1>2. /\ old \in UserRow /\ old.rev \in Nat /\ R!Revised(old) \in UserRow
      /\ R!Revised(old).rev = old.rev + 1
  BY RevisedRows DEF DbOK, UserRow, R!Revised
<1>3. R!Live(new) \/ (R!OwnedSessions(u) = {} /\ R!OwnedChannels(u) = {})
  <2>1. CASE R!createUserIdentity(u)
    BY <2>1 DEF R!createUserIdentity, R!Live, DbOK
  <2>2. CASE R!UserGoesStale(u)
    <3>1. new = [old EXCEPT !.stale = TRUE] /\ R!Live(old) BY <2>2 DEF R!UserGoesStale, DbOK
    <3> QED BY <1>2, <3>1 DEF UserRow, R!Live
  <2>3. ASSUME NEW e \in Revisions, R!compareAndSetUserIdentity(u, e) PROVE R!Live(new)
    <3>1. new = [R!Revised(old) EXCEPT !.stale = FALSE]
      BY <2>3 DEF R!compareAndSetUserIdentity, DbOK
    <3> QED BY <1>2, <3>1 DEF UserRow, R!Live
  <2>4. ASSUME NEW e \in Revisions, NEW q \in BOOLEAN,
               R!compareAndSetUserIdentityPreservingOwner(u, e, q)
        PROVE  R!Live(new)
    <3>1. new = [R!Revised(old) EXCEPT !.owner = q]
      BY <2>4 DEF R!compareAndSetUserIdentityPreservingOwner, DbOK
    <3> QED BY <1>2, <3>1 DEF UserRow, R!Live
  <2>5. ASSUME NEW e \in Revisions, NEW q \in BOOLEAN,
               R!deleteUserIdentityPreservingOwner(u, e, q)
        PROVE  R!OwnedSessions(u) = {} /\ R!OwnedChannels(u) = {}
    BY <2>5 DEF R!deleteUserIdentityPreservingOwner
  <2> QED BY <2>1, <2>2, <2>3, <2>4, <2>5
<1>4. DbOK' BY <1>1, PutsTyped
<1>5. /\ \A s \in Sessions : db.sessions[s].owner \in Users \cup {None}
      /\ \A h \in Channels : db.channels[h].owner \in Users \cup {None}
  BY DEF DbOK, SessionRow, ChannelRow
<1>6. SessionsRefer'
  BY <1>1, <1>3, <1>5, UserElsewhere DEF SessionsRefer, R!OwnedSessions
<1>7. ChannelsRefer'
  BY <1>1, <1>3, <1>5, UserElsewhere DEF ChannelsRefer, R!OwnedChannels, R!LiveChannels
<1>8. BindingsRefer' /\ PendingUnused' /\ R!OneActiveCertificate'
  BY <1>1, UserElsewhere DEF BindingsRefer, PendingUnused, R!OneActiveCertificate
<1>9. R!GrantsFollowSession' /\ R!WithinCapacity'
  BY <1>1, UserElsewhere DEF R!GrantsFollowSession, R!WithinCapacity, R!LiveChannels,
     R!OwnedChannels
<1> QED BY <1>4, <1>6, <1>7, <1>8, <1>9

\* The certificates of node n that the next rows leave usable.
CertificatesOK(n) ==
  db.certs[n] <= IF R!Live(db.nodes[n]) /\ db.nodes[n].state # "revoked" THEN 1 ELSE 0

\* Node operations keep the rows in agreement: one certificate at most is usable.
LEMMA NodeKeepsRows ==
  ASSUME RowsOK, NEW n \in Nodes, NodeOnly(n)
  PROVE  RowsOK'
<1> DEFINE old == db.nodes[n] new == db'.nodes[n]
<1> USE DEF RowsOK
<1>1. PutsNode(n) BY NodePuts
<1>2. old \in NodeRow /\ old.rev \in Nat \cup {-1} /\ old.state \in R!NodeStates /\ db.certs[n] \in Nat
  BY DEF DbOK, NodeRow
<1>3. CertificatesOK(n) BY DEF CertificatesOK, R!OneActiveCertificate
<1>4. (R!Live(new) \/ R!NodeBindings(n) = {}) /\ CertificatesOK(n)'
  <2>1. CASE R!createNode(n)
    <3>1. /\ new = [rev |-> 1, state |-> "joining"] /\ db'.certs[n] = db.certs[n] + 1
          /\ old.rev = 0
      BY <2>1 DEF R!createNode, DbOK
    <3> QED BY <1>2, <1>3, <3>1 DEF CertificatesOK, R!Live
  <2>2. CASE R!ensureLocalNode(n)
    <3>1. /\ new.rev = old.rev + 1 /\ old.rev >= 0 /\ db'.certs = db.certs
          /\ new.state = IF R!Live(old) /\ R!Protected(old.state) THEN old.state ELSE "online"
      BY <2>2 DEF R!ensureLocalNode, DbOK
    <3>2. (R!Live(old) /\ old.state = "revoked") \/ new.state # "revoked"
      BY <3>1 DEF R!Protected
    <3> QED BY <1>2, <1>3, <3>1, <3>2 DEF CertificatesOK, R!Live, R!Protected
  <2>3. ASSUME NEW e \in Revisions, R!recordNodeHeartbeat(n, e)
        PROVE  R!Live(new) /\ CertificatesOK(n)'
    <3>1. /\ new.rev = old.rev + 1 /\ R!At(old, e) /\ db'.certs = db.certs
          /\ new.state = IF R!Protected(old.state) THEN old.state ELSE "online"
      BY <2>3 DEF R!recordNodeHeartbeat, DbOK
    <3> QED BY <1>2, <1>3, <3>1 DEF CertificatesOK, R!Live, R!At, R!Protected
  <2>4. ASSUME NEW e \in Revisions, R!removeNode(n, e)
        PROVE  R!NodeBindings(n) = {} /\ CertificatesOK(n)'
    <3>1. /\ new = R!RemovedNode /\ R!NodeBindings(n) = {} /\ db'.certs = db.certs
          /\ old.state = "revoked"
      BY <2>4 DEF R!removeNode, DbOK
    <3> QED BY <1>2, <1>3, <3>1 DEF CertificatesOK, R!Live, R!RemovedNode
  <2>5. ASSUME NEW e \in Revisions, R!rotateNodeCertificate(n, e)
        PROVE  R!Live(new) /\ CertificatesOK(n)'
    <3>1. /\ new = R!Revised(old) /\ R!At(old, e) /\ db'.certs[n] = 1
          /\ old.state # "revoked"
      BY <2>5 DEF R!rotateNodeCertificate, DbOK
    <3>2. new.rev = old.rev + 1 /\ new.state = old.state
      BY <1>2, <3>1 DEF R!Revised, NodeRow
    <3> QED BY <1>2, <3>1, <3>2 DEF CertificatesOK, R!Live, R!At
  <2>6. ASSUME NEW e \in Revisions, NEW q \in BOOLEAN, R!setNodeDrain(n, e, q)
        PROVE  R!Live(new) /\ CertificatesOK(n)'
    <3>1. /\ new.rev = old.rev + 1 /\ R!At(old, e) /\ db'.certs = db.certs
          /\ old.state # "revoked" /\ new.state # "revoked"
      BY <2>6 DEF R!setNodeDrain, DbOK
    <3> QED BY <1>2, <1>3, <3>1 DEF CertificatesOK, R!Live, R!At
  <2>7. ASSUME NEW e \in Revisions, NEW q \in {"joining", "online", "offline"},
               R!setNodeOperationalState(n, e, q)
        PROVE  R!Live(new) /\ CertificatesOK(n)'
    <3>1. /\ new.rev = old.rev + 1 /\ R!At(old, e) /\ db'.certs = db.certs
          /\ old.state # "revoked" /\ new.state # "revoked"
      BY <2>7 DEF R!setNodeOperationalState, DbOK, R!Protected
    <3> QED BY <1>2, <1>3, <3>1 DEF CertificatesOK, R!Live, R!At
  <2> QED BY <2>1, <2>2, <2>3, <2>4, <2>5, <2>6, <2>7 DEF NodeOnly
<1>5. DbOK' BY <1>1, PutsTyped
<1>6. R!OneActiveCertificate'
  BY <1>1, <1>4, NodeElsewhere DEF R!OneActiveCertificate, CertificatesOK
<1>7. BindingsRefer'
  BY <1>1, <1>4, NodeElsewhere DEF BindingsRefer, R!NodeBindings
<1>8. SessionsRefer' /\ ChannelsRefer' /\ PendingUnused'
  BY <1>1, NodeElsewhere DEF SessionsRefer, ChannelsRefer, PendingUnused
<1>9. R!GrantsFollowSession' /\ R!WithinCapacity'
  BY <1>1, NodeElsewhere DEF R!GrantsFollowSession, R!WithinCapacity, R!LiveChannels,
     R!OwnedChannels
<1> QED BY <1>5, <1>6, <1>7, <1>8, <1>9

\* revokeNode keeps the rows in agreement: no certificate is usable, and the bindings
\* still refer to what they did.
LEMMA RevokeKeepsRows ==
  ASSUME RowsOK, NEW n \in Nodes, NEW e \in Revisions, R!revokeNode(n, e)
  PROVE  RowsOK'
<1> USE DEF RowsOK
<1>1. DbOK' BY RevokeTyped
<1>2. /\ db'.providers = db.providers /\ db'.sessions = db.sessions /\ db'.grants = db.grants
      /\ db'.channels = db.channels /\ db'.users = db.users
      /\ \A x \in Nodes \ {n} : db'.nodes[x] = db.nodes[x] /\ db'.certs[x] = db.certs[x]
      /\ db'.certs[n] = 0 /\ R!Live(db'.nodes[n])
  BY DEF R!revokeNode, DbOK, NodeRow, R!At, R!Live
<1>3. ASSUME NEW b \in Bindings
      PROVE  /\ R!Live(db'.bindings[b]) <=> R!Live(db.bindings[b])
             /\ db'.bindings[b].provider = db.bindings[b].provider
             /\ db'.bindings[b].node = db.bindings[b].node
  <2> DEFINE old == db.bindings[b]
  <2>1. db'.bindings[b] = IF b \in R!NodeBindings(n)
                            THEN [R!Revised(old) EXCEPT !.state = "revoked"] ELSE old
    BY DEF R!revokeNode, DbOK
  <2>2. b \in R!NodeBindings(n) => R!Live(old) BY DEF R!NodeBindings
  <2>3. /\ old.rev \in Nat /\ R!Revised(old) \in BindingRow /\ R!Revised(old).rev = old.rev + 1
        /\ R!Revised(old).provider = old.provider /\ R!Revised(old).node = old.node
    BY RevisedRows DEF DbOK, BindingRow, R!Revised
  <2> QED BY <2>1, <2>2, <2>3 DEF R!Live, BindingRow
<1>4. BindingsRefer' BY <1>2, <1>3 DEF BindingsRefer
<1>5. PendingUnused' BY <1>2, <1>3 DEF PendingUnused
<1>6. R!OneActiveCertificate' BY <1>1, <1>2 DEF R!OneActiveCertificate, DbOK
<1>7. SessionsRefer' /\ ChannelsRefer' /\ R!GrantsFollowSession' /\ R!WithinCapacity'
  BY <1>2 DEF SessionsRefer, ChannelsRefer, R!GrantsFollowSession, R!WithinCapacity,
     R!LiveChannels, R!OwnedChannels
<1> QED BY <1>1, <1>4, <1>5, <1>6, <1>7

\* Binding operations, but for createProviderBinding, keep the rows in agreement.
LEMMA BindingKeepsRows ==
  ASSUME RowsOK, NEW b \in Bindings, BindingOnly(b)
  PROVE  RowsOK'
<1> DEFINE old == db.bindings[b] new == db'.bindings[b]
<1> USE DEF RowsOK
<1>1. PutsBinding(b) BY BindingPuts
<1>2. /\ old \in BindingRow /\ old.rev \in Nat /\ R!Revised(old) \in BindingRow
      /\ R!Revised(old).rev = old.rev + 1
      /\ R!Revised(old).provider = old.provider /\ R!Revised(old).node = old.node
  BY RevisedRows DEF DbOK, BindingRow, R!Revised
<1>3. \/ ~R!Live(new)
      \/ R!Live(old) /\ new.provider = old.provider /\ new.node = old.node
  <2>1. ASSUME NEW e \in Revisions, NEW q \in R!BindingStates,
               R!compareAndSetProviderBinding(b, e, q)
        PROVE  R!Live(old) /\ new.provider = old.provider /\ new.node = old.node
    <3>1. new = [R!Revised(old) EXCEPT !.state = q] /\ R!At(old, e)
      BY <2>1 DEF R!compareAndSetProviderBinding, DbOK
    <3> QED BY <1>2, <3>1 DEF BindingRow, R!At, R!Live
  <2>2. CASE R!beginProviderBindingDeletion(b)
    BY <2>2 DEF R!beginProviderBindingDeletion, DbOK
  <2>3. ASSUME NEW e \in Revisions, R!finalizeProviderBindingDeletion(b, e) PROVE ~R!Live(new)
    BY <2>3 DEF R!finalizeProviderBindingDeletion, DbOK, R!NoBinding, R!Live
  <2> QED BY <2>1, <2>2, <2>3 DEF BindingOnly
<1>4. DbOK' BY <1>1, PutsTyped
<1>5. BindingsRefer' BY <1>1, <1>3, BindingElsewhere DEF BindingsRefer
<1>6. PendingUnused' BY <1>1, <1>3, BindingElsewhere DEF PendingUnused
<1>7. /\ SessionsRefer' /\ ChannelsRefer' /\ R!GrantsFollowSession' /\ R!WithinCapacity'
      /\ R!OneActiveCertificate'
  BY <1>1, BindingElsewhere DEF SessionsRefer, ChannelsRefer, R!GrantsFollowSession,
     R!WithinCapacity, R!LiveChannels, R!OwnedChannels, R!OneActiveCertificate
<1> QED BY <1>4, <1>5, <1>6, <1>7

\* createProviderBinding keeps the rows in agreement: its node is there, and its
\* provider is created or is not being deleted.
LEMMA BindKeepsRows ==
  ASSUME RowsOK, NEW b \in Bindings, NEW p \in Providers, NEW n \in Nodes,
         NEW e, R!createProviderBinding(b, p, n, e)
  PROVE  RowsOK'
<1> DEFINE old == db.providers[p]
<1> USE DEF RowsOK
<1>1. DbOK' BY BindTyped
<1>2. /\ db'.sessions = db.sessions /\ db'.grants = db.grants /\ db'.channels = db.channels
      /\ db'.users = db.users /\ db'.nodes = db.nodes /\ db'.certs = db.certs
      /\ \A x \in Providers \ {p} : db'.providers[x] = db.providers[x]
      /\ \A x \in Bindings \ {b} : db'.bindings[x] = db.bindings[x]
      /\ db'.bindings[b].provider = p /\ db'.bindings[b].node = n /\ R!Live(db.nodes[n])
      /\ db'.providers[p] = R!Revised(old)
      /\ ~R!Live(db.bindings[b])
  BY DEF R!createProviderBinding, DbOK
<1>3. ~old.pending
  BY DEF R!createProviderBinding, PendingUnused
<1>4. R!Live(db'.providers[p]) /\ ~db'.providers[p].pending
  <2>1. old \in ProviderRow /\ old.rev \in Nat BY DEF DbOK, ProviderRow
  <2> QED BY <1>2, <1>3, <2>1 DEF R!Revised, R!Live, ProviderRow
<1>5. SessionsRefer' BY <1>2, <1>4 DEF SessionsRefer
<1>6. BindingsRefer' BY <1>2, <1>4 DEF BindingsRefer
<1>7. PendingUnused' BY <1>2, <1>4 DEF PendingUnused
<1>8. ChannelsRefer' /\ R!GrantsFollowSession' /\ R!WithinCapacity' /\ R!OneActiveCertificate'
  BY <1>2 DEF ChannelsRefer, R!GrantsFollowSession, R!WithinCapacity, R!LiveChannels,
     R!OwnedChannels, R!OneActiveCertificate
<1> QED BY <1>1, <1>5, <1>6, <1>7, <1>8

\* Rows that refer to nothing, and steps that change no row.
LEMMA OtherKeepsRows ==
  ASSUME RowsOK,
         \/ db' = db
         \/ \E k \in Documents : PutsDocument(k)
  PROVE  RowsOK'
<1> USE DEF RowsOK
<1>1. /\ db'.providers = db.providers /\ db'.sessions = db.sessions /\ db'.grants = db.grants
      /\ db'.users = db.users /\ db'.nodes = db.nodes /\ db'.certs = db.certs
      /\ db'.bindings = db.bindings /\ db'.channels = db.channels
  BY DocumentElsewhere
<1>2. DbOK'
  <2>1. CASE db' = db BY <2>1 DEF DbOK
  <2> QED BY <2>1, PutsTyped
<1> QED
  BY <1>1, <1>2 DEF SessionsRefer, ChannelsRefer, BindingsRefer, PendingUnused,
     R!GrantsFollowSession, R!WithinCapacity, R!LiveChannels, R!OwnedChannels,
     R!OneActiveCertificate

\* Every operation of the repository keeps the rows in agreement.
LEMMA OperationsKeepRows == RowsOK /\ [R!Next]_db => RowsOK'
<1> SUFFICES ASSUME RowsOK, [R!Next]_db PROVE RowsOK' OBVIOUS
<1>0. CASE UNCHANGED db BY <1>0, OtherKeepsRows
<1>1. CASE R!Refused BY <1>1, OtherKeepsRows DEF R!Refused
<1>2. CASE R!ProviderNext BY <1>2, ProviderKeepsRows DEF R!ProviderNext
<1>3. CASE R!SessionNext BY <1>3, SessionKeepsRows DEF R!SessionNext
<1>4. CASE R!ChannelNext BY <1>4, ChannelKeepsRows DEF R!ChannelNext
<1>5. CASE R!UserNext BY <1>5, UserKeepsRows DEF R!UserNext
<1>6. CASE R!NodeNext
  <2>1. PICK n \in Nodes : NodeOnly(n) \/ \E e \in Revisions : R!revokeNode(n, e)
    BY <1>6 DEF R!NodeNext, NodeOnly
  <2> QED BY <2>1, NodeKeepsRows, RevokeKeepsRows
<1>7. CASE R!BindingNext
  <2>1. PICK b \in Bindings :
          \/ BindingOnly(b)
          \/ \E p \in Providers, n \in Nodes, e \in Revisions \cup {None} :
               R!createProviderBinding(b, p, n, e)
    BY <1>7 DEF R!BindingNext, BindingOnly
  <2> QED BY <2>1, BindingKeepsRows, BindKeepsRows
<1>8. CASE R!DocumentNext
  <2>1. DbOK BY DEF RowsOK
  <2>2. \E k \in Documents : PutsDocument(k) BY <1>8, <2>1, DocumentPuts DEF R!DocumentNext
  <2> QED BY <2>2, OtherKeepsRows
<1> QED BY <1>0, <1>1, <1>2, <1>3, <1>4, <1>5, <1>6, <1>7, <1>8 DEF R!Next

\* In every state the committed rows agree: nothing dangles, a provider being deleted
\* is unused, grants follow their session, the limits hold, and a node has one usable
\* certificate at most (the guards of the transactions in postgres-repository.ts).
THEOREM RowsAgree == Spec => []RowsConsistent
<1>1. Init => IInv /\ RowsOK BY InitHolds, RowsOKInit DEF Init
<1>2. IInv /\ RowsOK /\ [Next]_vars => IInv' /\ RowsOK' BY NextHolds, OperationsKeepRows
<1>3. RowsOK => RowsConsistent BY RowsOKConsistent
<1> QED BY <1>1, <1>2, <1>3, PTL DEF Spec

\* With more than one owner, another than u is left.
LEMMA AnotherOwner ==
  ASSUME NEW u \in Users, Cardinality(R!Owners) > 1
  PROVE  \E v \in R!Owners : v # u
<1>1. IsFiniteSet(R!Owners) BY FS_Subset, TablesAssumption DEF R!Owners
<1>2. SUFFICES ASSUME R!Owners \subseteq {u} PROVE FALSE OBVIOUS
<1>3. IsFiniteSet({u}) /\ Cardinality({u}) = 1 BY FS_Singleton
<1>4. Cardinality(R!Owners) <= 1 BY <1>2, <1>3, FS_Subset
<1>5. Cardinality(R!Owners) \in Nat BY <1>1, FS_CardinalityType
<1> QED BY <1>4, <1>5

\* User operations leave an owner: the last one is neither demoted nor deleted
\* (compareAndSet- and deleteUserIdentityPreservingOwner).
LEMMA UserKeepsOwner ==
  ASSUME DbOK, R!Owners # {}, NEW u \in Users,
         \/ R!createUserIdentity(u) \/ R!UserGoesStale(u)
         \/ \E e \in Revisions : R!compareAndSetUserIdentity(u, e)
         \/ \E e \in Revisions, q \in BOOLEAN :
              \/ R!compareAndSetUserIdentityPreservingOwner(u, e, q)
              \/ R!deleteUserIdentityPreservingOwner(u, e, q)
  PROVE  R!Owners' # {}
<1> DEFINE old == db.users[u] new == db'.users[u]
<1>1. PutsUser(u) BY UserPuts
<1>2. \A x \in Users \ {u} : db'.users[x] = db.users[x] BY <1>1, UserElsewhere
<1>3. /\ old \in UserRow /\ old.rev \in Nat /\ R!Revised(old) \in UserRow
      /\ R!Revised(old).rev = old.rev + 1 /\ R!Revised(old).owner = old.owner
  BY RevisedRows DEF DbOK, UserRow, R!Revised
\* The operation leaves u what it is, or there is another owner.
<1>4. \/ R!Live(old) /\ old.owner => R!Live(new) /\ new.owner
      \/ Cardinality(R!Owners) > 1
  <2>1. CASE R!createUserIdentity(u) BY <2>1 DEF R!createUserIdentity
  <2>2. CASE R!UserGoesStale(u)
    <3>1. new = [old EXCEPT !.stale = TRUE] BY <2>2 DEF R!UserGoesStale, DbOK
    <3> QED BY <1>3, <3>1 DEF UserRow, R!Live
  <2>3. ASSUME NEW e \in Revisions, R!compareAndSetUserIdentity(u, e)
        PROVE  R!Live(old) /\ old.owner => R!Live(new) /\ new.owner
    <3>1. new = [R!Revised(old) EXCEPT !.stale = FALSE]
      BY <2>3 DEF R!compareAndSetUserIdentity, DbOK
    <3>2. new.rev = old.rev + 1 /\ new.owner = old.owner BY <1>3, <3>1 DEF UserRow
    <3> QED BY <1>3, <3>2 DEF R!Live
  <2>4. ASSUME NEW e \in Revisions, NEW q \in BOOLEAN,
               R!compareAndSetUserIdentityPreservingOwner(u, e, q)
        PROVE  \/ R!Live(old) /\ old.owner => R!Live(new) /\ new.owner
               \/ Cardinality(R!Owners) > 1
    <3>1. new = [R!Revised(old) EXCEPT !.owner = q]
      BY <2>4 DEF R!compareAndSetUserIdentityPreservingOwner, DbOK
    <3>2. new.rev = old.rev + 1 /\ new.owner = q BY <1>3, <3>1 DEF UserRow
    <3>3. old.owner /\ ~q => Cardinality(R!Owners) > 1
      BY <2>4, SameCount DEF R!compareAndSetUserIdentityPreservingOwner
    <3>4. CASE q BY <1>3, <3>2, <3>4 DEF R!Live
    <3>5. CASE ~q BY <3>3, <3>5
    <3> QED BY <3>4, <3>5
  <2>5. ASSUME NEW e \in Revisions, NEW q \in BOOLEAN,
               R!deleteUserIdentityPreservingOwner(u, e, q)
        PROVE  old.owner => Cardinality(R!Owners) > 1
    BY <2>5, SameCount DEF R!deleteUserIdentityPreservingOwner
  <2> QED BY <2>1, <2>2, <2>3, <2>4, <2>5
<1>5. CASE Cardinality(R!Owners) > 1
  <2>1. PICK v \in R!Owners : v # u BY <1>5, AnotherOwner
  <2> QED BY <1>2, <2>1 DEF R!Owners
<1>6. CASE R!Live(old) /\ old.owner => R!Live(new) /\ new.owner
  <2>1. PICK v \in Users : R!Live(db.users[v]) /\ db.users[v].owner BY DEF R!Owners
  <2>2. R!Live(db'.users[v]) /\ db'.users[v].owner BY <1>2, <1>6, <2>1
  <2> QED BY <2>2 DEF R!Owners
<1> QED BY <1>4, <1>5, <1>6

\* A revoked node that is still there after a node operation is still revoked.
LEMMA NodeKeepsRevocation ==
  ASSUME DbOK, NEW n \in Nodes, NodeOnly(n),
         db.nodes[n].state = "revoked", R!Live(db.nodes[n]), R!Live(db'.nodes[n])
  PROVE  db'.nodes[n].state = "revoked"
<1> DEFINE old == db.nodes[n] new == db'.nodes[n]
<1>1. CASE R!createNode(n) BY <1>1 DEF R!createNode, R!Live
<1>2. CASE R!ensureLocalNode(n) BY <1>2 DEF R!ensureLocalNode, R!Protected, DbOK
<1>3. ASSUME NEW e \in Revisions, R!recordNodeHeartbeat(n, e) PROVE new.state = "revoked"
  BY <1>3 DEF R!recordNodeHeartbeat, R!Protected, DbOK
<1>4. ASSUME NEW e \in Revisions, R!removeNode(n, e) PROVE FALSE
  BY <1>4 DEF R!removeNode, R!RemovedNode, R!Live, DbOK
<1>5. ASSUME NEW e \in Revisions, R!rotateNodeCertificate(n, e) PROVE FALSE
  BY <1>5 DEF R!rotateNodeCertificate
<1>6. ASSUME NEW e \in Revisions, NEW q \in BOOLEAN, R!setNodeDrain(n, e, q) PROVE FALSE
  BY <1>6 DEF R!setNodeDrain
<1>7. ASSUME NEW e \in Revisions, NEW q \in {"joining", "online", "offline"},
             R!setNodeOperationalState(n, e, q)
      PROVE  FALSE
  BY <1>7 DEF R!setNodeOperationalState, R!Protected
<1> QED BY <1>1, <1>2, <1>3, <1>4, <1>5, <1>6, <1>7 DEF NodeOnly

OwnerStep == R!Owners # {} => R!Owners' # {}

RevocationStep ==
  \A n \in Nodes :
    db.nodes[n].state = "revoked" /\ R!Live(db.nodes[n]) /\ R!Live(db'.nodes[n]) =>
      db'.nodes[n].state = "revoked"

\* Rows of other tables do not matter to either.
LEMMA ElsewhereKept ==
  /\ db'.users = db.users => OwnerStep
  /\ db'.nodes = db.nodes => RevocationStep
BY DEF OwnerStep, RevocationStep, R!Owners

\* Every operation leaves an owner and brings back no revoked node.
LEMMA OperationsKeepOwners ==
  ASSUME DbOK, [R!Next]_db
  PROVE  OwnerStep /\ RevocationStep
<1>1. CASE db' = db BY <1>1, ElsewhereKept
<1>2. CASE R!ProviderNext
  <2>1. \E p \in Providers : PutsProvider(p) BY <1>2, ProviderPuts DEF R!ProviderNext
  <2> QED BY <2>1, ProviderElsewhere, ElsewhereKept
<1>3. CASE R!SessionNext
  <2>1. \E s \in Sessions : PutsSession(s) BY <1>3, SessionPuts DEF R!SessionNext
  <2> QED BY <2>1, SessionElsewhere, ElsewhereKept
<1>4. CASE R!ChannelNext
  <2>1. \E h \in Channels : PutsChannel(h) BY <1>4, ChannelPuts DEF R!ChannelNext
  <2> QED BY <2>1, ChannelElsewhere, ElsewhereKept
<1>5. CASE R!UserNext
  <2>1. \E u \in Users : PutsUser(u) BY <1>5, UserPuts DEF R!UserNext
  <2>2. RevocationStep BY <2>1, UserElsewhere, ElsewhereKept
  <2>3. OwnerStep BY <1>5, UserKeepsOwner DEF R!UserNext, OwnerStep
  <2> QED BY <2>2, <2>3
<1>6. ASSUME NEW n \in Nodes, NodeOnly(n) PROVE OwnerStep /\ RevocationStep
  <2>1. PutsNode(n) BY <1>6, NodePuts
  <2>2. OwnerStep BY <2>1, NodeElsewhere, ElsewhereKept
  <2>3. RevocationStep BY <1>6, <2>1, NodeElsewhere, NodeKeepsRevocation DEF RevocationStep
  <2> QED BY <2>2, <2>3
<1>7. ASSUME NEW n \in Nodes, NEW e \in Revisions, R!revokeNode(n, e)
      PROVE  OwnerStep /\ RevocationStep
  <2>1. /\ db'.users = db.users /\ db'.nodes[n].state = "revoked"
        /\ \A x \in Nodes \ {n} : db'.nodes[x] = db.nodes[x]
    BY <1>7 DEF R!revokeNode, DbOK
  <2> QED BY <2>1, ElsewhereKept DEF RevocationStep
<1>8. ASSUME NEW b \in Bindings, BindingOnly(b) PROVE OwnerStep /\ RevocationStep
  <2>1. PutsBinding(b) BY <1>8, BindingPuts
  <2> QED BY <2>1, BindingElsewhere, ElsewhereKept
<1>9. ASSUME NEW b \in Bindings, NEW p \in Providers, NEW n \in Nodes, NEW e,
             R!createProviderBinding(b, p, n, e)
      PROVE  OwnerStep /\ RevocationStep
  <2>1. db'.users = db.users /\ db'.nodes = db.nodes
    BY <1>9 DEF R!createProviderBinding, DbOK
  <2> QED BY <2>1, ElsewhereKept
<1>10. CASE R!DocumentNext
  <2>1. \E k \in Documents : PutsDocument(k) BY <1>10, DocumentPuts DEF R!DocumentNext
  <2> QED BY <2>1, DocumentElsewhere, ElsewhereKept
<1>11. CASE R!NodeNext
  BY <1>6, <1>7, <1>11 DEF R!NodeNext, NodeOnly
<1>12. CASE R!BindingNext
  BY <1>8, <1>9, <1>12 DEF R!BindingNext, BindingOnly
<1> QED BY <1>1, <1>2, <1>3, <1>4, <1>5, <1>10, <1>11, <1>12 DEF R!Next, R!Refused

\* Once someone is owner, someone always is, however many owners step down at once; and
\* a revoked node stays revoked until it is removed, whatever heartbeat, drain or
\* rotation had read it before (the advisory lock and the revision tests).
THEOREM OwnersKept == Spec => OwnersAndRevocationsKept
<1>1. Init => IInv BY InitHolds
<1>2. IInv /\ [Next]_vars => IInv' /\ [R!Next]_db BY NextHolds
<1>3. IInv => DbOK BY DEF IInv
<1>4. DbOK /\ [R!Next]_db =>
        [R!Owners # {} => R!Owners' # {}]_db /\
        [\A n \in Nodes : db.nodes[n].state = "revoked" /\ R!Live(db.nodes[n]) /\
           R!Live(db.nodes[n])' => db'.nodes[n].state = "revoked"]_db
  BY OperationsKeepOwners DEF OwnerStep, RevocationStep
<1> QED BY <1>1, <1>2, <1>3, <1>4, PTL DEF Spec, OwnersAndRevocationsKept, R!OwnerKept,
     R!RevocationFinal

=============================================================================
