------------------------ MODULE MCPostgresRepository ------------------------
(* PostgreSQL, statement by statement: the transactions, the rows of jobs   *)
(* and producers (RowUpdates), logs and tokens (Records).  A behaviour      *)
(* exercises one of them.                                                   *)
(* The tables of the transactions fall into groups that few operations      *)
(* connect.  A behaviour draws its requests from one group; what a          *)
(* transaction does is unchanged.                                           *)
EXTENDS PostgresRepository, TLC

CONSTANTS Extra,   \* the connection that only the binders group uses
         k1, k2, k3, v1, v2

VARIABLES scope, faults,
          table, row, lock, born, call, held, rivals,
          clock, logs, stamp, entry, doomed, token, use, usedAt, revoking, closed

uvars == <<table, row, lock, born, call, held, rivals>>
avars == <<clock, logs, stamp, entry, doomed, token, use, usedAt, revoking, closed>>
all == <<vars, scope, faults, uvars, avars>>

U == INSTANCE RowUpdates WITH Call <- {k1, k2, k3}, MaxAttempts <- 2, MaxFaults <- 1
A == INSTANCE Records WITH now <- clock, Put <- {k1, k2, k3}, Use <- {v1, v2},
       Retention <- 1, Interval <- 2, MaxTime <- 4, MaxFaults <- 1

SessionOps == {"createSessionWithPlaybackGrant", "beginSessionDeletion",
               "deleteSessionAndRevokePlaybackGrants"}
BindingOps == {"createProviderBinding", "beginProviderBindingDeletion",
               "finalizeProviderBindingDeletion"}

UserOps == {"createUserIdentity", "deleteUserIdentityPreservingOwner"}

Groups ==
  [sources |-> SessionOps \cup BindingOps \cup
     {"createProvider", "beginProviderDeletion", "finalizeProviderDeletion", "createNode"},
   binders |-> {"createNode", "createProviderBinding"},
   activity |-> SessionOps \cup {"createProvider", "compareAndSetProvider",
                                  "compareAndSetSession", "touchSessionPlaybackActivity"},
   roles |-> UserOps \cup {"compareAndSetUserIdentityPreservingOwner"},
   logins |-> UserOps \cup {"compareAndSetUserIdentity"},
   channels |-> UserOps \cup {"createLiveChannelWithinCapacity", "deleteLiveChannel"},
   viewing |-> {"createLiveChannelWithinCapacity", "compareAndSetLiveChannel",
                "deleteLiveChannel", "createSessionWithPlaybackGrant",
                "deleteSessionAndRevokePlaybackGrants"},
   sharing |-> UserOps \cup {"createProvider", "createSessionWithPlaybackGrant",
                              "deleteSessionAndRevokePlaybackGrants"},
   nodes |-> {"insertIfAbsent", "createNode", "ensureLocalNode", "recordNodeHeartbeat", "setNodeDrain",
              "setNodeOperationalState", "removeNode", "rotateNodeCertificate", "revokeNode"},
   bindings |-> BindingOps \cup
     {"compareAndSetProviderBinding", "createNode", "removeNode", "revokeNode"},
   documents |-> {"insertIfAbsent", "put", "compareAndSetVersioned", "delete"}]

MCInit ==
  /\ Init /\ U!Init /\ A!Init
  /\ scope \in DOMAIN Groups \cup {"pair", "crowd", "logs", "tokens"}
  \* The initial states of a model are distinguished in its own scopes only.
  /\ scope \notin {"pair", "crowd"} => row = None /\ table = "segment_jobs"
  /\ scope = "crowd" => row # None /\ row.state = "active" /\ row.live

OfGroup(X) == scope \in DOMAIN Groups /\ X /\ UNCHANGED <<scope, faults, uvars, avars>>
OfRow(X) == scope \in {"pair", "crowd"} /\ X /\ UNCHANGED <<vars, scope, avars>>
OfRecords(X) == scope \in {"logs", "tokens"} /\ X /\ UNCHANGED <<vars, scope, uvars>>

GroupNext ==
  \/ \E c \in Clients :
       \/ /\ c = Extra => scope = "binders"
          /\ \E q \in Requests(c, Groups[scope]) : Begin(c, q)
       \/ Progress(c) \/ Fail(c)
  \/ scope \in {"activity", "logins"} /\ Age

\* Calls of any two operations, with a fault; or three, of which two only update the
\* row and may make the third give up.
Updating == {"transition", "progress", None}
RowNext ==
  /\ U!Next
  /\ call'[k2].at # "idle" => call'[k1].at # "idle"
  /\ scope = "pair" => call'[k3].at = "idle"
  /\ scope = "crowd" => /\ faults' = 0 /\ call'[k3].at # "idle" => call'[k2].at # "idle"
                         /\ {call'[k2].op, call'[k3].op} \subseteq Updating

\* The calls are alike and begin in order.
RecordsNext ==
  IF scope = "logs"
    THEN /\ A!LogNext /\ clock' <= 3
         /\ entry'[k2] # "idle" => entry'[k1] # "idle"
         /\ entry'[k3] # "idle" => entry'[k2] # "idle"
    ELSE A!TokenNext /\ (use'[v2] # "idle" => use'[v1] # "idle")

\* The calls of these models run out.
Over == scope \notin DOMAIN Groups /\ UNCHANGED all

MCNext == OfGroup(GroupNext) \/ OfRow(RowNext) \/ OfRecords(RecordsNext) \/ Over

Symmetry == Permutations(Clients \ {Extra}) \cup Permutations(Users)
            \cup Permutations(Channels)

MCSpec == MCInit /\ [][MCNext]_all

\* See RowUpdates and Records: updates that were answered are part of the row, and each
\* is one step on it; what a call answers was so; what is kept and what is refused.
UpdatesSound ==
  /\ [](/\ scope \in {"pair", "crowd"} => U!TypeOK /\ U!UpdatesKept
        /\ scope \in {"logs", "tokens"} => A!TypeOK /\ A!RecordsSafe)
  /\ U!StepsSound
=============================================================================
