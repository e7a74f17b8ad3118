------------------------------- MODULE Records -------------------------------
(***************************************************************************)
(* Tables that are written by single statements of postgres-repository.ts, *)
(* outside any transaction: the log of a node or a job, of which only the  *)
(* newest rows are kept, and a personal access token, whose use and        *)
(* revocation meet.                                                        *)
(***************************************************************************)
EXTENDS Integers, FiniteSets

CONSTANTS Put,        \* calls of putAgentLog or putJobLog for one node or job
          Use,        \* requests that bring the token
          Retention,  \* retentionRows
          Interval,   \* of touches, 60 seconds
          MaxTime,    \* bound of the clock
          MaxFaults   \* bound: connections that break

VARIABLES now,
          logs, stamp, entry, doomed,  \* doomed: the rows that a DELETE has selected
          token, use, usedAt, revoking,
          closed,                    \* requests that began after the revocation was answered
          faults

logging == <<logs, stamp, entry, doomed>>
tokens == <<token, use, usedAt, revoking, closed>>
vars == <<now, logging, tokens, faults>>

Init ==
  /\ now = 1 /\ faults = 0
  /\ logs = {} /\ stamp = [p \in Put |-> 0]
  /\ entry = [p \in Put |-> "idle"] /\ doomed = [p \in Put |-> {}]
  /\ token = [revoked |-> FALSE, lastUsedAt |-> 0, expiresAt |-> MaxTime]
  /\ use = [u \in Use |-> "idle"] /\ usedAt = [u \in Use |-> 0]
  /\ revoking = "idle" /\ closed = {}

TimePasses ==
  /\ now < MaxTime /\ now' = now + 1
  /\ UNCHANGED <<logging, tokens, faults>>

-----------------------------------------------------------------------------
(* Logs.  A row is named by the call that put it.                            *)

\* recordLog of ClusterService, #recordJobLog: the entry has its time before it is
\* stored.
recordLog(p) ==
  /\ entry[p] = "idle"
  /\ entry' = [entry EXCEPT ![p] = "insert"] /\ stamp' = [stamp EXCEPT ![p] = now]
  /\ UNCHANGED <<now, logs, doomed, tokens, faults>>

insertLog(p) ==
  /\ entry[p] = "insert"
  /\ logs' = logs \cup {p} /\ entry' = [entry EXCEPT ![p] = "select"]
  /\ UNCHANGED <<now, stamp, doomed, tokens, faults>>

\* The rows that a LIMIT keeps: of those with equal times any.
Newest(S) ==
  {K \in SUBSET S : /\ Cardinality(K) = (IF Cardinality(S) < Retention THEN Cardinality(S) ELSE Retention)
                    /\ \A k \in K, s \in S \ K : stamp[k] >= stamp[s]}

\* DELETE ... WHERE id NOT IN (SELECT ... LIMIT): the rows are selected when the
\* statement begins, and others may be inserted or deleted until it is done.
selectOld(p) ==
  /\ entry[p] = "select"
  /\ \E K \in Newest(logs) : doomed' = [doomed EXCEPT ![p] = logs \ K]
  /\ entry' = [entry EXCEPT ![p] = "delete"]
  /\ UNCHANGED <<now, logs, stamp, tokens, faults>>
deleteOld(p) ==
  /\ entry[p] = "delete"
  /\ logs' = logs \ doomed[p]
  /\ entry' = [entry EXCEPT ![p] = "done"] /\ doomed' = [doomed EXCEPT ![p] = {}]
  /\ UNCHANGED <<now, stamp, tokens, faults>>

\* #recordJobLog goes on without the entry, recordLog fails.
putFails(p) ==
  /\ entry[p] \in {"insert", "select", "delete"} /\ faults < MaxFaults /\ faults' = faults + 1
  /\ entry' = [entry EXCEPT ![p] = "broken"] /\ doomed' = [doomed EXCEPT ![p] = {}]
  /\ UNCHANGED <<now, logs, stamp, tokens>>

-----------------------------------------------------------------------------
(* The token.                                                              *)

Usable(t, at) == ~t.revoked /\ t.expiresAt > at

\* authenticate: the time is taken before the statement is sent.
authenticate(u) ==
  /\ use[u] = "idle"
  /\ use' = [use EXCEPT ![u] = "sent"] /\ usedAt' = [usedAt EXCEPT ![u] = now]
  /\ closed' = (IF revoking = "answered" THEN closed \cup {u} ELSE closed)
  /\ UNCHANGED <<now, logging, token, revoking, faults>>

\* usePersonalToken: the UPDATE finds the row, and looks at it again when it has
\* its lock.
find(u) ==
  /\ use[u] = "sent"
  /\ use' = [use EXCEPT ![u] = IF Usable(token, usedAt[u]) THEN "found" ELSE "refused"]
  /\ UNCHANGED <<now, logging, token, usedAt, revoking, closed, faults>>
usePersonalToken(u) ==
  /\ use[u] = "found"
  /\ IF Usable(token, usedAt[u])
       THEN /\ use' = [use EXCEPT ![u] = "admitted"]
            /\ token' = [token EXCEPT !.lastUsedAt = IF @ <= usedAt[u] - Interval \/ @ = 0
                                                     THEN usedAt[u] ELSE @]
       ELSE use' = [use EXCEPT ![u] = "refused"] /\ UNCHANGED token
  /\ UNCHANGED <<now, logging, usedAt, revoking, closed, faults>>

revokePersonalToken ==
  /\ \/ revoking = "idle" /\ revoking' = "sent" /\ UNCHANGED token
     \/ revoking = "sent" /\ revoking' = "stored" /\ token' = [token EXCEPT !.revoked = TRUE]
     \/ revoking = "stored" /\ revoking' = "answered" /\ UNCHANGED token
  /\ UNCHANGED <<now, logging, use, usedAt, closed, faults>>

-----------------------------------------------------------------------------
LogNext ==
  \/ TimePasses
  \/ \E p \in Put : recordLog(p) \/ insertLog(p) \/ selectOld(p) \/ deleteOld(p) \/ putFails(p)
TokenNext ==
  \/ TimePasses \/ revokePersonalToken
  \/ \E u \in Use : authenticate(u) \/ find(u) \/ usePersonalToken(u)

Next == LogNext \/ TokenNext

Spec == Init /\ [][Next]_vars

-----------------------------------------------------------------------------
TypeOK ==
  /\ now \in 1 .. MaxTime /\ logs \subseteq Put /\ stamp \in [Put -> 0 .. MaxTime]
  /\ entry \in [Put -> {"idle", "insert", "select", "delete", "done", "broken"}]
  /\ doomed \in [Put -> SUBSET Put]
  /\ use \in [Use -> {"idle", "sent", "found", "admitted", "refused"}]

\* putAgentLog, putJobLog: whatever calls overlap, the table grows beyond the
\* retention only by the rows of calls that have not finished, and a row that is
\* gone made place for as many that are not older.
LogsTrimmed ==
  LET open == {p \in logs : entry[p] \in {"select", "delete", "broken"}}
      gone == {p \in Put : entry[p] # "idle" /\ entry[p] # "insert" /\ p \notin logs} IN
  /\ Cardinality(logs) <= Retention + Cardinality(open)
  /\ \A p \in gone : entry[p] # "broken" =>
       Cardinality({q \in Put \ {p} : entry[q] \notin {"idle", "insert"} /\ stamp[q] >= stamp[p]}) >= Retention

\* usePersonalToken: no request that begins after a revocation was answered is
\* admitted, nor one at whose time the token had expired.
RevokedRefused ==
  \A u \in Use : use[u] = "admitted" => u \notin closed /\ usedAt[u] < token.expiresAt

\* The time of the last use is never further behind a use than the interval.
LastUseTrue ==
  \A u \in Use : use[u] = "admitted" =>
    token.lastUsedAt > usedAt[u] - Interval /\ token.lastUsedAt <= now

RecordsSafe == LogsTrimmed /\ RevokedRefused /\ LastUseTrue
=============================================================================
