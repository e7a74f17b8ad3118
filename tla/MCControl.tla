----------------------------- MODULE MCControl -----------------------------
(* The control side in one run: signing in (Authentication), the management  *)
(* API (ControlApi), the provider bindings of workers (ProviderBindings),    *)
(* the schema of the database (SchemaMigration), playback links (Playback),  *)
(* the segments that viewers demand (DemandStore) and the pace of their      *)
(* producer (SourcePacing).  A behaviour exercises one of them.              *)
EXTENDS Integers, Sequences, FiniteSets

CONSTANTS None, t1, t2, admin, purge, leaver, cleaner, q1, q2,
          v1, v2, home, e1, timer, k1, k2, k3, w1, w2, Player, EdgeNode, MaxAsks, MaxTries,
          Login, Setter, Request, tokenScopes, Deletion, Migrator, Checker, latest, MetaVersion,
          MaxRevision, MaxFaults, MaxFailures

VARIABLES scope, faults,
          user, sessions, setting, secret, expired, idq, crq, pc, arg, drop, up, unsure,
          passwordHash, setup,
          roles, token, browser, owner, req, applied, audit, reported, entitled,
          row, credential, bind, del, unbind, connected, revoked, given, stray,
          driver, db, lock, at, seen, work, files, file, left,
          grant, session, salt, key, cached, total, old, issued, play, fresh, allowed, served, asks,
          kind, now, time, value, expiresAt, ask, list, said, newest, anchor, swept, jumbled,
          clock, jump, attempts, active, retries, round, waiting, quiet, ended, refreshed, heard,
          fruitless

avars == <<user, sessions, setting, secret, expired, idq, crq, pc, arg, drop, up, unsure,
           passwordHash, setup>>
rvars == <<roles, token, browser, owner, req, applied, audit, reported, entitled>>
bvars == <<row, credential, bind, del, unbind, connected, revoked, given, stray>>
svars == <<driver, db, lock, at, seen, work, files, file, left>>
pvars == <<grant, session, salt, key, cached, total, old, issued, play, fresh, allowed, served,
           asks>>
dvars == <<kind, now, time, value, expiresAt, ask, list, said, newest, anchor, swept, jumbled>>
cvars == <<clock, jump, attempts, active, retries, round, waiting, quiet, ended, refreshed, heard,
           fruitless>>
vars == <<scope, faults, avars, rvars, bvars, svars, pvars, dvars, cvars>>

\* The actors that have fairness are among them, the tasks of signing in are different
\* ones, nobody is called None, one of the builds is the newest, and the timer is no
\* viewer.
ASSUME ControlAssumption ==
  /\ {t1, t2} \subseteq Login /\ {q1, q2} \subseteq Request /\ {"old", "new"} \subseteq Migrator
  /\ {admin, purge, leaver, cleaner} \cap Login = {} /\ admin # purge
  /\ {admin, purge} \cap {leaver, cleaner} = {} /\ leaver # cleaner
  /\ None \notin Migrator /\ latest \in [Migrator \cup Checker -> Nat]
  /\ \E p \in Migrator \cup Checker : \A n \in Migrator \cup Checker : latest[n] <= latest[p]
  /\ {MetaVersion, MaxRevision, MaxFaults, MaxFailures} \subseteq Nat
  /\ {v1, v2} \subseteq Player /\ e1 \in EdgeNode /\ IsFiniteSet(Player)
  /\ timer \notin Player /\ None \notin Player \cup EdgeNode

A == INSTANCE Authentication WITH
       Admin <- admin, Purge <- purge, Logout <- leaver, Cleaner <- cleaner
R == INSTANCE ControlApi
B == INSTANCE ProviderBindings WITH
       secret <- credential, MaxFaults <- MaxFailures
S == INSTANCE SchemaMigration WITH
       pc <- at, MaxFaults <- MaxFailures
P == INSTANCE Playback WITH
       Viewer <- Player, Home <- home, Edge <- EdgeNode, Timer <- timer,
       row <- session, req <- play, entitled <- allowed
D == INSTANCE DemandStore WITH
       Viewer <- {v1, v2}, Recording <- {k1, k2, k3}, Listing <- {timer}, Index <- {1},
       Window <- 2, MaxTime <- 7
C == INSTANCE SourcePacing WITH
       Waiter <- {w1, w2}, Refresher <- timer, Low <- 1, High <- 3, MaximumRate <- 200,
       Segment <- 2, Segments <- 2, Timeout <- 2, RetryMin <- 1, RetryMax <- 2,
       now <- clock, applied <- heard, MaxTime <- 6, MaxAttempts <- 3

\* Two builds that migrate, one before the other, and a worker of the newer one.
MCLatest == [p \in Migrator \cup Checker |-> IF p = "old" THEN 2 ELSE 3]

SignIn == {"race", "fault", "retain", "setup"}
Playing == {"link", "count"}
Scopes == SignIn \cup Playing \cup {"one", "two", "binding", "schema", "demands", "pacing"}

\* The initial states of a model are distinguished in its own scopes only.
Init ==
  /\ scope \in Scopes
  /\ A!Init /\ R!Init /\ B!Init /\ S!Init /\ P!Init /\ D!Init /\ C!Init
  /\ scope = "two" => roles["bob"] # "user" /\ owner["channel"] = "bob"
  /\ scope \notin {"one", "two"} => roles["bob"] = "owner" /\ owner["channel"] = "bob"
  /\ scope # "schema" => driver = "sqlite" /\ db.rows = 0
  /\ scope # "demands" => kind = "valkey"
  /\ IF scope = "count" THEN salt = v1 /\ {cached[n] : n \in P!Node} = {v1} ELSE salt = None

OfAuth(X) == scope \in SignIn /\ X /\ UNCHANGED <<scope, rvars, bvars, svars, pvars, dvars, cvars>>
OfApi(X) == scope \in {"one", "two"} /\ X /\ UNCHANGED <<scope, avars, bvars, svars, pvars, dvars, cvars>>
OfBinding(X) == scope = "binding" /\ X /\ UNCHANGED <<scope, avars, rvars, svars, pvars, dvars, cvars>>
OfSchema(X) == scope = "schema" /\ X /\ UNCHANGED <<scope, avars, rvars, bvars, pvars, dvars, cvars>>
OfPlay(X) == scope \in Playing /\ X /\ UNCHANGED <<scope, avars, rvars, bvars, svars, dvars, cvars>>
OfDemands(X) ==
  scope = "demands" /\ X /\ UNCHANGED <<scope, faults, avars, rvars, bvars, svars, pvars, cvars>>
OfPacing(X) ==
  scope = "pacing" /\ X /\ UNCHANGED <<scope, faults, avars, rvars, bvars, svars, pvars, dvars>>

\* Two logins against an operator; one login with a fault; one login against
\* retention; two first set-ups.
AuthNext ==
  /\ A!Next
  /\ scope # "fault" => faults' = 0
  /\ scope = "race" => pc'[purge] = "idle"
  /\ scope = "fault" => pc'[t2] = "idle" /\ pc'[purge] = "idle"
  /\ scope = "retain" => pc'[t2] = "idle" /\ pc'[leaver] = "idle"
  /\ IF scope = "setup" THEN \A t \in A!Task : pc'[t] = "idle" ELSE UNCHANGED setup

\* One request of any route, with a fault; or one that withdraws a right while
\* another is served.
Serving == {R!getMe, R!getSession, R!deleteSession, R!patchUser, R!deleteCache,
            R!postLiveSession, R!putRuntime, R!deleteToken}
ApiNext ==
  \/ scope = "one" /\ R!Watched(R!Handling(q1))
  \/ scope = "one" /\ R!Watched(R!Crash)
  \/ /\ scope = "one"
     /\ \E route \in R!Route, by \in R!Who, csrf, body \in BOOLEAN :
          R!Watched(R!receive(q1, route, by, csrf, body))
  \/ scope = "two" /\ faults' = 0 /\ \E q \in {q1, q2} : R!Watched(R!Handling(q))
  \/ /\ scope = "two"
     /\ \E route \in R!Withdrawals, by \in R!User :
          R!Watched(R!receive(q1, route, by, TRUE, TRUE))
  \/ /\ scope = "two" /\ req[q1].at # "idle"
     /\ \E route \in Serving, by \in R!Who \ {"recovery"} :
          R!Watched(R!receive(q2, route, by, TRUE, TRUE))

\* Links, for one viewer at home and one at an edge, while the link is revoked and
\* the session stopped or deleted; or viewers that are counted at home by requests
\* and the timer.
PlayNext ==
  /\ P!Next
  /\ scope = "link" => /\ play'[timer] = P!Idle /\ old' = {}
                       /\ (session.state # "idle" => session'.state # "idle")
                       /\ play'[v1] = P!Idle \/ (play'[v1].node = home /\ play'[v1].what = "manifest")
                       /\ play'[v2] = P!Idle \/ (play'[v2].node = e1 /\ play'[v2].what = "segment")
  /\ scope = "count" => /\ session'.state = "idle" /\ grant' /\ old' \subseteq {<<v1, v1>>}
                        /\ \A v \in {v1, v2} : play'[v].node = home /\ play'[v].what = "segment"
                        /\ faults' = 0 /\ asks' <= 2

\* Three requests in quick succession, or two, or one and a long silence; they begin
\* in order, the first of them the first viewer's, the third one no discontinuity.
DemandNext ==
  /\ D!Next
  /\ ask'[k1].viewer # v2 /\ ~ask'[k3].jump
  /\ ask'[k2].at # "idle" => ask'[k1].at # "idle" /\ now' <= 6
  /\ ask'[k3].at # "idle" => ask'[k2].at # "idle" /\ now' <= 5

\* One attempt with two discontinuities, whose requests are held up in turn; or three
\* attempts that publish nothing, without the timer.
PacingNext ==
  /\ C!Next
  /\ attempts = 0 => round'[w2].at = "idle" \/ round'[w1].at = "read"
  /\ IF attempts' <= 1
       THEN /\ jump' # jump => clock \in 2 .. 3 /\ jump'.index = 1
            /\ clock' = 1 \/ (attempts = 1 /\ \E w \in {w1, w2} : round'[w].at = "idle")
            /\ clock' <= 5 /\ (clock' > 3 => round'[w1].at = "idle")
       ELSE /\ jump' = C!NoJump /\ ~refreshed' /\ round'[timer].at = "idle"
            /\ active' # None => active'.head = None

Next == OfAuth(AuthNext) \/ OfApi(ApiNext) \/ OfBinding(B!Next) \/ OfSchema(S!Next) \/ OfPlay(PlayNext)
        \/ OfDemands(DemandNext) \/ OfPacing(PacingNext)

\* Continuations and timers run; a migrator that is not killed goes on.  (The
\* models have no scope in common, so that a conjunct may stand for two of them.)
Fairness ==
  /\ WF_vars(OfAuth(A!Signing(t1)) \/ OfSchema(S!Migrating("old"))
              \/ OfPlay(P!Watched(P!Serving(v1))))
  /\ WF_vars(OfAuth(A!Signing(t2)) \/ OfSchema(S!Migrating("new"))
              \/ OfPlay(P!Watched(P!Serving(v2))))
  /\ \A t \in {admin, purge} : WF_vars(OfAuth(A!Deleting(t)))
  /\ WF_vars(OfAuth(A!LoggingOut)) /\ WF_vars(OfAuth(A!Cleaning) \/ OfPlay(P!Watched(P!Correcting)))

Spec == Init /\ [][Next]_vars /\ Fairness

\* See Authentication: credentials are found again, sessions have theirs, a
\* deleted user is signed out, one set-up wins.  See ProviderBindings: a worker's
\* credential and its row.
CredentialsSafe ==
  /\ scope \in SignIn => A!TypeOK /\ A!CredentialsSafe
  /\ scope = "binding" => B!TypeOK /\ B!BindingsMatch
\* See ControlApi: effects are permitted ones, and the audit log says what happened.
EffectsAuthorized ==
  scope \in {"one", "two"} => R!TypeOK /\ R!EffectsAuthorized /\ R!AuditKept
\* See SchemaMigration: the history, the backups and what is served.
SchemaSound == scope = "schema" => S!TypeOK /\ S!SchemaSound
\* See Playback: who plays was permitted to; one salt, one key.  See DemandStore:
\* demands stay as long as they count, and listings tell the truth.  See SourcePacing:
\* attempts end for a reason, and others follow them in time.
PlaybackSafe ==
  /\ scope \in Playing => P!TypeOK /\ P!PlaybackSafe
  /\ scope = "demands" => D!TypeOK /\ D!DemandsSafe
  /\ scope = "pacing" => C!TypeOK /\ C!PacingSafe
\* What is begun ends: an unused credential is deleted, a deletion gets its turn
\* in the chain, and a migration gives the lock back (CredentialsCollected,
\* MigrationEnds, each for one of those that are alike); the count of viewers comes
\* right (see Playback).
Completes ==
  /\ t1 \in setting \ sessions \/ lock = "old" ~> t1 \notin setting \ sessions /\ lock # "old"
  /\ A!Waits(idq, admin) ~> ~A!Waits(idq, admin)
  /\ P!ViewersSettle

=============================================================================
