--------------------------- MODULE Authentication ---------------------------
(* Signing in and out of one user of the dashboard (auth.ts).  A login       *)
(* leaves a setting that indexes the provider's access token, the token      *)
(* itself in the secret store, and a session in memory.  Two promise chains  *)
(* serialise the operations: one for the user (#identityOperations), one for *)
(* all credentials (#credentialOperationTail).  A task is one call; it holds *)
(* a chain while it is at its head.  Every store may fail, before or after   *)
(* it has applied a write, and the process may crash.                        *)
EXTENDS Integers, Sequences, FiniteSets

CONSTANTS Login,                 \* the calls of login, each named by its token
          Admin, Purge,          \* deletions of the user: by an operator, by retention
          Logout, Cleaner,       \* logout, and cleanup or recover
          Setter,                \* the calls of initialize
          MaxRevision, MaxFaults

Task == Login \cup {Admin, Purge, Logout, Cleaner}
Deleter == {Admin, Purge}

VARIABLES user,       \* the identity row: revision (0: none), last seen lately
          sessions, setting, secret, expired,     \* sets of tokens
          idq, crq,   \* the two chains
          pc, arg,    \* where a task is, the revision it read or the token it is about
          drop,       \* per task and token: what deletePersistedBrowserCredential still deletes
          up,         \* the process is past recover
          unsure,     \* a deletion of the row was applied and reported as failed
          passwordHash, setup, faults

vars == <<user, sessions, setting, secret, expired, idq, crq, pc, arg, drop, up, unsure,
          passwordHash, setup, faults>>
stores == <<user, sessions, setting, secret, expired>>
rest == <<up, unsure, passwordHash, setup>>

Stages == {"nothing", "secret", "setting"}
Nothing == [k \in Login |-> "nothing"]
Dropping(t) == {k \in Login : drop[t][k] # "nothing"}

TypeOK ==
  /\ user \in [rev : 0 .. MaxRevision, seen : BOOLEAN]
  /\ {sessions, setting, secret, expired} \subseteq SUBSET Login
  /\ idq \in Seq(Login \cup Deleter) /\ crq \in Seq(Task)
  /\ pc \in [Task -> {"idle", "identity", "refresh", "queued", "secret", "undo", "done",
                      "listed", "delete", "signout", "drop", "list"}]
  /\ drop \in [Task -> [Login -> Stages]]
  /\ {up, unsure, passwordHash} \subseteq BOOLEAN /\ faults \in 0 .. MaxFaults

Init ==
  /\ user = [rev |-> 0, seen |-> FALSE]
  /\ sessions = {} /\ setting = {} /\ secret = {} /\ expired = {}
  /\ idq = <<>> /\ crq = <<>>
  /\ pc = [t \in Task |-> "idle"] /\ arg = [t \in Task |-> 0]
  /\ drop = [t \in Task |-> Nothing]
  /\ up = TRUE /\ unsure = FALSE /\ passwordHash = FALSE /\ setup = [s \in Setter |-> "idle"] /\ faults = 0

Goto(t, l) == pc' = [pc EXCEPT ![t] = l]
Holds(q, t) == q # <<>> /\ Head(q) = t
Leave(q, t) == IF Holds(q, t) THEN Tail(q) ELSE q
Fault == faults < MaxFaults /\ faults' = faults + 1
Healthy == UNCHANGED faults

\* The task ends: both of its chains go on.
End(t, l) ==
  /\ Goto(t, l) /\ arg' = [arg EXCEPT ![t] = 0]
  /\ idq' = Leave(idq, t) /\ crq' = Leave(crq, t)

----------------------------------------------------------------------------
(* Login: the provider has accepted the password.                            *)

login(k) ==
  /\ up /\ pc[k] = "idle"
  /\ Goto(k, "identity") /\ idq' = Append(idq, k)
  /\ UNCHANGED <<stores, crq, arg, drop, rest, faults>>

readIdentity(k) ==
  /\ pc[k] = "identity" /\ Holds(idq, k)
  /\ arg' = [arg EXCEPT ![k] = user.rev] /\ Goto(k, "refresh")
  /\ UNCHANGED <<stores, idq, crq, drop, rest, faults>>

\* Refreshed: on to the credentials.
EnterCredentials(k, l) == Goto(k, l) /\ crq' = Append(crq, k)

\* One turn of the loop: create the row, or compare and set it; a creation that
\* fails reads the row again.
refreshIdentityAfterLogin(k) ==
  /\ pc[k] = "refresh" /\ user.rev < MaxRevision
  /\ \/ /\ arg[k] = user.rev /\ Healthy
        /\ user' = [rev |-> user.rev + 1, seen |-> TRUE]
        /\ EnterCredentials(k, "queued") /\ UNCHANGED arg
     \/ /\ arg[k] # user.rev /\ Healthy
        /\ arg' = [arg EXCEPT ![k] = user.rev] /\ UNCHANGED <<user, pc, crq>>
     \/ /\ arg[k] = 0 /\ user.rev = 0 /\ Fault
        /\ user' = [rev |-> 1, seen |-> TRUE]
        /\ arg' = [arg EXCEPT ![k] = 1] /\ UNCHANGED <<pc, crq>>
  /\ UNCHANGED <<sessions, setting, secret, expired, idq, drop, rest>>

\* A write that fails, applied or not, makes the login delete what it stored.
Undo(k) == Goto(k, "undo") /\ drop' = [drop EXCEPT ![k][k] = "secret"]

putSetting(k) ==
  /\ pc[k] = "queued" /\ Holds(crq, k)
  /\ \/ Healthy /\ setting' = setting \cup {k} /\ Goto(k, "secret") /\ UNCHANGED drop
     \/ Fault /\ setting' \in {setting, setting \cup {k}} /\ Undo(k)
  /\ UNCHANGED <<user, sessions, secret, expired, idq, crq, arg, rest>>

putSecret(k) ==
  /\ pc[k] = "secret"
  /\ \/ /\ Healthy /\ secret' = secret \cup {k} /\ sessions' = sessions \cup {k}
        /\ End(k, "done") /\ UNCHANGED drop
     \/ /\ Fault /\ secret' \in {secret, secret \cup {k}} /\ Undo(k)
        /\ UNCHANGED <<sessions, idq, crq, arg>>
  /\ UNCHANGED <<user, setting, expired, rest>>

undone(k) ==
  /\ pc[k] = "undo" /\ Dropping(k) = {}
  /\ End(k, "done") /\ UNCHANGED <<stores, drop, rest, faults>>

----------------------------------------------------------------------------
(* deletePersistedBrowserCredential: the secret, then its setting.           *)

\* Only the deletion of a user deletes several credentials side by side.
InTurn(t, k) == t \in Deleter \/ \A j \in Login \ {k} : drop[t][j] # "setting"

\* A failure is swallowed, except that the deletion of a user and recover
\* give up; what the deletion of a user has begun goes on.
Dropped(t, k, failed) ==
  /\ drop' = [drop EXCEPT ![t] = IF failed /\ t = Cleaner /\ ~up THEN Nothing
                                 ELSE [drop[t] EXCEPT ![k] = IF drop[t][k] = "secret" /\ ~failed
                                                             THEN "setting" ELSE "nothing"]]
  /\ IF failed /\ t \in Deleter /\ pc[t] = "drop"
     THEN End(t, "idle") ELSE UNCHANGED <<pc, idq, crq, arg>>

deletePersistedBrowserCredential(t, k) ==
  /\ drop[t][k] # "nothing" /\ InTurn(t, k)
  /\ \/ /\ Healthy /\ Dropped(t, k, FALSE)
        /\ IF drop[t][k] = "secret" THEN secret' = secret \ {k} /\ UNCHANGED setting
                                    ELSE setting' = setting \ {k} /\ UNCHANGED secret
     \/ Fault /\ Dropped(t, k, TRUE) /\ UNCHANGED <<secret, setting>>
  /\ UNCHANGED <<user, sessions, expired, rest>>

----------------------------------------------------------------------------
(* Logout of a signed-in browser.                                            *)

logout(k) ==
  /\ up /\ pc[Logout] = "idle" /\ k \in sessions
  /\ EnterCredentials(Logout, "queued") /\ arg' = [arg EXCEPT ![Logout] = k]
  /\ UNCHANGED <<stores, idq, drop, rest, faults>>

logoutSession ==
  LET k == arg[Logout] IN
  /\ pc[Logout] = "queued" /\ Holds(crq, Logout)
  /\ sessions' = sessions \ {k} /\ Goto(Logout, "drop")
  /\ drop' = [drop EXCEPT ![Logout][k] = IF k \in sessions THEN "secret" ELSE "nothing"]
  /\ UNCHANGED <<user, setting, secret, expired, idq, crq, arg, rest, faults>>

\* A task with nothing left to delete ends.
dropDone(t) ==
  /\ pc[t] = "drop" /\ Dropping(t) = {}
  /\ IF t = Cleaner THEN Goto(t, "list") /\ UNCHANGED <<idq, crq, arg>> ELSE End(t, "idle")
  /\ UNCHANGED <<stores, drop, rest, faults>>

----------------------------------------------------------------------------
(* Deleting the user: an operator names the revision of the list he saw,     *)
(* retention the users not seen lately that have no session.                 *)

hasActiveBrowserSession == sessions \ expired # {}

listUsers(t) ==
  /\ up /\ pc[t] = "idle" /\ Dropping(t) = {} /\ user.rev # 0
  /\ t = Purge => ~user.seen /\ ~hasActiveBrowserSession
  /\ arg' = [arg EXCEPT ![t] = user.rev] /\ Goto(t, "listed")
  /\ UNCHANGED <<stores, idq, crq, drop, rest, faults>>

MutantDeleteUser(t) ==
  /\ pc[t] = "listed"
  /\ Goto(t, "delete")
  /\ UNCHANGED <<stores, idq, crq, arg, drop, rest, faults>>

deleteUser(t) ==
  /\ pc[t] = "listed"
  /\ Goto(t, "identity") /\ idq' = Append(idq, t)
  /\ UNCHANGED <<stores, crq, arg, drop, rest, faults>>

deleteUserChecked(t) ==
  /\ pc[t] = "identity" /\ Holds(idq, t)
  /\ IF t = Purge /\ hasActiveBrowserSession
     THEN End(t, "idle") ELSE Goto(t, "delete") /\ UNCHANGED <<idq, crq, arg>>
  /\ UNCHANGED <<stores, drop, rest, faults>>

\* The repository refuses another revision, a user seen lately, the last owner
\* and a user who owns something.
deleteUserIdentity(t) ==
  /\ pc[t] = "delete"
  /\ \/ End(t, "idle") /\ UNCHANGED <<user, unsure, faults>>
     \/ /\ user.rev = arg[t] /\ (t = Purge => ~user.seen)
        /\ user' = [rev |-> 0, seen |-> FALSE]
        /\ \/ Healthy /\ EnterCredentials(t, "signout") /\ UNCHANGED <<idq, arg, unsure>>
           \/ Fault /\ End(t, "idle") /\ unsure' = TRUE
  /\ UNCHANGED <<sessions, setting, secret, expired, drop, up, passwordHash, setup>>

signOutUser(t) ==
  /\ pc[t] = "signout" /\ Holds(crq, t)
  /\ sessions' = {}
  /\ \/ /\ Healthy /\ Goto(t, "drop") /\ UNCHANGED <<idq, crq, arg>>
        /\ drop' = [drop EXCEPT ![t] = [k \in Login |-> IF k \in setting \cup sessions
                                                        THEN "secret" ELSE "nothing"]]
     \/ Fault /\ End(t, "idle") /\ UNCHANGED drop
  /\ UNCHANGED <<user, setting, secret, expired, rest>>

\* An operator changes the roles or the profiles of the user.
updateUser ==
  /\ up /\ user.rev \in 1 .. MaxRevision - 2
  /\ user' = [user EXCEPT !.rev = @ + 1]
  /\ UNCHANGED <<sessions, setting, secret, expired, idq, crq, pc, arg, drop, rest, faults>>

----------------------------------------------------------------------------
(* The minute timer: expired sessions, then settings that no session needs.  *)

cleanup ==
  /\ up /\ pc[Cleaner] = "idle" /\ (sessions \cap expired # {} \/ setting \ sessions # {})
  /\ EnterCredentials(Cleaner, "queued")
  /\ UNCHANGED <<stores, idq, arg, drop, rest, faults>>

\* The code goes on to the next session when the credential of one is gone; here all
\* that have expired are forgotten first.
cleanupExpired ==
  /\ pc[Cleaner] = "queued" /\ Holds(crq, Cleaner)
  /\ sessions' = sessions \ expired /\ Goto(Cleaner, "drop")
  /\ drop' = [drop EXCEPT ![Cleaner] = [k \in Login |-> IF k \in sessions \cap expired
                                                        THEN "secret" ELSE "nothing"]]
  /\ UNCHANGED <<user, setting, secret, expired, idq, crq, arg, rest, faults>>

MutantCleanupPersisted ==
  /\ pc[Cleaner] = "list" /\ End(Cleaner, "idle")
  /\ UNCHANGED <<stores, drop, rest, faults>>

\* The settings of no session, unless listing them fails.
cleanupPersisted ==
  /\ pc[Cleaner] = "list"
  /\ \/ /\ Healthy /\ Goto(Cleaner, "undo") /\ UNCHANGED <<idq, crq, arg>>
        /\ drop' = [drop EXCEPT ![Cleaner] = [k \in Login |-> IF k \in setting \ sessions
                                                              THEN "secret" ELSE "nothing"]]
     \/ Fault /\ End(Cleaner, "idle") /\ UNCHANGED drop
  /\ UNCHANGED <<stores, rest>>

cleanupDone ==
  /\ up /\ pc[Cleaner] = "undo" /\ Dropping(Cleaner) = {}
  /\ End(Cleaner, "idle") /\ UNCHANGED <<stores, drop, rest, faults>>

\* Start-up: delete every persisted credential, or do not start.
recover ==
  /\ ~up /\ Dropping(Cleaner) = {}
  /\ IF setting = {} THEN up' = TRUE /\ UNCHANGED drop
     ELSE /\ drop' = [drop EXCEPT ![Cleaner] = [k \in Login |-> IF k \in setting
                                                                THEN "secret" ELSE "nothing"]]
          /\ UNCHANGED up
  /\ UNCHANGED <<stores, idq, crq, pc, arg, unsure, passwordHash, setup, faults>>

----------------------------------------------------------------------------
(* First set-up, time and crashes.                                           *)

initialize(s) ==
  /\ up
  /\ \/ setup[s] = "idle" /\ ~passwordHash /\ setup' = [setup EXCEPT ![s] = "hash"]
        /\ UNCHANGED passwordHash
     \/ setup[s] = "hash" /\ passwordHash' = TRUE
        /\ setup' = [setup EXCEPT ![s] = IF passwordHash THEN "refused" ELSE "owner"]
  /\ UNCHANGED <<stores, idq, crq, pc, arg, drop, up, unsure, faults>>

SessionExpires(k) ==
  /\ k \in sessions \ expired /\ expired' = expired \cup {k}
  /\ UNCHANGED <<user, sessions, setting, secret, idq, crq, pc, arg, drop, rest, faults>>

\* Retention counts days, a session lasts twelve hours.
UserNotSeenLately ==
  /\ user.seen /\ ~hasActiveBrowserSession /\ \A k \in Login : pc[k] \in {"idle", "done"}
  /\ user' = [user EXCEPT !.seen = FALSE]
  /\ UNCHANGED <<sessions, setting, secret, expired, idq, crq, pc, arg, drop, rest, faults>>

Crash ==
  /\ Fault /\ up' = FALSE /\ sessions' = {} /\ idq' = <<>> /\ crq' = <<>>
  /\ pc' = [t \in Task |-> IF t \in Login /\ pc[t] # "idle" THEN "done" ELSE "idle"]
  /\ drop' = [t \in Task |-> Nothing]
  /\ setup' = [s \in Setter |-> IF setup[s] = "hash" THEN "refused" ELSE setup[s]]
  /\ arg' = [t \in Task |-> 0]
  /\ UNCHANGED <<user, setting, secret, expired, unsure, passwordHash>>

Dropper(t) == \E k \in Login : deletePersistedBrowserCredential(t, k)
Signing(k) == readIdentity(k) \/ refreshIdentityAfterLogin(k) \/ putSetting(k) \/ putSecret(k)
              \/ undone(k) \/ Dropper(k)
Deleting(t) == deleteUser(t) \/ deleteUserChecked(t) \/ deleteUserIdentity(t) \/ signOutUser(t)
               \/ dropDone(t) \/ Dropper(t)
LoggingOut == logoutSession \/ dropDone(Logout) \/ Dropper(Logout)
Cleaning == cleanup \/ cleanupExpired \/ dropDone(Cleaner) \/ cleanupPersisted \/ cleanupDone
            \/ recover \/ Dropper(Cleaner)

Next ==
  \/ \E k \in Login : login(k) \/ Signing(k) \/ logout(k) \/ SessionExpires(k)
  \/ \E t \in Deleter : listUsers(t) \/ Deleting(t)
  \/ LoggingOut \/ Cleaning \/ updateUser \/ UserNotSeenLately \/ Crash
  \/ \E s \in Setter : initialize(s)

Fairness ==
  /\ \A k \in Login : WF_vars(Signing(k))
  /\ \A t \in Deleter : WF_vars(Deleting(t))
  /\ WF_vars(LoggingOut) /\ WF_vars(Cleaning)

Spec == Init /\ [][Next]_vars /\ Fairness

----------------------------------------------------------------------------

\* A provider's access token is never left in the secret store without the
\* setting by which cleanup and recover find it (putSetting before put, delete
\* before deleteSetting), whatever fails.
SecretsIndexed == secret \subseteq setting

\* A session that authenticates has its credential: nothing deletes the
\* credential of a session that stays (the chain of #withCredentialOperation).
SessionsBacked == sessions \subseteq secret \cap setting

\* Once a user is gone and no operation on it is under way, none of its
\* browsers is signed in; a deletion whose answer was lost cannot promise it.
SignedOut == user.rev = 0 /\ idq = <<>> /\ ~unsure => sessions = {}

\* Only one of several first set-ups chooses the password.
SetupOnce == Cardinality({s \in Setter : setup[s] = "owner"}) <= 1

\* The four promises of signing in.
CredentialsSafe == SecretsIndexed /\ SessionsBacked /\ SignedOut /\ SetupOnce

Waits(q, t) == \E i \in 1 .. Len(q) : q[i] = t

\* A credential that no session uses is deleted in the end, and every call that
\* waits in a chain gets its turn.
CredentialsCollected ==
  /\ \A k \in Login : (k \in setting) ~> (k \notin setting \/ k \in sessions)
  /\ \A t \in Login \cup Deleter : Waits(idq, t) ~> ~Waits(idq, t)
=============================================================================
