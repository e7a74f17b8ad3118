----------------------------- MODULE ControlApi -----------------------------
(* The management API of the controller (server.ts): who may do what, and    *)
(* what the audit log says of it.  A route is a record; every request goes   *)
(* the same way: authenticate, CSRF, the checks of its handler, and, on an   *)
(* audited route, attempt record, operation, outcome record                  *)
(* (audited-operation.ts).  What the operations do to roles, tokens, browser *)
(* sessions and owned things is modelled; their other effects are the other  *)
(* modules' subject.  Requests interleave at every await, the stores may     *)
(* fail before or after they have applied a write, the process may crash.    *)
(* Rights are withdrawn and never given: that is what the promise is about,  *)
(* and why reading a browser session and then its user can be one step.      *)
EXTENDS Integers, Sequences, FiniteSets

CONSTANTS Request,
          tokenScopes,     \* the scopes of the one personal token
          MaxFaults

VARIABLES roles,       \* the role of each user's row, "none" when deleted
          token,       \* the personal token is not revoked
          browser,     \* who has a browser session
          owner,       \* the owner of the session and of the channel, "nobody" if gone
          req,         \* what each request is about and where it is
          applied,     \* requests whose operation had its effect
          audit,       \* per request: the records the log holds
          reported,    \* requests with an audit write reported as failed
          entitled,    \* requests that were permitted at some time since they came
          faults

vars == <<roles, token, browser, owner, req, applied, audit, reported, entitled, faults>>
world == <<roles, token, browser, owner>>

User == {"alice", "bob"}
Who == User \cup {"recovery", "token"}
Thing == {"session", "channel"}

----------------------------------------------------------------------------
(* The routes: the scope, whether a CSRF token is needed, whether only an    *)
(* owner may call it, whether it needs a Jellyfin sign-in, the thing whose   *)
(* owner is compared, where the body is parsed, whether it is audited, and   *)
(* the effect.  A list is filtered to the things of the caller unless he     *)
(* sees all of them.                                                         *)

Read(s) == [scope |-> s, csrf |-> FALSE, owners |-> FALSE, thing |-> "no",
            delegated |-> FALSE, parse |-> "no", audited |-> FALSE, op |-> "read"]
Change(s, o) == [Read(s) EXCEPT !.csrf = TRUE, !.op = o]
OwnersOnly(r) == [r EXCEPT !.owners = TRUE]
Delegated(r) == [r EXCEPT !.delegated = TRUE]
Of(thing, r) == [r EXCEPT !.thing = thing]
Parsed(r) == [r EXCEPT !.parse = "before"]
Audited(r) == [r EXCEPT !.audited = TRUE]
ParsedInside(r) == [r EXCEPT !.parse = "inside", !.audited = TRUE]

getMe == Read("any")
postLogout == Change("any", "logout")
getSignInConfiguration == Read("admin")
putSignInConfiguration == Parsed(Change("admin", "change"))
getRetention == Read("admin")
putRetention == Audited(Parsed(Change("admin", "change")))
getCatalog == Delegated(Parsed(Read("catalog:read")))
getCatalogItem == Delegated(Read("catalog:read"))
getCatalogImage == Delegated(Read("catalog:read"))
getCatalogProfiles == Delegated(Read("sessions:read"))
getUsers == OwnersOnly(Read("admin"))
patchUser == Audited(Parsed(OwnersOnly(Change("admin", "demote"))))
deleteUser == Audited(Parsed(OwnersOnly(Change("admin", "deleteUser"))))
getProviders == Read("catalog:read")
postProvider == Parsed(Change("admin", "change"))
postProviderValidate == Change("admin", "read")
deleteProvider == Change("admin", "change")
getProviderCatalog == Parsed(Read("catalog:read"))
getProviderItem == Read("catalog:read")
getProfiles == Read("sessions:read")
postProfile == Parsed(Change("admin", "change"))
putProfile == Parsed(Change("admin", "change"))
deleteProfile == Change("admin", "change")
getCapabilities == Read("sessions:read")
getRuntime == Read("admin")
postRuntimeValidate == Parsed(Change("admin", "read"))
putRuntime == ParsedInside(Change("admin", "change"))
postRestart == Audited(Change("admin", "change"))
getNodes == Read("sessions:read")
postJoinToken == ParsedInside(Change("admin", "change"))
postEnroll == [ParsedInside(Read("none")) EXCEPT !.op = "change"]
postDrain == Audited(Parsed(Change("admin", "change")))
postRotate == Audited(Parsed(Change("admin", "change")))
postRevokeNode == Audited(Change("admin", "change"))
getNodeLogs == Parsed(Read("admin"))
deleteNode == Audited(Change("admin", "change"))
postPlacementPreview == ParsedInside(Read("sessions:create"))
getBindings == Read("admin")
postBinding == ParsedInside(Change("admin", "change"))
deleteBinding == Audited(Parsed(Change("admin", "change")))
getSessions == Read("sessions:read")
getSession == Of("session", Read("sessions:read"))
getProducers == Read("admin")
getProducer == Of("session", Read("sessions:read"))
postSession == ParsedInside(Change("sessions:create", "create"))
postLiveSession == [postSession EXCEPT !.op = "createLive"]
deleteSession == Audited(Of("session", Change("sessions:control", "delete")))
patchSession == ParsedInside(Of("session", Change("sessions:control", "change")))
getChannels == Read("sessions:read")
postChannel == Parsed(Change("sessions:create", "change"))
postReplacement == Of("channel", Change("sessions:control", "change"))
deleteChannel == Of("channel", Change("sessions:control", "delete"))
getCompatibility == Read("sessions:read")
postCompatibility == Parsed(Change("admin", "change"))
postToken == ParsedInside(Change("admin", "change"))
getTokens == Read("admin")
deleteToken == Audited(Change("admin", "revoke"))
getRecentEvents == Read("sessions:read")
getJobs == Read("sessions:read")
deleteJob == Change("sessions:control", "change")
postRetry == Change("sessions:control", "change")
getJobLogs == Parsed(Read("sessions:read"))
getBackends == Read("admin")
postBackendValidate == Parsed(Change("admin", "read"))
postBackendActivate == ParsedInside(Change("admin", "change"))
getCache == Parsed(Read("sessions:read"))
deleteCache == Parsed(Change("sessions:control", "change"))
getEvents == Read("sessions:read")

\* The routes that take authority away, and all of them.
Withdrawals == {postLogout, patchUser, deleteUser, deleteToken, deleteSession, deleteChannel}
Route ==
  {getMe, postLogout, getSignInConfiguration, putSignInConfiguration, getRetention, putRetention,
   getCatalog, getCatalogItem, getCatalogImage, getCatalogProfiles, getUsers, patchUser,
   deleteUser, getProviders, postProvider, postProviderValidate, deleteProvider,
   getProviderCatalog, getProviderItem, getProfiles, postProfile, putProfile, deleteProfile,
   getCapabilities, getRuntime, postRuntimeValidate, putRuntime, postRestart, getNodes,
   postJoinToken, postEnroll, postDrain, postRotate, postRevokeNode, getNodeLogs, deleteNode,
   postPlacementPreview, getBindings, postBinding, deleteBinding, getSessions, getSession, getProducers,
   getProducer, postSession, postLiveSession, deleteSession, patchSession, getChannels, postChannel, postReplacement,
   deleteChannel, getCompatibility, postCompatibility, postToken, getTokens, deleteToken,
   getRecentEvents, getJobs, deleteJob, postRetry, getJobLogs, getBackends,
   postBackendValidate, postBackendActivate, getCache, deleteCache, getEvents}

----------------------------------------------------------------------------

Idle == [at |-> "idle", route |-> getMe, by |-> "recovery", csrf |-> FALSE, body |-> FALSE,
         role |-> "none", ok |-> FALSE]

TypeOK ==
  /\ roles \in [User -> {"owner", "operator", "user", "none"}]
  /\ token \in BOOLEAN /\ browser \subseteq User \cup {"recovery"}
  /\ owner \in [Thing -> User \cup {"nobody"}]
  /\ \A r \in Request : req[r].at \in {"idle", "auth", "owner", "attempt", "operate",
                                       "outcome", "done", "lost"}
  /\ audit \in [Request -> Seq({"attempt", "success", "failure"})]
  /\ {applied, reported, entitled} \subseteq SUBSET Request /\ faults \in 0 .. MaxFaults

\* Alice owns the relay and one thing, Bob may own it too, and the other thing.
Init ==
  /\ roles \in {[alice |-> "owner", bob |-> b] : b \in {"owner", "operator", "user"}}
  /\ token = TRUE /\ browser = User \cup {"recovery"}
  /\ owner \in {[session |-> "alice", channel |-> "bob"], [session |-> "bob", channel |-> "alice"]}
  /\ req = [r \in Request |-> Idle] /\ audit = [r \in Request |-> <<>>]
  /\ applied = {} /\ reported = {} /\ entitled = {} /\ faults = 0

Fault == faults < MaxFaults /\ faults' = faults + 1
Healthy == UNCHANGED faults

RoleScopes(role) ==
  IF role \in {"user", "operator"}
  THEN {"any", "catalog:read", "sessions:create", "sessions:read", "sessions:control"}
  ELSE {}

Admins == {"admin", "owner", "recovery"}

\* roleScopes and the scopes of the token; "admin" opens everything.
HasScope(role, s) ==
  \/ s = "none" \/ role \in Admins \/ s \in RoleScopes(role)
  \/ role = "token" /\ ("admin" \in tokenScopes \/ s \in tokenScopes \cup {"any"})

\* What the session or the token of the caller says of him.
RoleOf(who) == IF who \in User THEN roles[who] ELSE who
Known(who) == IF who = "token" THEN token ELSE who \in browser /\ RoleOf(who) # "none"
systemWide(role) == role \in {"token", "operator"} \cup Admins

----------------------------------------------------------------------------
(* The way of a request.                                                     *)

receive(r, route, by, csrf, body) ==
  /\ req[r].at = "idle"
  /\ req' = [req EXCEPT ![r] = [Idle EXCEPT !.at = "auth", !.route = route, !.by = by,
                                           !.csrf = csrf, !.body = body]]
  /\ UNCHANGED <<world, applied, audit, reported, faults>>

Refuse(r) == req' = [req EXCEPT ![r].at = "done"]
Onward(r, role, from) ==
  LET route == req[r].route IN
  req' = [req EXCEPT ![r].role = role,
                     ![r].at = IF from = "auth" /\ route.thing # "no" THEN "owner"
                               ELSE IF route.audited THEN "attempt" ELSE "operate"]

requireCsrf(x) == x.route.csrf /\ x.by # "token" => x.csrf

MutantAuthenticate(r) ==
  LET x == req[r] IN
  /\ x.at = "auth"
  /\ IF /\ IF x.by = "token" THEN token ELSE x.by \in browser
        /\ HasScope(IF x.by = "alice" THEN "owner" ELSE RoleOf(x.by), x.route.scope)
        /\ requireCsrf(x) /\ (x.route.owners => RoleOf(x.by) \in {"owner", "recovery"})
     THEN Onward(r, IF x.by = "alice" THEN "owner" ELSE RoleOf(x.by), "auth")
     ELSE Refuse(r)
  /\ UNCHANGED <<world, applied, audit, reported, faults>>

\* authenticate, then what the handler checks before it waits again.
authenticate(r) ==
  LET x == req[r]
      role == RoleOf(x.by) IN
  /\ x.at = "auth"
  /\ IF /\ x.route.scope # "none" => Known(x.by)
        /\ HasScope(role, x.route.scope) /\ requireCsrf(x)
        /\ x.route.owners => role \in {"owner", "recovery"}
        /\ x.route.delegated => x.by \in User
        /\ x.route.parse = "before" => x.body
     THEN Onward(r, role, "auth") ELSE Refuse(r)
  /\ UNCHANGED <<world, applied, audit, reported, faults>>

\* The thing exists and is the caller's, or the caller sees everything.
checkOwner(r) ==
  LET x == req[r] IN
  /\ x.at = "owner"
  /\ IF owner[x.route.thing] # "nobody" /\ (systemWide(x.role) \/ owner[x.route.thing] = x.by)
     THEN Onward(r, x.role, "owner") ELSE Refuse(r)
  /\ UNCHANGED <<world, applied, audit, reported, faults>>

Append1(r, record) == audit' = [audit EXCEPT ![r] = Append(@, record)]

\* No attempt record, no operation.
recordAttempt(r) ==
  /\ req[r].at = "attempt"
  /\ \/ /\ Healthy /\ Append1(r, "attempt") /\ UNCHANGED reported
        /\ req' = [req EXCEPT ![r].at = "operate"]
     \/ /\ Fault /\ (Append1(r, "attempt") \/ UNCHANGED audit)
        /\ reported' = reported \cup {r} /\ Refuse(r)
  /\ UNCHANGED <<world, applied>>

\* The operation is over: the outcome is recorded, or the request answered.
Over(r, ok) == req' = [req EXCEPT ![r].ok = ok,
                                  ![r].at = IF req[r].route.audited THEN "outcome" ELSE "done"]

OtherOwner(u) == roles[u] = "owner" => \E v \in User \ {u} : roles[v] = "owner"

\* What an operation does: it keeps an owner, and users who own nothing can be
\* deleted by others.
Effect(x) ==
  CASE x.route.op = "logout" -> browser' = browser \ {x.by} /\ UNCHANGED <<roles, token, owner>>
    [] x.route.op = "demote" ->
         \E u \in User : /\ roles[u] # "none" /\ OtherOwner(u)
                         /\ roles' = [roles EXCEPT ![u] = "user"]
                         /\ UNCHANGED <<token, browser, owner>>
    [] x.route.op = "deleteUser" ->
         \E u \in User \ {x.by} :
           /\ roles[u] # "none" /\ OtherOwner(u) /\ \A t \in Thing : owner[t] # u
           /\ roles' = [roles EXCEPT ![u] = "none"] /\ browser' = browser \ {u}
           /\ UNCHANGED <<token, owner>>
    [] x.route.op = "revoke" -> token' = FALSE /\ UNCHANGED <<roles, browser, owner>>
    [] x.route.op = "delete" -> /\ owner' = [owner EXCEPT ![x.route.thing] = "nobody"]
                                /\ UNCHANGED <<roles, token, browser>>
    [] OTHER -> UNCHANGED world

\* The checks of the handler that run inside the audited operation.
InsideOk(x) ==
  /\ x.route.parse = "inside" => x.body
  /\ x.route.op = "createLive" /\ x.by \in User => owner["channel"] = x.by

operation(r) ==
  LET x == req[r] IN
  /\ x.at = "operate"
  /\ \/ /\ InsideOk(x) /\ Effect(x) /\ applied' = applied \cup {r}
        /\ \/ Healthy /\ Over(r, TRUE)
           \/ Fault /\ Over(r, FALSE)
     \/ Healthy /\ Over(r, FALSE) /\ UNCHANGED <<world, applied>>
  /\ UNCHANGED <<audit, reported>>

\* A preview of the placement that finds no worker is answered, and recorded as failed.
Outcomes(x) ==
  IF ~x.ok THEN {"failure"}
  ELSE {"success"} \cup (IF x.route = postPlacementPreview THEN {"failure"} ELSE {})

\* A record that cannot be written changes nothing in the answer.
recordOutcome(r) ==
  LET x == req[r] IN
  /\ x.at = "outcome"
  /\ \E outcome \in Outcomes(x) :
       LET write == Append1(r, outcome) IN
       \/ Healthy /\ write /\ UNCHANGED reported
       \/ Fault /\ (write \/ UNCHANGED audit) /\ reported' = reported \cup {r}
  /\ Refuse(r) /\ UNCHANGED <<world, applied>>

\* The process dies and starts again: the browser sessions are gone.
Crash ==
  /\ Fault /\ browser' = {}
  /\ req' = [r \in Request |-> IF req[r].at \in {"idle", "done"} THEN req[r]
                               ELSE [req[r] EXCEPT !.at = "lost"]]
  /\ UNCHANGED <<roles, token, owner, applied, audit, reported>>

----------------------------------------------------------------------------

\* What the caller of a request may do now: he is known, has the scope, is an
\* owner where it takes one, and the thing, if there is one, is his or
\* everyone's to see.
Permitted(r) ==
  LET x == req[r]
      role == RoleOf(x.by) IN
  /\ x.at # "idle"
  /\ \/ x.route.scope = "none"
     \/ /\ Known(x.by) /\ HasScope(role, x.route.scope)
        /\ x.route.owners => role \in {"owner", "recovery"}
        /\ x.route.thing # "no" => systemWide(role) \/ owner[x.route.thing] = x.by
        /\ x.route.op = "createLive" /\ x.by \in User => owner["channel"] = x.by

Handling(r) ==
  authenticate(r) \/ checkOwner(r) \/ recordAttempt(r) \/ operation(r) \/ recordOutcome(r)

\* A step, and who was permitted what after it.
Watched(A) == A /\ entitled' = entitled \cup {r \in Request : Permitted(r)'}

Next ==
  \/ \E r \in Request :
       \/ Watched(Handling(r))
       \/ \E route \in Route, by \in Who, csrf, body \in BOOLEAN :
            Watched(receive(r, route, by, csrf, body))
  \/ Watched(Crash)

Spec == Init /\ [][Next]_vars

----------------------------------------------------------------------------

\* While rights are only withdrawn, a request has an effect, or shows anything, only
\* if its caller was permitted that at some moment since the request came: once a
\* role, a token, a browser session or an ownership has been withdrawn, nothing that
\* comes later is served on it, on any route and under any interleaving.  Of the event
\* stream this is said when it opens; what it goes on to deliver is not looked at.
EffectsAuthorized == applied \subseteq entitled

\* The audit log: an audited effect has its attempt record; one outcome at most
\* follows the attempt; a recorded success had its effect, and so had every
\* request answered as done, which only a preview records as a failure; an answered
\* request whose outcome is missing was reported in the log of the process.
AuditKept ==
  \A r \in Request : LET x == req[r] IN
    /\ x.route.audited /\ r \in applied => audit[r] # <<>>
    /\ audit[r] # <<>> => Head(audit[r]) = "attempt"
    /\ Len(audit[r]) <= 2
    /\ audit[r] # <<>> /\ Len(audit[r]) = 2 =>
         /\ audit[r][2] = "success" => x.ok
         /\ audit[r][2] # "success" => ~x.ok \/ x.route = postPlacementPreview
    /\ x.ok => r \in applied
    /\ x.at = "done" /\ Len(audit[r]) = 1 => r \in reported
=============================================================================
