---------------------------- MODULE ControlProofs ----------------------------
(***************************************************************************)
(* Proofs about the control side (module MCControl), for any number of     *)
(* logins, first set-ups, requests, deletions of bindings, builds that     *)
(* migrate, viewers and edges: signing in (AuthInv), the provider bindings *)
(* of workers (BindInv), the management API (ApiInv), the migrations       *)
(* (SchemaInv) and playback links (PlayInv).                               *)
(*                                                                         *)
(* Each component has an inductive invariant of its own, proved for its    *)
(* own steps; a step of the composition is a step of the component of its  *)
(* scope (Scoped).                                                         *)
(***************************************************************************)
EXTENDS MCControl, FiniteSetTheorems, SequenceTheorems, TLAPS

---------------------------------------------------------------------------
(* Sequences.                                                              *)

\* What is appended to one element.
LEMMA TwoInARow ==
    ASSUME NEW T, NEW e \in T, NEW f \in T PROVE Append(<<e>>, f) = <<e, f>>
<1> DEFINE a == <<e>>
           b == <<e, f>>
           c == Append(a, f)
<1>1. a \in Seq(T) /\ b \in Seq(T) /\ Len(a) = 1 /\ Len(b) = 2 /\ a[1] = e /\ b[1] = e /\ b[2] = f
  OBVIOUS
<1> HIDE DEF a, b
<1>2. /\ c \in Seq(T) /\ Len(c) = Len(a) + 1 /\ c[Len(a) + 1] = f
      /\ \A i \in 1 .. Len(a) : c[i] = a[i]
  <2>1. ASSUME NEW g \in Seq(T), NEW h \in T
        PROVE  /\ Append(g, h) \in Seq(T) /\ Len(Append(g, h)) = Len(g) + 1
               /\ Append(g, h)[Len(g) + 1] = h
               /\ \A i \in 1 .. Len(g) : Append(g, h)[i] = g[i]
    BY AppendProperties
  <2> QED BY <1>1, <2>1
<1>3. c \in Seq(T) /\ Len(c) = 2 /\ c[1] = e /\ c[2] = f
  BY <1>1, <1>2
<1> HIDE DEF c
<1>4. \A i \in 1 .. Len(c) : c[i] = b[i]
  BY <1>1, <1>3
<1>5. c = b
  BY <1>1, <1>3, <1>4, SeqEqual
<1> QED BY <1>5 DEF a, b, c

---------------------------------------------------------------------------
(* Signing in (Authentication).                                            *)

\* Where the calls of each kind are, and where they hold the chain of the user, or the
\* one of all credentials.
Places(t) == IF t \in Login THEN {"idle", "identity", "refresh", "queued", "secret", "undo", "done"}
             ELSE IF t \in A!Deleter THEN {"idle", "listed", "identity", "delete", "signout", "drop"}
             ELSE IF t = leaver THEN {"idle", "queued", "drop"}
             ELSE {"idle", "queued", "drop", "list", "undo"}
WithUser(t) == IF t \in Login THEN {"refresh", "queued", "secret", "undo"}
               ELSE IF t \in A!Deleter THEN {"delete", "signout", "drop"} ELSE {}
WithCredentials(t) == IF t \in Login THEN {"secret", "undo"}
                      ELSE {"drop"} \cup (IF t = cleaner THEN {"list", "undo"} ELSE {})
AuthTypes == /\ A!TypeOK /\ \A t \in A!Task : pc[t] \in Places(t)
             /\ setup \in [Setter -> {"idle", "hash", "owner", "refused"}]
TurnOf(t) == /\ pc[t] \in WithUser(t) => A!Holds(idq, t)
             /\ pc[t] \in WithCredentials(t) => A!Holds(crq, t)

\* A credential is in the stores from its login on; who deletes it does so after the
\* login has ended and the session is gone, the secret before the setting.
CredentialOf(k) ==
    /\ k \in secret => k \in setting
    /\ k \in sessions => k \in secret /\ pc[k] = "done"
    /\ k \in setting => pc[k] \in {"secret", "undo", "done"}
    /\ pc[k] = "secret" => k \in setting
    /\ \A t \in A!Task : /\ drop[t][k] # "nothing" => pc[k] \in {"undo", "done"} /\ k \notin sessions
                         /\ drop[t][k] = "setting" => k \notin secret

\* A login that has refreshed the row finds it until it ends; who deleted it signs out.
RowThere == \A k \in Login : pc[k] \in {"queued", "secret"} => user.rev # 0
RowGone == user.rev = 0 /\ ~unsure => sessions = {} \/ \E t \in A!Deleter : pc[t] = "signout"
Stopped == ~up => sessions = {} /\ \A t \in A!Task : pc[t] \in {"idle", "done"}
SetUp == \A s \in Setter : setup[s] = "owner" =>
           passwordHash /\ \A r \in Setter : setup[r] = "owner" => r = s

AuthInv == /\ AuthTypes /\ (\A t \in A!Task : TurnOf(t)) /\ (\A k \in Login : CredentialOf(k))
           /\ RowThere /\ RowGone /\ Stopped /\ SetUp

\* The kinds of task are different ones.
LEMMA Kinds ==
    /\ A!Task = Login \cup A!Deleter \cup {leaver, cleaner} /\ A!Deleter = {admin, purge}
    /\ A!Deleter \cap Login = {} /\ leaver \notin Login \cup A!Deleter
    /\ cleaner \notin Login \cup A!Deleter \cup {leaver}
    /\ \A t \in A!Task : {"idle"} \subseteq Places(t)
BY ControlAssumption DEF A!Task, A!Deleter, Places

\* The head of a chain keeps its turn until it leaves, whoever joins or leaves.
LEMMA Joining ==
    ASSUME NEW T, NEW q \in Seq(T), NEW x \in T
    PROVE  Append(q, x) \in Seq(T) /\ \A y : A!Holds(q, y) => A!Holds(Append(q, x), y)
<1>1. Append(q, x) \in Seq(T) /\ Append(q, x) # <<>>
      /\ (q # <<>> => Append(q, x)[1] = q[1])
  <2>1. /\ Append(q, x) \in Seq(T) /\ Append(q, x) # <<>>
        /\ \A i \in 1 .. Len(q) : Append(q, x)[i] = q[i]
    BY AppendProperties
  <2>2. q # <<>> => 1 \in 1 .. Len(q)
    BY EmptySeq
  <2> QED BY <2>1, <2>2
<1>2. Head(q) = q[1] /\ Head(Append(q, x)) = Append(q, x)[1]
  BY <1>1
<1> QED BY <1>1, <1>2 DEF A!Holds

\* A head that leaves takes no turn from another, and there is one head.
LEMMA Leaving ==
    ASSUME NEW T, NEW q \in Seq(T)
    PROVE  \A y : /\ A!Leave(q, y) \in Seq(T)
                  /\ \A z : A!Holds(q, y) /\ y # z => A!Holds(A!Leave(q, z), y)
                  /\ \A z : A!Holds(q, y) /\ A!Holds(q, z) => y = z
                  /\ A!Holds(q, y) => q # <<>>
<1>1. q # <<>> => Tail(q) \in Seq(T)
  BY HeadTailProperties
<1> QED BY <1>1 DEF A!Leave, A!Holds

\* The lengths of the chains apart, what is known of where a task is.
LEMMA TaskFacts ==
    ASSUME AuthInv
    PROVE  /\ idq \in Seq(Login \cup A!Deleter) /\ crq \in Seq(A!Task)
           /\ DOMAIN pc = A!Task /\ \A t \in A!Task : pc[t] \in Places(t)
           /\ drop \in [A!Task -> [Login -> A!Stages]] /\ faults \in 0 .. MaxFaults
           /\ sessions \subseteq Login /\ setting \subseteq Login /\ secret \subseteq Login
BY DEF AuthInv, AuthTypes, A!TypeOK

\* One task moves to another place: it may join a chain, or leave those it holds.
LEMMA Moves ==
    ASSUME AuthInv, NEW t \in A!Task, NEW l \in Places(t), A!Goto(t, l),
           idq' = idq \/ idq' = A!Leave(idq, t)
             \/ (t \in Login \cup A!Deleter /\ idq' = Append(idq, t)),
           crq' = crq \/ crq' = A!Leave(crq, t) \/ crq' = Append(crq, t),
           l \in WithUser(t) => A!Holds(idq', t),
           l \in WithCredentials(t) => A!Holds(crq', t)
    PROVE  /\ pc' \in [A!Task -> {"idle", "identity", "refresh", "queued", "secret", "undo",
                                  "done", "listed", "delete", "signout", "drop", "list"}]
           /\ pc'[t] = l /\ \A g \in A!Task : g # t => pc'[g] = pc[g]
           /\ idq' \in Seq(Login \cup A!Deleter) /\ crq' \in Seq(A!Task)
           /\ \A g \in A!Task : pc'[g] \in Places(g) /\ TurnOf(g)'
<1>1. /\ pc' = [pc EXCEPT ![t] = l] /\ DOMAIN pc = A!Task
      /\ \A g \in A!Task : pc[g] \in Places(g)
  BY TaskFacts DEF A!Goto
<1>2. pc'[t] = l /\ \A g \in A!Task : g # t => pc'[g] = pc[g]
  BY <1>1
<1>3. \A g \in A!Task : pc'[g] \in Places(g)
  BY <1>1, <1>2
<1>4. \A g \in A!Task : Places(g) \subseteq
         {"idle", "identity", "refresh", "queued", "secret", "undo",
          "done", "listed", "delete", "signout", "drop", "list"}
  BY DEF Places
<1>5. pc' \in [A!Task -> {"idle", "identity", "refresh", "queued", "secret", "undo",
                          "done", "listed", "delete", "signout", "drop", "list"}]
  BY <1>1, <1>3, <1>4
<1>6. idq' \in Seq(Login \cup A!Deleter)
      /\ \A g \in A!Task : g # t /\ A!Holds(idq, g) => A!Holds(idq', g)
  <2>1. \A x \in Login \cup A!Deleter :
          Append(idq, x) \in Seq(Login \cup A!Deleter)
          /\ \A y : A!Holds(idq, y) => A!Holds(Append(idq, x), y)
    BY TaskFacts, Joining, Zenon
  <2>2. \A y : /\ A!Leave(idq, y) \in Seq(Login \cup A!Deleter)
               /\ \A z : A!Holds(idq, y) /\ y # z => A!Holds(A!Leave(idq, z), y)
    BY TaskFacts, Leaving, Zenon
  <2> QED BY <2>1, <2>2, TaskFacts, Zenon
<1>7. crq' \in Seq(A!Task) /\ \A g \in A!Task : g # t /\ A!Holds(crq, g) => A!Holds(crq', g)
  <2>1. \A x \in A!Task : Append(crq, x) \in Seq(A!Task)
                          /\ \A y : A!Holds(crq, y) => A!Holds(Append(crq, x), y)
    BY TaskFacts, Joining, Zenon
  <2>2. \A y : /\ A!Leave(crq, y) \in Seq(A!Task)
               /\ \A z : A!Holds(crq, y) /\ y # z => A!Holds(A!Leave(crq, z), y)
    BY TaskFacts, Leaving, Zenon
  <2> QED BY <2>1, <2>2, TaskFacts, Zenon
<1>8. \A g \in A!Task : TurnOf(g)'
  <2>1. ASSUME NEW g \in A!Task PROVE TurnOf(g)'
    <3>1. TurnOf(g)
      BY DEF AuthInv
    <3>2. WithUser(g)' = WithUser(g) /\ WithCredentials(g)' = WithCredentials(g)
      BY DEF WithUser, WithCredentials, A!Deleter
    <3>3. A!Holds(idq, g)' = A!Holds(idq', g) /\ A!Holds(crq, g)' = A!Holds(crq', g)
      BY DEF A!Holds
    <3>4. CASE g = t
      BY <1>2, <3>3, <3>4 DEF TurnOf
    <3>5. CASE g # t
      BY <1>2, <1>6, <1>7, <3>1, <3>3, <3>5 DEF TurnOf
    <3> QED BY <3>4, <3>5
  <2> QED BY <2>1
<1> QED BY <1>2, <1>3, <1>5, <1>6, <1>7, <1>8

Users == [rev : 0 .. MaxRevision, seen : BOOLEAN]

\* A step that leaves the credentials alone: one task may move.
LEMMA CredentialsStay ==
    ASSUME AuthInv, UNCHANGED <<sessions, setting, secret, drop>>,
           \A k \in Login : \/ pc'[k] = pc[k] \/ (pc[k] = "undo" /\ pc'[k] = "done")
                            \/ {pc[k], pc'[k]} \cap {"secret", "undo", "done"} = {}
    PROVE  \A k \in Login : CredentialOf(k)'
<1> SUFFICES ASSUME NEW k \in Login PROVE CredentialOf(k)'
  OBVIOUS
<1>1. CredentialOf(k)
  BY DEF AuthInv
<1>2. CASE pc'[k] = pc[k] \/ (pc[k] = "undo" /\ pc'[k] = "done")
  BY <1>1, <1>2 DEF CredentialOf
<1>3. CASE {pc[k], pc'[k]} \cap {"secret", "undo", "done"} = {}
  BY <1>1, <1>3 DEF CredentialOf
<1> QED BY <1>2, <1>3

\* A step on the row of the user, or of nothing: it is not deleted by it.
LEMMA RowStays ==
    ASSUME AuthInv, UNCHANGED <<sessions, setting, secret, idq, crq, pc, drop, up, unsure>>,
           UNCHANGED <<passwordHash, setup>>,
           user' \in Users, user'.rev = 0 <=> user.rev = 0, expired' \subseteq Login,
           faults' \in 0 .. MaxFaults
    PROVE  AuthInv'
<1>1. AuthTypes'
  BY DEF AuthInv, AuthTypes, A!TypeOK, Users
<1>2. (\A t \in A!Task : TurnOf(t))' /\ Stopped' /\ SetUp' /\ \A k \in Login : CredentialOf(k)'
  <2>1. (\A t \in A!Task : TurnOf(t))' /\ Stopped' /\ SetUp'
    BY DEF AuthInv, TurnOf, A!Holds, Stopped, SetUp
  <2> QED BY <2>1, CredentialsStay
<1>3. RowThere' /\ RowGone'
  BY DEF AuthInv, RowThere, RowGone
<1> QED BY <1>1, <1>2, <1>3 DEF AuthInv

\* A task moves on; it begins or ends neither a credential nor the deletion of the row.
LEMMA MovesOn ==
    ASSUME AuthInv, NEW t \in A!Task, NEW l \in Places(t), A!Goto(t, l),
           idq' = idq \/ idq' = A!Leave(idq, t)
             \/ (t \in Login \cup A!Deleter /\ idq' = Append(idq, t)),
           crq' = crq \/ crq' = A!Leave(crq, t) \/ crq' = Append(crq, t),
           l \in WithUser(t) => A!Holds(idq', t),
           l \in WithCredentials(t) => A!Holds(crq', t),
           UNCHANGED <<sessions, setting, secret, expired, drop>>, UNCHANGED A!rest,
           user' \in Users, user'.rev = 0 => user.rev = 0, faults' \in 0 .. MaxFaults,
           up \/ l \in {"idle", "done"}, pc[t] # "signout",
           t \in Login => \/ pc[t] = "undo" /\ l = "done"
                          \/ {pc[t], l} \cap {"secret", "undo", "done"} = {},
           t \in Login /\ l \in {"queued", "secret"} => user'.rev # 0
    PROVE  AuthInv'
<1>1. /\ pc' \in [A!Task -> {"idle", "identity", "refresh", "queued", "secret", "undo",
                             "done", "listed", "delete", "signout", "drop", "list"}]
      /\ pc'[t] = l /\ \A g \in A!Task : g # t => pc'[g] = pc[g]
      /\ idq' \in Seq(Login \cup A!Deleter) /\ crq' \in Seq(A!Task)
      /\ \A g \in A!Task : pc'[g] \in Places(g) /\ TurnOf(g)'
  BY Moves
<1>2. AuthTypes'
  <2>1. A!TypeOK'
    BY <1>1 DEF AuthInv, AuthTypes, A!TypeOK, Users, A!rest
  <2>2. \A g \in A!Task : Places(g)' = Places(g)
    BY DEF Places, A!Deleter
  <2> QED BY <1>1, <2>1, <2>2 DEF AuthInv, AuthTypes, A!rest
<1>3. \A k \in Login : CredentialOf(k)'
  <2>1. \A k \in Login : k \in A!Task
    BY Kinds
  <2> QED BY <1>1, <2>1, CredentialsStay
<1>4. RowThere'
  <2>1. \A k \in Login : k \in A!Task
    BY Kinds
  <2> QED BY <1>1, <2>1 DEF AuthInv, RowThere
<1>5. RowGone'
  <2>1. \A g \in A!Deleter : g \in A!Task
    BY Kinds
  <2>2. \A g \in A!Deleter : pc[g] = "signout" => pc'[g] = "signout"
    BY <1>1, <2>1
  <2> QED BY <2>2 DEF AuthInv, RowGone, A!rest
<1>6. Stopped' /\ SetUp'
  BY <1>1 DEF AuthInv, Stopped, SetUp, A!rest
<1> QED BY <1>1, <1>2, <1>3, <1>4, <1>5, <1>6 DEF AuthInv

\* The last fault that there may be is the last.
LEMMA AuthFaults ==
    ASSUME AuthInv, A!Fault \/ UNCHANGED faults PROVE faults' \in 0 .. MaxFaults
<1>1. faults \in 0 .. MaxFaults /\ MaxFaults \in Nat
  BY TaskFacts, ControlAssumption
<1> QED BY <1>1 DEF A!Fault

\* The row of the user.
LEMMA UserFacts == ASSUME AuthInv PROVE user \in Users /\ user.rev \in 0 .. MaxRevision
BY DEF AuthInv, AuthTypes, A!TypeOK, Users

\* Where a login may be, and where it holds a chain.
LEMMA LoginPlaces ==
    ASSUME NEW k \in Login
    PROVE  /\ k \in A!Task
           /\ Places(k) = {"idle", "identity", "refresh", "queued", "secret", "undo", "done"}
           /\ WithUser(k) = {"refresh", "queued", "secret", "undo"}
           /\ WithCredentials(k) = {"secret", "undo"}
<1>1. k \notin A!Deleter /\ k # cleaner /\ k # leaver /\ k \in A!Task
  BY Kinds
<1> QED BY <1>1, ControlAssumption DEF Places, WithUser, WithCredentials

\* A login joins the chain of its user, and reads the row when it is its turn.
LEMMA Logins ==
    ASSUME AuthInv, NEW k \in Login, A!login(k) \/ A!readIdentity(k) PROVE AuthInv'
<1>1. CASE A!login(k)
  <2>1. /\ up /\ pc[k] = "idle" /\ A!Goto(k, "identity") /\ idq' = Append(idq, k)
        /\ UNCHANGED <<sessions, setting, secret, expired, drop, user, crq, faults>>
        /\ UNCHANGED A!rest
    BY <1>1 DEF A!login, A!stores
  <2> QED BY <2>1, LoginPlaces, UserFacts, AuthFaults, MovesOn
<1>2. CASE A!readIdentity(k)
  <2>1. /\ pc[k] = "identity" /\ A!Holds(idq, k) /\ A!Goto(k, "refresh")
        /\ UNCHANGED <<sessions, setting, secret, expired, drop, user, idq, crq, faults>>
        /\ UNCHANGED A!rest
    BY <1>2 DEF A!readIdentity, A!stores
  <2>2. up
    BY <2>1, LoginPlaces DEF AuthInv, Stopped
  <2>3. A!Holds(idq', k)
    BY <2>1
  <2> QED BY <2>1, <2>2, <2>3, LoginPlaces, UserFacts, AuthFaults, MovesOn
<1> QED BY <1>1, <1>2

\* The row is created or refreshed before the login joins the chain of credentials.
LEMMA Refreshes ==
    ASSUME AuthInv, NEW k \in Login, A!refreshIdentityAfterLogin(k) PROVE AuthInv'
<1>1. /\ pc[k] = "refresh" /\ user.rev < MaxRevision /\ UNCHANGED A!rest
      /\ UNCHANGED <<sessions, setting, secret, expired, idq, drop>>
  BY DEF A!refreshIdentityAfterLogin
<1>2. up /\ A!Holds(idq, k) /\ user \in Users /\ user.rev \in 0 .. MaxRevision /\ MaxRevision \in Nat
  <2>1. up /\ A!Holds(idq, k)
    BY <1>1, LoginPlaces DEF AuthInv, Stopped, TurnOf
  <2> QED BY <2>1, UserFacts, ControlAssumption
<1>3. CASE /\ UNCHANGED faults /\ user' = [rev |-> user.rev + 1, seen |-> TRUE]
           /\ A!Goto(k, "queued") /\ crq' = Append(crq, k)
  <2>1. user' \in Users /\ user'.rev # 0 /\ faults' \in 0 .. MaxFaults
    BY <1>1, <1>2, <1>3, AuthFaults DEF Users
  <2>2. A!Holds(idq', k)
    BY <1>1, <1>2
  <2> QED BY <1>1, <1>2, <1>3, <2>1, <2>2, LoginPlaces, MovesOn
<1>4. CASE UNCHANGED <<user, pc, crq, faults>>
  <2>1. /\ UNCHANGED <<sessions, setting, secret, idq, crq, pc, drop, up, unsure>>
        /\ UNCHANGED <<passwordHash, setup>>
        /\ user' \in Users /\ user'.rev = user.rev
        /\ expired' \subseteq Login /\ faults' \in 0 .. MaxFaults
    BY <1>1, <1>2, <1>4, AuthFaults DEF A!rest, AuthInv, AuthTypes, A!TypeOK
  <2> QED BY <2>1, RowStays
<1>5. CASE /\ A!Fault /\ user' = [rev |-> 1, seen |-> TRUE] /\ user.rev = 0 /\ UNCHANGED <<pc, crq>>
  <2>1. user' \in Users /\ user'.rev # 0 /\ faults' \in 0 .. MaxFaults
    BY <1>1, <1>2, <1>5, AuthFaults DEF Users
  <2>2. A!Goto(k, "refresh")
    BY <1>1, <1>5 DEF A!Goto, AuthInv, AuthTypes, A!TypeOK
  <2>3. A!Holds(idq', k)
    BY <1>1, <1>2
  <2> QED BY <1>1, <1>2, <1>5, <2>1, <2>2, <2>3, LoginPlaces, MovesOn
<1> QED BY <1>3, <1>4, <1>5 DEF A!refreshIdentityAfterLogin, A!EnterCredentials, A!Healthy

\* A login that failed ends.
LEMMA Undone == ASSUME AuthInv, NEW k \in Login, A!undone(k) PROVE AuthInv'
<1>1. /\ pc[k] = "undo" /\ A!Goto(k, "done") /\ idq' = A!Leave(idq, k) /\ crq' = A!Leave(crq, k)
      /\ UNCHANGED <<sessions, setting, secret, expired, drop, user, faults>> /\ UNCHANGED A!rest
  BY DEF A!undone, A!End, A!stores
<1> QED BY <1>1, LoginPlaces, UserFacts, AuthFaults, MovesOn

\* Where the other tasks may be, and where they hold a chain.
LEMMA OtherPlaces ==
    /\ \A t \in A!Deleter :
         /\ t \in A!Task /\ t \notin Login
         /\ Places(t) = {"idle", "listed", "identity", "delete", "signout", "drop"}
         /\ WithUser(t) = {"delete", "signout", "drop"} /\ WithCredentials(t) = {"drop"}
    /\ leaver \in A!Task /\ leaver \notin Login /\ Places(leaver) = {"idle", "queued", "drop"}
    /\ WithUser(leaver) = {} /\ WithCredentials(leaver) = {"drop"}
    /\ cleaner \in A!Task /\ cleaner \notin Login
    /\ Places(cleaner) = {"idle", "queued", "drop", "list", "undo"}
    /\ WithUser(cleaner) = {} /\ WithCredentials(cleaner) = {"drop", "list", "undo"}
<1>1. ASSUME NEW t \in A!Deleter
      PROVE  /\ t \in A!Task /\ t \notin Login /\ t # cleaner /\ t # leaver
  BY Kinds
<1>2. ASSUME NEW t \in A!Deleter
      PROVE  /\ Places(t) = {"idle", "listed", "identity", "delete", "signout", "drop"}
             /\ WithUser(t) = {"delete", "signout", "drop"} /\ WithCredentials(t) = {"drop"}
  BY <1>1, <1>2 DEF Places, WithUser, WithCredentials
<1>3. /\ leaver \in A!Task /\ leaver \notin Login \cup A!Deleter /\ leaver # cleaner
      /\ cleaner \in A!Task /\ cleaner \notin Login \cup A!Deleter
  BY Kinds
<1>4. /\ Places(leaver) = {"idle", "queued", "drop"}
      /\ WithUser(leaver) = {} /\ WithCredentials(leaver) = {"drop"}
  BY <1>3 DEF Places, WithUser, WithCredentials
<1>5. /\ Places(cleaner) = {"idle", "queued", "drop", "list", "undo"}
      /\ WithUser(cleaner) = {} /\ WithCredentials(cleaner) = {"drop", "list", "undo"}
  BY <1>3 DEF Places, WithUser, WithCredentials
<1> QED BY <1>1, <1>2, <1>3, <1>4, <1>5

\* Whoever is under way finds the process up.
LEMMA UnderWay ==
    ASSUME AuthInv, NEW t \in A!Task, pc[t] \notin {"idle", "done"} PROVE up
BY DEF AuthInv, Stopped

\* The deletion of a user on its way to the row.
LEMMA Deletes ==
    ASSUME AuthInv, NEW t \in A!Deleter,
           A!listUsers(t) \/ A!deleteUser(t) \/ A!deleteUserChecked(t)
    PROVE  AuthInv'
<1>1. UNCHANGED A!rest /\ UNCHANGED <<sessions, setting, secret, expired, drop, user, faults>>
  BY DEF A!listUsers, A!deleteUser, A!deleteUserChecked, A!stores
<1>2. t \in A!Task /\ user' \in Users /\ faults' \in 0 .. MaxFaults /\ user' = user
  BY <1>1, OtherPlaces, UserFacts, AuthFaults
<1>3. CASE A!listUsers(t)
  <2>1. /\ pc[t] = "idle" /\ up /\ A!Goto(t, "listed") /\ UNCHANGED <<idq, crq>>
    BY <1>3 DEF A!listUsers
  <2> QED BY <1>1, <1>2, <2>1, OtherPlaces, MovesOn
<1>4. CASE A!deleteUser(t)
  <2>1. pc[t] = "listed" /\ A!Goto(t, "identity") /\ idq' = Append(idq, t) /\ UNCHANGED crq
    BY <1>4 DEF A!deleteUser
  <2> QED BY <1>1, <1>2, <2>1, OtherPlaces, UnderWay, MovesOn
<1>5. CASE A!deleteUserChecked(t)
  <2>1. pc[t] = "identity" /\ A!Holds(idq, t) /\ up
    BY <1>2, <1>5, UnderWay DEF A!deleteUserChecked
  <2>2. CASE A!End(t, "idle")
    <3>1. A!Goto(t, "idle") /\ idq' = A!Leave(idq, t) /\ crq' = A!Leave(crq, t)
      BY <2>2 DEF A!End
    <3> QED BY <1>1, <1>2, <2>1, <3>1, OtherPlaces, MovesOn
  <2>3. CASE A!Goto(t, "delete") /\ UNCHANGED <<idq, crq>>
    <3>1. A!Holds(idq', t)
      BY <2>1, <2>3
    <3> QED BY <1>1, <1>2, <2>1, <2>3, <3>1, OtherPlaces, MovesOn
  <2> QED BY <1>5, <2>2, <2>3 DEF A!deleteUserChecked
<1> QED BY <1>3, <1>4, <1>5

\* Those that delete credentials end, or list what else there is.
LEMMA DropDone ==
    ASSUME AuthInv, NEW t \in A!Task \ Login, A!dropDone(t) PROVE AuthInv'
<1>1. /\ pc[t] = "drop" /\ UNCHANGED A!rest
      /\ UNCHANGED <<sessions, setting, secret, expired, drop, user, faults>>
  BY DEF A!dropDone, A!stores
<1>2. up /\ user' \in Users /\ faults' \in 0 .. MaxFaults /\ TurnOf(t)
  BY <1>1, UnderWay, UserFacts, AuthFaults DEF AuthInv
<1>3. CASE t = cleaner /\ A!Goto(t, "list") /\ UNCHANGED <<idq, crq>>
  <2>1. A!Holds(crq', t)
    BY <1>1, <1>2, <1>3, OtherPlaces DEF TurnOf
  <2> QED BY <1>1, <1>2, <1>3, <2>1, OtherPlaces, MovesOn
<1>4. CASE A!Goto(t, "idle") /\ idq' = A!Leave(idq, t) /\ crq' = A!Leave(crq, t)
  <2>1. t \in A!Deleter \cup {leaver, cleaner}
    BY Kinds
  <2>2. "idle" \in Places(t) /\ "idle" \notin WithUser(t) /\ "idle" \notin WithCredentials(t)
    BY <2>1, OtherPlaces
  <2> QED BY <1>1, <1>2, <1>4, <2>2, MovesOn
<1> QED BY <1>3, <1>4 DEF A!dropDone, A!End

\* A logout joins the chain of credentials.
LEMMA Logout == ASSUME AuthInv, NEW k \in Login, A!logout(k) PROVE AuthInv'
<1>1. /\ pc[leaver] = "idle" /\ up /\ A!Goto(leaver, "queued") /\ crq' = Append(crq, leaver)
      /\ UNCHANGED idq /\ UNCHANGED A!rest
      /\ UNCHANGED <<sessions, setting, secret, expired, drop, user, faults>>
  BY DEF A!logout, A!stores, A!EnterCredentials
<1> QED BY <1>1, OtherPlaces, UserFacts, AuthFaults, MovesOn

\* The timer begins and ends.
LEMMA Cleans == ASSUME AuthInv, A!cleanup \/ A!cleanupDone PROVE AuthInv'
<1>1. CASE A!cleanup
  <2>1. /\ pc[cleaner] = "idle" /\ up /\ A!Goto(cleaner, "queued") /\ crq' = Append(crq, cleaner)
        /\ UNCHANGED idq /\ UNCHANGED A!rest
        /\ UNCHANGED <<sessions, setting, secret, expired, drop, user, faults>>
    BY <1>1 DEF A!cleanup, A!stores, A!EnterCredentials
  <2> QED BY <2>1, OtherPlaces, UserFacts, AuthFaults, MovesOn
<1>2. CASE A!cleanupDone
  <2>1. /\ pc[cleaner] = "undo" /\ up /\ A!Goto(cleaner, "idle") /\ crq' = A!Leave(crq, cleaner)
        /\ idq' = A!Leave(idq, cleaner) /\ UNCHANGED A!rest
        /\ UNCHANGED <<sessions, setting, secret, expired, drop, user, faults>>
    BY <1>2 DEF A!cleanupDone, A!stores, A!End
  <2> QED BY <2>1, OtherPlaces, UserFacts, AuthFaults, MovesOn
<1> QED BY <1>1, <1>2

\* What changes nothing of the calls: roles, the time.
LEMMA Times ==
    ASSUME AuthInv, A!updateUser \/ A!UserNotSeenLately \/ \E k \in Login : A!SessionExpires(k)
    PROVE  AuthInv'
<1>1. /\ UNCHANGED <<sessions, setting, secret, idq, crq, pc, drop, up, unsure>>
      /\ UNCHANGED <<passwordHash, setup, faults>>
  BY DEF A!updateUser, A!UserNotSeenLately, A!SessionExpires, A!rest
<1>2. user \in Users /\ user.rev \in 0 .. MaxRevision /\ MaxRevision \in Nat /\ expired \subseteq Login
      /\ faults' \in 0 .. MaxFaults
  BY <1>1, UserFacts, AuthFaults, ControlAssumption DEF AuthInv, AuthTypes, A!TypeOK
<1>3. /\ user' \in Users /\ expired' \subseteq Login /\ (user'.rev = 0 <=> user.rev = 0)
  <2>1. CASE A!updateUser
    <3>1. user' = [user EXCEPT !.rev = user.rev + 1] /\ user.rev \in 1 .. MaxRevision - 2
          /\ UNCHANGED expired
      BY <2>1 DEF A!updateUser
    <3>2. user.rev + 1 \in 0 .. MaxRevision /\ user.rev + 1 # 0 /\ user.rev # 0
      BY <1>2, <3>1
    <3> QED BY <1>2, <3>1, <3>2 DEF Users
  <2>2. CASE A!UserNotSeenLately
    BY <1>2, <2>2 DEF A!UserNotSeenLately, Users
  <2>3. CASE \E k \in Login : A!SessionExpires(k)
    BY <1>2, <2>3 DEF A!SessionExpires, A!rest
  <2> QED BY <2>1, <2>2, <2>3
<1> QED BY <1>1, <1>2, <1>3, RowStays

Spots == {"idle", "identity", "refresh", "queued", "secret", "undo", "done", "listed", "delete",
          "signout", "drop", "list"}

\* The types of a step that does not set up or stop the process.
LEMMA TypesKept ==
    ASSUME AuthInv, pc' \in [A!Task -> Spots], \A g \in A!Task : pc'[g] \in Places(g),
           idq' \in Seq(Login \cup A!Deleter), crq' \in Seq(A!Task),
           user' \in Users, sessions' \subseteq Login, setting' \subseteq Login,
           secret' \subseteq Login, expired' \subseteq Login,
           drop' \in [A!Task -> [Login -> A!Stages]],
           unsure' \in BOOLEAN, UNCHANGED <<up, passwordHash, setup>>, faults' \in 0 .. MaxFaults
    PROVE  AuthTypes' /\ SetUp'
<1>1. A!TypeOK'
  BY DEF AuthInv, AuthTypes, A!TypeOK, Users, Spots
<1>2. \A g \in A!Task : Places(g)' = Places(g)
  BY DEF Places, A!Deleter
<1> QED BY <1>1, <1>2 DEF AuthInv, AuthTypes, SetUp

\* A login that is about to store its credential is the only one, and nobody deletes it.
LEMMA LoginFacts ==
    ASSUME AuthInv, NEW k \in Login, pc[k] \in {"queued", "secret"}
    PROVE  /\ A!Holds(idq, k) /\ up /\ user.rev # 0 /\ k \notin sessions
           /\ \A t \in A!Task : drop[t][k] = "nothing"
           /\ pc[k] = "secret" => A!Holds(crq, k) /\ k \in setting
           /\ pc[k] = "queued" => k \notin setting /\ k \notin secret
<1>1. TurnOf(k) /\ CredentialOf(k) /\ RowThere /\ up
  BY LoginPlaces, UnderWay DEF AuthInv
<1> QED BY <1>1, LoginPlaces DEF TurnOf, CredentialOf, RowThere

\* What one login writes.
LEMMA CredentialWritten ==
    ASSUME AuthInv, NEW k \in Login, CredentialOf(k)',
           \A j \in Login \ {k} : pc'[j] = pc[j],
           secret' \ {k} = secret \ {k}, setting' \ {k} = setting \ {k},
           sessions' \ {k} = sessions \ {k},
           \A t \in A!Task : \A j \in Login \ {k} : drop'[t][j] = drop[t][j]
    PROVE  \A j \in Login : CredentialOf(j)'
<1> SUFFICES ASSUME NEW j \in Login, j # k PROVE CredentialOf(j)'
  OBVIOUS
<1>1. CredentialOf(j) /\ pc'[j] = pc[j]
  BY DEF AuthInv
<1>2. /\ j \in secret' <=> j \in secret
      /\ j \in setting' <=> j \in setting
      /\ j \in sessions' <=> j \in sessions
      /\ \A t \in A!Task : drop'[t][j] = drop[t][j]
  <2>1. j \in secret' <=> j \in secret
    BY SMT
  <2>2. j \in setting' <=> j \in setting
    BY SMT
  <2>3. j \in sessions' <=> j \in sessions
    BY SMT
  <2> QED BY <2>1, <2>2, <2>3
<1> QED BY <1>1, <1>2 DEF CredentialOf

\* A login deletes what a write that failed may have left.
LEMMA Undoing ==
    ASSUME AuthInv, NEW k \in Login, pc[k] \in {"queued", "secret"}, A!Undo(k)
    PROVE  /\ drop' \in [A!Task -> [Login -> A!Stages]] /\ drop'[k][k] = "secret"
           /\ \A t \in A!Task : t # k => drop'[t][k] = "nothing"
           /\ \A t \in A!Task : \A j \in Login \ {k} : drop'[t][j] = drop[t][j]
<1>1. drop' = [drop EXCEPT ![k] = [drop[k] EXCEPT ![k] = "secret"]]
  BY DEF A!Undo
<1>2. drop \in [A!Task -> [Login -> A!Stages]] /\ k \in A!Task
  BY TaskFacts, LoginPlaces
<1>3. [drop[k] EXCEPT ![k] = "secret"] \in [Login -> A!Stages]
  BY <1>2 DEF A!Stages
<1> QED BY <1>1, <1>2, <1>3, LoginFacts

\* The steps of a login on the stores, by what they are.
LEMMA Stores ==
    ASSUME AuthInv, NEW k \in Login, pc[k] \in {"queued", "secret"}, NEW l \in {"secret", "undo", "done"},
           A!Goto(k, l), A!Holds(crq, k),
           IF l = "done" THEN idq' = A!Leave(idq, k) /\ crq' = A!Leave(crq, k)
                         ELSE UNCHANGED <<idq, crq>>,
           UNCHANGED user, UNCHANGED expired, UNCHANGED A!rest, faults' \in 0 .. MaxFaults,
           sessions' \subseteq Login, setting' \subseteq Login, secret' \subseteq Login,
           drop' \in [A!Task -> [Login -> A!Stages]],
           secret' \ {k} = secret \ {k}, setting' \ {k} = setting \ {k},
           sessions' \ {k} = sessions \ {k},
           \A t \in A!Task : \A j \in Login \ {k} : drop'[t][j] = drop[t][j],
           pc'[k] = l => CredentialOf(k)'
    PROVE  AuthInv'
<1>1. k \in A!Task /\ A!Holds(idq, k) /\ up /\ user.rev # 0 /\ l \in Places(k)
      /\ WithUser(k) = {"refresh", "queued", "secret", "undo"}
      /\ WithCredentials(k) = {"secret", "undo"}
  BY LoginFacts, LoginPlaces
<1>2. l # "done" => A!Holds(idq', k) /\ A!Holds(crq', k)
  BY <1>1
<1>3. (l \in WithUser(k) => A!Holds(idq', k)) /\ (l \in WithCredentials(k) => A!Holds(crq', k))
  BY <1>1, <1>2
<1>4. (idq' = idq \/ idq' = A!Leave(idq, k)) /\ (crq' = crq \/ crq' = A!Leave(crq, k))
  OBVIOUS
<1>5. /\ pc' \in [A!Task -> Spots] /\ pc'[k] = l /\ \A g \in A!Task : g # k => pc'[g] = pc[g]
      /\ idq' \in Seq(Login \cup A!Deleter) /\ crq' \in Seq(A!Task)
      /\ \A g \in A!Task : pc'[g] \in Places(g) /\ TurnOf(g)'
  BY <1>1, <1>3, <1>4, Moves DEF Spots
<1>6. AuthTypes' /\ SetUp'
  <2>1. user' \in Users /\ expired' \subseteq Login /\ unsure' \in BOOLEAN
    BY UserFacts DEF AuthInv, AuthTypes, A!TypeOK, A!rest
  <2> QED BY <1>5, <2>1, TypesKept DEF A!rest
<1>7. \A j \in Login : CredentialOf(j)'
  <2>1. \A j \in Login \ {k} : pc'[j] = pc[j]
    BY <1>5, LoginPlaces
  <2> QED BY <1>5, <2>1, CredentialWritten
<1>8. RowThere'
  BY <1>1, <1>5, LoginPlaces DEF AuthInv, RowThere
<1>9. RowGone' /\ Stopped'
  BY <1>1 DEF RowGone, Stopped, A!rest
<1> QED BY <1>5, <1>6, <1>7, <1>8, <1>9 DEF AuthInv

\* The setting is stored first ...
LEMMA PutsSetting == ASSUME AuthInv, NEW k \in Login, A!putSetting(k) PROVE AuthInv'
<1>1. /\ pc[k] = "queued" /\ A!Holds(crq, k)
      /\ UNCHANGED <<user, sessions, secret, expired, idq, crq>> /\ UNCHANGED A!rest
  BY DEF A!putSetting
<1>2. /\ k \notin sessions /\ k \notin setting /\ k \notin secret
      /\ \A t \in A!Task : drop[t][k] = "nothing"
      /\ sessions \subseteq Login /\ setting \subseteq Login /\ secret \subseteq Login
      /\ drop \in [A!Task -> [Login -> A!Stages]]
  BY <1>1, LoginFacts, TaskFacts
<1>3. CASE UNCHANGED <<faults, drop>> /\ setting' = setting \cup {k} /\ A!Goto(k, "secret")
  <2>1. faults' \in 0 .. MaxFaults
    BY <1>3, AuthFaults
  <2>2. pc'[k] = "secret" => CredentialOf(k)'
    BY <1>1, <1>2, <1>3 DEF CredentialOf
  <2>3. /\ sessions' \subseteq Login /\ setting' \subseteq Login /\ secret' \subseteq Login
        /\ secret' = secret /\ sessions' = sessions /\ setting' \ {k} = setting \ {k} /\ drop' = drop
    BY <1>1, <1>2, <1>3
  <2> QED BY <1>1, <1>2, <1>3, <2>1, <2>2, <2>3, Stores
<1>4. CASE A!Fault /\ setting' \in {setting, setting \cup {k}} /\ A!Undo(k)
  <2>1. faults' \in 0 .. MaxFaults
    BY <1>4, AuthFaults
  <2>2. /\ drop' \in [A!Task -> [Login -> A!Stages]] /\ drop'[k][k] = "secret"
        /\ \A t \in A!Task : t # k => drop'[t][k] = "nothing"
        /\ \A t \in A!Task : \A j \in Login \ {k} : drop'[t][j] = drop[t][j]
    BY <1>1, <1>4, Undoing
  <2>3. pc'[k] = "undo" => CredentialOf(k)'
    BY <1>1, <1>2, <2>2 DEF CredentialOf
  <2>4. /\ sessions' \subseteq Login /\ setting' \subseteq Login /\ secret' \subseteq Login
        /\ secret' = secret /\ sessions' = sessions /\ setting' \ {k} = setting \ {k}
    BY <1>1, <1>2, <1>4
  <2>5. A!Goto(k, "undo")
    BY <1>4 DEF A!Undo
  <2> QED BY <1>1, <2>1, <2>2, <2>3, <2>4, <2>5, Stores
<1> QED BY <1>3, <1>4 DEF A!putSetting, A!Healthy

\* ... then the token, and with it the session.
LEMMA PutsSecret == ASSUME AuthInv, NEW k \in Login, A!putSecret(k) PROVE AuthInv'
<1>1. pc[k] = "secret" /\ UNCHANGED <<user, setting, expired>> /\ UNCHANGED A!rest
  BY DEF A!putSecret
<1>2. /\ k \notin sessions /\ k \in setting /\ A!Holds(crq, k)
      /\ \A t \in A!Task : drop[t][k] = "nothing"
      /\ sessions \subseteq Login /\ setting \subseteq Login /\ secret \subseteq Login
      /\ drop \in [A!Task -> [Login -> A!Stages]]
  BY <1>1, LoginFacts, TaskFacts
<1>3. CASE /\ UNCHANGED <<faults, drop>> /\ secret' = secret \cup {k} /\ sessions' = sessions \cup {k}
           /\ A!End(k, "done")
  <2>1. faults' \in 0 .. MaxFaults /\ A!Goto(k, "done")
        /\ idq' = A!Leave(idq, k) /\ crq' = A!Leave(crq, k)
    BY <1>3, AuthFaults DEF A!End
  <2>2. pc'[k] = "done" => CredentialOf(k)'
    BY <1>1, <1>2, <1>3 DEF CredentialOf
  <2>3. /\ sessions' \subseteq Login /\ setting' \subseteq Login /\ secret' \subseteq Login
        /\ secret' \ {k} = secret \ {k} /\ sessions' \ {k} = sessions \ {k} /\ setting' = setting
        /\ drop' = drop
    BY <1>1, <1>2, <1>3
  <2> QED BY <1>1, <1>2, <2>1, <2>2, <2>3, Stores
<1>4. CASE /\ A!Fault /\ secret' \in {secret, secret \cup {k}} /\ A!Undo(k)
           /\ UNCHANGED <<sessions, idq, crq>>
  <2>1. faults' \in 0 .. MaxFaults
    BY <1>4, AuthFaults
  <2>2. /\ drop' \in [A!Task -> [Login -> A!Stages]] /\ drop'[k][k] = "secret"
        /\ \A t \in A!Task : t # k => drop'[t][k] = "nothing"
        /\ \A t \in A!Task : \A j \in Login \ {k} : drop'[t][j] = drop[t][j]
    BY <1>1, <1>4, Undoing
  <2>3. pc'[k] = "undo" => CredentialOf(k)'
    BY <1>1, <1>2, <1>4, <2>2 DEF CredentialOf
  <2>4. /\ sessions' \subseteq Login /\ setting' \subseteq Login /\ secret' \subseteq Login
        /\ secret' \ {k} = secret \ {k} /\ sessions' = sessions /\ setting' = setting
    BY <1>1, <1>2, <1>4
  <2>5. A!Goto(k, "undo")
    BY <1>4 DEF A!Undo
  <2> QED BY <1>1, <1>2, <1>4, <2>1, <2>2, <2>3, <2>4, <2>5, Stores
<1> QED BY <1>3, <1>4 DEF A!putSecret, A!Healthy

\* Whoever is at the head of the chain of credentials finds the logins that stored one done.
LEMMA Settled ==
    ASSUME AuthInv, NEW t \in A!Task \ Login, A!Holds(crq, t),
           NEW k \in Login, k \in setting \cup sessions
    PROVE  pc[k] = "done"
<1>1. CredentialOf(k) /\ TurnOf(k) /\ k \in A!Task /\ WithCredentials(k) = {"secret", "undo"}
  BY LoginPlaces DEF AuthInv
<1>2. pc[k] \in {"secret", "undo", "done"}
  BY <1>1 DEF CredentialOf
<1>3. A!Holds(crq, k) => t = k
  BY TaskFacts, Leaving, Zenon
<1> QED BY <1>1, <1>2, <1>3 DEF TurnOf

\* Credentials that are to be deleted belong to no session any more.
LEMMA ToBeDropped ==
    ASSUME AuthInv, UNCHANGED <<secret, setting>>, sessions' \subseteq sessions,
           \A k \in Login : pc'[k] = pc[k],
           \A t \in A!Task : \A k \in Login :
              \/ drop'[t][k] \in {drop[t][k], "nothing"}
              \/ drop'[t][k] = "secret" /\ pc[k] = "done" /\ k \notin sessions'
    PROVE  \A k \in Login : CredentialOf(k)'
<1> SUFFICES ASSUME NEW k \in Login PROVE CredentialOf(k)'
  OBVIOUS
<1>1. CredentialOf(k) /\ pc'[k] = pc[k]
  BY DEF AuthInv
<1>2. \A t \in A!Task : /\ drop'[t][k] # "nothing" => pc[k] \in {"undo", "done"} /\ k \notin sessions'
                        /\ drop'[t][k] = "setting" => k \notin secret
  BY <1>1 DEF CredentialOf
<1> QED BY <1>1, <1>2 DEF CredentialOf

\* A task other than a login moves, and begins to delete.
LEMMA TaskDrops ==
    ASSUME AuthInv, NEW t \in A!Task \ Login, NEW l \in Places(t), A!Goto(t, l), up,
           idq' = idq \/ idq' = A!Leave(idq, t), crq' = crq \/ crq' = A!Leave(crq, t),
           l \in WithUser(t) => A!Holds(idq', t), l \in WithCredentials(t) => A!Holds(crq', t),
           UNCHANGED <<user, setting, secret, expired>>, UNCHANGED A!rest,
           sessions' \subseteq sessions, pc[t] = "signout" => sessions' = {},
           faults' \in 0 .. MaxFaults, drop' \in [A!Task -> [Login -> A!Stages]],
           \A g \in A!Task : \A k \in Login :
              \/ drop'[g][k] \in {drop[g][k], "nothing"}
              \/ drop'[g][k] = "secret" /\ pc[k] = "done" /\ k \notin sessions'
    PROVE  AuthInv'
<1>1. /\ pc' \in [A!Task -> Spots] /\ pc'[t] = l /\ \A g \in A!Task : g # t => pc'[g] = pc[g]
      /\ idq' \in Seq(Login \cup A!Deleter) /\ crq' \in Seq(A!Task)
      /\ \A g \in A!Task : pc'[g] \in Places(g) /\ TurnOf(g)'
  BY Moves DEF Spots
<1>2. \A k \in Login : k \in A!Task /\ pc'[k] = pc[k]
  BY <1>1, LoginPlaces
<1>3. AuthTypes' /\ SetUp'
  <2>1. user' \in Users /\ expired' \subseteq Login /\ unsure' \in BOOLEAN
    BY UserFacts DEF AuthInv, AuthTypes, A!TypeOK, A!rest
  <2>2. sessions' \subseteq Login /\ setting' \subseteq Login /\ secret' \subseteq Login
    BY TaskFacts
  <2> QED BY <1>1, <2>1, <2>2, TypesKept DEF A!rest
<1>4. \A k \in Login : CredentialOf(k)'
  BY <1>2, ToBeDropped
<1>5. RowThere' /\ Stopped'
  BY <1>2 DEF AuthInv, RowThere, Stopped, A!rest
<1>6. RowGone'
  <2>1. \A g \in A!Deleter : g \in A!Task
    BY Kinds
  <2>2. \A g \in A!Deleter : pc[g] = "signout" => pc'[g] = "signout" \/ sessions' = {}
    BY <1>1, <2>1
  <2>3. sessions = {} => sessions' = {}
    OBVIOUS
  <2> QED BY <2>2, <2>3 DEF AuthInv, RowGone, A!rest
<1> QED BY <1>1, <1>3, <1>4, <1>5, <1>6 DEF AuthInv

\* A logout ends the session and then deletes its credential.
LEMMA LogsOut == ASSUME AuthInv, A!logoutSession PROVE AuthInv'
<1> DEFINE g == arg[leaver]
<1>1. /\ pc[leaver] = "queued" /\ A!Holds(crq, leaver) /\ sessions' = sessions \ {g}
      /\ A!Goto(leaver, "drop")
      /\ drop' = [drop EXCEPT ![leaver] = [drop[leaver] EXCEPT ![g] =
                                             IF g \in sessions THEN "secret" ELSE "nothing"]]
      /\ UNCHANGED <<user, setting, secret, expired, idq, crq, faults>> /\ UNCHANGED A!rest
  BY DEF A!logoutSession
<1>2. /\ leaver \in A!Task \ Login /\ "drop" \in Places(leaver)
      /\ WithUser(leaver) = {} /\ A!Holds(crq', leaver) /\ sessions' \subseteq sessions
      /\ faults' \in 0 .. MaxFaults /\ drop \in [A!Task -> [Login -> A!Stages]]
  BY <1>1, OtherPlaces, AuthFaults, TaskFacts
<1>3. up
  BY <1>1, <1>2, UnderWay
<1> DEFINE f == [drop[leaver] EXCEPT ![g] = IF g \in sessions THEN "secret" ELSE "nothing"]
<1>4. /\ f \in [Login -> A!Stages]
      /\ \A k \in Login : f[k] = IF k = g THEN IF g \in sessions THEN "secret" ELSE "nothing"
                                          ELSE drop[leaver][k]
  BY <1>2 DEF A!Stages
<1>5. drop' = [drop EXCEPT ![leaver] = f]
  BY <1>1
<1> HIDE DEF f, g
<1>6. drop' \in [A!Task -> [Login -> A!Stages]]
  BY <1>2, <1>4, <1>5
<1>7. ASSUME NEW h \in A!Task, NEW k \in Login
      PROVE  \/ drop'[h][k] \in {drop[h][k], "nothing"}
             \/ drop'[h][k] = "secret" /\ pc[k] = "done" /\ k \notin sessions'
  <2>1. CASE h = leaver /\ k = g /\ g \in sessions
    <3>1. pc[k] = "done"
      BY <1>1, <1>2, <2>1, Settled
    <3> QED BY <1>1, <1>2, <1>4, <1>5, <2>1, <3>1
  <2>2. CASE ~(h = leaver /\ k = g /\ g \in sessions)
    BY <1>2, <1>4, <1>5, <2>2
  <2> QED BY <2>1, <2>2
<1> QED BY <1>1, <1>2, <1>3, <1>6, <1>7, TaskDrops

\* Who begins to delete the credentials of a set of logins.
LEMMA Chosen ==
    ASSUME AuthInv, NEW t \in A!Task \ Login, NEW M \in SUBSET Login, M \cap sessions' = {},
           \A k \in M : pc[k] = "done",
           drop' = [drop EXCEPT ![t] = [k \in Login |-> IF k \in M THEN "secret" ELSE "nothing"]]
    PROVE  /\ drop' \in [A!Task -> [Login -> A!Stages]]
           /\ \A g \in A!Task : \A k \in Login :
                \/ drop'[g][k] \in {drop[g][k], "nothing"}
                \/ drop'[g][k] = "secret" /\ pc[k] = "done" /\ k \notin sessions'
<1> DEFINE f == [k \in Login |-> IF k \in M THEN "secret" ELSE "nothing"]
<1>1. f \in [Login -> A!Stages] /\ \A k \in Login : f[k] = IF k \in M THEN "secret" ELSE "nothing"
  BY DEF A!Stages
<1>2. drop' = [drop EXCEPT ![t] = f]
  OBVIOUS
<1> HIDE DEF f
<1>3. drop \in [A!Task -> [Login -> A!Stages]]
  BY TaskFacts
<1> QED BY <1>1, <1>2, <1>3

\* Whoever deleted the row ends all sessions and deletes their credentials.
LEMMA SignsOut == ASSUME AuthInv, NEW t \in A!Deleter, A!signOutUser(t) PROVE AuthInv'
<1>1. /\ pc[t] = "signout" /\ A!Holds(crq, t) /\ sessions' = {}
      /\ UNCHANGED <<user, setting, secret, expired>> /\ UNCHANGED A!rest
  BY DEF A!signOutUser
<1>2. /\ t \in A!Task \ Login /\ {"drop", "idle"} \subseteq Places(t)
      /\ WithUser(t) = {"delete", "signout", "drop"} /\ WithCredentials(t) = {"drop"}
      /\ drop \in [A!Task -> [Login -> A!Stages]] /\ TurnOf(t)
      /\ setting \subseteq Login /\ sessions \subseteq Login
  BY OtherPlaces, TaskFacts DEF AuthInv
<1>3. up /\ A!Holds(idq, t)
  BY <1>1, <1>2, UnderWay DEF TurnOf
<1>4. CASE /\ UNCHANGED faults /\ A!Goto(t, "drop") /\ UNCHANGED <<idq, crq>>
           /\ drop' = [drop EXCEPT ![t] = [k \in Login |-> IF k \in setting \cup sessions
                                                           THEN "secret" ELSE "nothing"]]
  <2>1. /\ \A k \in setting \cup sessions : pc[k] = "done"
        /\ (setting \cup sessions) \cap sessions' = {} /\ setting \cup sessions \in SUBSET Login
    BY <1>1, <1>2, Settled
  <2>2. /\ drop' \in [A!Task -> [Login -> A!Stages]]
        /\ \A g \in A!Task : \A k \in Login :
             \/ drop'[g][k] \in {drop[g][k], "nothing"}
             \/ drop'[g][k] = "secret" /\ pc[k] = "done" /\ k \notin sessions'
    BY <1>1, <1>2, <1>4, <2>1, Chosen
  <2>3. A!Holds(idq', t) /\ A!Holds(crq', t) /\ faults' \in 0 .. MaxFaults
    BY <1>1, <1>3, <1>4, AuthFaults
  <2> QED BY <1>1, <1>2, <1>3, <1>4, <2>2, <2>3, TaskDrops
<1>5. CASE A!Fault /\ A!End(t, "idle") /\ UNCHANGED drop
  <2>1. /\ A!Goto(t, "idle") /\ idq' = A!Leave(idq, t) /\ crq' = A!Leave(crq, t)
        /\ faults' \in 0 .. MaxFaults
    BY <1>5, AuthFaults DEF A!End
  <2>2. "idle" \notin WithUser(t) /\ "idle" \notin WithCredentials(t) /\ drop' = drop
    BY <1>2, <1>5
  <2> QED BY <1>1, <1>2, <1>3, <2>1, <2>2, TaskDrops
<1> QED BY <1>4, <1>5 DEF A!signOutUser, A!Healthy

\* The timer deletes the credentials of expired sessions, and those of no session.
LEMMA CleansUp == ASSUME AuthInv, A!cleanupExpired \/ A!cleanupPersisted PROVE AuthInv'
<1>1. /\ cleaner \in A!Task \ Login /\ {"drop", "undo"} \subseteq Places(cleaner)
      /\ WithUser(cleaner) = {} /\ TurnOf(cleaner)
      /\ WithCredentials(cleaner) = {"drop", "list", "undo"}
      /\ setting \subseteq Login /\ sessions \subseteq Login
  BY OtherPlaces, TaskFacts DEF AuthInv
<1>2. CASE A!cleanupExpired
  <2>1. /\ pc[cleaner] = "queued" /\ A!Holds(crq, cleaner) /\ sessions' = sessions \ expired
        /\ A!Goto(cleaner, "drop")
        /\ drop' = [drop EXCEPT ![cleaner] = [k \in Login |-> IF k \in sessions \cap expired
                                                              THEN "secret" ELSE "nothing"]]
        /\ UNCHANGED <<user, setting, secret, expired, idq, crq, faults>> /\ UNCHANGED A!rest
    BY <1>2 DEF A!cleanupExpired
  <2>2. /\ \A k \in sessions \cap expired : pc[k] = "done"
        /\ sessions \cap expired \cap sessions' = {} /\ sessions \cap expired \in SUBSET Login
    BY <1>1, <2>1, Settled
  <2>3. /\ drop' \in [A!Task -> [Login -> A!Stages]]
        /\ \A g \in A!Task : \A k \in Login :
             \/ drop'[g][k] \in {drop[g][k], "nothing"}
             \/ drop'[g][k] = "secret" /\ pc[k] = "done" /\ k \notin sessions'
    BY <1>1, <2>1, <2>2, Chosen
  <2>4. up /\ A!Holds(crq', cleaner) /\ faults' \in 0 .. MaxFaults
    BY <1>1, <2>1, UnderWay, AuthFaults
  <2> QED BY <1>1, <2>1, <2>3, <2>4, TaskDrops
<1>3. CASE A!cleanupPersisted
  <2>1. /\ pc[cleaner] = "list" /\ UNCHANGED <<user, sessions, setting, secret, expired>>
        /\ UNCHANGED A!rest
    BY <1>3 DEF A!cleanupPersisted, A!stores
  <2>2. A!Holds(crq, cleaner) /\ up
    BY <1>1, <2>1, UnderWay DEF TurnOf
  <2>3. CASE /\ UNCHANGED faults /\ A!Goto(cleaner, "undo") /\ UNCHANGED <<idq, crq>>
             /\ drop' = [drop EXCEPT ![cleaner] = [k \in Login |-> IF k \in setting \ sessions
                                                                   THEN "secret" ELSE "nothing"]]
    <3>1. /\ \A k \in setting \ sessions : pc[k] = "done"
          /\ (setting \ sessions) \cap sessions' = {} /\ setting \ sessions \in SUBSET Login
      BY <1>1, <2>1, <2>2, Settled
    <3>2. /\ drop' \in [A!Task -> [Login -> A!Stages]]
          /\ \A g \in A!Task : \A k \in Login :
               \/ drop'[g][k] \in {drop[g][k], "nothing"}
               \/ drop'[g][k] = "secret" /\ pc[k] = "done" /\ k \notin sessions'
      BY <1>1, <2>1, <2>3, <3>1, Chosen
    <3>3. A!Holds(crq', cleaner) /\ faults' \in 0 .. MaxFaults
      BY <2>2, <2>3, AuthFaults
    <3> QED BY <1>1, <2>1, <2>2, <2>3, <3>2, <3>3, TaskDrops
  <2>4. CASE A!Fault /\ A!End(cleaner, "idle") /\ UNCHANGED drop
    <3>1. /\ A!Goto(cleaner, "idle") /\ idq' = A!Leave(idq, cleaner)
          /\ crq' = A!Leave(crq, cleaner) /\ faults' \in 0 .. MaxFaults
      BY <2>4, AuthFaults DEF A!End
    <3>2. /\ "idle" \in Places(cleaner) /\ "idle" \notin WithUser(cleaner)
          /\ "idle" \notin WithCredentials(cleaner) /\ drop' = drop
          /\ drop \in [A!Task -> [Login -> A!Stages]]
      BY <1>1, <2>4, OtherPlaces, TaskFacts
    <3> QED BY <1>1, <2>1, <2>2, <3>1, <3>2, TaskDrops
  <2> QED BY <1>3, <2>3, <2>4 DEF A!cleanupPersisted, A!Healthy
<1> QED BY <1>2, <1>3

\* One step of a deletion: the secret, or the setting; or the deletion gives up.
LEMMA Drops ==
    ASSUME AuthInv, NEW t \in A!Task, NEW k \in Login,
           A!deletePersistedBrowserCredential(t, k)
    PROVE  AuthInv'
<1> DEFINE x == drop[t][k]
<1>1. /\ x # "nothing" /\ UNCHANGED <<user, sessions, expired>> /\ UNCHANGED A!rest
      /\ faults' \in 0 .. MaxFaults
  BY AuthFaults DEF A!deletePersistedBrowserCredential, A!Healthy
<1>2. /\ pc[k] \in {"undo", "done"} /\ k \notin sessions /\ CredentialOf(k)
      /\ (x = "setting" => k \notin secret) /\ x \in {"secret", "setting"}
      /\ drop \in [A!Task -> [Login -> A!Stages]] /\ drop[t] \in [Login -> A!Stages]
      /\ sessions \subseteq Login /\ setting \subseteq Login /\ secret \subseteq Login
  <2>1. /\ drop \in [A!Task -> [Login -> A!Stages]]
        /\ sessions \subseteq Login /\ setting \subseteq Login /\ secret \subseteq Login
    BY TaskFacts
  <2>2. drop[t] \in [Login -> A!Stages] /\ x \in A!Stages /\ CredentialOf(k)
    BY <2>1 DEF AuthInv
  <2> QED BY <1>1, <2>1, <2>2 DEF CredentialOf, A!Stages
<1>3. PICK failed \in BOOLEAN :
        /\ A!Dropped(t, k, failed)
        /\ IF failed THEN UNCHANGED <<secret, setting>>
           ELSE IF x = "secret" THEN secret' = secret \ {k} /\ UNCHANGED setting
           ELSE setting' = setting \ {k} /\ UNCHANGED secret
  BY DEF A!deletePersistedBrowserCredential
<1> DEFINE z == IF x = "secret" /\ ~failed THEN "setting" ELSE "nothing"
           f == [drop[t] EXCEPT ![k] = z]
<1>4. drop' = [drop EXCEPT ![t] = A!Nothing] \/ drop' = [drop EXCEPT ![t] = f]
  BY <1>3 DEF A!Dropped
<1>5. /\ f \in [Login -> A!Stages] /\ A!Nothing \in [Login -> A!Stages]
      /\ f[k] = z /\ (\A j \in Login \ {k} : f[j] = drop[t][j])
      /\ \A j \in Login : A!Nothing[j] = "nothing"
  BY <1>2 DEF A!Stages, A!Nothing
<1> HIDE DEF f, x
<1>6. /\ drop' \in [A!Task -> [Login -> A!Stages]]
      /\ drop'[t][k] \in {z, "nothing"}
      /\ \A j \in Login : j # k => drop'[t][j] \in {drop[t][j], "nothing"}
      /\ \A g \in A!Task : g # t => drop'[g] = drop[g]
  <2>1. CASE drop' = [drop EXCEPT ![t] = A!Nothing]
    BY <1>2, <1>5, <2>1
  <2>2. CASE drop' = [drop EXCEPT ![t] = f]
    BY <1>2, <1>5, <2>2
  <2> QED BY <1>4, <2>1, <2>2
<1>7. \/ UNCHANGED <<pc, idq, crq>>
      \/ /\ t \in A!Deleter /\ pc[t] = "drop" /\ A!Goto(t, "idle")
         /\ idq' = A!Leave(idq, t) /\ crq' = A!Leave(crq, t)
  BY <1>3 DEF A!Dropped, A!End
<1>8. /\ pc' \in [A!Task -> Spots] /\ idq' \in Seq(Login \cup A!Deleter) /\ crq' \in Seq(A!Task)
      /\ \A g \in A!Task : pc'[g] \in Places(g) /\ TurnOf(g)'
      /\ \A g \in A!Task : pc'[g] = pc[g] \/ (g \in A!Deleter /\ pc[g] = "drop" /\ pc'[g] = "idle")
  <2>1. CASE UNCHANGED <<pc, idq, crq>>
    BY <2>1 DEF AuthInv, AuthTypes, A!TypeOK, TurnOf, A!Holds, Spots
  <2>2. CASE /\ t \in A!Deleter /\ pc[t] = "drop" /\ A!Goto(t, "idle")
             /\ idq' = A!Leave(idq, t) /\ crq' = A!Leave(crq, t)
    <3>1. "idle" \in Places(t) /\ "idle" \notin WithUser(t) /\ "idle" \notin WithCredentials(t)
      BY <2>2, OtherPlaces
    <3>2. /\ pc' \in [A!Task -> Spots] /\ pc'[t] = "idle"
          /\ \A g \in A!Task : g # t => pc'[g] = pc[g]
          /\ idq' \in Seq(Login \cup A!Deleter) /\ crq' \in Seq(A!Task)
          /\ \A g \in A!Task : pc'[g] \in Places(g) /\ TurnOf(g)'
      BY <2>2, <3>1, Moves DEF Spots
    <3> QED BY <2>2, <3>2
  <2> QED BY <1>7, <2>1, <2>2
<1>9. AuthTypes' /\ SetUp'
  <2>1. user' \in Users /\ expired' \subseteq Login /\ unsure' \in BOOLEAN
    BY <1>1, UserFacts DEF AuthInv, AuthTypes, A!TypeOK, A!rest
  <2>2. sessions' \subseteq Login /\ setting' \subseteq Login /\ secret' \subseteq Login
    BY <1>1, <1>2, <1>3
  <2> QED BY <1>1, <1>6, <1>8, <2>1, <2>2, TypesKept DEF A!rest
<1>10. \A j \in Login : j \in A!Task /\ pc'[j] = pc[j]
  BY <1>8, Kinds
<1>11. ASSUME NEW j \in Login PROVE CredentialOf(j)'
  <2>1. CredentialOf(j) /\ pc'[j] = pc[j]
    BY <1>10 DEF AuthInv
  <2>2. CASE j # k
    <3>1. (j \in secret' <=> j \in secret) /\ (j \in setting' <=> j \in setting)
      BY <1>3, <2>2
    <3>2. \A g \in A!Task : drop'[g][j] \in {drop[g][j], "nothing"}
      BY <1>6, <2>2
    <3> QED BY <1>1, <2>1, <3>1, <3>2 DEF CredentialOf
  <2>3. CASE j = k
    <3>1. /\ k \in secret' => k \in setting'
          /\ k \in setting' => pc[k] \in {"undo", "done"}
          /\ z = "setting" => k \notin secret'
      BY <1>2, <1>3 DEF CredentialOf
    <3>2. k \notin secret => k \notin secret'
      BY <1>3
    <3>3. \A g \in A!Task : drop'[g][k] = "setting" => k \notin secret'
      BY <1>2, <1>6, <3>1, <3>2 DEF CredentialOf
    <3> QED BY <1>1, <1>2, <2>1, <2>3, <3>1, <3>3 DEF CredentialOf
  <2> QED BY <2>2, <2>3
<1>12. RowThere' /\ Stopped'
  BY <1>1, <1>8, <1>10 DEF AuthInv, RowThere, Stopped, A!rest
<1>13. RowGone'
  <2>1. \A g \in A!Deleter : pc[g] = "signout" => pc'[g] = "signout"
    BY <1>8, Kinds
  <2> QED BY <1>1, <2>1 DEF AuthInv, RowGone, A!rest
<1> QED BY <1>8, <1>9, <1>11, <1>12, <1>13 DEF AuthInv

\* Whoever deletes the row holds the chain of the user: no login is between the row and
\* its session.
LEMMA DeletesRow == ASSUME AuthInv, NEW t \in A!Deleter, A!deleteUserIdentity(t) PROVE AuthInv'
<1>1. /\ pc[t] = "delete" /\ UNCHANGED <<sessions, setting, secret, expired, drop>>
      /\ UNCHANGED <<up, passwordHash, setup>>
  BY DEF A!deleteUserIdentity
<1>2. /\ t \in A!Task /\ t \notin Login /\ {"idle", "signout"} \subseteq Places(t)
      /\ WithUser(t) = {"delete", "signout", "drop"} /\ WithCredentials(t) = {"drop"}
      /\ "idle" \notin WithUser(t) /\ "idle" \notin WithCredentials(t)
      /\ "signout" \notin WithCredentials(t)
      /\ TurnOf(t) /\ drop \in [A!Task -> [Login -> A!Stages]]
      /\ setting \subseteq Login /\ sessions \subseteq Login /\ secret \subseteq Login
  BY OtherPlaces, TaskFacts DEF AuthInv
<1>3. up /\ A!Holds(idq, t) /\ user \in Users
  BY <1>1, <1>2, UnderWay, UserFacts DEF TurnOf
<1>4. \A k \in Login : pc[k] \notin {"queued", "secret"}
  <2>1. \A k \in Login : pc[k] \in {"queued", "secret"} => A!Holds(idq, k)
    BY LoginFacts
  <2>2. \A k \in Login : A!Holds(idq, k) => k = t
    BY <1>3, TaskFacts, Leaving, Zenon
  <2> QED BY <1>2, <2>1, <2>2
<1>5. CASE A!End(t, "idle") /\ UNCHANGED <<user, unsure, faults>>
  <2>1. /\ A!Goto(t, "idle") /\ idq' = A!Leave(idq, t) /\ crq' = A!Leave(crq, t)
        /\ faults' \in 0 .. MaxFaults /\ UNCHANGED A!rest /\ user' = user
    BY <1>1, <1>5, AuthFaults DEF A!End, A!rest
  <2> QED BY <1>1, <1>2, <1>3, <2>1, MovesOn
<1>6. ASSUME user' = [rev |-> 0, seen |-> FALSE], NEW l \in {"idle", "signout"}, A!Goto(t, l),
             idq' = idq \/ idq' = A!Leave(idq, t),
             crq' = crq \/ crq' = A!Leave(crq, t) \/ crq' = Append(crq, t),
             l = "signout" => A!Holds(idq', t) /\ UNCHANGED unsure,
             l = "idle" => unsure' = TRUE, faults' \in 0 .. MaxFaults
      PROVE  AuthInv'
  <2>1. /\ pc' \in [A!Task -> Spots] /\ pc'[t] = l /\ \A g \in A!Task : g # t => pc'[g] = pc[g]
        /\ idq' \in Seq(Login \cup A!Deleter) /\ crq' \in Seq(A!Task)
        /\ \A g \in A!Task : pc'[g] \in Places(g) /\ TurnOf(g)'
    <3>1. l \in Places(t) /\ (l \in WithUser(t) => A!Holds(idq', t))
          /\ (l \in WithCredentials(t) => A!Holds(crq', t))
      BY <1>2, <1>6
    <3> QED BY <1>2, <1>6, <3>1, Moves DEF Spots
  <2>2. \A k \in Login : k \in A!Task /\ pc'[k] = pc[k]
    BY <1>2, <2>1, Kinds
  <2>3. AuthTypes' /\ SetUp'
    <3>1. user' \in Users /\ expired' \subseteq Login /\ unsure' \in BOOLEAN
      <4>1. user' \in Users
        BY <1>6, ControlAssumption DEF Users
      <4>2. unsure \in BOOLEAN /\ expired \subseteq Login
        BY DEF AuthInv, AuthTypes, A!TypeOK
      <4> QED BY <1>1, <1>6, <4>1, <4>2
    <3> QED BY <1>1, <1>2, <1>6, <2>1, <3>1, TypesKept
  <2>4. \A k \in Login : CredentialOf(k)'
    BY <1>1, <2>2, CredentialsStay
  <2>5. RowThere' /\ Stopped'
    BY <1>1, <1>3, <1>4, <2>2 DEF RowThere, Stopped
  <2>6. RowGone'
    BY <1>6, <2>1 DEF RowGone
  <2> QED BY <2>1, <2>3, <2>4, <2>5, <2>6 DEF AuthInv
<1>7. CASE /\ user' = [rev |-> 0, seen |-> FALSE] /\ UNCHANGED <<faults, idq, unsure>>
           /\ A!Goto(t, "signout") /\ crq' = Append(crq, t)
  <2>1. A!Holds(idq', t) /\ faults' \in 0 .. MaxFaults
    BY <1>3, <1>7, AuthFaults
  <2> QED BY <1>6, <1>7, <2>1
<1>8. CASE user' = [rev |-> 0, seen |-> FALSE] /\ A!Fault /\ A!End(t, "idle") /\ unsure' = TRUE
  <2>1. /\ faults' \in 0 .. MaxFaults /\ A!Goto(t, "idle")
        /\ idq' = A!Leave(idq, t) /\ crq' = A!Leave(crq, t)
    BY <1>8, AuthFaults DEF A!End
  <2> QED BY <1>6, <1>8, <2>1
<1> QED BY <1>5, <1>7, <1>8 DEF A!deleteUserIdentity, A!EnterCredentials, A!Healthy

\* The process starts with no session: every credential is deleted.
LEMMA Recovers == ASSUME AuthInv, A!recover PROVE AuthInv'
<1>1. /\ ~up /\ UNCHANGED <<user, sessions, setting, secret, expired, idq, crq, pc>>
      /\ UNCHANGED <<unsure, passwordHash, setup, faults>>
  BY DEF A!recover, A!stores
<1>2. sessions = {} /\ \A t \in A!Task : pc[t] \in {"idle", "done"}
  BY <1>1 DEF AuthInv, Stopped
<1>3. \A k \in setting : k \in Login /\ pc[k] = "done"
  <2>1. \A k \in Login : CredentialOf(k) /\ pc[k] \in {"idle", "done"}
    BY <1>2, Kinds DEF AuthInv
  <2> QED BY <2>1, TaskFacts DEF CredentialOf
<1>4. /\ drop' \in [A!Task -> [Login -> A!Stages]]
      /\ \A g \in A!Task : \A k \in Login :
           \/ drop'[g][k] \in {drop[g][k], "nothing"}
           \/ drop'[g][k] = "secret" /\ pc[k] = "done" /\ k \notin sessions'
  <2>1. CASE UNCHANGED drop
    BY <2>1, TaskFacts
  <2>2. CASE drop' = [drop EXCEPT ![cleaner] = [k \in Login |-> IF k \in setting
                                                                THEN "secret" ELSE "nothing"]]
    <3>1. cleaner \in A!Task \ Login /\ setting \in SUBSET Login /\ setting \cap sessions' = {}
      BY <1>1, <1>2, OtherPlaces, TaskFacts
    <3> QED BY <1>3, <2>2, <3>1, Chosen
  <2> QED BY <2>1, <2>2 DEF A!recover
<1>5. \A k \in Login : CredentialOf(k)'
  <2>1. (\A k \in Login : pc'[k] = pc[k]) /\ sessions' \subseteq sessions
    BY <1>1
  <2> QED BY <1>1, <1>4, <2>1, ToBeDropped
<1>6. AuthTypes' /\ SetUp'
  <2>1. A!TypeOK'
    <3>1. up' \in BOOLEAN
      BY DEF A!recover, AuthInv, AuthTypes, A!TypeOK
    <3> QED BY <1>1, <1>4, <3>1 DEF AuthInv, AuthTypes, A!TypeOK
  <2>2. \A g \in A!Task : Places(g)' = Places(g)
    BY DEF Places, A!Deleter
  <2> QED BY <1>1, <2>1, <2>2 DEF AuthInv, AuthTypes, SetUp
<1>7. (\A t \in A!Task : TurnOf(t))' /\ RowThere' /\ RowGone' /\ Stopped'
  BY <1>1, <1>2 DEF AuthInv, TurnOf, A!Holds, RowThere, RowGone, Stopped
<1> QED BY <1>5, <1>6, <1>7 DEF AuthInv

\* Of the set-ups that have hashed, the first one to store finds no password.
LEMMA SetsUp == ASSUME AuthInv, NEW s \in Setter, A!initialize(s) PROVE AuthInv'
<1>1. /\ UNCHANGED <<user, sessions, setting, secret, expired, idq, crq, pc, drop>>
      /\ UNCHANGED <<up, unsure, faults>>
  BY DEF A!initialize, A!stores
<1>2. setup \in [Setter -> {"idle", "hash", "owner", "refused"}] /\ passwordHash \in BOOLEAN
  BY DEF AuthInv, AuthTypes, A!TypeOK
<1>3. /\ setup' \in [Setter -> {"idle", "hash", "owner", "refused"}] /\ passwordHash' \in BOOLEAN
  BY <1>2 DEF A!initialize
<1>4. SetUp'
  <2>1. CASE setup' = [setup EXCEPT ![s] = "hash"] /\ UNCHANGED passwordHash
    BY <1>2, <2>1 DEF AuthInv, SetUp
  <2>2. CASE passwordHash' = TRUE
             /\ setup' = [setup EXCEPT ![s] = IF passwordHash THEN "refused" ELSE "owner"]
    BY <1>2, <2>2 DEF AuthInv, SetUp
  <2> QED BY <2>1, <2>2 DEF A!initialize
<1>5. AuthTypes'
  <2>1. A!TypeOK'
    BY <1>1, <1>3 DEF AuthInv, AuthTypes, A!TypeOK
  <2>2. \A g \in A!Task : Places(g)' = Places(g)
    BY DEF Places, A!Deleter
  <2> QED BY <1>1, <1>3, <2>1, <2>2 DEF AuthInv, AuthTypes
<1>6. \A k \in Login : CredentialOf(k)'
  BY <1>1, CredentialsStay
<1>7. (\A t \in A!Task : TurnOf(t))' /\ RowThere' /\ RowGone' /\ Stopped'
  BY <1>1 DEF AuthInv, TurnOf, A!Holds, RowThere, RowGone, Stopped
<1> QED BY <1>4, <1>5, <1>6, <1>7 DEF AuthInv

\* The sessions and the chains are lost, the stores stay.
LEMMA Crashes == ASSUME AuthInv, A!Crash PROVE AuthInv'
<1>1. /\ ~up' /\ up' \in BOOLEAN /\ sessions' = {} /\ idq' = <<>> /\ crq' = <<>>
      /\ UNCHANGED <<user, setting, secret, expired, unsure, passwordHash>>
      /\ faults' \in 0 .. MaxFaults
      /\ pc' = [t \in A!Task |-> IF t \in Login /\ pc[t] # "idle" THEN "done" ELSE "idle"]
      /\ drop' = [t \in A!Task |-> A!Nothing]
  BY AuthFaults DEF A!Crash
<1>2. \A t \in A!Task : /\ pc'[t] \in {"idle", "done"} /\ (t \notin Login => pc'[t] = "idle")
                        /\ pc[t] = "idle" \/ t \notin Login \/ pc'[t] = "done"
  BY <1>1
<1>3. /\ A!Nothing \in [Login -> A!Stages] /\ \A k \in Login : A!Nothing[k] = "nothing"
  BY DEF A!Nothing, A!Stages
<1>4. drop' \in [A!Task -> [Login -> A!Stages]]
      /\ \A t \in A!Task : \A k \in Login : drop'[t][k] = "nothing"
  BY <1>1, <1>3
<1>5. \A t \in A!Task : pc'[t] \in Places(t)
  BY <1>2, LoginPlaces DEF Places
<1>6. AuthTypes' /\ SetUp'
  <2>1. /\ setup \in [Setter -> {"idle", "hash", "owner", "refused"}]
        /\ setup' = [s \in Setter |-> IF setup[s] = "hash" THEN "refused" ELSE setup[s]]
    BY DEF A!Crash, AuthInv, AuthTypes
  <2>2. /\ setup' \in [Setter -> {"idle", "hash", "owner", "refused"}]
        /\ \A s \in Setter : setup'[s] = "owner" <=> setup[s] = "owner"
    BY <2>1
  <2>3. idq' \in Seq(Login \cup A!Deleter) /\ crq' \in Seq(A!Task)
    BY <1>1
  <2>4. pc' \in [A!Task -> Spots]
    BY <1>1 DEF Spots
  <2>5. A!TypeOK'
    BY <1>1, <1>4, <2>3, <2>4 DEF AuthInv, AuthTypes, A!TypeOK, Spots
  <2>6. \A g \in A!Task : Places(g)' = Places(g)
    BY DEF Places, A!Deleter
  <2>7. SetUp'
    BY <1>1, <2>2 DEF AuthInv, SetUp
  <2> QED BY <1>5, <2>2, <2>5, <2>6, <2>7 DEF AuthTypes
<1>7. ASSUME NEW t \in A!Task PROVE TurnOf(t)'
  BY <1>2 DEF TurnOf, WithUser, WithCredentials, A!Deleter
<1>8. ASSUME NEW k \in Login PROVE CredentialOf(k)'
  <2>1. CredentialOf(k) /\ k \in A!Task
    BY LoginPlaces DEF AuthInv
  <2> QED BY <1>1, <1>2, <1>4, <2>1 DEF CredentialOf
<1>9. RowThere' /\ RowGone' /\ Stopped'
  BY <1>1, <1>2, Kinds DEF RowThere, RowGone, Stopped
<1> QED BY <1>6, <1>7, <1>8, <1>9 DEF AuthInv

\* The process starts with empty stores.
LEMMA AuthInit == A!Init => AuthInv
<1> SUFFICES ASSUME A!Init PROVE AuthInv
  OBVIOUS
<1>1. /\ user = [rev |-> 0, seen |-> FALSE] /\ sessions = {} /\ setting = {} /\ secret = {}
      /\ expired = {} /\ idq = <<>> /\ crq = <<>> /\ up = TRUE /\ unsure = FALSE
      /\ passwordHash = FALSE /\ faults = 0
      /\ pc = [t \in A!Task |-> "idle"] /\ drop = [t \in A!Task |-> A!Nothing]
      /\ setup = [s \in Setter |-> "idle"]
  BY DEF A!Init
<1>2. MaxFaults \in Nat /\ MaxRevision \in Nat
  BY ControlAssumption
<1>3. drop \in [A!Task -> [Login -> A!Stages]]
      /\ \A t \in A!Task : \A k \in Login : drop[t][k] = "nothing"
  <2>1. /\ A!Nothing \in [Login -> A!Stages] /\ \A k \in Login : A!Nothing[k] = "nothing"
    BY DEF A!Nothing, A!Stages
  <2> QED BY <1>1, <2>1
<1>4. \A t \in A!Task : pc[t] = "idle" /\ pc[t] \in Places(t)
  BY <1>1, Kinds
<1>5. A!TypeOK
  <2>1. user \in [rev : 0 .. MaxRevision, seen : BOOLEAN] /\ faults \in 0 .. MaxFaults
    BY <1>1, <1>2
  <2>2. pc \in [A!Task -> Spots] /\ idq \in Seq(Login \cup A!Deleter) /\ crq \in Seq(A!Task)
    BY <1>1 DEF Spots
  <2> QED BY <1>1, <1>3, <2>1, <2>2 DEF A!TypeOK, Spots
<1>6. AuthTypes /\ SetUp
  <2>1. setup \in [Setter -> {"idle", "hash", "owner", "refused"}]
        /\ \A s \in Setter : setup[s] # "owner"
    BY <1>1
  <2> QED BY <1>4, <1>5, <2>1 DEF AuthTypes, SetUp
<1>7. ASSUME NEW t \in A!Task PROVE TurnOf(t)
  BY <1>4 DEF TurnOf, WithUser, WithCredentials
<1>8. ASSUME NEW k \in Login PROVE CredentialOf(k)
  BY <1>1, <1>3, <1>4, Kinds DEF CredentialOf
<1>9. RowThere /\ RowGone /\ Stopped
  BY <1>1, <1>4, Kinds DEF RowThere, RowGone, Stopped
<1> QED BY <1>6, <1>7, <1>8, <1>9 DEF AuthInv

\* Every step of signing in keeps its invariant.
LEMMA AuthStep == AuthInv /\ (A!Next \/ UNCHANGED <<avars, faults>>) => AuthInv'
<1> SUFFICES ASSUME AuthInv, A!Next \/ UNCHANGED <<avars, faults>> PROVE AuthInv'
  OBVIOUS
<1>1. CASE UNCHANGED <<avars, faults>>
  <2>1. /\ UNCHANGED <<sessions, setting, secret, idq, crq, pc, drop, up, unsure>>
        /\ UNCHANGED <<passwordHash, setup, faults, user, expired>>
    BY <1>1 DEF avars
  <2>2. user' \in Users /\ faults' \in 0 .. MaxFaults /\ expired' \subseteq Login
    BY <2>1, UserFacts, TaskFacts DEF AuthInv, AuthTypes, A!TypeOK
  <2> QED BY <2>1, <2>2, RowStays
<1>2. ASSUME NEW k \in Login,
             A!login(k) \/ A!Signing(k) \/ A!logout(k) \/ A!SessionExpires(k) PROVE AuthInv'
  <2>1. CASE A!Dropper(k)
    BY <2>1, LoginPlaces, Drops DEF A!Dropper
  <2> QED BY <1>2, <2>1, Logins, Refreshes, PutsSetting, PutsSecret, Undone, Logout, Times
          DEF A!Signing
<1>3. ASSUME NEW t \in A!Deleter, A!listUsers(t) \/ A!Deleting(t) PROVE AuthInv'
  <2>1. t \in A!Task \ Login
    BY OtherPlaces
  <2>2. CASE A!Dropper(t)
    BY <2>1, <2>2, Drops DEF A!Dropper
  <2> QED BY <1>3, <2>1, <2>2, Deletes, DeletesRow, SignsOut, DropDone DEF A!Deleting
<1>4. CASE A!LoggingOut
  <2>1. leaver \in A!Task \ Login
    BY OtherPlaces
  <2>2. CASE A!Dropper(leaver)
    BY <2>1, <2>2, Drops DEF A!Dropper
  <2> QED BY <1>4, <2>1, <2>2, LogsOut, DropDone DEF A!LoggingOut
<1>5. CASE A!Cleaning
  <2>1. cleaner \in A!Task \ Login
    BY OtherPlaces
  <2>2. CASE A!Dropper(cleaner)
    BY <2>1, <2>2, Drops DEF A!Dropper
  <2> QED BY <1>5, <2>1, <2>2, Cleans, CleansUp, Recovers, DropDone DEF A!Cleaning
<1> QED BY <1>1, <1>2, <1>3, <1>4, <1>5, Times, Crashes, SetsUp DEF A!Next

\* What is promised follows.
LEMMA AuthSafe == AuthInv => A!TypeOK /\ A!CredentialsSafe
<1> SUFFICES ASSUME AuthInv PROVE A!TypeOK /\ A!CredentialsSafe
  OBVIOUS
<1>1. A!SecretsIndexed /\ A!SessionsBacked
  <2>1. \A k \in Login : CredentialOf(k)
    BY DEF AuthInv
  <2> QED BY <2>1, TaskFacts DEF CredentialOf, A!SecretsIndexed, A!SessionsBacked
<1>2. A!SignedOut
  <2>1. \A t \in A!Deleter : pc[t] = "signout" => idq # <<>>
    <3>1. ASSUME NEW t \in A!Deleter, pc[t] = "signout" PROVE idq # <<>>
      <4>1. TurnOf(t) /\ WithUser(t) = {"delete", "signout", "drop"}
        BY OtherPlaces DEF AuthInv
      <4> QED BY <3>1, <4>1 DEF TurnOf, A!Holds
    <3> QED BY <3>1
  <2> QED BY <2>1 DEF AuthInv, RowGone, A!SignedOut
<1>3. A!SetupOnce
  <2> DEFINE M == {s \in Setter : setup[s] = "owner"}
  <2>1. A!Cardinality(M) = Cardinality(M)
    BY DEF A!Cardinality, Cardinality
  <2>2. Cardinality(M) \in {0, 1}
    <3>1. CASE M = {}
      BY <3>1, FS_EmptySet
    <3>2. ASSUME NEW s \in M PROVE Cardinality(M) = 1
      <4>1. M = {s}
        BY <3>2 DEF AuthInv, SetUp
      <4> QED BY <4>1, FS_Singleton
    <3> QED BY <3>1, <3>2
  <2> QED BY <2>1, <2>2 DEF A!SetupOnce
<1> QED BY <1>1, <1>2, <1>3 DEF AuthInv, AuthTypes, A!CredentialsSafe

---------------------------------------------------------------------------
(* Provider bindings of workers (ProviderBindings).                        *)

\* A call that has not created its row finds none: the identifier is fresh.  Who drops the
\* credential of a row, or erases it for a deletion, knows that nobody can choose it
\* any more; what is erased stays erased.
BoundBefore == /\ bind \in {"idle", "asked", "staged"} => row = "none"
               /\ bind \in {"idle", "asked"} => ~credential
               /\ bind \in {"drop", "undo"} => row # "live"
               /\ bind = "staged" => credential
ErasedFor(d) ==
    /\ unbind[d] \in {"read", "erased"} => row # "live"
    /\ unbind[d] = "erased" => ~credential
    /\ del[d] = "finalize" => given \/ ~credential
    /\ unbind[d] # "no" \/ del[d] # "idle" => bind \notin {"idle", "asked", "staged"} /\ row # "live"
BindInv == B!TypeOK /\ BoundBefore /\ (\A d \in Deletion : ErasedFor(d)) /\ B!BindingsMatch

\* Nothing is bound at first.
LEMMA BindingInit == B!Init => BindInv
<1>1. MaxFailures \in Nat
  BY ControlAssumption
<1>2. ASSUME B!Init PROVE B!TypeOK
  <2>1. del \in [Deletion -> {"idle", "begun", "waiting", "finalize"}]
    BY <1>2 DEF B!Init
  <2>2. unbind \in [Deletion -> {"no", "sent", "read", "erased"}]
    BY <1>2 DEF B!Init
  <2>3. faults \in 0 .. MaxFailures
    BY <1>1, <1>2 DEF B!Init
  <2>4. {credential, connected, revoked, given, stray} \subseteq BOOLEAN
    BY <1>2 DEF B!Init
  <2> QED BY <1>2, <2>1, <2>2, <2>3, <2>4 DEF B!Init, B!TypeOK
<1>3. ASSUME B!Init PROVE BoundBefore /\ (\A d \in Deletion : ErasedFor(d)) /\ B!BindingsMatch
  BY <1>3 DEF B!Init, BoundBefore, ErasedFor, B!BindingsMatch, B!CredentialHasRow,
     B!BindingHasCredential
<1> QED BY <1>2, <1>3 DEF BindInv

\* A fault is one of those there may be.
LEMMA BindingFaults ==
    ASSUME B!TypeOK, B!Fault \/ UNCHANGED faults PROVE faults' \in 0 .. MaxFailures
BY ControlAssumption DEF B!TypeOK, B!Fault

\* The binding itself, with the deletions where they are.
LEMMA BindingCreates ==
    ASSUME BindInv, B!postProviderBinding \/ B!Binding PROVE BindInv'
<1>1. faults' \in 0 .. MaxFailures
  BY BindingFaults DEF BindInv, B!postProviderBinding, B!Binding, B!stageCredential,
     B!createProviderBinding, B!deleteStaged, B!readBack, B!undoStaged, B!Healthy
<1>2. CASE B!postProviderBinding
  BY <1>1, <1>2 DEF BindInv, B!TypeOK, BoundBefore, ErasedFor, B!BindingsMatch,
     B!CredentialHasRow, B!BindingHasCredential, B!postProviderBinding, B!link
<1>3. CASE B!stageCredential
  <2>1. credential' \in BOOLEAN /\ stray' \in BOOLEAN
    BY <1>3 DEF BindInv, B!TypeOK, B!stageCredential, B!link
  <2>2. B!TypeOK'
    BY <1>1, <1>3, <2>1 DEF BindInv, B!TypeOK, B!stageCredential, B!link
  <2>3. BoundBefore' /\ B!BindingHasCredential'
    BY <1>3 DEF BindInv, BoundBefore, ErasedFor, B!BindingsMatch, B!BindingHasCredential, B!stageCredential
  <2>4. ASSUME NEW d \in Deletion PROVE ErasedFor(d)'
    BY <1>3 DEF BindInv, B!TypeOK, BoundBefore, ErasedFor, B!stageCredential, B!link
  <2>5. B!CredentialHasRow'
    BY <1>3, <2>1 DEF BindInv, B!TypeOK, BoundBefore, B!BindingsMatch, B!CredentialHasRow, B!stageCredential, B!link
  <2> QED BY <2>2, <2>3, <2>4, <2>5 DEF BindInv, B!BindingsMatch
<1>4. CASE B!createProviderBinding
  BY <1>1, <1>4 DEF BindInv, B!TypeOK, BoundBefore, ErasedFor, B!BindingsMatch,
     B!CredentialHasRow, B!BindingHasCredential, B!createProviderBinding, B!link
<1>5. CASE B!deleteStaged
  <2>1. credential' \in BOOLEAN /\ stray' \in BOOLEAN
    BY <1>5 DEF BindInv, B!TypeOK, B!deleteStaged, B!link
  <2>2. B!TypeOK'
    BY <1>1, <1>5, <2>1 DEF BindInv, B!TypeOK, B!deleteStaged, B!link
  <2>3. BoundBefore' /\ B!BindingHasCredential'
    BY <1>5 DEF BindInv, BoundBefore, ErasedFor, B!BindingsMatch, B!BindingHasCredential, B!deleteStaged
  <2>4. ASSUME NEW d \in Deletion PROVE ErasedFor(d)'
    <3>1. credential' => credential
      BY <1>5 DEF B!deleteStaged
    <3>2. UNCHANGED <<row, del, unbind, given>> /\ bind' \notin {"idle", "asked", "staged"}
      BY <1>5 DEF B!deleteStaged, B!link
    <3> QED BY <3>1, <3>2 DEF BindInv, ErasedFor
  <2>5. B!CredentialHasRow'
    BY <1>5, <2>1 DEF BindInv, B!TypeOK, BoundBefore, B!BindingsMatch, B!CredentialHasRow, B!deleteStaged, B!link
  <2> QED BY <2>2, <2>3, <2>4, <2>5 DEF BindInv, B!BindingsMatch
<1>6. CASE B!readBack
  <2>1. credential' \in BOOLEAN /\ stray' \in BOOLEAN
    BY <1>6 DEF BindInv, B!TypeOK, B!readBack, B!link
  <2>2. B!TypeOK'
    BY <1>1, <1>6, <2>1 DEF BindInv, B!TypeOK, B!readBack, B!link
  <2>3. BoundBefore' /\ B!BindingHasCredential'
    BY <1>6 DEF BindInv, BoundBefore, ErasedFor, B!BindingsMatch, B!BindingHasCredential, B!readBack
  <2>4. ASSUME NEW d \in Deletion PROVE ErasedFor(d)'
    BY <1>6 DEF BindInv, B!TypeOK, BoundBefore, ErasedFor, B!readBack, B!link
  <2>5. B!CredentialHasRow'
    BY <1>6, <2>1 DEF BindInv, B!TypeOK, BoundBefore, B!BindingsMatch, B!CredentialHasRow, B!readBack, B!link
  <2> QED BY <2>2, <2>3, <2>4, <2>5 DEF BindInv, B!BindingsMatch
<1>7. CASE B!undoStaged
  <2>1. credential' \in BOOLEAN /\ stray' \in BOOLEAN
    BY <1>7 DEF BindInv, B!TypeOK, B!undoStaged, B!link
  <2>2. B!TypeOK'
    BY <1>1, <1>7, <2>1 DEF BindInv, B!TypeOK, B!undoStaged, B!link
  <2>3. BoundBefore' /\ B!BindingHasCredential'
    BY <1>7 DEF BindInv, BoundBefore, ErasedFor, B!BindingsMatch, B!BindingHasCredential, B!undoStaged
  <2>4. ASSUME NEW d \in Deletion PROVE ErasedFor(d)'
    <3>1. credential' => credential
      BY <1>7 DEF B!undoStaged
    <3>2. UNCHANGED <<row, del, unbind, given>> /\ bind' \notin {"idle", "asked", "staged"}
      BY <1>7 DEF B!undoStaged, B!link
    <3> QED BY <3>1, <3>2 DEF BindInv, ErasedFor
  <2>5. B!CredentialHasRow'
    BY <1>7, <2>1 DEF BindInv, B!TypeOK, BoundBefore, B!BindingsMatch, B!CredentialHasRow, B!undoStaged, B!link
  <2> QED BY <2>2, <2>3, <2>4, <2>5 DEF BindInv, B!BindingsMatch
<1> QED BY <1>2, <1>3, <1>4, <1>5, <1>6, <1>7 DEF B!Binding

\* A deletion marks the row, has the credential erased and removes the row.
LEMMA BindingDeletes ==
    ASSUME BindInv, NEW d \in Deletion,
           B!beginBindingDeletion(d) \/ B!Deleting(d) \/ B!unbindTimesOut(d)
    PROVE  BindInv'
<1>1. faults' \in 0 .. MaxFailures
  BY BindingFaults DEF BindInv, B!beginBindingDeletion, B!Deleting, B!unbindTimesOut,
     B!deleteProviderBindingWithCredentialCleanup, B!removeBinding, B!unbindAnswered,
     B!finalizeBindingDeletion, B!Healthy
<1>2. CASE B!beginBindingDeletion(d)
  BY <1>1, <1>2 DEF BindInv, B!TypeOK, BoundBefore, ErasedFor, B!BindingsMatch,
     B!CredentialHasRow, B!BindingHasCredential, B!beginBindingDeletion, B!link, B!To
<1>3. CASE B!deleteProviderBindingWithCredentialCleanup(d)
  <2>1. B!TypeOK'
    BY <1>1, <1>3 DEF BindInv, B!TypeOK, B!deleteProviderBindingWithCredentialCleanup, B!link, B!To
  <2>2. BoundBefore' /\ B!BindingsMatch'
    BY <1>3 DEF BindInv, B!TypeOK, BoundBefore, ErasedFor, B!BindingsMatch,
       B!CredentialHasRow, B!BindingHasCredential, B!deleteProviderBindingWithCredentialCleanup, B!link, B!To
  <2>3. ASSUME NEW g \in Deletion PROVE ErasedFor(g)'
    BY <1>3 DEF BindInv, B!TypeOK, BoundBefore, ErasedFor, B!deleteProviderBindingWithCredentialCleanup, B!link, B!To
  <2> QED BY <2>1, <2>2, <2>3 DEF BindInv
<1>4. CASE B!removeBinding(d)
  <2>1. B!TypeOK'
    BY <1>1, <1>4 DEF BindInv, B!TypeOK, B!removeBinding, B!Refused, B!link
  <2>2. /\ UNCHANGED <<row, bind, given, stray>> /\ (credential' => credential)
        /\ \A g \in Deletion \ {d} : unbind'[g] = unbind[g] /\ del'[g] = del[g]
    <3>1. UNCHANGED <<row, bind, given, stray>>
      BY <1>4 DEF B!removeBinding, B!link
    <3>2. credential' => credential
      BY <1>4 DEF B!removeBinding
    <3>3. \A g \in Deletion \ {d} : unbind'[g] = unbind[g] /\ del'[g] = del[g]
      BY <1>4 DEF BindInv, B!TypeOK, B!removeBinding, B!Refused
    <3> QED BY <3>1, <3>2, <3>3
  <2>3. /\ unbind[d] # "no"
        /\ unbind'[d] \in {"read", "erased"} => row = "pending" \/ unbind[d] = "read"
        /\ unbind'[d] = "erased" => ~credential'
        /\ del'[d] \in {del[d], "idle"}
        /\ unbind[d] \in {"sent", "read"} /\ (credential' # credential => unbind[d] = "read")
    BY <1>4 DEF BindInv, B!TypeOK, B!removeBinding, B!Refused
  <2>4. BoundBefore' /\ B!BindingsMatch'
    BY <2>2, <2>3 DEF BindInv, BoundBefore, ErasedFor, B!BindingsMatch,
       B!CredentialHasRow, B!BindingHasCredential
  <2>5. ASSUME NEW g \in Deletion PROVE ErasedFor(g)'
    <3>1. CASE g = d
      BY <2>2, <2>3, <3>1 DEF BindInv, ErasedFor
    <3>2. CASE g # d
      BY <2>2, <3>2 DEF BindInv, ErasedFor
    <3> QED BY <3>1, <3>2
  <2> QED BY <2>1, <2>4, <2>5 DEF BindInv
<1>5. CASE B!unbindAnswered(d)
  BY <1>1, <1>5 DEF BindInv, B!TypeOK, BoundBefore, ErasedFor, B!BindingsMatch,
     B!CredentialHasRow, B!BindingHasCredential, B!unbindAnswered, B!link
<1>6. CASE B!unbindTimesOut(d)
  BY <1>1, <1>6 DEF BindInv, B!TypeOK, BoundBefore, ErasedFor, B!BindingsMatch,
     B!CredentialHasRow, B!BindingHasCredential, B!unbindTimesOut, B!link, B!To
<1>7. CASE B!finalizeBindingDeletion(d)
  BY <1>1, <1>7 DEF BindInv, B!TypeOK, BoundBefore, ErasedFor, B!BindingsMatch,
     B!CredentialHasRow, B!BindingHasCredential, B!finalizeBindingDeletion, B!link, B!To
<1> QED BY <1>2, <1>3, <1>4, <1>5, <1>6, <1>7 DEF B!Deleting

\* The connection and the life of the worker.
LEMMA BindingLinks ==
    ASSUME BindInv, B!Disconnect \/ B!Reconnect \/ B!WorkerCrash \/ B!revokeNode PROVE BindInv'
<1>1. faults' \in 0 .. MaxFailures
  BY BindingFaults DEF BindInv, B!Disconnect, B!Reconnect, B!WorkerCrash, B!revokeNode
<1>2. CASE B!Disconnect
  BY <1>1, <1>2 DEF BindInv, B!TypeOK, BoundBefore, ErasedFor, B!BindingsMatch,
     B!CredentialHasRow, B!BindingHasCredential, B!Disconnect
<1>3. CASE B!Reconnect
  BY <1>1, <1>3 DEF BindInv, B!TypeOK, BoundBefore, ErasedFor, B!BindingsMatch,
     B!CredentialHasRow, B!BindingHasCredential, B!Reconnect
<1>4. CASE B!WorkerCrash
  BY <1>1, <1>4 DEF BindInv, B!TypeOK, BoundBefore, ErasedFor, B!BindingsMatch,
     B!CredentialHasRow, B!BindingHasCredential, B!WorkerCrash
<1>5. CASE B!revokeNode
  BY <1>1, <1>5 DEF BindInv, B!TypeOK, BoundBefore, ErasedFor, B!BindingsMatch,
     B!CredentialHasRow, B!BindingHasCredential, B!revokeNode
<1> QED BY <1>2, <1>3, <1>4, <1>5

\* Every step of the bindings keeps their invariant.
LEMMA BindingStep == BindInv /\ (B!Next \/ UNCHANGED <<bvars, faults>>) => BindInv'
<1> SUFFICES ASSUME BindInv, B!Next \/ UNCHANGED <<bvars, faults>> PROVE BindInv'
  OBVIOUS
<1>1. CASE UNCHANGED <<bvars, faults>>
  BY <1>1 DEF BindInv, B!TypeOK, BoundBefore, ErasedFor, B!BindingsMatch, B!CredentialHasRow,
     B!BindingHasCredential, bvars
<1>2. CASE B!Next
  BY <1>2, BindingCreates, BindingDeletes, BindingLinks DEF B!Next
<1> QED BY <1>1, <1>2

---------------------------------------------------------------------------
(* The management API (ControlApi).                                        *)

\* What a request is: on which route, from whom, and where.
Requests == [at : {"idle", "auth", "owner", "attempt", "operate", "outcome", "done", "lost"},
             route : R!Route, by : R!Who, csrf : BOOLEAN, body : BOOLEAN,
             role : {"owner", "operator", "user", "none", "recovery", "token"}, ok : BOOLEAN]
ApiTypes == R!TypeOK /\ req \in [Request -> Requests]

\* What the log holds of a request, by where it is.
LogOf(r) == LET x == req[r] IN
    /\ x.at \in {"idle", "auth", "owner", "attempt", "operate"} => ~x.ok /\ r \notin applied
    /\ x.at \in {"idle", "auth", "owner", "attempt"} => audit[r] = <<>>
    /\ x.at = "attempt" => x.route.audited
    /\ x.at = "operate" => audit[r] = IF x.route.audited THEN <<"attempt">> ELSE <<>>
    /\ x.at = "outcome" => x.route.audited /\ audit[r] = <<"attempt">>
    /\ x.ok => r \in applied
    /\ x.route.audited /\ r \in applied => audit[r] # <<>>
    /\ audit[r] \in {<<>>, <<"attempt">>} \cup {<<"attempt", o>> : o \in R!Outcomes(x)}
    /\ x.at = "done" /\ audit[r] = <<"attempt">> => r \in reported

\* A request that was let in and has not been permitted since it came is stopped by the
\* owner of its thing, or of the channel it takes: that owner will not be its caller.
Obstructed(r) == LET x == req[r] IN
    \/ /\ x.at = "owner" /\ x.route.thing # "no" /\ ~R!systemWide(x.role)
       /\ owner[x.route.thing] # x.by
    \/ x.route.op = "createLive" /\ x.by \in R!User /\ owner["channel"] # x.by
PermissionOf(r) ==
    /\ r \in applied => r \in entitled
    /\ req[r].at \in {"owner", "attempt", "operate"} => r \in entitled \/ Obstructed(r)

ApiInv == ApiTypes /\ \A r \in Request : LogOf(r) /\ PermissionOf(r)

\* Every route compares the owner of a thing there is, or of none.
Shaped(x) == "thing" \in DOMAIN x /\ x.thing \in {"no"} \cup R!Thing

\* The constructors of routes give one.
LEMMA ShapedRoutes ==
    /\ \A s, o : Shaped(R!Read(s)) /\ Shaped(R!Change(s, o))
    /\ \A x : Shaped(x) => /\ Shaped(R!OwnersOnly(x)) /\ Shaped(R!Delegated(x))
                           /\ Shaped(R!Parsed(x)) /\ Shaped(R!Audited(x))
                           /\ Shaped(R!ParsedInside(x))
    /\ \A x, o : Shaped(x) => Shaped([x EXCEPT !.op = o])
    /\ \A x : Shaped(x) => Shaped(R!Of("session", x)) /\ Shaped(R!Of("channel", x))
<1>1. ASSUME NEW s PROVE Shaped(R!Read(s))
  BY DEF R!Read, Shaped
<1>2. ASSUME NEW s, NEW o PROVE Shaped(R!Change(s, o))
  <2> DEFINE x == R!Read(s)
  <2>1. Shaped(x)
    BY <1>1
  <2> HIDE DEF x
  <2>2. Shaped([x EXCEPT !.csrf = TRUE, !.op = o])
    BY <2>1 DEF Shaped
  <2> QED BY <2>2 DEF R!Change, x
<1>3. ASSUME NEW x, Shaped(x)
      PROVE  /\ Shaped(R!OwnersOnly(x)) /\ Shaped(R!Delegated(x))
             /\ Shaped(R!Parsed(x)) /\ Shaped(R!Audited(x)) /\ Shaped(R!ParsedInside(x))
  BY <1>3 DEF Shaped, R!OwnersOnly, R!Delegated, R!Parsed, R!Audited, R!ParsedInside
<1>4. ASSUME NEW x, NEW o, Shaped(x) PROVE Shaped([x EXCEPT !.op = o])
  BY <1>4 DEF Shaped
<1>5. ASSUME NEW x, Shaped(x)
      PROVE  Shaped(R!Of("session", x)) /\ Shaped(R!Of("channel", x))
  BY <1>5 DEF Shaped, R!Of, R!Thing
<1> QED BY <1>1, <1>2, <1>3, <1>4, <1>5

\* The routes are all of that shape.
LEMMA RouteThings == \A x \in R!Route : x.thing \in {"no"} \cup R!Thing
<1>1. /\ Shaped(R!getMe) /\ Shaped(R!postLogout) /\ Shaped(R!getSignInConfiguration)
      /\ Shaped(R!putSignInConfiguration) /\ Shaped(R!getRetention) /\ Shaped(R!putRetention)
      /\ Shaped(R!getCatalog) /\ Shaped(R!getCatalogItem)
  BY ShapedRoutes
     DEF R!getMe, R!postLogout, R!getSignInConfiguration, R!putSignInConfiguration,
         R!getRetention, R!putRetention, R!getCatalog, R!getCatalogItem
<1>2. /\ Shaped(R!getCatalogImage) /\ Shaped(R!getCatalogProfiles) /\ Shaped(R!getUsers)
      /\ Shaped(R!patchUser) /\ Shaped(R!deleteUser) /\ Shaped(R!getProviders)
      /\ Shaped(R!postProvider) /\ Shaped(R!postProviderValidate)
  BY ShapedRoutes
     DEF R!getCatalogImage, R!getCatalogProfiles, R!getUsers, R!patchUser, R!deleteUser,
         R!getProviders, R!postProvider, R!postProviderValidate
<1>3. /\ Shaped(R!deleteProvider) /\ Shaped(R!getProviderCatalog) /\ Shaped(R!getProviderItem)
      /\ Shaped(R!getProfiles) /\ Shaped(R!postProfile) /\ Shaped(R!putProfile)
      /\ Shaped(R!deleteProfile) /\ Shaped(R!getCapabilities)
  BY ShapedRoutes
     DEF R!deleteProvider, R!getProviderCatalog, R!getProviderItem, R!getProfiles,
         R!postProfile, R!putProfile, R!deleteProfile, R!getCapabilities
<1>4. /\ Shaped(R!getRuntime) /\ Shaped(R!postRuntimeValidate) /\ Shaped(R!putRuntime)
      /\ Shaped(R!postRestart) /\ Shaped(R!getNodes) /\ Shaped(R!postJoinToken)
      /\ Shaped(R!postEnroll) /\ Shaped(R!postDrain)
  BY ShapedRoutes
     DEF R!getRuntime, R!postRuntimeValidate, R!putRuntime, R!postRestart, R!getNodes,
         R!postJoinToken, R!postEnroll, R!postDrain
<1>5. /\ Shaped(R!postRotate) /\ Shaped(R!postRevokeNode) /\ Shaped(R!getNodeLogs)
      /\ Shaped(R!deleteNode) /\ Shaped(R!postPlacementPreview) /\ Shaped(R!getBindings)
      /\ Shaped(R!postBinding) /\ Shaped(R!deleteBinding)
  BY ShapedRoutes
     DEF R!postRotate, R!postRevokeNode, R!getNodeLogs, R!deleteNode, R!postPlacementPreview,
         R!getBindings, R!postBinding, R!deleteBinding
<1>6. /\ Shaped(R!getSessions) /\ Shaped(R!getSession) /\ Shaped(R!getProducers)
      /\ Shaped(R!getProducer) /\ Shaped(R!postSession) /\ Shaped(R!postLiveSession)
      /\ Shaped(R!deleteSession) /\ Shaped(R!patchSession)
  BY ShapedRoutes
     DEF R!getSessions, R!getSession, R!getProducers, R!getProducer, R!postSession,
         R!postLiveSession, R!deleteSession, R!patchSession
<1>7. /\ Shaped(R!getChannels) /\ Shaped(R!postChannel) /\ Shaped(R!postReplacement)
      /\ Shaped(R!deleteChannel) /\ Shaped(R!getCompatibility) /\ Shaped(R!postCompatibility)
      /\ Shaped(R!postToken) /\ Shaped(R!getTokens)
  BY ShapedRoutes
     DEF R!getChannels, R!postChannel, R!postReplacement, R!deleteChannel, R!getCompatibility,
         R!postCompatibility, R!postToken, R!getTokens
<1>8. /\ Shaped(R!deleteToken) /\ Shaped(R!getRecentEvents) /\ Shaped(R!getJobs)
      /\ Shaped(R!deleteJob) /\ Shaped(R!postRetry) /\ Shaped(R!getJobLogs)
      /\ Shaped(R!getBackends) /\ Shaped(R!postBackendValidate)
  BY ShapedRoutes
     DEF R!deleteToken, R!getRecentEvents, R!getJobs, R!deleteJob, R!postRetry, R!getJobLogs,
         R!getBackends, R!postBackendValidate
<1>9. /\ Shaped(R!postBackendActivate) /\ Shaped(R!getCache) /\ Shaped(R!deleteCache)
      /\ Shaped(R!getEvents)
  BY ShapedRoutes
     DEF R!postBackendActivate, R!getCache, R!deleteCache, R!getEvents
<1> QED BY <1>1, <1>2, <1>3, <1>4, <1>5, <1>6, <1>7, <1>8, <1>9
       DEF Shaped, R!Route

\* No request has come.
LEMMA ApiInit == R!Init => ApiInv
<1> SUFFICES ASSUME R!Init PROVE ApiInv
  OBVIOUS
<1>1. R!Idle \in Requests
  <2>1. R!getMe \in R!Route
    BY DEF R!Route
  <2> QED BY <2>1 DEF R!Idle, Requests, R!Who
<1>2. req \in [Request -> Requests] /\ \A r \in Request : req[r] = R!Idle
  BY <1>1 DEF R!Init
<1>3. R!TypeOK
  <2>1. roles \in [R!User -> {"owner", "operator", "user", "none"}]
    BY DEF R!Init, R!User
  <2>2. owner \in [R!Thing -> R!User \cup {"nobody"}]
    BY DEF R!Init, R!User, R!Thing
  <2>3. audit \in [Request -> Seq({"attempt", "success", "failure"})]
    BY DEF R!Init
  <2>4. faults \in 0 .. MaxFaults
    BY ControlAssumption DEF R!Init
  <2>5. \A r \in Request : req[r].at = "idle"
    BY <1>2 DEF R!Idle
  <2> QED BY <2>1, <2>2, <2>3, <2>4, <2>5 DEF R!Init, R!TypeOK
<1>4. ASSUME NEW r \in Request PROVE LogOf(r) /\ PermissionOf(r)
  <2>1. req[r].at = "idle" /\ ~req[r].ok /\ audit[r] = <<>> /\ applied = {}
    BY <1>2 DEF R!Idle, R!Init
  <2> QED BY <2>1 DEF LogOf, PermissionOf
<1> QED BY <1>2, <1>3, <1>4 DEF ApiInv, ApiTypes

\* What is owned only gets lost: an obstacle stays.
OnlyLost == \A t \in R!Thing : owner'[t] \in {owner[t], "nobody"}

\* An owner who stops a request goes on to stop it.
LEMMA ObstaclesStay ==
    ASSUME ApiTypes, NEW r \in Request, OnlyLost, Obstructed(r),
           req'[r].route = req[r].route, req'[r].by = req[r].by, req'[r].role = req[r].role,
           req'[r].at = req[r].at
    PROVE  Obstructed(r)'
<1>1. req[r].route \in R!Route /\ req[r].by \in R!Who
  BY DEF ApiTypes, Requests
<1>2. req[r].by # "nobody" /\ "channel" \in R!Thing
  BY <1>1 DEF R!Who, R!User, R!Thing
<1>3. req[r].route.thing # "no" => req[r].route.thing \in R!Thing
  BY <1>1, RouteThings
<1> QED BY <1>2, <1>3 DEF Obstructed, OnlyLost, R!systemWide, R!Admins

\* What a request has logged and is permitted holds after the step of another.
LEMMA Untouched ==
    ASSUME ApiInv, NEW r \in Request, req'[r] = req[r], audit'[r] = audit[r],
           r \in applied' <=> r \in applied, reported \subseteq reported',
           entitled \subseteq entitled', OnlyLost
    PROVE  LogOf(r)' /\ PermissionOf(r)'
<1>1. LogOf(r) /\ PermissionOf(r) /\ ApiTypes
  BY DEF ApiInv
<1>2. LogOf(r)'
  BY <1>1 DEF LogOf
<1>3. PermissionOf(r)'
  <2>1. Obstructed(r) => Obstructed(r)'
    BY <1>1, ObstaclesStay
  <2> QED BY <1>1, <2>1 DEF PermissionOf
<1> QED BY <1>2, <1>3

\* What a step of one request leaves to show: its own record.
LEMMA RequestMoves ==
    ASSUME ApiInv, NEW r \in Request, NEW x \in Requests, req' = [req EXCEPT ![r] = x],
           NEW log \in Seq({"attempt", "success", "failure"}), audit' = [audit EXCEPT ![r] = log],
           applied' \in {applied, applied \cup {r}}, reported' \in {reported, reported \cup {r}},
           entitled \subseteq entitled', entitled' \subseteq Request,
           roles' \in [R!User -> {"owner", "operator", "user", "none"}], token' \in BOOLEAN,
           browser' \subseteq browser, owner' \in [R!Thing -> R!User \cup {"nobody"}], OnlyLost,
           faults' \in 0 .. MaxFaults,
           LogOf(r)', PermissionOf(r)'
    PROVE  ApiInv'
<1>1. ApiTypes
  BY DEF ApiInv
<1>2. req' \in [Request -> Requests] /\ \A q \in Request \ {r} : req'[q] = req[q]
  BY <1>1 DEF ApiTypes
<1>3. /\ audit' \in [Request -> Seq({"attempt", "success", "failure"})]
      /\ \A q \in Request \ {r} : audit'[q] = audit[q]
  BY <1>1 DEF ApiTypes, R!TypeOK
<1>4. R!TypeOK'
  <2>1. \A q \in Request : req'[q].at \in {"idle", "auth", "owner", "attempt", "operate",
                                           "outcome", "done", "lost"}
    BY <1>2 DEF Requests
  <2>2. {applied', reported', entitled'} \subseteq SUBSET Request
    BY <1>1 DEF ApiTypes, R!TypeOK
  <2>3. browser' \subseteq R!User \cup {"recovery"}
    BY <1>1 DEF ApiTypes, R!TypeOK
  <2> QED BY <1>3, <2>1, <2>2, <2>3 DEF R!TypeOK
<1>5. ASSUME NEW q \in Request PROVE LogOf(q)' /\ PermissionOf(q)'
  <2>1. CASE q = r
    BY <2>1
  <2>2. CASE q # r
    <3>1. req'[q] = req[q] /\ audit'[q] = audit[q] /\ (q \in applied' <=> q \in applied)
      BY <1>2, <1>3, <2>2
    <3> QED BY <3>1, Untouched
  <2> QED BY <2>1, <2>2
<1> QED BY <1>2, <1>4, <1>5 DEF ApiInv, ApiTypes

\* What is known of every request.
LEMMA RequestFacts ==
    ASSUME ApiInv, NEW r \in Request
    PROVE  /\ ApiTypes /\ R!TypeOK /\ req[r] \in Requests /\ LogOf(r) /\ PermissionOf(r)
           /\ MaxFaults \in Nat /\ faults \in 0 .. MaxFaults
           /\ R!Fault => faults' \in 0 .. MaxFaults
           /\ R!Healthy => faults' \in 0 .. MaxFaults
           /\ audit[r] \in Seq({"attempt", "success", "failure"})
           /\ audit' = audit => audit' = [audit EXCEPT ![r] = audit[r]]
           /\ entitled \subseteq Request
<1>1. /\ ApiTypes /\ R!TypeOK /\ req[r] \in Requests /\ LogOf(r) /\ PermissionOf(r)
  BY DEF ApiInv, ApiTypes
<1>2. MaxFaults \in Nat /\ faults \in 0 .. MaxFaults
  BY <1>1, ControlAssumption DEF R!TypeOK
<1>3. /\ R!Fault => faults' \in 0 .. MaxFaults
      /\ R!Healthy => faults' \in 0 .. MaxFaults
  BY <1>2 DEF R!Fault, R!Healthy
<1>4. audit[r] \in Seq({"attempt", "success", "failure"})
  BY <1>1 DEF R!TypeOK
<1>5. audit' = audit => audit' = [audit EXCEPT ![r] = audit[r]]
  BY <1>1 DEF R!TypeOK
<1>6. entitled \subseteq Request
  BY <1>1 DEF R!TypeOK
<1> QED BY <1>1, <1>2, <1>3, <1>4, <1>5, <1>6

\* The fields of the record of a request that moves.
LEMMA WorldStays ==
    ASSUME ApiInv, UNCHANGED <<roles, token, browser, owner>>
    PROVE  /\ roles' \in [R!User -> {"owner", "operator", "user", "none"}] /\ token' \in BOOLEAN
           /\ browser' \subseteq browser /\ owner' \in [R!Thing -> R!User \cup {"nobody"}]
           /\ OnlyLost
BY DEF ApiInv, ApiTypes, R!TypeOK, OnlyLost

Watches == entitled' = entitled \cup {r \in Request : R!Permitted(r)'}
\* Who was permitted stays so.
LEMMA WatchedGrows ==
    ASSUME ApiInv, Watches
    PROVE  entitled \subseteq entitled' /\ entitled' \subseteq Request
BY DEF Watches, ApiInv, ApiTypes, R!TypeOK

\* A request comes in.
LEMMA Receives ==
    ASSUME ApiInv, NEW r \in Request, NEW route \in R!Route, NEW by \in R!Who,
           NEW csrf \in BOOLEAN, NEW body \in BOOLEAN,
           R!receive(r, route, by, csrf, body), Watches
    PROVE  ApiInv'
<1> DEFINE x == [R!Idle EXCEPT !.at = "auth", !.route = route, !.by = by, !.csrf = csrf,
                               !.body = body]
<1>1. /\ req[r].at = "idle" /\ req' = [req EXCEPT ![r] = x]
      /\ UNCHANGED <<roles, token, browser, owner, applied, audit, reported, faults>>
  BY DEF R!receive, R!world
<1>2. x \in Requests /\ x.at = "auth" /\ ~x.ok
  <2>1. R!Idle \in Requests /\ ~R!Idle.ok
    <3>1. R!getMe \in R!Route
      BY DEF R!Route
    <3> QED BY <3>1 DEF R!Idle, Requests, R!Who
  <2> HIDE DEF R!Idle
  <2> QED BY <2>1 DEF Requests
<1> HIDE DEF x
<1>3. req'[r] = x
  BY <1>1, RequestFacts DEF ApiTypes
<1>4. LogOf(r)'
  <2>1. audit[r] = <<>> /\ r \notin applied
    BY <1>1, RequestFacts DEF LogOf
  <2> QED BY <1>1, <1>2, <1>3, <2>1 DEF LogOf
<1>5. PermissionOf(r)'
  <2>1. r \notin applied
    BY <1>1, RequestFacts DEF LogOf
  <2> QED BY <1>1, <1>2, <1>3, <2>1 DEF PermissionOf
<1> QED BY <1>1, <1>2, <1>4, <1>5, RequestFacts, WorldStays, WatchedGrows, RequestMoves

\* A request that ends where nothing of it was done.
LEMMA Refused ==
    ASSUME NEW r \in Request, req \in [Request -> Requests], R!Refuse(r)
    PROVE  /\ [req[r] EXCEPT !.at = "done"] \in Requests
           /\ req' = [req EXCEPT ![r] = [req[r] EXCEPT !.at = "done"]]
           /\ req'[r].at = "done" /\ req'[r].route = req[r].route /\ req'[r].ok = req[r].ok
           /\ req'[r].by = req[r].by /\ req'[r].role = req[r].role
BY DEF R!Refuse, Requests

\* A request that passes a check.
LEMMA GoesOnward ==
    ASSUME NEW r \in Request, req \in [Request -> Requests], NEW from,
           NEW role \in {"owner", "operator", "user", "none", "recovery", "token"},
           R!Onward(r, role, from)
    PROVE  \E x \in Requests :
             /\ req' = [req EXCEPT ![r] = x] /\ req'[r] = x
             /\ x.route = req[r].route /\ x.ok = req[r].ok /\ x.by = req[r].by /\ x.role = role
             /\ x.at = IF from = "auth" /\ req[r].route.thing # "no" THEN "owner"
                       ELSE IF req[r].route.audited THEN "attempt" ELSE "operate"
<1> DEFINE l == IF from = "auth" /\ req[r].route.thing # "no" THEN "owner"
                ELSE IF req[r].route.audited THEN "attempt" ELSE "operate"
           y == [req[r] EXCEPT !.role = role]
           x == [y EXCEPT !.at = l]
<1>1. l \in {"owner", "attempt", "operate"}
  OBVIOUS
<1>2. req' = [req EXCEPT ![r].role = role, ![r].at = l]
  BY DEF R!Onward
<1> HIDE DEF l
<1>3. req' = [req EXCEPT ![r] = x]
  BY <1>2
<1>4. y \in Requests /\ y.route = req[r].route /\ y.ok = req[r].ok /\ y.by = req[r].by
      /\ y.role = role
  BY DEF Requests
<1> HIDE DEF y
<1>5. x \in Requests /\ x.route = req[r].route /\ x.ok = req[r].ok /\ x.by = req[r].by
      /\ x.role = role /\ x.at = l
  BY <1>1, <1>4 DEF Requests
<1>6. req'[r] = x
  BY <1>3
<1> HIDE DEF x
<1> QED BY <1>3, <1>5, <1>6 DEF l

\* Who is let in is permitted what he asks, unless an owner is in his way.
LEMMA Authenticates ==
    ASSUME ApiInv, NEW r \in Request, R!authenticate(r), Watches PROVE ApiInv'
<1> DEFINE x == req[r]
           role == R!RoleOf(x.by)
           good == /\ x.route.scope # "none" => R!Known(x.by)
                   /\ R!HasScope(role, x.route.scope) /\ R!requireCsrf(x)
                   /\ x.route.owners => role \in {"owner", "recovery"}
                   /\ x.route.delegated => x.by \in R!User
                   /\ x.route.parse = "before" => x.body
<1>1. /\ x.at = "auth" /\ UNCHANGED <<roles, token, browser, owner, applied, audit, reported, faults>>
  BY DEF R!authenticate, R!world
<1>2. /\ x \in Requests /\ ~x.ok /\ r \notin applied /\ audit[r] = <<>>
      /\ req \in [Request -> Requests]
  BY <1>1, RequestFacts DEF LogOf, ApiTypes
<1>3. role \in {"owner", "operator", "user", "none", "recovery", "token"}
  <2>1. x.by \in R!Who /\ roles \in [R!User -> {"owner", "operator", "user", "none"}]
    BY <1>2, RequestFacts DEF Requests, R!TypeOK
  <2> QED BY <2>1 DEF R!RoleOf, R!Who, R!User
<1>4. CASE good
  <2>1. R!Onward(r, role, "auth")
    BY <1>4 DEF R!authenticate
  <2>2. PICK y \in Requests :
             /\ req' = [req EXCEPT ![r] = y] /\ req'[r] = y
             /\ y.route = x.route /\ y.ok = x.ok /\ y.by = x.by /\ y.role = role
             /\ y.at = IF "auth" = "auth" /\ x.route.thing # "no" THEN "owner"
                       ELSE IF x.route.audited THEN "attempt" ELSE "operate"
    <3> HIDE DEF role
    <3> QED BY <1>2, <1>3, <2>1, GoesOnward
  <2>3. LogOf(r)'
    BY <1>1, <1>2, <2>2 DEF LogOf
  <2>4. PermissionOf(r)'
    <3> SUFFICES ASSUME r \notin entitled' PROVE Obstructed(r)'
      BY <1>1, <1>2 DEF PermissionOf
    <3>1. ~R!Permitted(r)'
      BY DEF Watches
    <3>2. R!RoleOf(x.by)' = role /\ R!Known(x.by)' = R!Known(x.by)
      BY <1>1, <2>2 DEF R!RoleOf, R!Known
    <3>3. x.route.scope # "none"
      BY <3>1, <2>2 DEF R!Permitted
    <3>4. R!Known(x.by) /\ R!HasScope(role, x.route.scope)
          /\ (x.route.owners => role \in {"owner", "recovery"})
      BY <1>4, <3>3
    <3>5. ~(/\ x.route.thing # "no" => R!systemWide(role) \/ owner[x.route.thing] = x.by
            /\ x.route.op = "createLive" /\ x.by \in R!User => owner["channel"] = x.by)
      <4>1. R!Permitted(r)' <=>
             /\ y.at # "idle"
             /\ \/ y.route.scope = "none"
                \/ /\ R!Known(y.by)' /\ R!HasScope(R!RoleOf(y.by)', y.route.scope)
                   /\ y.route.owners => R!RoleOf(y.by)' \in {"owner", "recovery"}
                   /\ y.route.thing # "no" =>
                        R!systemWide(R!RoleOf(y.by)') \/ owner'[y.route.thing] = y.by
                   /\ y.route.op = "createLive" /\ y.by \in R!User => owner'["channel"] = y.by
        BY <2>2 DEF R!Permitted, R!HasScope, R!systemWide, R!Admins, R!RoleScopes
      <4>2. y.at # "idle"
        BY <2>2
      <4> HIDE DEF role
      <4> QED BY <1>1, <2>2, <3>1, <3>2, <3>4, <4>1, <4>2
    <3>6. y.at = "owner" <=> x.route.thing # "no"
      BY <2>2
    <3> HIDE DEF role
    <3> QED BY <1>1, <2>2, <3>5, <3>6 DEF Obstructed, R!systemWide, R!Admins
  <2> QED BY <1>1, <1>2, <2>2, <2>3, <2>4, RequestFacts, WorldStays, WatchedGrows, RequestMoves
<1>5. CASE ~good
  <2>1. R!Refuse(r)
    BY <1>5 DEF R!authenticate
  <2> DEFINE y == [req[r] EXCEPT !.at = "done"]
  <2>2. /\ y \in Requests /\ req' = [req EXCEPT ![r] = y] /\ req'[r].at = "done"
        /\ req'[r].ok = x.ok
    BY <1>2, <2>1, Refused
  <2> HIDE DEF y
  <2>3. LogOf(r)' /\ PermissionOf(r)'
    BY <1>1, <1>2, <2>2 DEF LogOf, PermissionOf
  <2> QED BY <1>1, <1>2, <2>2, <2>3, RequestFacts, WorldStays, WatchedGrows, RequestMoves
<1> QED BY <1>4, <1>5

\* The owner of the thing is compared once more where a route says so.
LEMMA ChecksOwner ==
    ASSUME ApiInv, NEW r \in Request, R!checkOwner(r), Watches PROVE ApiInv'
<1> DEFINE x == req[r]
           good == /\ owner[x.route.thing] # "nobody"
                   /\ R!systemWide(x.role) \/ owner[x.route.thing] = x.by
<1>1. /\ x.at = "owner" /\ UNCHANGED <<roles, token, browser, owner, applied, audit, reported, faults>>
  BY DEF R!checkOwner, R!world
<1>2. /\ x \in Requests /\ ~x.ok /\ r \notin applied /\ audit[r] = <<>>
      /\ req \in [Request -> Requests] /\ (r \in entitled \/ Obstructed(r))
      /\ x.role \in {"owner", "operator", "user", "none", "recovery", "token"}
  BY <1>1, RequestFacts DEF LogOf, PermissionOf, ApiTypes, Requests
<1>4. CASE good
  <2>1. R!Onward(r, x.role, "owner")
    BY <1>4 DEF R!checkOwner
  <2>2. PICK y \in Requests :
             /\ req' = [req EXCEPT ![r] = y] /\ req'[r] = y
             /\ y.route = x.route /\ y.ok = x.ok /\ y.by = x.by /\ y.role = x.role
             /\ y.at = IF "owner" = "auth" /\ x.route.thing # "no" THEN "owner"
                       ELSE IF x.route.audited THEN "attempt" ELSE "operate"
    BY <1>2, <2>1, GoesOnward
  <2>3. LogOf(r)'
    BY <1>1, <1>2, <2>2 DEF LogOf
  <2>4. PermissionOf(r)'
    <3>1. Obstructed(r) => Obstructed(r)'
      BY <1>1, <1>4, <2>2 DEF Obstructed, R!systemWide, R!Admins
    <3> QED BY <1>1, <1>2, <3>1, WatchedGrows DEF PermissionOf
  <2> QED BY <1>1, <1>2, <2>2, <2>3, <2>4, RequestFacts, WorldStays, WatchedGrows, RequestMoves
<1>5. CASE ~good
  <2>1. R!Refuse(r)
    BY <1>5 DEF R!checkOwner
  <2> DEFINE y == [req[r] EXCEPT !.at = "done"]
  <2>2. /\ y \in Requests /\ req' = [req EXCEPT ![r] = y] /\ req'[r].at = "done"
        /\ req'[r].ok = x.ok
    BY <1>2, <2>1, Refused
  <2> HIDE DEF y
  <2>3. LogOf(r)' /\ PermissionOf(r)'
    BY <1>1, <1>2, <2>2 DEF LogOf, PermissionOf
  <2> QED BY <1>1, <1>2, <2>2, <2>3, RequestFacts, WorldStays, WatchedGrows, RequestMoves
<1> QED BY <1>4, <1>5

Records == {"attempt", "success", "failure"}
\* What a log may hold.
LEMMA Logs ==
    /\ Append(<<>>, "attempt") = <<"attempt">> /\ <<"attempt">> # <<>>
    /\ \A o \in Records : /\ Append(<<"attempt">>, o) = <<"attempt", o>>
                          /\ <<"attempt", o>> \in Seq(Records) /\ <<"attempt", o>> # <<"attempt">>
                          /\ <<"attempt", o>> # <<>>
    /\ <<"attempt">> \in Seq(Records) /\ <<>> \in Seq(Records)
<1>1. Append(<<>>, "attempt") = <<"attempt">> /\ <<"attempt">> # <<>>
  OBVIOUS
<1>2. <<"attempt">> \in Seq(Records) /\ <<>> \in Seq(Records)
  BY DEF Records
<1>3. ASSUME NEW o \in Records
      PROVE  /\ Append(<<"attempt">>, o) = <<"attempt", o>> /\ <<"attempt", o>> \in Seq(Records)
             /\ <<"attempt", o>> # <<"attempt">> /\ <<"attempt", o>> # <<>>
  <2>1. "attempt" \in Records
    BY DEF Records
  <2> HIDE DEF Records
  <2>2. Append(<<"attempt">>, o) = <<"attempt", o>>
    BY <2>1, TwoInARow
  <2>3. <<"attempt", o>> \in Seq(Records)
    BY <2>1
  <2>4. Len(<<"attempt", o>>) = 2 /\ Len(<<"attempt">>) = 1 /\ Len(<<>>) = 0
    OBVIOUS
  <2> QED BY <2>2, <2>3, <2>4
<1> QED BY <1>1, <1>2, <1>3

\* The attempt is in the log before the operation, or the request is refused.
LEMMA RecordsAttempt ==
    ASSUME ApiInv, NEW r \in Request, R!recordAttempt(r), Watches PROVE ApiInv'
<1> DEFINE x == req[r]
<1>1. /\ x.at = "attempt" /\ UNCHANGED <<roles, token, browser, owner, applied>>
  BY DEF R!recordAttempt, R!world
<1>2. /\ x \in Requests /\ ~x.ok /\ r \notin applied /\ audit[r] = <<>> /\ x.route.audited
      /\ req \in [Request -> Requests] /\ (r \in entitled \/ Obstructed(r))
  BY <1>1, RequestFacts DEF LogOf, PermissionOf, ApiTypes
<1>3. PICK log \in {<<>>, <<"attempt">>} : audit' = [audit EXCEPT ![r] = log]
                                           /\ (req'[r].at = "operate" => log = <<"attempt">>)
  <2>1. audit' = [audit EXCEPT ![r] = <<"attempt">>] \/ audit' = audit
    BY <1>2, Logs DEF R!recordAttempt, R!Append1
  <2>2. audit' = audit => audit' = [audit EXCEPT ![r] = <<>>]
    BY <1>2, RequestFacts
  <2>3. req'[r].at = "operate" => audit' = [audit EXCEPT ![r] = <<"attempt">>]
    <3>1. CASE R!Append1(r, "attempt")
      BY <1>2, <3>1, Logs DEF R!Append1
    <3>2. CASE R!Refuse(r)
      BY <1>2, <3>2, Refused
    <3> QED BY <3>1, <3>2 DEF R!recordAttempt
  <2> QED BY <2>1, <2>2, <2>3
<1>4. audit'[r] = log /\ log \in Seq({"attempt", "success", "failure"})
  BY <1>3, Logs, RequestFacts DEF R!TypeOK, Records
<1>5. PICK y \in Requests :
             /\ req' = [req EXCEPT ![r] = y] /\ req'[r] = y
             /\ y.route = x.route /\ y.ok = x.ok /\ y.by = x.by /\ y.role = x.role
             /\ y.at \in {"operate", "done"} /\ (y.at = "done" => r \in reported')
             /\ reported' \in {reported, reported \cup {r}} /\ faults' \in 0 .. MaxFaults
  <2>1. CASE R!Healthy /\ UNCHANGED reported /\ req' = [req EXCEPT ![r].at = "operate"]
    <3> DEFINE y == [req[r] EXCEPT !.at = "operate"]
    <3>1. /\ y \in Requests /\ req' = [req EXCEPT ![r] = y]
          /\ req'[r] = y /\ y.at = "operate"
          /\ y.route = x.route /\ y.ok = x.ok /\ y.by = x.by /\ y.role = x.role
      BY <1>2, <2>1 DEF Requests
    <3> HIDE DEF y
    <3> QED BY <2>1, <3>1, RequestFacts
  <2>2. CASE R!Fault /\ reported' = reported \cup {r} /\ R!Refuse(r)
    <3> DEFINE y == [req[r] EXCEPT !.at = "done"]
    <3>1. /\ y \in Requests /\ req' = [req EXCEPT ![r] = y]
          /\ req'[r] = y /\ y.at = "done"
          /\ y.route = x.route /\ y.ok = x.ok /\ y.by = x.by /\ y.role = x.role
      BY <1>2, <2>2 DEF Requests, R!Refuse
    <3> HIDE DEF y
    <3> QED BY <2>2, <3>1, RequestFacts
  <2> QED BY <2>1, <2>2 DEF R!recordAttempt
<1>6. LogOf(r)'
  BY <1>1, <1>2, <1>3, <1>4, <1>5 DEF LogOf
<1>7. PermissionOf(r)'
  <2>1. Obstructed(r) => Obstructed(r)'
    BY <1>1, <1>5 DEF Obstructed
  <2> QED BY <1>1, <1>2, <1>5, <2>1, WatchedGrows DEF PermissionOf
<1> QED BY <1>1, <1>3, <1>4, <1>5, <1>6, <1>7, WorldStays, WatchedGrows, RequestMoves

\* An effect withdraws rights and grants none.
LEMMA EffectsOnWorld ==
    ASSUME ApiInv, NEW x \in Requests, R!Effect(x)
    PROVE  /\ roles' \in [R!User -> {"owner", "operator", "user", "none"}] /\ token' \in BOOLEAN
           /\ browser' \subseteq browser /\ owner' \in [R!Thing -> R!User \cup {"nobody"}]
           /\ OnlyLost
<1>1. /\ roles \in [R!User -> {"owner", "operator", "user", "none"}] /\ token \in BOOLEAN
      /\ owner \in [R!Thing -> R!User \cup {"nobody"}]
  BY DEF ApiInv, ApiTypes, R!TypeOK
<1>2. CASE x.route.op = "logout"
  BY <1>1, <1>2 DEF R!Effect, OnlyLost
<1>3. CASE x.route.op = "demote"
  <2>1. PICK u \in R!User : roles' = [roles EXCEPT ![u] = "user"]
                            /\ UNCHANGED <<token, browser, owner>>
    BY <1>3 DEF R!Effect
  <2> QED BY <1>1, <2>1 DEF OnlyLost
<1>4. CASE x.route.op = "deleteUser"
  <2>1. PICK u \in R!User : roles' = [roles EXCEPT ![u] = "none"] /\ browser' = browser \ {u}
                            /\ UNCHANGED <<token, owner>>
    BY <1>4 DEF R!Effect
  <2> QED BY <1>1, <2>1 DEF OnlyLost
<1>5. CASE x.route.op = "revoke"
  <2>1. token' = FALSE /\ UNCHANGED <<roles, browser, owner>>
    BY <1>5 DEF R!Effect
  <2> QED BY <1>1, <2>1 DEF OnlyLost
<1>6. CASE x.route.op = "delete"
  <2>1. owner' = [owner EXCEPT ![x.route.thing] = "nobody"] /\ UNCHANGED <<roles, token, browser>>
    BY <1>6 DEF R!Effect
  <2> QED BY <1>1, <2>1 DEF OnlyLost
<1>7. CASE x.route.op \notin {"logout", "demote", "deleteUser", "revoke", "delete"}
  <2>1. UNCHANGED R!world
    BY <1>7 DEF R!Effect
  <2> QED BY <1>1, <2>1 DEF OnlyLost, R!world
<1> QED BY <1>2, <1>3, <1>4, <1>5, <1>6, <1>7

\* An operation is over: what it did, and the outcome that is to be recorded.
LEMMA Operates ==
    ASSUME ApiInv, NEW r \in Request, R!operation(r), Watches PROVE ApiInv'
<1> DEFINE x == req[r]
<1>1. /\ x.at = "operate" /\ UNCHANGED <<audit, reported>>
  BY DEF R!operation
<1>2. /\ x \in Requests /\ ~x.ok /\ r \notin applied
      /\ audit[r] = IF x.route.audited THEN <<"attempt">> ELSE <<>>
      /\ req \in [Request -> Requests] /\ (r \in entitled \/ Obstructed(r))
      /\ x.by \in R!Who
  BY <1>1, RequestFacts DEF LogOf, PermissionOf, ApiTypes, Requests
<1>3. ASSUME NEW k \in BOOLEAN, R!Over(r, k)
      PROVE  \E y \in Requests :
               /\ req' = [req EXCEPT ![r] = y] /\ req'[r] = y /\ y.route = x.route /\ y.ok = k
               /\ y.at = IF x.route.audited THEN "outcome" ELSE "done"
  <2> DEFINE l == IF x.route.audited THEN "outcome" ELSE "done"
             z == [req[r] EXCEPT !.ok = k]
             y == [z EXCEPT !.at = l]
  <2>1. l \in {"outcome", "done"}
    OBVIOUS
  <2>2. req' = [req EXCEPT ![r].ok = k, ![r].at = l]
    BY <1>3 DEF R!Over
  <2> HIDE DEF l
  <2>3. req' = [req EXCEPT ![r] = y]
    BY <2>2
  <2>4. z \in Requests /\ z.route = x.route /\ z.ok = k
    BY <1>2 DEF Requests
  <2> HIDE DEF z
  <2>5. y \in Requests /\ y.route = x.route /\ y.ok = k /\ y.at = l
    BY <2>1, <2>4 DEF Requests
  <2>6. req'[r] = y
    BY <1>2, <2>3
  <2> HIDE DEF y
  <2> QED BY <2>3, <2>5, <2>6 DEF l
<1>4. CASE /\ R!InsideOk(x) /\ R!Effect(x) /\ applied' = applied \cup {r}
           /\ \/ R!Healthy /\ R!Over(r, TRUE)
              \/ R!Fault /\ R!Over(r, FALSE)
  <2>1. r \in entitled
    BY <1>1, <1>2, <1>4 DEF Obstructed, R!InsideOk
  <2>2. PICK k \in BOOLEAN : R!Over(r, k) /\ faults' \in 0 .. MaxFaults
    BY <1>4, RequestFacts
  <2>3. PICK y \in Requests :
               /\ req' = [req EXCEPT ![r] = y] /\ req'[r] = y /\ y.route = x.route /\ y.ok = k
               /\ y.at = IF x.route.audited THEN "outcome" ELSE "done"
    BY <1>3, <2>2
  <2>4. LogOf(r)'
    <3>1. audit'[r] = IF y.route.audited THEN <<"attempt">> ELSE <<>>
      BY <1>1, <1>2, <2>3
    <3> QED BY <1>4, <2>3, <3>1, Logs DEF LogOf
  <2>5. PermissionOf(r)'
    BY <2>1, <2>3, WatchedGrows DEF PermissionOf
  <2>6. /\ roles' \in [R!User -> {"owner", "operator", "user", "none"}] /\ token' \in BOOLEAN
        /\ browser' \subseteq browser /\ owner' \in [R!Thing -> R!User \cup {"nobody"}]
        /\ OnlyLost
    BY <1>2, <1>4, EffectsOnWorld
  <2> QED BY <1>1, <1>4, <2>2, <2>3, <2>4, <2>5, <2>6, RequestFacts, WatchedGrows, RequestMoves
<1>5. CASE R!Healthy /\ R!Over(r, FALSE) /\ UNCHANGED <<R!world, applied>>
  <2>1. PICK y \in Requests :
               /\ req' = [req EXCEPT ![r] = y] /\ req'[r] = y /\ y.route = x.route /\ y.ok = FALSE
               /\ y.at = IF x.route.audited THEN "outcome" ELSE "done"
    BY <1>3, <1>5
  <2>2. LogOf(r)'
    <3>1. audit'[r] = IF y.route.audited THEN <<"attempt">> ELSE <<>>
      BY <1>1, <1>2, <2>1
    <3> QED BY <1>2, <1>5, <2>1, <3>1, Logs DEF LogOf
  <2>3. PermissionOf(r)'
    BY <1>2, <1>5, <2>1 DEF PermissionOf
  <2> QED BY <1>1, <1>5, <2>1, <2>2, <2>3, RequestFacts, WorldStays, WatchedGrows, RequestMoves
          DEF R!world
<1> QED BY <1>4, <1>5 DEF R!operation

\* The outcome follows the attempt, or its failure is reported.
LEMMA RecordsOutcome ==
    ASSUME ApiInv, NEW r \in Request, R!recordOutcome(r), Watches PROVE ApiInv'
<1> DEFINE x == req[r]
           y == [req[r] EXCEPT !.at = "done"]
<1>1. /\ x.at = "outcome" /\ UNCHANGED <<roles, token, browser, owner, applied>> /\ R!Refuse(r)
  BY DEF R!recordOutcome, R!world
<1>0. PICK o \in R!Outcomes(x) :
             \/ R!Healthy /\ R!Append1(r, o) /\ UNCHANGED reported
             \/ R!Fault /\ (R!Append1(r, o) \/ UNCHANGED audit) /\ reported' = reported \cup {r}
  BY DEF R!recordOutcome
<1>2. /\ x \in Requests /\ x.ok => r \in applied
      /\ audit[r] = <<"attempt">> /\ x.route.audited
      /\ req \in [Request -> Requests] /\ (r \in applied => r \in entitled)
  BY <1>1, RequestFacts DEF LogOf, PermissionOf, ApiTypes
<1>3. o \in Records
  BY <1>0 DEF Records, R!Outcomes
<1>4. PICK log \in {<<"attempt">>, <<"attempt", o>>} :
             /\ audit' = [audit EXCEPT ![r] = log]
             /\ log = <<"attempt">> => r \in reported'
             /\ reported' \in {reported, reported \cup {r}} /\ faults' \in 0 .. MaxFaults
  <2>1. R!Append1(r, o) => audit' = [audit EXCEPT ![r] = <<"attempt", o>>]
    BY <1>2, <1>3, Logs DEF R!Append1
  <2>2. audit' = audit => audit' = [audit EXCEPT ![r] = <<"attempt">>]
    BY <1>2, RequestFacts
  <2>3. <<"attempt", o>> # <<"attempt">>
    BY <1>3, Logs
  <2>4. CASE R!Healthy /\ R!Append1(r, o) /\ UNCHANGED reported
    BY <2>1, <2>3, <2>4, RequestFacts
  <2>5. CASE R!Fault /\ (R!Append1(r, o) \/ UNCHANGED audit) /\ reported' = reported \cup {r}
    <3>1. faults' \in 0 .. MaxFaults /\ r \in reported' /\ reported' \in {reported, reported \cup {r}}
      BY <2>5, RequestFacts
    <3> QED BY <2>1, <2>2, <2>5, <3>1
  <2> QED BY <1>0, <2>4, <2>5
<1>5. audit'[r] = log /\ log \in Seq({"attempt", "success", "failure"})
  BY <1>3, <1>4, Logs, RequestFacts DEF R!TypeOK, Records
<1>6. /\ y \in Requests /\ req' = [req EXCEPT ![r] = y] /\ req'[r].at = "done"
      /\ req'[r].ok = x.ok /\ req'[r].route = x.route
  BY <1>1, <1>2, Refused
<1> HIDE DEF y
<1>7. LogOf(r)'
  <2>1. log \in {<<>>, <<"attempt">>, <<"attempt", o>>} /\ log # <<>>
    BY <1>3, <1>4, Logs
  <2>2. o \in R!Outcomes(req'[r])
    BY <1>0, <1>6 DEF R!Outcomes
  <2> QED BY <1>1, <1>2, <1>4, <1>5, <1>6, <2>1, <2>2 DEF LogOf
<1>8. PermissionOf(r)'
  BY <1>1, <1>2, <1>6, WatchedGrows DEF PermissionOf
<1> QED BY <1>1, <1>4, <1>5, <1>6, <1>7, <1>8, WorldStays, WatchedGrows, RequestMoves

\* A crash loses the requests and the browser sessions.
LEMMA ApiCrashes == ASSUME ApiInv, R!Crash, Watches PROVE ApiInv'
<1>1. /\ R!Fault /\ browser' = {} /\ UNCHANGED <<roles, token, owner, applied, audit, reported>>
      /\ req' = [r \in Request |-> IF req[r].at \in {"idle", "done"} THEN req[r]
                                   ELSE [req[r] EXCEPT !.at = "lost"]]
  BY DEF R!Crash
<1>2. ApiTypes /\ faults' \in 0 .. MaxFaults
  <2>1. faults \in 0 .. MaxFaults /\ MaxFaults \in Nat
    BY ControlAssumption DEF ApiInv, ApiTypes, R!TypeOK
  <2> QED BY <1>1, <2>1 DEF ApiInv, R!Fault
<1>3. OnlyLost
  BY <1>1 DEF OnlyLost
<1>4. ASSUME NEW r \in Request
      PROVE  /\ req'[r] \in Requests /\ req'[r].ok = req[r].ok /\ req'[r].route = req[r].route
             /\ req'[r] = req[r] \/ req'[r].at = "lost"
  <2>1. req[r] \in Requests
    BY <1>2 DEF ApiTypes
  <2>2. [req[r] EXCEPT !.at = "lost"] \in Requests /\ [req[r] EXCEPT !.at = "lost"].at = "lost"
        /\ [req[r] EXCEPT !.at = "lost"].ok = req[r].ok
        /\ [req[r] EXCEPT !.at = "lost"].route = req[r].route
    BY <2>1 DEF Requests
  <2> QED BY <1>1, <2>1, <2>2
<1>5. req' \in [Request -> Requests]
  BY <1>1, <1>4
<1>6. R!TypeOK'
  <2>1. \A r \in Request : req'[r].at \in {"idle", "auth", "owner", "attempt", "operate",
                                           "outcome", "done", "lost"}
    BY <1>4 DEF Requests
  <2> QED BY <1>1, <1>2, <2>1, WatchedGrows DEF ApiTypes, R!TypeOK
<1>7. ASSUME NEW r \in Request PROVE LogOf(r)' /\ PermissionOf(r)'
  <2>1. CASE req'[r] = req[r]
    BY <1>1, <1>3, <2>1, WatchedGrows, Untouched
  <2>2. CASE req'[r].at = "lost"
    <3>1. LogOf(r) /\ PermissionOf(r)
      BY DEF ApiInv
    <3>2. LogOf(r)'
      BY <1>1, <1>4, <2>2, <3>1 DEF LogOf, R!Outcomes
    <3>3. PermissionOf(r)'
      BY <1>1, <2>2, <3>1, WatchedGrows DEF PermissionOf
    <3> QED BY <3>2, <3>3
  <2> QED BY <1>4, <2>1, <2>2
<1> QED BY <1>5, <1>6, <1>7 DEF ApiInv, ApiTypes

\* Every step of the management API keeps its invariant.
LEMMA ApiStep == ApiInv /\ (R!Next \/ UNCHANGED <<rvars, faults>>) => ApiInv'
<1>1. ASSUME ApiInv, UNCHANGED <<rvars, faults>> PROVE ApiInv'
  BY <1>1 DEF rvars, ApiInv, ApiTypes, R!TypeOK, LogOf, PermissionOf, Obstructed, R!systemWide,
              R!Admins
<1>2. ASSUME ApiInv, NEW r \in Request, R!Watched(R!Handling(r)) PROVE ApiInv'
  BY <1>2, Authenticates, ChecksOwner, RecordsAttempt, Operates, RecordsOutcome
     DEF R!Watched, Watches, R!Handling
<1>3. ASSUME ApiInv, NEW r \in Request, NEW route \in R!Route, NEW by \in R!Who,
             NEW csrf \in BOOLEAN, NEW body \in BOOLEAN,
             R!Watched(R!receive(r, route, by, csrf, body))
      PROVE  ApiInv'
  BY <1>3, Receives DEF R!Watched, Watches
<1>4. ASSUME ApiInv, R!Watched(R!Crash) PROVE ApiInv'
  BY <1>4, ApiCrashes DEF R!Watched, Watches
<1> QED BY <1>1, <1>2, <1>3, <1>4 DEF R!Next

\* What is promised of effects and of the log follows.
LEMMA ApiSafe == ApiInv => R!TypeOK /\ R!EffectsAuthorized /\ R!AuditKept
<1> SUFFICES ASSUME ApiInv PROVE R!TypeOK /\ R!EffectsAuthorized /\ R!AuditKept
  OBVIOUS
<1>1. R!TypeOK /\ R!EffectsAuthorized
  <2>1. R!TypeOK
    BY DEF ApiInv, ApiTypes
  <2> QED BY <2>1 DEF ApiInv, PermissionOf, R!EffectsAuthorized, R!TypeOK
<1>2. ASSUME NEW r \in Request
      PROVE LET x == req[r] IN
              /\ x.route.audited /\ r \in applied => audit[r] # <<>>
              /\ audit[r] # <<>> => Head(audit[r]) = "attempt"
              /\ Len(audit[r]) <= 2
              /\ audit[r] # <<>> /\ Len(audit[r]) = 2 =>
                   /\ audit[r][2] = "success" => x.ok
                   /\ audit[r][2] # "success" => ~x.ok \/ x.route = R!postPlacementPreview
              /\ x.ok => r \in applied
              /\ x.at = "done" /\ Len(audit[r]) = 1 => r \in reported
  <2>1. LogOf(r)
    BY DEF ApiInv
  <2>2. CASE audit[r] = <<>>
    <3>1. Len(audit[r]) = 0
      BY <2>2
    <3> QED BY <2>1, <2>2, <3>1 DEF LogOf
  <2>3. CASE audit[r] = <<"attempt">>
    <3>1. Len(audit[r]) = 1 /\ Head(audit[r]) = "attempt"
      BY <2>3
    <3> QED BY <2>1, <2>3, <3>1 DEF LogOf
  <2>4. ASSUME NEW o \in R!Outcomes(req[r]), audit[r] = <<"attempt", o>>
        PROVE  /\ Len(audit[r]) = 2 /\ Head(audit[r]) = "attempt"
               /\ audit[r][2] = "success" => req[r].ok
               /\ audit[r][2] # "success" => ~req[r].ok \/ req[r].route = R!postPlacementPreview
    <3>1. Len(audit[r]) = 2 /\ Head(audit[r]) = "attempt" /\ audit[r][2] = o
      BY <2>4
    <3>2. /\ o = "success" => req[r].ok
          /\ o # "success" => ~req[r].ok \/ req[r].route = R!postPlacementPreview
      BY <2>4, Zenon DEF R!Outcomes
    <3> QED BY <3>1, <3>2
  <2>5. audit[r] \in {<<>>, <<"attempt">>} \/ \E o \in R!Outcomes(req[r]) : audit[r] = <<"attempt", o>>
    BY <2>1 DEF LogOf
  <2>6. CASE \E o \in R!Outcomes(req[r]) : audit[r] = <<"attempt", o>>
    BY <2>1, <2>4, <2>6 DEF LogOf
  <2> QED BY <2>2, <2>3, <2>5, <2>6
<1> QED BY <1>1, <1>2 DEF R!AuditKept

---------------------------------------------------------------------------
(* The migrations (SchemaMigration).                                       *)

Working == {"locked", "backup", "check", "begin", "apply", "record", "commit", "unlock"}

\* Who migrates holds the lock: there is one of them.
OneMigrates == \A p \in Migrator : at[p] \in Working => lock = p

\* What the transaction of a migrator is worth: what the rows that it has seen, and
\* added, make of the tables.
WorkOf(p) ==
    /\ at[p] = "locked" /\ driver = "sqlite" => work[p] = db
    /\ at[p] \in {"backup", "check", "begin"} => seen[p] = db.rows
    /\ at[p] \in {"backup", "check"} /\ driver = "sqlite" => work[p] = db
    /\ at[p] \in {"apply", "commit"} => work[p] = S!Made(seen[p])
    /\ at[p] = "record" => /\ seen[p] < latest[p]
                           /\ work[p] = S!ApplyStatements(S!Made(seen[p]), seen[p] + 1)
    /\ at[p] \in Working \ {"locked", "unlock"} => db.rows <= seen[p] /\ seen[p] <= latest[p]
    /\ at[p] = "commit" => seen[p] = latest[p]
    /\ at[p] = "unlock" => db.rows >= latest[p]

\* The copy that a migrator writes, and where it is needed.
Backup(n) == [of |-> n, whole |-> TRUE, final |-> TRUE]
CopyOf(p) ==
    /\ at[p] \notin {"backup", "check"} => file[p] = None
    /\ at[p] = "backup" /\ driver = "postgres" => file[p] = None
    /\ at[p] = "backup" /\ driver = "sqlite" =>
         file[p] = [of |-> db.rows, whole |-> FALSE, final |-> TRUE]
    /\ at[p] = "check" => file[p] = [of |-> db.rows, whole |-> TRUE, final |-> driver = "sqlite"]
    /\ at[p] \in {"begin", "apply", "record", "commit"} =>
         db.rows \in {0, latest[p]} \/ Backup(db.rows) \in files

SchemaInv == /\ S!TypeOK /\ file \in [Migrator -> S!File \cup {None}]
             /\ OneMigrates /\ \A p \in Migrator : WorkOf(p) /\ CopyOf(p)
             /\ S!SchemaSound

\* The newest build knows every version.
LEMMA LastBounds == /\ S!Last \in Nat
                    /\ \A p \in S!Process : latest[p] \in 0 .. S!Last
<1> DEFINE L == {latest[p] : p \in S!Process}
           Top(n) == \A p \in S!Process : latest[p] <= n
<1>1. \E n \in L : Top(n)
  BY ControlAssumption DEF S!Process
<1>2. S!Last = CHOOSE n \in L : Top(n)
  BY DEF S!Last
<1>3. S!Last \in L /\ Top(S!Last)
  <2> HIDE DEF L, Top
  <2> QED BY <1>1, <1>2
<1>4. \A p \in S!Process : latest[p] \in Nat
  BY ControlAssumption DEF S!Process
<1> QED BY <1>3, <1>4

\* The schema that a version has.
LEMMA MadeType ==
    ASSUME NEW n \in 0 .. S!Last
    PROVE  S!Made(n) \in S!Schema
<1>1. MetaVersion \in Nat /\ n \in Nat /\ 0 \in 0 .. S!Last
  BY LastBounds, ControlAssumption
<1>2. (n >= MetaVersion) \in BOOLEAN
  OBVIOUS
<1>3. (IF n >= MetaVersion THEN n ELSE 0) \in 0 .. S!Last
  BY <1>1
<1> QED BY <1>2, <1>3 DEF S!Made, S!Schema

\* A version has its rows and its shape.
LEMMA MadeRows == \A n : S!Made(n).rows = n /\ S!Made(n).shape = n
BY DEF S!Made

\* Schemas that agree in all there is of them are one.
LEMMA SameSchema ==
    ASSUME NEW s \in S!Schema, NEW u \in S!Schema,
           s.rows = u.rows, s.named = u.named, s.meta = u.meta, s.shape = u.shape
    PROVE  s = u
BY DEF S!Schema

\* A migration and its row bring the tables from one version to the next.
LEMMA MadeNext ==
    ASSUME NEW n \in 0 .. S!Last, n + 1 \in 0 .. S!Last
    PROVE  /\ S!ApplyStatements(S!Made(n), n + 1) \in S!Schema
           /\ S!InsertRow(S!ApplyStatements(S!Made(n), n + 1), n + 1) = S!Made(n + 1)
           /\ S!ApplyStatements(S!Made(n), n + 1).rows = n
<1> DEFINE m == S!Made(n)
           a == S!ApplyStatements(m, n + 1)
           r == S!InsertRow(a, n + 1)
<1>1. MetaVersion \in Nat /\ n \in Nat /\ n + 1 \in 0 .. S!Last
  BY LastBounds, ControlAssumption
<1>2. /\ m \in S!Schema /\ m.rows = n /\ m.named = IF n >= MetaVersion THEN n ELSE 0
      /\ m.meta = (n >= MetaVersion)
  BY MadeType DEF S!Made
<1> HIDE DEF m
<1>3. /\ a \in S!Schema /\ a.rows = n /\ a.named = m.named /\ a.shape = n + 1
      /\ a.meta = (m.meta \/ n + 1 = MetaVersion)
  BY <1>1, <1>2 DEF S!Schema, S!ApplyStatements
<1>4. a.meta = (n + 1 >= MetaVersion)
  <2>1. (n >= MetaVersion \/ n + 1 = MetaVersion) = (n + 1 >= MetaVersion)
    BY <1>1
  <2> QED BY <2>1, <1>2, <1>3
<1>5. ~a.meta => a.named = 0
  BY <1>1, <1>2, <1>3, <1>4
<1> HIDE DEF a
<1>6. /\ r \in S!Schema /\ r.rows = n + 1 /\ r.meta = a.meta /\ r.shape = n + 1
      /\ r.named = IF a.meta THEN n + 1 ELSE a.named
  BY <1>1, <1>3 DEF S!Schema, S!InsertRow
<1>7. /\ S!Made(n + 1) \in S!Schema /\ S!Made(n + 1).rows = n + 1 /\ S!Made(n + 1).shape = n + 1
      /\ S!Made(n + 1).named = IF n + 1 >= MetaVersion THEN n + 1 ELSE 0
      /\ S!Made(n + 1).meta = (n + 1 >= MetaVersion)
  BY <1>1, MadeType DEF S!Made
<1>8. r.named = S!Made(n + 1).named
  <2> HIDE DEF r
  <2>1. CASE n + 1 >= MetaVersion
    BY <2>1, <1>4, <1>6, <1>7
  <2>2. CASE ~(n + 1 >= MetaVersion)
    <3>1. ~a.meta
      BY <2>2, <1>4
    <3> QED BY <3>1, <2>2, <1>5, <1>6, <1>7
  <2> QED BY <2>1, <2>2
<1>9. r = S!Made(n + 1)
  <2> HIDE DEF r
  <2> QED BY <1>4, <1>6, <1>7, <1>8, SameSchema
<1> QED BY <1>3, <1>9 DEF a, m

\* The database is empty or what some build left, and nobody migrates.
LEMMA SchemaInit == S!Init => SchemaInv
<1> SUFFICES ASSUME S!Init PROVE SchemaInv
  OBVIOUS
<1>1. PICK n \in 0 .. S!Last : db = S!Made(n)
  BY DEF S!Init
<1>2. S!Made(0) \in S!Schema /\ db \in S!Schema /\ 0 \in 0 .. S!Last
  BY <1>1, MadeType, LastBounds
<1>3. S!TypeOK
  <2>1. lock \in Migrator \cup {None} /\ faults \in 0 .. MaxFailures
    BY ControlAssumption DEF S!Init
  <2> QED BY <1>2, <2>1 DEF S!Init, S!TypeOK
<1>4. db = S!Made(db.rows)
  BY <1>1, MadeRows
<1>5. \A p \in S!Process : at[p] = "idle"
  BY DEF S!Init
<1>6. \A p \in Migrator : at[p] = "idle" /\ file[p] = None
  BY DEF S!Init, S!Process
<1>7. left = {} /\ files = {}
  BY DEF S!Init
<1>8. S!SchemaSound
  BY <1>4, <1>5, <1>7 DEF S!SchemaSound, S!HistoryMatchesTables, S!VersionsBackedUp,
                          S!ServesOwnSchema
<1>9. file \in [Migrator -> S!File \cup {None}]
  BY DEF S!Init
<1> QED BY <1>3, <1>6, <1>8, <1>9 DEF SchemaInv, OneMigrates, WorkOf, CopyOf, Working

\* Who holds the lock, or finds it free, moves: nobody else is migrating.
LEMMA HolderMoves ==
    ASSUME SchemaInv, NEW p \in Migrator, lock \in {p, None}, NEW l, at' = [at EXCEPT ![p] = l],
           S!TypeOK', file' \in [Migrator -> S!File \cup {None}],
           l \in Working => lock' = p,
           WorkOf(p)', CopyOf(p)', \A q \in Migrator \ {p} : file'[q] = file[q],
           S!SchemaSound'
    PROVE  SchemaInv'
<1>1. \A q \in Migrator \ {p} : at'[q] = at[q] /\ at[q] \notin Working
  BY ControlAssumption DEF SchemaInv, OneMigrates, S!TypeOK
<1>2. at'[p] = l
  BY DEF SchemaInv, S!TypeOK, S!Process
<1>3. OneMigrates'
  BY <1>1, <1>2 DEF OneMigrates
<1>4. ASSUME NEW q \in Migrator \ {p} PROVE WorkOf(q)'
  <2>1. at'[q] \notin Working
    BY <1>1
  <2> QED BY <2>1 DEF WorkOf, Working
<1>5. ASSUME NEW q \in Migrator \ {p} PROVE CopyOf(q)'
  <2>1. at'[q] \notin Working
    BY <1>1
  <2>2. file'[q] = None
    BY <1>1 DEF SchemaInv, CopyOf, Working
  <2> QED BY <2>1, <2>2 DEF CopyOf, Working
<1> QED BY <1>3, <1>4, <1>5 DEF SchemaInv

\* A step that leaves the database alone, and may add backups.
LEMMA WholeStay ==
    ASSUME S!SchemaSound, driver' = driver, db' = db, left' = left, files \subseteq files',
           driver = "postgres" => \A f \in files' : f.final => f.whole,
           \A q \in S!Process : at'[q] = "serving" => at[q] = "serving" \/ db.rows >= latest[q]
    PROVE  S!SchemaSound'
<1>1. S!HistoryMatchesTables'
  BY DEF S!SchemaSound, S!HistoryMatchesTables
<1>2. S!VersionsBackedUp'
  BY DEF S!SchemaSound, S!VersionsBackedUp
<1>3. S!ServesOwnSchema'
  BY DEF S!SchemaSound, S!ServesOwnSchema
<1> QED BY <1>1, <1>2, <1>3 DEF S!SchemaSound

\* What holds of a migrator, and of one step on its way.
LEMMA MigratorFacts ==
    ASSUME SchemaInv, NEW p \in Migrator
    PROVE  /\ S!TypeOK /\ file \in [Migrator -> S!File \cup {None}] /\ WorkOf(p) /\ CopyOf(p)
           /\ S!SchemaSound /\ db = S!Made(db.rows)
           /\ driver = "postgres" => \A f \in files : f.final => f.whole
           /\ latest[p] \in 0 .. S!Last /\ S!Last \in Nat /\ MaxFailures \in Nat
           /\ p \in S!Process /\ db.rows \in 0 .. S!Last /\ db.shape = db.rows
           /\ faults \in 0 .. MaxFailures
           /\ S!Fault => faults' \in 0 .. MaxFailures
<1>1. /\ S!TypeOK /\ file \in [Migrator -> S!File \cup {None}] /\ WorkOf(p) /\ CopyOf(p)
      /\ S!SchemaSound /\ db = S!Made(db.rows)
      /\ driver = "postgres" => \A f \in files : f.final => f.whole
  BY DEF SchemaInv, S!SchemaSound, S!HistoryMatchesTables, S!VersionsBackedUp
<1>2. p \in S!Process /\ MaxFailures \in Nat /\ faults \in 0 .. MaxFailures /\ db \in S!Schema
  BY <1>1, ControlAssumption DEF S!Process, S!TypeOK
<1>3. latest[p] \in 0 .. S!Last /\ S!Last \in Nat
  BY <1>2, LastBounds
<1>4. db.rows \in 0 .. S!Last
  BY <1>2 DEF S!Schema
<1>5. db.shape = db.rows
  <2> DEFINE n == db.rows
  <2>1. db = S!Made(n) => db.shape = n
    BY MadeRows
  <2> QED BY <2>1, <1>1
<1>6. S!Fault => faults' \in 0 .. MaxFailures
  BY <1>2 DEF S!Fault
<1> QED BY <1>1, <1>2, <1>3, <1>4, <1>5, <1>6

\* One migrator moves.
LEMMA MigratorGoes ==
    ASSUME SchemaInv, NEW p \in Migrator, NEW l, S!Goto(p, l)
    PROVE  /\ at' = [at EXCEPT ![p] = l] /\ at'[p] = l
           /\ \A q \in S!Process : q # p => at'[q] = at[q]
           /\ at[p] \in Working => lock = p
           /\ l \in Working \cup {"idle", "serving", "failed"} => at' \in
                [S!Process -> {"idle", "locked", "backup", "check", "begin", "apply", "record",
                               "commit", "unlock", "serving", "failed"}]
<1>1. /\ at \in [S!Process -> {"idle", "locked", "backup", "check", "begin", "apply", "record",
                               "commit", "unlock", "serving", "failed"}]
      /\ p \in S!Process /\ at' = [at EXCEPT ![p] = l]
      /\ at[p] \in Working => lock = p
  BY DEF SchemaInv, S!TypeOK, S!Goto, S!Process, OneMigrates
<1> QED BY <1>1 DEF Working

\* Who fails leaves the database as it is, and the lock to others.
LEMMA GivesUp ==
    ASSUME SchemaInv, NEW p \in Migrator, S!Fails(p), faults' \in 0 .. MaxFailures,
           files \subseteq files', files' \subseteq S!File,
           driver = "postgres" => \A f \in files' : f.final => f.whole,
           file' = [file EXCEPT ![p] = None]
    PROVE  SchemaInv'
<1>1. /\ at' = [at EXCEPT ![p] = "failed"] /\ lock' = (IF lock = p THEN None ELSE lock)
      /\ UNCHANGED <<driver, db, seen, work, left>>
  BY DEF S!Fails, S!Goto
<1>2. S!TypeOK /\ at'[p] = "failed" /\ \A q \in Migrator \ {p} : at'[q] = at[q]
  BY <1>1 DEF SchemaInv, S!TypeOK, S!Process
<1>3. file' \in [Migrator -> S!File \cup {None}] /\ file'[p] = None
  BY DEF SchemaInv
<1>4. S!TypeOK'
  <2>1. at' \in [S!Process -> {"idle", "locked", "backup", "check", "begin", "apply", "record",
                               "commit", "unlock", "serving", "failed"}]
    BY <1>1, <1>2 DEF S!TypeOK
  <2> QED BY <1>1, <1>2, <1>3, <2>1 DEF S!TypeOK
<1>5. OneMigrates'
  BY <1>1, <1>2 DEF OneMigrates, SchemaInv, Working
<1>6. ASSUME NEW q \in Migrator PROVE WorkOf(q)'
  <2>1. CASE q = p
    BY <2>1, <1>2 DEF WorkOf, Working
  <2>2. CASE q # p
    <3>1. at'[q] = at[q] /\ WorkOf(q)
      BY <1>2, <2>2 DEF SchemaInv
    <3> QED BY <3>1, <1>1 DEF WorkOf
  <2> QED BY <2>1, <2>2
<1>7. ASSUME NEW q \in Migrator PROVE CopyOf(q)'
  <2>1. CASE q = p
    BY <2>1, <1>2, <1>3 DEF CopyOf
  <2>2. CASE q # p
    <3>1. at'[q] = at[q] /\ CopyOf(q) /\ file'[q] = file[q]
      BY <1>2, <2>2 DEF SchemaInv
    <3> QED BY <3>1, <1>1 DEF CopyOf
  <2> QED BY <2>1, <2>2
<1>8. S!SchemaSound'
  <2>1. \A q \in S!Process : at'[q] = "serving" => at[q] = "serving"
    BY <1>1, <1>2 DEF S!TypeOK
  <2> QED BY <1>1, <2>1, WholeStay DEF SchemaInv
<1> QED BY <1>3, <1>4, <1>5, <1>6, <1>7, <1>8 DEF SchemaInv

\* A step of the holder that leaves the database as it is.
LEMMA Advances ==
    ASSUME SchemaInv, NEW p \in Migrator, NEW l \in Working \cup {"serving"}, S!Goto(p, l),
           lock \in {p, None}, lock' \in {p, None}, l \in Working => lock' = p,
           l = "serving" => db.rows >= latest[p], faults' \in 0 .. MaxFailures,
           UNCHANGED <<driver, db, left>>,
           seen' \in [Migrator -> 0 .. S!Last], work' \in [Migrator -> S!Schema],
           files \subseteq files', files' \subseteq S!File,
           driver = "postgres" => \A f \in files' : f.final => f.whole,
           file' \in [Migrator -> S!File \cup {None}],
           \A q \in Migrator \ {p} : file'[q] = file[q],
           WorkOf(p)', CopyOf(p)'
    PROVE  SchemaInv'
<1>1. at' = [at EXCEPT ![p] = l] /\ at'[p] = l /\ \A q \in S!Process : q # p => at'[q] = at[q]
  BY MigratorGoes
<1>2. S!TypeOK'
  <2>1. at' \in [S!Process -> {"idle", "locked", "backup", "check", "begin", "apply", "record",
                               "commit", "unlock", "serving", "failed"}]
    BY MigratorGoes
  <2>2. S!TypeOK
    BY DEF SchemaInv
  <2> QED BY <2>1, <2>2 DEF S!TypeOK
<1>3. S!SchemaSound'
  <2>1. \A q \in S!Process : at'[q] = "serving" => at[q] = "serving" \/ db.rows >= latest[q]
    BY <1>1 DEF Working
  <2> QED BY <2>1, WholeStay DEF SchemaInv
<1> QED BY <1>1, <1>2, <1>3, HolderMoves

\* The steps of PostgreSQL.
LEMMA PgLocks == ASSUME SchemaInv, NEW p \in Migrator, S!pgAdvisoryLock(p) PROVE SchemaInv'
<1>1. /\ S!Goto(p, "locked") /\ lock = None /\ lock' = p
      /\ UNCHANGED <<driver, db, seen, work, files, file, left, faults>>
      /\ driver = "postgres" /\ at[p] = "idle"
  BY DEF S!pgAdvisoryLock
<1>2. at'[p] = "locked"
  BY <1>1, MigratorGoes
<1>3. WorkOf(p)'
  BY <1>1, <1>2 DEF WorkOf, Working
<1>4. CopyOf(p)'
  BY <1>1, <1>2, MigratorFacts DEF CopyOf
<1> QED BY <1>1, <1>3, <1>4, MigratorFacts, Advances DEF S!TypeOK, Working

\* PostgreSQL: the history is read under the lock.
LEMMA PgReadsHistory ==
    ASSUME SchemaInv, NEW p \in Migrator, S!postgresMigrationHistory(p) PROVE SchemaInv'
<1>1. driver = "postgres" /\ at[p] = "locked" /\ faults' = faults
  BY DEF S!postgresMigrationHistory, S!Healthy
<1>2. lock = p /\ file[p] = None
  BY <1>1, MigratorFacts DEF Working, SchemaInv, OneMigrates, CopyOf
<1>3. CASE ~S!validateMigrationHistory(db, p)
  <2>1. S!Fails(p) /\ files' = files /\ file' = file
    BY <1>3 DEF S!postgresMigrationHistory
  <2>2. file' = [file EXCEPT ![p] = None]
    BY <1>2, <2>1, MigratorFacts
  <2> QED BY <1>1, <2>1, <2>2, MigratorFacts, GivesUp DEF S!TypeOK
<1>4. CASE S!validateMigrationHistory(db, p)
  <2> DEFINE l == IF db.rows = latest[p] THEN "unlock"
                  ELSE IF db.shape > 0 THEN "backup" ELSE "begin"
  <2>1. /\ seen' = [seen EXCEPT ![p] = db.rows] /\ S!Goto(p, l)
        /\ UNCHANGED <<driver, db, lock, work, files, file, left>>
    BY <1>4 DEF S!postgresMigrationHistory
  <2>2. db.rows <= latest[p]
    BY <1>4 DEF S!validateMigrationHistory
  <2>3. /\ l \in {"unlock", "backup", "begin"}
        /\ l = "unlock" => db.rows = latest[p]
        /\ l = "begin" => db.rows = 0
    BY MigratorFacts
  <2> HIDE DEF l
  <2>4. seen' \in [Migrator -> 0 .. S!Last] /\ seen'[p] = db.rows
    BY <2>1, MigratorFacts DEF S!TypeOK
  <2>5. at'[p] = l /\ l \in Working
    BY <2>1, <2>3, MigratorGoes DEF Working
  <2>6. WorkOf(p)'
    BY <1>1, <2>1, <2>2, <2>3, <2>4, <2>5, MigratorFacts DEF WorkOf, Working
  <2>7. CopyOf(p)'
    BY <1>1, <1>2, <2>1, <2>3, <2>5 DEF CopyOf
  <2> QED BY <1>1, <1>2, <2>1, <2>4, <2>5, <2>6, <2>7, MigratorFacts, Advances DEF S!TypeOK, Working
<1> QED BY <1>3, <1>4

\* PostgreSQL: pg_dump writes a file.
LEMMA PgDumps == ASSUME SchemaInv, NEW p \in Migrator, S!runPgDump(p) PROVE SchemaInv'
<1>1. driver = "postgres" /\ at[p] = "backup"
  BY DEF S!runPgDump
<1>2. lock = p /\ file[p] = None /\ seen[p] = db.rows /\ db.rows <= latest[p]
  BY <1>1, MigratorFacts DEF Working, SchemaInv, OneMigrates, CopyOf, WorkOf
<1>3. CASE S!Fault /\ S!Fails(p) /\ UNCHANGED <<files, file>>
  <2>1. file' = [file EXCEPT ![p] = None]
    BY <1>2, <1>3, MigratorFacts
  <2> QED BY <1>1, <1>3, <2>1, MigratorFacts, GivesUp DEF S!TypeOK
<1>4. CASE ~(S!Fault /\ S!Fails(p) /\ UNCHANGED <<files, file>>)
  <2> DEFINE copy == [of |-> db.rows, whole |-> TRUE, final |-> FALSE]
  <2>1. /\ S!Goto(p, "check") /\ file' = [file EXCEPT ![p] = copy] /\ faults' = faults
        /\ UNCHANGED <<driver, db, lock, seen, work, files, left>>
    BY <1>4 DEF S!runPgDump, S!Healthy
  <2>2. copy \in S!File
    BY MigratorFacts DEF S!File
  <2> HIDE DEF copy
  <2>3. /\ file' \in [Migrator -> S!File \cup {None}] /\ file'[p] = copy
        /\ \A q \in Migrator \ {p} : file'[q] = file[q]
    BY <2>1, <2>2, MigratorFacts
  <2>4. at'[p] = "check"
    BY <2>1, MigratorGoes
  <2>5. WorkOf(p)'
    BY <1>1, <1>2, <2>1, <2>4, MigratorFacts DEF WorkOf, Working
  <2>6. CopyOf(p)'
    BY <1>1, <2>1, <2>3, <2>4 DEF CopyOf, copy
  <2> QED BY <1>1, <1>2, <2>1, <2>3, <2>5, <2>6, MigratorFacts, Advances DEF S!TypeOK, Working
<1> QED BY <1>3, <1>4

\* PostgreSQL: the file gets its name when it is whole.
LEMMA PgKeepsDump ==
    ASSUME SchemaInv, NEW p \in Migrator, S!createPostgresMigrationBackup(p) PROVE SchemaInv'
<1>1. driver = "postgres" /\ at[p] = "check" /\ file' = [file EXCEPT ![p] = None]
  BY DEF S!createPostgresMigrationBackup
<1>2. lock = p /\ seen[p] = db.rows /\ db.rows <= latest[p]
  BY <1>1, MigratorFacts DEF Working, SchemaInv, OneMigrates, WorkOf
<1>3. file[p] = [of |-> db.rows, whole |-> TRUE, final |-> FALSE]
  <2>1. file[p] = [of |-> db.rows, whole |-> TRUE, final |-> driver = "sqlite"]
    BY <1>1, MigratorFacts DEF CopyOf
  <2> QED BY <1>1, <2>1
<1>4. CASE S!Fault /\ S!Fails(p) /\ UNCHANGED files
  BY <1>1, <1>4, MigratorFacts, GivesUp DEF S!TypeOK
<1>5. CASE ~(S!Fault /\ S!Fails(p) /\ UNCHANGED files)
  <2>1. /\ S!Goto(p, "begin") /\ faults' = faults
        /\ files' = files \cup {[file[p] EXCEPT !.final = TRUE]}
        /\ UNCHANGED <<driver, db, lock, seen, work, left>>
    BY <1>5 DEF S!createPostgresMigrationBackup, S!Healthy
  <2>2. [file[p] EXCEPT !.final = TRUE] = Backup(db.rows)
    <3> DEFINE f == [file[p] EXCEPT !.final = TRUE]
    <3> DEFINE g == file[p]
    <3>0. g \in S!File /\ g.of = db.rows /\ g.whole
      BY <1>3, MigratorFacts DEF S!File
    <3> HIDE DEF g
    <3>1. [g EXCEPT !.final = TRUE] \in S!File /\ [g EXCEPT !.final = TRUE].of = db.rows
          /\ [g EXCEPT !.final = TRUE].whole /\ [g EXCEPT !.final = TRUE].final
      BY <3>0 DEF S!File
    <3> USE DEF g
    <3> HIDE DEF f
    <3>2. f \in S!File /\ f.of = db.rows /\ f.whole /\ f.final
      BY <3>1 DEF f, g
    <3>3. f = Backup(db.rows)
      BY <3>2 DEF S!File, Backup
    <3> QED BY <3>3 DEF f
  <2>3. Backup(db.rows) \in S!File /\ Backup(db.rows).whole
    BY MigratorFacts DEF S!File, Backup
  <2>4. /\ file' \in [Migrator -> S!File \cup {None}] /\ file'[p] = None
        /\ \A q \in Migrator \ {p} : file'[q] = file[q]
    BY <1>1, MigratorFacts
  <2>5. at'[p] = "begin"
    BY <2>1, MigratorGoes
  <2>6. files' = files \cup {Backup(db.rows)}
    BY <2>1, <2>2
  <2>7. WorkOf(p)'
    BY <1>1, <1>2, <2>1, <2>5, MigratorFacts DEF WorkOf, Working
  <2>8. CopyOf(p)'
    BY <1>1, <2>1, <2>4, <2>5, <2>6 DEF CopyOf
  <2>9. files' \subseteq S!File /\ \A f \in files' : f.final => f.whole
    BY <1>1, <2>3, <2>6, MigratorFacts DEF S!TypeOK
  <2> QED BY <1>1, <1>2, <2>1, <2>4, <2>6, <2>7, <2>8, <2>9, MigratorFacts, Advances
          DEF S!TypeOK, Working
<1> QED BY <1>4, <1>5

\* PostgreSQL: the transaction begins on what was read.
LEMMA PgBegins == ASSUME SchemaInv, NEW p \in Migrator, S!pgBegin(p) PROVE SchemaInv'
<1>1. /\ driver = "postgres" /\ at[p] = "begin" /\ S!Goto(p, "apply")
      /\ work' = [work EXCEPT ![p] = db]
      /\ UNCHANGED <<driver, db, lock, seen, files, file, left, faults>>
  BY DEF S!pgBegin
<1>2. lock = p /\ seen[p] = db.rows /\ db.rows <= latest[p]
  BY <1>1, MigratorFacts DEF Working, SchemaInv, OneMigrates, WorkOf
<1>3. at'[p] = "apply"
  BY <1>1, MigratorGoes
<1>4. work' \in [Migrator -> S!Schema] /\ work'[p] = db
  BY <1>1, MigratorFacts DEF S!TypeOK
<1>5. WorkOf(p)'
  BY <1>1, <1>2, <1>3, <1>4, MigratorFacts DEF WorkOf, Working
<1>6. CopyOf(p)'
  BY <1>1, <1>3, MigratorFacts DEF CopyOf
<1> QED BY <1>1, <1>2, <1>4, <1>5, <1>6, MigratorFacts, Advances DEF S!TypeOK, Working

\* PostgreSQL: the lock is given back.
LEMMA PgUnlocks == ASSUME SchemaInv, NEW p \in Migrator, S!pgAdvisoryUnlock(p) PROVE SchemaInv'
<1>1. /\ at[p] = "unlock" /\ S!Goto(p, "serving") /\ lock' = None
      /\ UNCHANGED <<driver, db, seen, work, files, file, left, faults>>
  BY DEF S!pgAdvisoryUnlock
<1>2. lock = p /\ db.rows >= latest[p]
  BY <1>1, MigratorFacts DEF Working, SchemaInv, OneMigrates, WorkOf
<1>3. at'[p] = "serving"
  BY <1>1, MigratorGoes
<1>4. WorkOf(p)'
  BY <1>3 DEF WorkOf, Working
<1>5. CopyOf(p)'
  BY <1>1, <1>3, MigratorFacts DEF CopyOf
<1> QED BY <1>1, <1>2, <1>4, <1>5, MigratorFacts, Advances DEF S!TypeOK, Working

\* The steps of SQLite.
LEMMA SqliteBegins == ASSUME SchemaInv, NEW p \in Migrator, S!beginImmediate(p) PROVE SchemaInv'
<1>1. /\ driver = "sqlite" /\ at[p] = "idle" /\ faults' = faults /\ files' = files /\ file' = file
  BY DEF S!beginImmediate, S!Healthy
<1>2. file[p] = None
  BY <1>1, MigratorFacts DEF CopyOf
<1>3. CASE lock # None
  <2>1. S!Fails(p)
    BY <1>3 DEF S!beginImmediate
  <2>2. file' = [file EXCEPT ![p] = None]
    BY <1>1, <1>2, MigratorFacts
  <2> QED BY <1>1, <2>1, <2>2, MigratorFacts, GivesUp DEF S!TypeOK
<1>4. CASE lock = None
  <2>1. /\ lock' = p /\ S!Goto(p, "locked") /\ work' = [work EXCEPT ![p] = db]
        /\ UNCHANGED <<driver, db, seen, left>>
    BY <1>4 DEF S!beginImmediate
  <2>2. at'[p] = "locked"
    BY <2>1, MigratorGoes
  <2>3. work' \in [Migrator -> S!Schema] /\ work'[p] = db
    BY <2>1, MigratorFacts DEF S!TypeOK
  <2>4. WorkOf(p)'
    BY <2>1, <2>2, <2>3 DEF WorkOf, Working
  <2>5. CopyOf(p)'
    BY <1>1, <1>2, <2>2 DEF CopyOf
  <2> QED BY <1>1, <1>4, <2>1, <2>3, <2>4, <2>5, MigratorFacts, Advances DEF S!TypeOK, Working
<1> QED BY <1>3, <1>4

\* SQLite: the history is read.
LEMMA SqliteReadsHistory ==
    ASSUME SchemaInv, NEW p \in Migrator, S!sqliteMigrate(p) PROVE SchemaInv'
<1>1. driver = "sqlite" /\ at[p] = "locked" /\ faults' = faults /\ files' = files
  BY DEF S!sqliteMigrate, S!Healthy
<1>2. lock = p /\ file[p] = None /\ work[p] = db
  BY <1>1, MigratorFacts DEF Working, SchemaInv, OneMigrates, CopyOf, WorkOf
<1>3. CASE ~S!validateMigrationHistory(work[p], p)
  <2>1. S!Fails(p) /\ file' = file
    BY <1>3 DEF S!sqliteMigrate
  <2>2. file' = [file EXCEPT ![p] = None]
    BY <1>2, <2>1, MigratorFacts
  <2> QED BY <1>1, <2>1, <2>2, MigratorFacts, GivesUp DEF S!TypeOK
<1>4. CASE S!validateMigrationHistory(work[p], p)
  <2>1. seen' = [seen EXCEPT ![p] = db.rows] /\ UNCHANGED <<driver, db, lock, work, left>>
    BY <1>2, <1>4 DEF S!sqliteMigrate
  <2>2. db.rows <= latest[p]
    BY <1>2, <1>4 DEF S!validateMigrationHistory
  <2>3. seen' \in [Migrator -> 0 .. S!Last] /\ seen'[p] = db.rows
    BY <2>1, MigratorFacts DEF S!TypeOK
  <2>4. CASE work[p].rows < latest[p] /\ work[p].shape > 0
    <3> DEFINE copy == [of |-> db.rows, whole |-> FALSE, final |-> TRUE]
    <3>1. file' = [file EXCEPT ![p] = copy] /\ S!Goto(p, "backup")
      BY <1>4, <2>4 DEF S!sqliteMigrate
    <3>2. copy \in S!File
      BY MigratorFacts DEF S!File
    <3> HIDE DEF copy
    <3>3. /\ file' \in [Migrator -> S!File \cup {None}] /\ file'[p] = copy
          /\ \A q \in Migrator \ {p} : file'[q] = file[q]
      BY <3>1, <3>2, MigratorFacts
    <3>4. at'[p] = "backup"
      BY <3>1, MigratorGoes
    <3>5. WorkOf(p)'
      BY <1>1, <1>2, <2>1, <2>2, <2>3, <3>4, MigratorFacts DEF WorkOf, Working
    <3>6. CopyOf(p)'
      BY <1>1, <2>1, <3>3, <3>4 DEF CopyOf, copy
    <3> QED BY <1>1, <1>2, <2>1, <2>3, <3>1, <3>3, <3>5, <3>6, MigratorFacts, Advances
            DEF S!TypeOK, Working
  <2>5. CASE ~(work[p].rows < latest[p] /\ work[p].shape > 0)
    <3>1. file' = file /\ S!Goto(p, "apply")
      BY <1>4, <2>5 DEF S!sqliteMigrate
    <3>2. at'[p] = "apply"
      BY <3>1, MigratorGoes
    <3>3. db.rows \in {0, latest[p]}
      BY <1>2, <2>2, <2>5, MigratorFacts
    <3>4. WorkOf(p)'
      <4>1. work'[p] = S!Made(seen'[p])
        BY <1>2, <2>1, <2>3, MigratorFacts
      <4> QED BY <2>1, <2>2, <2>3, <3>2, <4>1, MigratorFacts DEF WorkOf, Working
    <3>5. CopyOf(p)'
      BY <1>2, <2>1, <3>1, <3>2, <3>3 DEF CopyOf
    <3> QED BY <1>1, <1>2, <2>1, <2>3, <3>1, <3>4, <3>5, MigratorFacts, Advances
            DEF S!TypeOK, Working
  <2> QED BY <2>4, <2>5
<1> QED BY <1>3, <1>4

\* SQLite: the backup is written and checked.
LEMMA SqliteCopies == ASSUME SchemaInv, NEW p \in Migrator, S!sqliteBackup(p) PROVE SchemaInv'
<1>1. /\ driver = "sqlite" /\ at[p] \in {"backup", "check"}
      /\ UNCHANGED <<driver, db, seen, work, left>>
  BY DEF S!sqliteBackup
<1>2. lock = p /\ work[p] = db /\ seen[p] = db.rows /\ db.rows <= latest[p]
  BY <1>1, MigratorFacts DEF Working, SchemaInv, OneMigrates, WorkOf
<1>3. CASE /\ at[p] = "backup" /\ S!Healthy /\ S!Goto(p, "check")
           /\ file' = [file EXCEPT ![p].whole = TRUE] /\ UNCHANGED <<files, lock>>
  <2> DEFINE g == file[p]
             f == [g EXCEPT !.whole = TRUE]
  <2>1. g = [of |-> db.rows, whole |-> FALSE, final |-> TRUE]
    BY <1>1, <1>3, MigratorFacts DEF CopyOf
  <2>2. g \in S!File /\ g.of = db.rows /\ g.final
    BY <2>1, MigratorFacts DEF S!File
  <2>3. file' = [file EXCEPT ![p] = f]
    BY <1>3
  <2> HIDE DEF g
  <2>4. f \in S!File /\ f.of = db.rows /\ f.whole /\ f.final
    BY <2>2 DEF S!File
  <2> HIDE DEF f
  <2>5. f = Backup(db.rows)
    BY <2>4 DEF S!File, Backup
  <2>6. /\ file' \in [Migrator -> S!File \cup {None}] /\ file'[p] = Backup(db.rows)
        /\ \A q \in Migrator \ {p} : file'[q] = file[q]
    BY <2>3, <2>4, <2>5, MigratorFacts
  <2>7. at'[p] = "check" /\ faults' = faults
    BY <1>3, MigratorGoes DEF S!Healthy
  <2>8. WorkOf(p)'
    BY <1>1, <1>2, <2>7, MigratorFacts DEF WorkOf, Working
  <2>9. CopyOf(p)'
    BY <1>1, <2>6, <2>7 DEF CopyOf, Backup
  <2> QED BY <1>1, <1>2, <1>3, <2>6, <2>7, <2>8, <2>9, MigratorFacts, Advances DEF S!TypeOK, Working
<1>4. CASE /\ at[p] = "check" /\ S!Healthy /\ S!Goto(p, "apply")
           /\ files' = files \cup {file[p]} /\ file' = [file EXCEPT ![p] = None] /\ UNCHANGED lock
  <2>1. file[p] = Backup(db.rows)
    <3>1. file[p] = [of |-> db.rows, whole |-> TRUE, final |-> driver = "sqlite"]
      BY <1>4, MigratorFacts DEF CopyOf
    <3> QED BY <1>1, <3>1 DEF Backup
  <2>2. /\ file' \in [Migrator -> S!File \cup {None}] /\ file'[p] = None
        /\ \A q \in Migrator \ {p} : file'[q] = file[q]
    BY <1>4, MigratorFacts
  <2>3. Backup(db.rows) \in S!File
    BY MigratorFacts DEF S!File, Backup
  <2>4. at'[p] = "apply" /\ faults' = faults
    BY <1>4, MigratorGoes DEF S!Healthy
  <2>5. WorkOf(p)'
    <3>1. work'[p] = S!Made(seen'[p])
      BY <1>1, <1>2, MigratorFacts
    <3> QED BY <1>1, <1>2, <2>4, <3>1, MigratorFacts DEF WorkOf, Working
  <2>6. CopyOf(p)'
    BY <1>1, <1>4, <2>1, <2>2, <2>4 DEF CopyOf
  <2>7. files' \subseteq S!File
    BY <1>4, <2>1, <2>3, MigratorFacts DEF S!TypeOK
  <2> QED BY <1>1, <1>2, <1>4, <2>2, <2>4, <2>5, <2>6, <2>7, MigratorFacts, Advances
          DEF S!TypeOK, Working
<1>5. CASE /\ S!Fault /\ S!Goto(p, "failed") /\ lock' = None
           /\ file' = [file EXCEPT ![p] = None] /\ UNCHANGED files
  <2>1. S!Fails(p)
    BY <1>1, <1>2, <1>5 DEF S!Fails
  <2> QED BY <1>1, <1>5, <2>1, MigratorFacts, GivesUp DEF S!TypeOK
<1> QED BY <1>3, <1>4, <1>5 DEF S!sqliteBackup

\* The migrations themselves, and the commit.
LEMMA Applies == ASSUME SchemaInv, NEW p \in Migrator, S!applyMigration(p) PROVE SchemaInv'
<1>1. at[p] = "apply" /\ files' = files /\ file' = file
  BY DEF S!applyMigration
<1>2. /\ lock = p /\ file[p] = None /\ work[p] = S!Made(seen[p])
      /\ db.rows <= seen[p] /\ seen[p] <= latest[p]
  BY <1>1, MigratorFacts DEF Working, SchemaInv, OneMigrates, WorkOf, CopyOf
<1>3. seen[p] \in 0 .. S!Last
  BY MigratorFacts DEF S!TypeOK
<1>4. CASE seen[p] = latest[p]
  <2>1. faults' = faults /\ S!Goto(p, "commit") /\ UNCHANGED <<driver, db, lock, seen, work, left>>
    BY <1>4 DEF S!applyMigration, S!Healthy
  <2>2. at'[p] = "commit"
    BY <2>1, MigratorGoes
  <2>3. WorkOf(p)'
    BY <1>2, <1>4, <2>1, <2>2 DEF WorkOf, Working
  <2>4. CopyOf(p)'
    BY <1>1, <2>1, <2>2, MigratorFacts DEF CopyOf
  <2> QED BY <1>1, <1>2, <2>1, <2>3, <2>4, MigratorFacts, Advances DEF S!TypeOK, Working
<1>5. CASE S!Fails(p) /\ (S!Healthy \/ S!Fault)
  <2>1. file' = [file EXCEPT ![p] = None]
    BY <1>1, <1>2, MigratorFacts
  <2> QED BY <1>1, <1>5, <2>1, MigratorFacts, GivesUp DEF S!TypeOK, S!Healthy
<1>6. CASE seen[p] # latest[p] /\ ~(S!Fails(p) /\ (S!Healthy \/ S!Fault))
  <2> DEFINE next == S!ApplyStatements(work[p], seen[p] + 1)
  <2>1. /\ faults' = faults /\ work' = [work EXCEPT ![p] = next] /\ S!Goto(p, "record")
        /\ UNCHANGED <<driver, db, lock, seen, left>>
    BY <1>6 DEF S!applyMigration, S!Healthy
  <2>2. seen[p] + 1 \in 0 .. S!Last /\ seen[p] < latest[p]
    BY <1>2, <1>3, <1>6, MigratorFacts
  <2>3. next = S!ApplyStatements(S!Made(seen[p]), seen[p] + 1) /\ next \in S!Schema
    BY <1>2, <1>3, <2>2, MadeNext
  <2> HIDE DEF next
  <2>4. work' \in [Migrator -> S!Schema] /\ work'[p] = next
    BY <2>1, <2>3, MigratorFacts DEF S!TypeOK
  <2>5. at'[p] = "record"
    BY <2>1, MigratorGoes
  <2>6. WorkOf(p)'
    BY <1>2, <2>1, <2>2, <2>3, <2>4, <2>5 DEF WorkOf, Working
  <2>7. CopyOf(p)'
    BY <1>1, <2>1, <2>5, MigratorFacts DEF CopyOf
  <2> QED BY <1>1, <1>2, <2>1, <2>4, <2>6, <2>7, MigratorFacts, Advances DEF S!TypeOK, Working
<1> QED BY <1>4, <1>5, <1>6

\* A version is recorded in the transaction that applied it.
LEMMA Inserts == ASSUME SchemaInv, NEW p \in Migrator, S!insertMigration(p) PROVE SchemaInv'
<1>1. at[p] = "record" /\ files' = files /\ file' = file
  BY DEF S!insertMigration
<1>2. /\ lock = p /\ file[p] = None /\ seen[p] < latest[p] /\ db.rows <= seen[p]
      /\ work[p] = S!ApplyStatements(S!Made(seen[p]), seen[p] + 1)
  BY <1>1, MigratorFacts DEF Working, SchemaInv, OneMigrates, WorkOf, CopyOf
<1>3. seen[p] \in 0 .. S!Last /\ seen[p] + 1 \in 0 .. S!Last
  <2>1. seen[p] \in 0 .. S!Last
    BY MigratorFacts DEF S!TypeOK
  <2> QED BY <1>2, <2>1, MigratorFacts
<1>4. CASE S!Fails(p) /\ (S!Healthy \/ S!Fault)
  <2>1. file' = [file EXCEPT ![p] = None]
    BY <1>1, <1>2, MigratorFacts
  <2> QED BY <1>1, <1>4, <2>1, MigratorFacts, GivesUp DEF S!TypeOK, S!Healthy
<1>5. CASE ~(S!Fails(p) /\ (S!Healthy \/ S!Fault))
  <2> DEFINE next == S!InsertRow(work[p], seen[p] + 1)
  <2>1. /\ faults' = faults /\ work' = [work EXCEPT ![p] = next] /\ S!Goto(p, "apply")
        /\ seen' = [seen EXCEPT ![p] = seen[p] + 1] /\ UNCHANGED <<driver, db, lock, left>>
    BY <1>5 DEF S!insertMigration, S!Healthy
  <2>2. next = S!Made(seen[p] + 1) /\ next \in S!Schema
    BY <1>2, <1>3, MadeNext, MadeType
  <2> HIDE DEF next
  <2>3. work' \in [Migrator -> S!Schema] /\ work'[p] = next
    BY <2>1, <2>2, MigratorFacts DEF S!TypeOK
  <2>4. seen' \in [Migrator -> 0 .. S!Last] /\ seen'[p] = seen[p] + 1
    BY <2>1, <1>3, MigratorFacts DEF S!TypeOK
  <2>5. at'[p] = "apply"
    BY <2>1, MigratorGoes
  <2>6. WorkOf(p)'
    <3>1. db.rows <= seen[p] + 1 /\ seen[p] + 1 <= latest[p]
      BY <1>2, <1>3, MigratorFacts
    <3>2. work'[p] = S!Made(seen'[p])
      BY <2>2, <2>3, <2>4
    <3> QED BY <2>1, <2>4, <2>5, <3>1, <3>2 DEF WorkOf, Working
  <2>7. CopyOf(p)'
    BY <1>1, <2>1, <2>5, MigratorFacts DEF CopyOf
  <2> QED BY <1>1, <1>2, <2>1, <2>3, <2>4, <2>6, <2>7, MigratorFacts, Advances DEF S!TypeOK, Working
<1> QED BY <1>4, <1>5

\* The transaction becomes the database, or is lost.
LEMMA Commits == ASSUME SchemaInv, NEW p \in Migrator, S!commitMigrations(p) PROVE SchemaInv'
<1>1. at[p] = "commit" /\ files' = files /\ file' = file
  BY DEF S!commitMigrations
<1>2. /\ lock = p /\ file[p] = None /\ seen[p] = latest[p] /\ db.rows <= latest[p]
      /\ work[p] = S!Made(latest[p])
      /\ db.rows \in {0, latest[p]} \/ Backup(db.rows) \in files
  BY <1>1, MigratorFacts DEF Working, SchemaInv, OneMigrates, WorkOf, CopyOf
<1>3. CASE S!Fails(p) /\ (S!Healthy \/ S!Fault)
  <2>1. file' = [file EXCEPT ![p] = None]
    BY <1>1, <1>2, MigratorFacts
  <2> QED BY <1>1, <1>3, <2>1, MigratorFacts, GivesUp DEF S!TypeOK, S!Healthy
<1>4. CASE ~(S!Fails(p) /\ (S!Healthy \/ S!Fault))
  <2>1. /\ db' = work[p] /\ left' = left \cup ({db.rows} \ {0, work[p].rows})
        /\ UNCHANGED <<driver, seen, work>>
    BY <1>4 DEF S!commitMigrations
  <2>2. PICK l \in {"unlock", "serving", "failed"} :
          /\ S!Goto(p, l) /\ (faults' = faults \/ S!Fault)
          /\ lock' \in {p, None}
          /\ l = "unlock" => lock' = p
    <3>1. CASE S!Healthy /\ S!Goto(p, IF driver = "postgres" THEN "unlock" ELSE "serving")
                         /\ lock' = IF driver = "postgres" THEN lock ELSE None
      <4>1. CASE driver = "postgres"
        BY <1>2, <3>1, <4>1 DEF S!Healthy
      <4>2. CASE driver # "postgres"
        BY <3>1, <4>2 DEF S!Healthy
      <4> QED BY <4>1, <4>2
    <3>2. CASE S!Fault /\ S!Goto(p, "failed") /\ lock' = None
      BY <3>2
    <3> QED BY <1>4, <3>1, <3>2 DEF S!commitMigrations
  <2>3. db'.rows = latest[p] /\ db' = S!Made(db'.rows) /\ db' \in S!Schema
    <3>1. db' = S!Made(latest[p])
      BY <1>2, <2>1
    <3>2. S!Made(latest[p]) \in S!Schema /\ S!Made(latest[p]).rows = latest[p]
      BY MadeRows, MadeType, MigratorFacts
    <3> QED BY <3>1, <3>2
  <2>0. S!Goto(p, l)
    BY <2>2
  <2>4. /\ at' = [at EXCEPT ![p] = l] /\ at'[p] = l
        /\ \A q \in S!Process : q # p => at'[q] = at[q]
    BY <2>0, MigratorGoes
  <2>5. left' \subseteq 1 .. S!Last
    BY <2>1, MigratorFacts DEF S!TypeOK
  <2>6. S!TypeOK'
    <3>1. at' \in [S!Process -> {"idle", "locked", "backup", "check", "begin", "apply", "record",
                                 "commit", "unlock", "serving", "failed"}]
      BY <2>0, MigratorGoes DEF Working
    <3>2. faults' \in 0 .. MaxFailures
      BY <2>2, MigratorFacts
    <3>3. lock' \in Migrator \cup {None}
      BY <2>2
    <3> QED BY <1>1, <2>1, <2>3, <2>5, <3>1, <3>2, <3>3, MigratorFacts DEF S!TypeOK
  <2>7. WorkOf(p)'
    BY <2>3, <2>4, MigratorFacts DEF WorkOf, Working
  <2>8. CopyOf(p)'
    BY <1>1, <1>2, <2>4 DEF CopyOf
  <2>9. S!SchemaSound'
    <3>1. S!HistoryMatchesTables'
      BY <2>3 DEF S!HistoryMatchesTables
    <3>2. S!VersionsBackedUp'
      <4>1. \A v \in left' : v \in left \/ (v = db.rows /\ v \notin {0, latest[p]})
        BY <1>2, <2>1, <2>3
      <4> QED BY <1>1, <1>2, <2>1, <4>1, MigratorFacts
              DEF S!SchemaSound, S!VersionsBackedUp, Backup
    <3>3. S!ServesOwnSchema'
      <4>1. ASSUME NEW q \in S!Process, at'[q] = "serving" PROVE db'.rows >= latest[q]
        <5>1. CASE q = p
          BY <5>1, <2>3, MigratorFacts
        <5>2. CASE q # p
          <6>1. db.rows >= latest[q]
            BY <2>4, <4>1, <5>2, MigratorFacts DEF S!SchemaSound, S!ServesOwnSchema
          <6>2. latest[q] \in Nat
            BY LastBounds
          <6> QED BY <6>1, <6>2, <1>2, <2>3, MigratorFacts
        <5> QED BY <5>1, <5>2
      <4> QED BY <4>1 DEF S!ServesOwnSchema
    <3> QED BY <3>1, <3>2, <3>3 DEF S!SchemaSound
  <2> QED BY <1>1, <1>2, <2>2, <2>4, <2>6, <2>7, <2>8, <2>9, MigratorFacts, HolderMoves DEF Working
<1> QED BY <1>3, <1>4

\* What processes do that do not migrate, deaths and restarts.
LEMMA Bystands ==
    ASSUME SchemaInv, NEW p \in S!Process, NEW l \in {"idle", "serving", "failed"},
           S!Goto(p, l), UNCHANGED <<driver, db, lock, seen, work, files, file, left, faults>>,
           l = "serving" => db.rows >= latest[p],
           at[p] \in {"idle", "failed"}
    PROVE  SchemaInv'
<1>1. /\ S!TypeOK /\ at' = [at EXCEPT ![p] = l] /\ at'[p] = l
      /\ \A q \in S!Process : q # p => at'[q] = at[q]
  BY DEF SchemaInv, S!TypeOK, S!Goto
<1>2. S!TypeOK'
  <2>1. at' \in [S!Process -> {"idle", "locked", "backup", "check", "begin", "apply", "record",
                               "commit", "unlock", "serving", "failed"}]
    BY <1>1 DEF S!TypeOK
  <2> QED BY <1>1, <2>1 DEF S!TypeOK
<1>3. OneMigrates'
  BY <1>1 DEF SchemaInv, OneMigrates, Working, S!Process
<1>4. ASSUME NEW q \in Migrator PROVE WorkOf(q)'
  <2>1. CASE q = p
    BY <2>1, <1>1 DEF WorkOf, Working
  <2>2. CASE q # p
    <3>1. at'[q] = at[q] /\ WorkOf(q)
      BY <1>1, <2>2 DEF SchemaInv, S!Process
    <3> QED BY <3>1 DEF WorkOf
  <2> QED BY <2>1, <2>2
<1>5. ASSUME NEW q \in Migrator PROVE CopyOf(q)'
  <2>1. CASE q = p
    <3>1. file[q] = None
      BY <2>1 DEF SchemaInv, CopyOf
    <3> QED BY <2>1, <3>1, <1>1 DEF CopyOf
  <2>2. CASE q # p
    <3>1. at'[q] = at[q] /\ CopyOf(q)
      BY <1>1, <2>2 DEF SchemaInv, S!Process
    <3> QED BY <3>1 DEF CopyOf
  <2> QED BY <2>1, <2>2
<1>6. S!SchemaSound'
  <2>1. \A q \in S!Process : at'[q] = "serving" => at[q] = "serving" \/ db.rows >= latest[q]
    BY <1>1
  <2>2. driver = "postgres" => \A f \in files : f.final => f.whole
    BY DEF SchemaInv, S!SchemaSound, S!VersionsBackedUp
  <2> QED BY <2>1, <2>2, WholeStay DEF SchemaInv
<1> QED BY <1>2, <1>3, <1>4, <1>5, <1>6 DEF SchemaInv

\* A migrator that dies leaves the database as it was.
LEMMA SchemaCrashes == ASSUME SchemaInv, NEW p \in Migrator, S!Crash(p) PROVE SchemaInv'
<1>1. /\ S!Fails(p) /\ S!Fault /\ file' = [file EXCEPT ![p] = None]
      /\ files' = files \cup (IF file[p] = None THEN {} ELSE {file[p]})
  BY DEF S!Crash
<1>2. files \subseteq files' /\ files' \subseteq S!File
  BY <1>1, MigratorFacts DEF S!TypeOK
<1>3. driver = "postgres" /\ file[p] # None => ~file[p].final
  <2>1. SUFFICES ASSUME driver = "postgres", file[p] # None PROVE ~file[p].final
    OBVIOUS
  <2>2. at[p] = "check"
    BY <2>1, MigratorFacts DEF CopyOf
  <2>3. file[p] = [of |-> db.rows, whole |-> TRUE, final |-> driver = "sqlite"]
    BY <2>2, MigratorFacts DEF CopyOf
  <2>4. file[p] = [of |-> db.rows, whole |-> TRUE, final |-> FALSE]
    BY <2>1, <2>3
  <2> QED BY <2>4
<1>4. driver = "postgres" => \A f \in files' : f.final => f.whole
  BY <1>1, <1>3, MigratorFacts
<1> QED BY <1>1, <1>2, <1>4, MigratorFacts, GivesUp

\* Every step of the migrations keeps their invariant.
LEMMA SchemaStep == SchemaInv /\ (S!Next \/ UNCHANGED <<svars, faults>>) => SchemaInv'
<1>1. ASSUME SchemaInv, UNCHANGED <<svars, faults>> PROVE SchemaInv'
  BY <1>1 DEF svars, SchemaInv, S!TypeOK, OneMigrates, WorkOf, CopyOf, S!SchemaSound,
       S!HistoryMatchesTables, S!VersionsBackedUp, S!ServesOwnSchema
<1>2. ASSUME SchemaInv, NEW p \in Migrator, S!Migrating(p) PROVE SchemaInv'
  BY <1>2, PgLocks, PgReadsHistory, PgDumps, PgKeepsDump, PgBegins, PgUnlocks, SqliteBegins,
     SqliteReadsHistory, SqliteCopies, Applies, Inserts, Commits DEF S!Migrating
<1>3. ASSUME SchemaInv, NEW p \in Checker, S!assertSchemaCurrent(p) PROVE SchemaInv'
  <2> DEFINE l == IF S!validateMigrationHistory(db, p) /\ db.rows = latest[p] /\ db.shape = latest[p]
                  THEN "serving" ELSE "failed"
  <2>1. /\ p \in S!Process /\ at[p] = "idle" /\ S!Goto(p, l)
        /\ UNCHANGED <<driver, db, lock, seen, work, files, file, left, faults>>
    BY <1>3 DEF S!assertSchemaCurrent, S!Process
  <2>2. l \in {"serving", "failed"} /\ (l = "serving" => db.rows >= latest[p])
    BY <2>1, LastBounds
  <2> HIDE DEF l
  <2> QED BY <1>3, <2>1, <2>2, Bystands
<1>4. ASSUME SchemaInv, NEW p \in S!Process, S!Restart(p) PROVE SchemaInv'
  BY <1>4, Bystands DEF S!Restart
<1> QED BY <1>1, <1>2, <1>3, <1>4, SchemaCrashes DEF S!Next

---------------------------------------------------------------------------
(* Playback links (Playback).                                              *)

Stages == {"idle", "salt", "newsalt", "grant", "session", "zadd", "zrem", "zcard", "del", "read", "cas",
           "next", "grant2", "session2", "sign", "newkey"}
PlayOp == [at : Stages, node : P!Node, link : P!Link, what : {"manifest", "segment"},
           hash : Player \cup {None}, seen : Nat, count : Nat, tries : Nat]
PlayTypes ==
    /\ grant \in BOOLEAN
    /\ session \in [state : {"idle", "stopped", "deleting", "gone"}, viewers : Nat]
    /\ salt \in Player \cup {None} /\ key \in Player \cup {None}
    /\ cached \in [P!Node -> Player \cup {None}]
    /\ total \subseteq Player \X Player /\ old \subseteq total /\ issued \subseteq P!Link
    /\ play \in [P!Task -> PlayOp]
    /\ allowed \subseteq Player

\* One salt and one key, from the first that is stored on.
OneSecret ==
    /\ \A n \in P!Node : cached[n] \in {None, salt}
    /\ \A h \in total : h[2] = salt
    /\ salt = None => total = {}
    /\ \A link \in issued : link.key = key
    /\ key = None => issued = {}

\* A request has the salt that counts; once it saw the session playing it has been
\* permitted if the link is valid still, and links are not renewed.
Counting == {"zadd", "zrem", "zcard", "read", "cas", "next", "grant2", "sign"}
AskedOf(v) ==
    /\ play[v].at \in {"grant", "session", "zadd"} => play[v].hash = salt /\ salt # None
    /\ play[v].at = "session" => P!ForNode(play[v].link, play[v].node)
    /\ play[v].at \in Counting /\ grant => v \in allowed
    /\ play[v].at \in {"session2", "newkey"} => v \in allowed
    /\ play[v].at # "del"

PlayInv == PlayTypes /\ OneSecret /\ served \subseteq allowed /\ \A v \in Player : AskedOf(v)

\* Who has been permitted, after a step.
Kept == allowed' = {v \in Player : \/ P!At(v, "idle")' /\ v \in allowed
                                   \/ ~P!At(v, "idle") /\ v \in allowed
                                   \/ ~P!At(v, "idle")' /\ P!Permitted(play[v])'}

\* A request keeps that until another is made.
LEMMA Keeps ==
    ASSUME Kept, NEW v \in Player
    PROVE  /\ v \in allowed /\ (play[v].at # "idle" \/ play'[v].at = "idle") => v \in allowed'
           /\ play'[v].at # "idle" /\ grant' /\ P!Playing' /\ P!ForNode(play'[v].link, play'[v].node)
              => v \in allowed'
           /\ allowed' \subseteq Player
BY DEF Kept, P!At, P!Permitted, P!Playing

\* The task t moves, or none.
Moved(t) == /\ \A u \in P!Task \ {t} : play'[u] = play[u]
            /\ grant' => grant
            /\ salt # None => salt' = salt
            /\ served' \subseteq served \cup ({t} \cap Player)

\* What a step has to show of the others it keeps.
LEMMA PlayMoves ==
    ASSUME PlayInv, Kept, NEW t \in P!Task, Moved(t), PlayTypes', OneSecret',
           t \in Player => AskedOf(t)',
           t \in Player /\ t \in served' => t \in allowed' \/ (t \in served /\ play[t].at # "idle")
    PROVE  PlayInv'
<1>1. ASSUME NEW v \in Player, v # t PROVE AskedOf(v)'
  <2>1. play'[v] = play[v]
    BY <1>1 DEF Moved, P!Task
  <2>2. v \in allowed => v \in allowed'
    BY <2>1, Keeps
  <2>3. AskedOf(v) /\ (grant' => grant) /\ (salt # None => salt' = salt)
    BY DEF PlayInv, Moved
  <2> QED BY <2>1, <2>2, <2>3 DEF AskedOf
<1>2. ASSUME NEW v \in served' PROVE v \in allowed'
  <2>1. v \in served \/ v = t
    BY DEF Moved
  <2>2. CASE v # t
    <3>1. v \in Player /\ v \in allowed /\ play'[v] = play[v]
      BY <2>1, <2>2 DEF PlayInv, PlayTypes, Moved, P!Task
    <3> QED BY <3>1, Keeps
  <2>3. CASE v = t
    <3>1. t \in Player
      BY <2>1, <2>3 DEF PlayInv, PlayTypes, Moved
    <3> QED BY <2>3, <3>1, <1>2, Keeps DEF PlayInv
  <2> QED BY <2>2, <2>3
<1> QED BY <1>1, <1>2 DEF PlayInv


\* Where a task goes, and what it takes along.
LEMMA GoesTo ==
    ASSUME PlayTypes, NEW t \in P!Task, NEW l \in Stages, P!Goto(t, l)
    PROVE  /\ play' \in [P!Task -> PlayOp] /\ \A u \in P!Task \ {t} : play'[u] = play[u]
           /\ play'[t].at = l /\ play'[t].hash = play[t].hash
           /\ play'[t].link = play[t].link /\ play'[t].node = play[t].node
<1> DEFINE op == [play[t] EXCEPT !.at = l]
<1>1. play' = [play EXCEPT ![t] = op]
  BY DEF P!Goto
<1>2. play[t] \in PlayOp /\ play \in [P!Task -> PlayOp]
  BY DEF PlayTypes
<1>3. op \in PlayOp /\ op.at = l /\ op.hash = play[t].hash /\ op.link = play[t].link
      /\ op.node = play[t].node
  BY <1>2 DEF PlayOp
<1> HIDE DEF op
<1>4. play'[t] = op /\ play' \in [P!Task -> PlayOp] /\ \A u \in P!Task \ {t} : play'[u] = play[u]
  BY <1>1, <1>2, <1>3
<1> QED BY <1>3, <1>4

LEMMA IdleOp == P!Idle \in PlayOp /\ P!Idle.at = "idle" /\ P!Plain \in P!Link
BY DEF P!Idle, PlayOp, Stages, P!Node, P!Link, P!Plain

LEMMA EndsOp ==
    ASSUME PlayTypes, NEW t \in P!Task, P!Ends(t)
    PROVE  /\ play' \in [P!Task -> PlayOp] /\ \A u \in P!Task \ {t} : play'[u] = play[u]
           /\ play'[t].at = "idle"
<1>1. play' = [play EXCEPT ![t] = P!Idle] /\ play \in [P!Task -> PlayOp]
  BY DEF P!Ends, PlayTypes
<1>2. play'[t] = P!Idle /\ play' \in [P!Task -> PlayOp] /\ \A u \in P!Task \ {t} : play'[u] = play[u]
  BY <1>1, IdleOp
<1> QED BY <1>2, IdleOp

\* After the count: the row, or what was asked for.
LEMMA OnwardTo ==
    ASSUME PlayTypes, NEW t \in P!Task, P!Onward(t)
    PROVE  /\ play' \in [P!Task -> PlayOp] /\ \A u \in P!Task \ {t} : play'[u] = play[u]
           /\ play'[t].at \in {"idle", "next"}
           /\ t \in Player => play'[t].at = "next"
<1> DEFINE op == IF t = timer THEN P!Idle
                 ELSE [play[t] EXCEPT !.at = "next", !.seen = 0, !.count = 0, !.tries = 0]
<1>1. play' = [play EXCEPT ![t] = op]
  BY DEF P!Onward
<1>2. play[t] \in PlayOp /\ play \in [P!Task -> PlayOp]
  BY DEF PlayTypes
<1>3. op \in PlayOp /\ op.at \in {"idle", "next"} /\ (t \in Player => op.at = "next")
  <2>1. CASE t = timer
    BY <2>1, IdleOp, ControlAssumption
  <2>2. CASE t # timer
    BY <1>2, <2>2 DEF PlayOp, Stages
  <2> QED BY <2>1, <2>2
<1> HIDE DEF op
<1>4. play'[t] = op /\ play' \in [P!Task -> PlayOp] /\ \A u \in P!Task \ {t} : play'[u] = play[u]
  BY <1>1, <1>2, <1>3
<1> QED BY <1>3, <1>4

LEMMA CountedTo ==
    ASSUME PlayTypes, NEW t \in P!Task, NEW n \in Nat, P!Counted(t, n)
    PROVE  /\ play' \in [P!Task -> PlayOp] /\ \A u \in P!Task \ {t} : play'[u] = play[u]
           /\ play'[t].at \in {"idle", "next", "read"}
           /\ t \in Player => play'[t].at \in {"next", "read"}
<1>1. CASE play[t].seen = n
  <2>1. P!Onward(t)
    BY <1>1 DEF P!Counted
  <2> QED BY <2>1, OnwardTo
<1>2. CASE play[t].seen # n
  <2> DEFINE op == [play[t] EXCEPT !.at = "read", !.seen = 0, !.count = n]
  <2>1. play' = [play EXCEPT ![t] = op]
    BY <1>2 DEF P!Counted
  <2>2. play[t] \in PlayOp /\ play \in [P!Task -> PlayOp]
    BY DEF PlayTypes
  <2>3. op \in PlayOp /\ op.at = "read"
    BY <2>2 DEF PlayOp, Stages
  <2> HIDE DEF op
  <2>4. play'[t] = op /\ play' \in [P!Task -> PlayOp] /\ \A u \in P!Task \ {t} : play'[u] = play[u]
    BY <2>1, <2>2, <2>3
  <2> QED BY <2>3, <2>4
<1> QED BY <1>1, <1>2

\* The viewer sets are finite.
LEMMA CountedViewers == ASSUME PlayTypes PROVE Cardinality(total) \in Nat
<1>1. IsFiniteSet(Player \X Player)
  BY ControlAssumption, FS_Product
<1>2. total \subseteq Player \X Player
  BY DEF PlayTypes
<1>3. IsFiniteSet(total)
  BY <1>1, <1>2, FS_Subset
<1> QED BY <1>3, FS_CardinalityType

\* What leaves the settings alone, and counts nobody else.
LEMMA SameSecret ==
    ASSUME OneSecret, UNCHANGED <<cached, salt, key, issued>>, total' \subseteq total
    PROVE  OneSecret'
BY DEF OneSecret


\* A request is given up, or fails.
LEMMA RequestEnds ==
    ASSUME PlayInv, Kept, NEW t \in P!Task, P!Ends(t),
           UNCHANGED <<grant, session, salt, key, cached, issued, total, old, served>>
    PROVE  PlayInv'
<1>1. PlayTypes /\ OneSecret
  BY DEF PlayInv
<1>2. /\ play' \in [P!Task -> PlayOp] /\ \A u \in P!Task \ {t} : play'[u] = play[u]
      /\ play'[t].at = "idle"
  BY <1>1, EndsOp
<1>3. PlayTypes' /\ OneSecret'
  BY <1>1, <1>2, SameSecret DEF PlayTypes, Kept
<1>4. Moved(t)
  BY <1>2 DEF Moved
<1>5. t \in Player => AskedOf(t)'
  BY <1>2 DEF AskedOf, Counting
<1>6. t \in Player /\ t \in served' => t \in allowed'
  BY <1>2, Keeps DEF PlayInv
<1> QED BY <1>3, <1>4, <1>5, <1>6, PlayMoves

\* A task goes on, and nothing else happens.
LEMMA RequestGoes ==
    ASSUME PlayInv, Kept, NEW t \in P!Task, play[t].at # "idle" \/ t = timer,
           play' \in [P!Task -> PlayOp], \A u \in P!Task \ {t} : play'[u] = play[u],
           t \in Player => AskedOf(t)',
           UNCHANGED <<grant, session, salt, key, cached, issued, served>>,
           total' \subseteq total, old' \subseteq total'
    PROVE  PlayInv'
<1>1. PlayTypes' /\ OneSecret'
  BY SameSecret DEF PlayTypes, Kept, PlayInv
<1>2. Moved(t)
  BY DEF Moved
<1>3. t \in Player /\ t \in served' => t \in served /\ play[t].at # "idle"
  BY ControlAssumption
<1> QED BY <1>1, <1>2, <1>3, PlayMoves

LEMMA Asks ==
    ASSUME PlayInv, Kept, NEW v \in Player, NEW n \in P!Node, NEW link \in issued \cup {P!Plain},
           NEW what \in {"manifest", "segment"}, P!ask(v, n, link, what)
    PROVE  PlayInv'
<1> DEFINE op == [P!Idle EXCEPT !.at = "salt", !.node = n, !.link = link, !.what = what]
<1>1. PlayTypes /\ OneSecret /\ v \in P!Task
  BY DEF PlayInv, P!Task
<1>2. play' = [play EXCEPT ![v] = op] /\ play \in [P!Task -> PlayOp] /\ served' = served \ {v}
      /\ UNCHANGED <<grant, session, salt, key, cached, issued, total, old>>
  BY <1>1 DEF P!ask, PlayTypes, P!settings, P!sets
<1>3. link \in P!Link
  BY <1>1, IdleOp DEF PlayTypes
<1>4. op \in PlayOp /\ op.at = "salt"
  BY <1>3, IdleOp DEF PlayOp, Stages
<1> HIDE DEF op
<1>5. play'[v] = op /\ play' \in [P!Task -> PlayOp] /\ \A u \in P!Task \ {v} : play'[u] = play[u]
  BY <1>1, <1>2, <1>4
<1>6. PlayTypes' /\ OneSecret'
  BY <1>1, <1>2, <1>5, SameSecret DEF PlayTypes, Kept
<1>7. Moved(v)
  BY <1>2, <1>5 DEF Moved
<1>8. AskedOf(v)'
  BY <1>4, <1>5 DEF AskedOf, Counting
<1>9. v \notin served'
  BY <1>2
<1> QED BY <1>1, <1>6, <1>7, <1>8, <1>9, PlayMoves

\* The salt that counts.
LEMMA Salts ==
    ASSUME PlayInv, Kept, NEW v \in Player, P!viewerIdentity(v) PROVE PlayInv'
<1> DEFINE n == play[v].node
           s == IF cached[n] # None THEN cached[n] ELSE salt
<1>1. PlayTypes /\ OneSecret /\ v \in P!Task /\ play[v] \in PlayOp
  BY DEF PlayInv, P!Task, PlayTypes
<1>2. n \in P!Node /\ play[v].at = "salt"
      /\ UNCHANGED <<grant, session, salt, key, issued, total, old, served>>
  BY <1>1 DEF PlayOp, P!viewerIdentity, P!At, P!sets, P!others
<1>3. CASE cached[n] = None /\ salt = None
  <2>1. P!Goto(v, "newsalt") /\ UNCHANGED cached
    BY <1>3 DEF P!viewerIdentity
  <2>2. /\ play' \in [P!Task -> PlayOp] /\ \A u \in P!Task \ {v} : play'[u] = play[u]
        /\ play'[v].at = "newsalt"
    BY <1>1, <2>1, GoesTo DEF Stages
  <2>3. AskedOf(v)'
    BY <2>2 DEF AskedOf, Counting
  <2>4. old \subseteq total
    BY <1>1 DEF PlayTypes
  <2> QED BY <1>1, <1>2, <2>1, <2>2, <2>3, <2>4, RequestGoes
<1>4. CASE ~(cached[n] = None /\ salt = None)
  <2> DEFINE op == [play[v] EXCEPT !.at = "grant", !.hash = s]
  <2>1. play' = [play EXCEPT ![v] = op] /\ cached' = [cached EXCEPT ![n] = s]
    BY <1>4 DEF P!viewerIdentity
  <2>2. s = salt /\ salt # None
    BY <1>1, <1>2, <1>4 DEF OneSecret
  <2>3. salt \in Player \cup {None} /\ cached \in [P!Node -> Player \cup {None}]
        /\ play \in [P!Task -> PlayOp]
    BY <1>1 DEF PlayTypes
  <2>4. op \in PlayOp /\ op.at = "grant" /\ op.hash = salt
    BY <1>1, <2>2, <2>3 DEF PlayOp, Stages
  <2> HIDE DEF op
  <2>5. play'[v] = op /\ play' \in [P!Task -> PlayOp] /\ \A u \in P!Task \ {v} : play'[u] = play[u]
    BY <1>1, <2>1, <2>3, <2>4
  <2>6. /\ cached' \in [P!Node -> Player \cup {None}]
        /\ \A m \in P!Node : cached'[m] \in {cached[m], salt}
    BY <2>1, <2>2, <2>3
  <2>7. PlayTypes'
    BY <1>1, <1>2, <2>5, <2>6 DEF PlayTypes, Kept
  <2>8. OneSecret'
    BY <1>1, <1>2, <2>6 DEF OneSecret
  <2>9. Moved(v) /\ AskedOf(v)'
    BY <1>2, <2>2, <2>4, <2>5 DEF Moved, AskedOf, Counting
  <2> QED BY <1>1, <1>2, <2>7, <2>8, <2>9, PlayMoves
<1> QED BY <1>3, <1>4

LEMMA NewSalts ==
    ASSUME PlayInv, Kept, NEW v \in Player, P!getViewerSalt(v) PROVE PlayInv'
<1> DEFINE n == play[v].node
           s == IF salt = None THEN v ELSE salt
           op == [play[v] EXCEPT !.at = "grant", !.hash = s]
<1>1. PlayTypes /\ OneSecret /\ v \in P!Task /\ play[v] \in PlayOp /\ play \in [P!Task -> PlayOp]
      /\ salt \in Player \cup {None} /\ cached \in [P!Node -> Player \cup {None}]
  BY DEF PlayInv, P!Task, PlayTypes
<1>2. /\ play[v].at = "newsalt" /\ salt' = s /\ cached' = [cached EXCEPT ![n] = s]
      /\ play' = [play EXCEPT ![v] = op]
      /\ UNCHANGED <<grant, session, key, issued, total, old, served>>
  BY DEF P!getViewerSalt, P!At, P!sets, P!others
<1>3. s \in Player /\ s # None /\ (salt # None => s = salt)
  BY <1>1, ControlAssumption
<1> HIDE DEF s
<1>4. op \in PlayOp /\ op.at = "grant" /\ op.hash = s
  BY <1>1, <1>3 DEF PlayOp, Stages
<1> HIDE DEF op
<1>5. play'[v] = op /\ play' \in [P!Task -> PlayOp] /\ \A u \in P!Task \ {v} : play'[u] = play[u]
  BY <1>1, <1>2, <1>4
<1>6. /\ cached' \in [P!Node -> Player \cup {None}]
      /\ \A m \in P!Node : cached'[m] \in {cached[m], s}
  BY <1>1, <1>2, <1>3
<1>7. PlayTypes'
  BY <1>1, <1>2, <1>3, <1>5, <1>6 DEF PlayTypes, Kept
<1>8. OneSecret'
  BY <1>1, <1>2, <1>3, <1>6 DEF OneSecret
<1>9. Moved(v) /\ AskedOf(v)'
  BY <1>2, <1>3, <1>4, <1>5 DEF Moved, AskedOf, Counting
<1> QED BY <1>1, <1>2, <1>7, <1>8, <1>9, PlayMoves


LEMMA Grants ==
    ASSUME PlayInv, Kept, NEW v \in Player, P!resolvePlaybackGrant(v) PROVE PlayInv'
<1>1. PlayTypes /\ v \in P!Task /\ AskedOf(v) /\ old \subseteq total
  BY DEF PlayInv, P!Task, PlayTypes
<1>2. /\ play[v].at \in {"grant", "grant2"}
      /\ UNCHANGED <<grant, session, salt, key, cached, issued, total, old, served>>
  BY DEF P!resolvePlaybackGrant, P!settings, P!sets, P!others
<1>3. CASE P!Ends(v)
  BY <1>1, <1>2, <1>3, RequestEnds
<1>4. CASE ~P!Ends(v)
  <2>1. /\ grant /\ P!ForNode(play[v].link, play[v].node)
        /\ P!Goto(v, IF play[v].at = "grant" THEN "session" ELSE "session2")
    BY <1>4 DEF P!resolvePlaybackGrant, P!Refuse
  <2>2. CASE play[v].at = "grant"
    <3>1. /\ play' \in [P!Task -> PlayOp] /\ \A u \in P!Task \ {v} : play'[u] = play[u]
          /\ play'[v].at = "session" /\ play'[v].hash = play[v].hash
          /\ play'[v].link = play[v].link /\ play'[v].node = play[v].node
      BY <1>1, <2>1, <2>2, GoesTo DEF Stages
    <3>2. AskedOf(v)'
      BY <1>1, <1>2, <2>1, <2>2, <3>1 DEF AskedOf, Counting
    <3> QED BY <1>1, <1>2, <3>1, <3>2, RequestGoes
  <2>3. CASE play[v].at = "grant2"
    <3>1. /\ play' \in [P!Task -> PlayOp] /\ \A u \in P!Task \ {v} : play'[u] = play[u]
          /\ play'[v].at = "session2"
      BY <1>1, <2>1, <2>3, GoesTo DEF Stages
    <3>2. v \in allowed
      BY <1>1, <2>1, <2>3 DEF AskedOf, Counting
    <3>3. v \in allowed'
      BY <2>3, <3>2, Keeps
    <3>4. AskedOf(v)'
      BY <3>1, <3>3 DEF AskedOf, Counting
    <3> QED BY <1>1, <1>2, <3>1, <3>4, RequestGoes
  <2> QED BY <1>2, <2>2, <2>3
<1> QED BY <1>3, <1>4

LEMMA Plays ==
    ASSUME PlayInv, Kept, NEW v \in Player, P!playback(v) PROVE PlayInv'
<1>1. PlayTypes /\ v \in P!Task /\ AskedOf(v) /\ old \subseteq total /\ play[v] \in PlayOp
      /\ play \in [P!Task -> PlayOp] /\ session.viewers \in Nat
  BY DEF PlayInv, P!Task, PlayTypes
<1>2. /\ play[v].at = "session"
      /\ UNCHANGED <<grant, session, salt, key, cached, issued, total, old, served>>
  BY DEF P!playback, P!At, P!settings, P!sets, P!others
<1>3. CASE ~P!Playing
  <2>1. P!Ends(v)
    BY <1>3 DEF P!playback, P!Refuse
  <2> QED BY <1>1, <1>2, <2>1, RequestEnds
<1>4. CASE P!Playing
  <2> DEFINE op == [play[v] EXCEPT !.at = "zadd", !.seen = session.viewers]
  <2>1. play' = [play EXCEPT ![v] = op]
    BY <1>4 DEF P!playback
  <2>2. /\ op \in PlayOp /\ op.at = "zadd" /\ op.hash = play[v].hash
        /\ op.link = play[v].link /\ op.node = play[v].node
    BY <1>1 DEF PlayOp, Stages
  <2> HIDE DEF op
  <2>3. play'[v] = op /\ play' \in [P!Task -> PlayOp] /\ \A u \in P!Task \ {v} : play'[u] = play[u]
    BY <1>1, <2>1, <2>2
  <2>4. P!Playing' /\ P!ForNode(play'[v].link, play'[v].node)
    BY <1>1, <1>2, <1>4, <2>2, <2>3 DEF P!Playing, AskedOf
  <2>5. play'[v].at # "idle"
    BY <2>2, <2>3
  <2>6. grant' => v \in allowed'
    BY <2>4, <2>5, Keeps
  <2>7. AskedOf(v)'
    BY <1>1, <1>2, <2>2, <2>3, <2>6 DEF AskedOf, Counting
  <2> QED BY <1>1, <1>2, <2>3, <2>7, RequestGoes
<1> QED BY <1>3, <1>4

LEMMA CountsIn ==
    ASSUME PlayInv, Kept, NEW v \in Player, P!recordViewer(v) PROVE PlayInv'
<1> DEFINE op == [play[v] EXCEPT !.at = "zrem", !.hash = None]
<1>1. PlayTypes /\ OneSecret /\ v \in P!Task /\ AskedOf(v) /\ old \subseteq total
      /\ play[v] \in PlayOp /\ play \in [P!Task -> PlayOp] /\ salt \in Player \cup {None}
  BY DEF PlayInv, P!Task, PlayTypes
<1>2. /\ play[v].at = "zadd" /\ play' = [play EXCEPT ![v] = op]
      /\ total' = total \cup {<<v, play[v].hash>>} /\ old' = old \ {<<v, play[v].hash>>}
      /\ UNCHANGED <<grant, session, salt, key, cached, issued, served>>
  BY DEF P!recordViewer, P!At, P!settings, P!others
<1>3. op \in PlayOp /\ op.at = "zrem"
  BY <1>1 DEF PlayOp, Stages
<1> HIDE DEF op
<1>4. play'[v] = op /\ play' \in [P!Task -> PlayOp] /\ \A u \in P!Task \ {v} : play'[u] = play[u]
  BY <1>1, <1>2, <1>3
<1>5. play[v].hash = salt /\ salt \in Player /\ salt # None
  BY <1>1, <1>2 DEF AskedOf
<1>6. PlayTypes'
  BY <1>1, <1>2, <1>4, <1>5 DEF PlayTypes, Kept
<1>7. OneSecret'
  BY <1>1, <1>2, <1>5 DEF OneSecret
<1>8. Moved(v)
  BY <1>2, <1>4 DEF Moved
<1>9. v \in allowed => v \in allowed'
  BY <1>2, Keeps
<1>10. AskedOf(v)'
  BY <1>1, <1>2, <1>3, <1>4, <1>9 DEF AskedOf, Counting
<1> QED BY <1>1, <1>2, <1>6, <1>7, <1>8, <1>10, PlayMoves

\* What a request keeps while it counts.
LEMMA CountsOn ==
    ASSUME PlayInv, Kept, NEW t \in P!Task, grant' = grant,
           t \in Player => play[t].at \in Counting /\ play'[t].at \in Counting \ {"zadd"}
    PROVE  t \in Player => AskedOf(t)'
<1> SUFFICES ASSUME t \in Player PROVE AskedOf(t)'
  OBVIOUS
<1>1. AskedOf(t) /\ play[t].at # "idle"
  BY DEF PlayInv, Counting
<1>2. t \in allowed => t \in allowed'
  BY <1>1, Keeps
<1> QED BY <1>1, <1>2 DEF AskedOf, Counting

LEMMA Prunes ==
    ASSUME PlayInv, Kept, NEW t \in P!Task, P!pruneViewers(t) PROVE PlayInv'
<1>1. PlayTypes
  BY DEF PlayInv
<1>2. /\ play[t].at = "zrem" /\ P!Goto(t, "zcard") /\ total' \subseteq total /\ old' = {}
      /\ UNCHANGED <<grant, session, salt, key, cached, issued, served>>
  BY DEF P!pruneViewers, P!At, P!settings, P!others
<1>3. /\ play' \in [P!Task -> PlayOp] /\ \A u \in P!Task \ {t} : play'[u] = play[u]
      /\ play'[t].at = "zcard"
  BY <1>1, <1>2, GoesTo DEF Stages
<1>4. t \in Player => AskedOf(t)'
  BY <1>2, <1>3, CountsOn DEF Counting
<1> QED BY <1>2, <1>3, <1>4, RequestGoes

LEMMA Counts ==
    ASSUME PlayInv, Kept, NEW t \in P!Task, P!countViewers(t) PROVE PlayInv'
<1>1. PlayTypes /\ old \subseteq total /\ Cardinality(total) \in Nat
  BY CountedViewers DEF PlayInv, PlayTypes
<1>2. /\ play[t].at = "zcard"
      /\ UNCHANGED <<grant, session, salt, key, cached, issued, served, total, old>>
  BY DEF P!countViewers, P!At, P!settings, P!sets, P!others
<1>3. CASE t = timer /\ total = {}
  <2>1. P!Goto(t, "del")
    BY <1>3 DEF P!countViewers
  <2>2. play' \in [P!Task -> PlayOp] /\ \A u \in P!Task \ {t} : play'[u] = play[u]
    BY <1>1, <2>1, GoesTo DEF Stages
  <2>3. t \notin Player
    BY <1>3, ControlAssumption
  <2> QED BY <1>1, <1>2, <2>2, <2>3, RequestGoes
<1>4. CASE ~(t = timer /\ total = {})
  <2>1. P!Counted(t, P!Cardinality(total)) /\ P!Cardinality(total) \in Nat
    BY <1>1, <1>4 DEF P!countViewers, P!Cardinality, Cardinality
  <2>2. /\ play' \in [P!Task -> PlayOp] /\ \A u \in P!Task \ {t} : play'[u] = play[u]
        /\ t \in Player => play'[t].at \in {"next", "read"}
    BY <1>1, <2>1, CountedTo
  <2>3. t \in Player => AskedOf(t)'
    BY <1>2, <2>2, CountsOn DEF Counting
  <2> QED BY <1>1, <1>2, <2>2, <2>3, RequestGoes
<1> QED BY <1>3, <1>4

LEMMA EmptyDeleted ==
    ASSUME PlayInv, Kept, P!deleteEmpty PROVE PlayInv'
<1>1. PlayTypes /\ timer \in P!Task /\ timer \notin Player
  BY ControlAssumption DEF PlayInv, P!Task
<1>2. /\ total' = {} /\ old' = {} /\ P!Counted(timer, 0)
      /\ UNCHANGED <<grant, session, salt, key, cached, issued, served>>
  BY DEF P!deleteEmpty, P!settings, P!others
<1>3. play' \in [P!Task -> PlayOp] /\ \A u \in P!Task \ {timer} : play'[u] = play[u]
  BY <1>1, <1>2, CountedTo
<1> QED BY <1>1, <1>2, <1>3, RequestGoes

LEMMA Rereads ==
    ASSUME PlayInv, Kept, NEW t \in P!Task, P!readSession(t) PROVE PlayInv'
<1>1. PlayTypes /\ old \subseteq total
  BY DEF PlayInv, PlayTypes
<1>2. /\ play[t].at = "read" /\ (P!Ends(t) \/ P!Goto(t, "cas"))
      /\ UNCHANGED <<grant, session, salt, key, cached, issued, served, total, old>>
  BY DEF P!readSession, P!At, P!settings, P!sets, P!others
<1>3. CASE P!Ends(t)
  BY <1>2, <1>3, RequestEnds
<1>4. CASE P!Goto(t, "cas")
  <2>1. /\ play' \in [P!Task -> PlayOp] /\ \A u \in P!Task \ {t} : play'[u] = play[u]
        /\ play'[t].at = "cas"
    BY <1>1, <1>4, GoesTo DEF Stages
  <2>2. t \in Player => AskedOf(t)'
    BY <1>2, <2>1, CountsOn DEF Counting
  <2> QED BY <1>1, <1>2, <2>1, <2>2, RequestGoes
<1> QED BY <1>2, <1>3, <1>4


LEMMA SetsRow ==
    ASSUME PlayInv, Kept, NEW t \in P!Task, P!setSessionViewers(t) PROVE PlayInv'
<1>1. PlayTypes /\ OneSecret /\ old \subseteq total /\ play[t] \in PlayOp /\ play \in [P!Task -> PlayOp]
  BY DEF PlayInv, PlayTypes
<1>2. /\ play[t].at = "cas"
      /\ UNCHANGED <<grant, salt, key, cached, issued, served, total, old>>
  BY DEF P!setSessionViewers, P!At, P!settings, P!sets, P!others
<1>3. CASE t \in fresh
  <2>1. P!Onward(t) /\ session' = [session EXCEPT !.viewers = play[t].count]
    BY <1>3 DEF P!setSessionViewers
  <2>2. /\ play' \in [P!Task -> PlayOp] /\ \A u \in P!Task \ {t} : play'[u] = play[u]
        /\ t \in Player => play'[t].at = "next"
    BY <1>1, <2>1, OnwardTo
  <2>3. PlayTypes' /\ OneSecret'
    BY <1>1, <1>2, <2>1, <2>2, SameSecret DEF PlayTypes, PlayOp, Kept
  <2>4. t \in Player => AskedOf(t)'
    BY <1>2, <2>2, CountsOn DEF Counting
  <2>5. Moved(t)
    BY <1>2, <2>2 DEF Moved
  <2> QED BY <1>2, <2>3, <2>4, <2>5, PlayMoves
<1>4. CASE t \notin fresh /\ play[t].tries + 1 = MaxTries
  <2>1. P!Ends(t) /\ UNCHANGED session
    BY <1>4 DEF P!setSessionViewers
  <2> QED BY <1>2, <2>1, RequestEnds
<1>5. CASE t \notin fresh /\ play[t].tries + 1 # MaxTries
  <2> DEFINE n == play[t].tries + 1
             op == [play[t] EXCEPT !.at = "read", !.tries = n]
  <2>1. play' = [play EXCEPT ![t] = op] /\ UNCHANGED session
    BY <1>5 DEF P!setSessionViewers
  <2>2. op \in PlayOp /\ op.at = "read"
    <3>1. n \in Nat
      BY <1>1 DEF PlayOp
    <3> HIDE DEF n
    <3> QED BY <1>1, <3>1 DEF PlayOp, Stages
  <2> HIDE DEF op
  <2>3. play'[t] = op /\ play' \in [P!Task -> PlayOp] /\ \A u \in P!Task \ {t} : play'[u] = play[u]
    BY <1>1, <2>1, <2>2
  <2>4. t \in Player => AskedOf(t)'
    BY <1>2, <2>2, <2>3, CountsOn DEF Counting
  <2> QED BY <1>1, <1>2, <2>1, <2>3, <2>4, RequestGoes
<1> QED BY <1>3, <1>4, <1>5

LEMMA Selects ==
    ASSUME PlayInv, Kept, NEW v \in Player, P!selectEdge(v) PROVE PlayInv'
<1>1. PlayTypes /\ old \subseteq total /\ v \in P!Task
  BY DEF PlayInv, PlayTypes, P!Task
<1>2. /\ play[v].at = "next"
      /\ P!Ends(v) \/ (\E l \in {"grant2", "sign"} : P!Goto(v, l))
      /\ UNCHANGED <<grant, session, salt, key, cached, issued, served, total, old>>
  BY DEF P!selectEdge, P!At, P!settings, P!sets, P!others, P!Refuse
<1>3. CASE P!Ends(v)
  BY <1>1, <1>2, <1>3, RequestEnds
<1>4. ASSUME NEW l \in {"grant2", "sign"}, P!Goto(v, l) PROVE PlayInv'
  <2>1. /\ play' \in [P!Task -> PlayOp] /\ \A u \in P!Task \ {v} : play'[u] = play[u]
        /\ play'[v].at = l
    BY <1>1, <1>4, GoesTo DEF Stages
  <2>2. AskedOf(v)'
    BY <1>1, <1>2, <2>1, CountsOn DEF Counting
  <2> QED BY <1>1, <1>2, <2>1, <2>2, RequestGoes
<1> QED BY <1>2, <1>3, <1>4

\* A link is signed with the key that is stored.
LEMMA Signs ==
    ASSUME PlayInv, Kept, NEW v \in Player, NEW k \in Player, k # None, P!encodeEdgeGrant(v, k),
           key' = k, key # None => k = key, play[v].at \in {"sign", "newkey"},
           play[v].at = "sign" => grant,
           UNCHANGED <<grant, session, salt, cached, total, old>>
    PROVE  PlayInv'
<1>1. PlayTypes /\ OneSecret /\ v \in P!Task /\ AskedOf(v)
  BY DEF PlayInv, P!Task
<1>2. v \in allowed'
  <2>1. v \in allowed
    BY <1>1 DEF AskedOf, Counting
  <2> QED BY <2>1, Keeps
<1>3. PICK e \in EdgeNode : issued' = issued \cup {[edge |-> e, key |-> k]}
  BY DEF P!encodeEdgeGrant
<1>4. /\ served' \subseteq served \cup {v}
      /\ P!Ends(v) \/ P!Goto(v, "grant2")
  BY DEF P!encodeEdgeGrant
<1>5. /\ play' \in [P!Task -> PlayOp] /\ \A u \in P!Task \ {v} : play'[u] = play[u]
      /\ play'[v].at \in {"idle", "grant2"}
  <2>1. CASE P!Ends(v)
    BY <1>1, <2>1, EndsOp
  <2>2. CASE P!Goto(v, "grant2")
    BY <1>1, <2>2, GoesTo DEF Stages
  <2> QED BY <1>4, <2>1, <2>2
<1>6. PlayTypes'
  <2>1. issued' \subseteq P!Link
    BY <1>1, <1>3 DEF PlayTypes, P!Link
  <2> QED BY <1>1, <1>5, <2>1 DEF PlayTypes, Kept
<1>7. OneSecret'
  BY <1>1, <1>3 DEF OneSecret
<1>8. Moved(v)
  BY <1>4, <1>5 DEF Moved
<1>9. AskedOf(v)'
  BY <1>2, <1>5 DEF AskedOf, Counting
<1> QED BY <1>1, <1>2, <1>6, <1>7, <1>8, <1>9, PlayMoves

LEMMA Exchanges ==
    ASSUME PlayInv, Kept, NEW v \in Player, P!createEdgePlaybackGrant(v) PROVE PlayInv'
<1>1. PlayTypes /\ v \in P!Task /\ AskedOf(v) /\ old \subseteq total /\ key \in Player \cup {None}
  BY DEF PlayInv, P!Task, PlayTypes
<1>2. /\ play[v].at = "sign"
      /\ UNCHANGED <<grant, session, salt, key, cached, total, old>>
  BY DEF P!createEdgePlaybackGrant, P!At, P!sets
<1>3. CASE ~grant \/ session.state = "gone"
  <2>1. P!Ends(v) /\ UNCHANGED <<issued, served>>
    BY <1>3 DEF P!createEdgePlaybackGrant, P!Refuse
  <2> QED BY <1>1, <1>2, <2>1, RequestEnds
<1>4. CASE ~(~grant \/ session.state = "gone") /\ key = None
  <2>1. P!Goto(v, "newkey") /\ UNCHANGED <<issued, served>>
    BY <1>4 DEF P!createEdgePlaybackGrant
  <2>2. /\ play' \in [P!Task -> PlayOp] /\ \A u \in P!Task \ {v} : play'[u] = play[u]
        /\ play'[v].at = "newkey"
    BY <1>1, <2>1, GoesTo DEF Stages
  <2>3. v \in allowed
    BY <1>1, <1>2, <1>4 DEF AskedOf, Counting
  <2>4. v \in allowed'
    BY <1>2, <2>3, Keeps
  <2>5. AskedOf(v)'
    BY <2>2, <2>4 DEF AskedOf, Counting
  <2> QED BY <1>1, <1>2, <2>1, <2>2, <2>5, RequestGoes
<1>5. CASE ~(~grant \/ session.state = "gone") /\ key # None
  <2>1. P!encodeEdgeGrant(v, key) /\ grant
    BY <1>5 DEF P!createEdgePlaybackGrant
  <2> QED BY <1>1, <1>2, <1>5, <2>1, Signs
<1> QED BY <1>3, <1>4, <1>5

LEMMA NewKeys ==
    ASSUME PlayInv, Kept, NEW v \in Player, P!edgeGrantSigningKey(v) PROVE PlayInv'
<1> DEFINE k == IF key = None THEN v ELSE key
<1>1. key \in Player \cup {None}
  BY DEF PlayInv, PlayTypes
<1>2. /\ play[v].at = "newkey" /\ key' = k /\ P!encodeEdgeGrant(v, k)
      /\ UNCHANGED <<grant, session, salt, cached, total, old>>
  BY DEF P!edgeGrantSigningKey, P!At, P!sets
<1>3. k \in Player /\ k # None /\ (key # None => k = key)
  BY <1>1, ControlAssumption
<1> HIDE DEF k
<1> QED BY <1>2, <1>3, Signs

LEMMA Serves ==
    ASSUME PlayInv, Kept, NEW v \in Player, P!serve(v) PROVE PlayInv'
<1>1. PlayTypes /\ OneSecret /\ v \in P!Task /\ AskedOf(v)
  BY DEF PlayInv, P!Task
<1>2. /\ play[v].at = "session2" /\ P!Ends(v) /\ served' \subseteq served \cup {v}
      /\ UNCHANGED <<grant, session, salt, key, cached, issued, total, old>>
  BY DEF P!serve, P!At, P!settings, P!sets
<1>3. /\ play' \in [P!Task -> PlayOp] /\ \A u \in P!Task \ {v} : play'[u] = play[u]
      /\ play'[v].at = "idle"
  BY <1>1, <1>2, EndsOp
<1>4. v \in allowed'
  <2>1. v \in allowed
    BY <1>1, <1>2 DEF AskedOf
  <2> QED BY <1>2, <2>1, Keeps
<1>5. PlayTypes' /\ OneSecret'
  BY <1>1, <1>2, <1>3, SameSecret DEF PlayTypes, Kept
<1>6. Moved(v)
  BY <1>2, <1>3 DEF Moved
<1>7. AskedOf(v)'
  BY <1>3 DEF AskedOf, Counting
<1> QED BY <1>1, <1>4, <1>5, <1>6, <1>7, PlayMoves


LEMMA Corrects ==
    ASSUME PlayInv, Kept, P!cleanupExpiredCache PROVE PlayInv'
<1> DEFINE op == [play[timer] EXCEPT !.at = "zrem", !.seen = session.viewers]
<1>1. PlayTypes /\ old \subseteq total /\ timer \in P!Task /\ timer \notin Player
      /\ play[timer] \in PlayOp /\ play \in [P!Task -> PlayOp] /\ session.viewers \in Nat
  BY ControlAssumption DEF PlayInv, PlayTypes, P!Task
<1>2. /\ play' = [play EXCEPT ![timer] = op]
      /\ UNCHANGED <<grant, session, salt, key, cached, issued, served, total, old>>
  BY DEF P!cleanupExpiredCache, P!settings, P!sets, P!others
<1>3. op \in PlayOp
  BY <1>1 DEF PlayOp, Stages
<1> HIDE DEF op
<1>4. play' \in [P!Task -> PlayOp] /\ \A u \in P!Task \ {timer} : play'[u] = play[u]
  BY <1>1, <1>2, <1>3
<1> QED BY <1>1, <1>2, <1>4, RequestGoes

\* Time passes, and what operators do; nobody's request moves.
Outside == \/ \E h \in total : P!Ages(h)
           \/ P!KeyExpires \/ (\E s \in {"idle", "stopped"} : P!control(s)) \/ P!beginSessionDeletion
           \/ P!deleteSessionAndRevokePlaybackGrants \/ P!grantExpires

LEMMA Aside ==
    ASSUME PlayInv, Kept, Outside PROVE PlayInv'
<1>1. PlayTypes /\ OneSecret /\ timer \in P!Task /\ timer \notin Player
  BY ControlAssumption DEF PlayInv, P!Task
<1>2. /\ UNCHANGED <<play, salt, key, cached, issued, served>>
      /\ grant' \in BOOLEAN /\ (grant' => grant)
      /\ \/ session' = session
         \/ \E s \in {"idle", "stopped", "deleting", "gone"} : session' = [session EXCEPT !.state = s]
      /\ total' \subseteq total /\ old' \subseteq total'
  <2>1. ASSUME NEW h \in total, P!Ages(h) PROVE <1>2!:
    BY <1>1, <2>1 DEF P!Ages, P!settings, P!others, PlayTypes
  <2>2. CASE P!KeyExpires
    BY <1>1, <2>2 DEF P!KeyExpires, P!settings, P!others, PlayTypes
  <2>3. ASSUME NEW s \in {"idle", "stopped"}, P!control(s) PROVE <1>2!:
    BY <1>1, <2>3 DEF P!control, P!Changed, P!settings, P!sets, P!others, PlayTypes
  <2>4. CASE P!beginSessionDeletion
    BY <1>1, <2>4 DEF P!beginSessionDeletion, P!Changed, P!settings, P!sets, P!others, PlayTypes
  <2>5. CASE P!deleteSessionAndRevokePlaybackGrants
    BY <1>1, <2>5 DEF P!deleteSessionAndRevokePlaybackGrants, P!Changed, P!settings, P!sets, P!others, PlayTypes
  <2>6. CASE P!grantExpires
    BY <1>1, <2>6 DEF P!grantExpires, P!settings, P!sets, P!others, PlayTypes
  <2> QED BY <2>1, <2>2, <2>3, <2>4, <2>5, <2>6 DEF Outside
<1>3. session' \in [state : {"idle", "stopped", "deleting", "gone"}, viewers : Nat]
  BY <1>1, <1>2 DEF PlayTypes
<1>4. PlayTypes' /\ OneSecret'
  BY <1>1, <1>2, <1>3, SameSecret DEF PlayTypes, Kept
<1>5. Moved(timer)
  BY <1>2 DEF Moved
<1> QED BY <1>1, <1>4, <1>5, PlayMoves

LEMMA PlayInit == P!Init => PlayInv
<1> SUFFICES ASSUME P!Init PROVE PlayInv
  OBVIOUS
<1>1. play = [t \in P!Task |-> P!Idle] /\ \A t \in P!Task : play[t] = P!Idle
  BY DEF P!Init
<1>2. PlayTypes
  BY <1>1, IdleOp DEF P!Init, PlayTypes
<1>3. OneSecret /\ served = {}
  BY DEF P!Init, OneSecret
<1>4. ASSUME NEW v \in Player PROVE AskedOf(v)
  <2>1. play[v].at = "idle"
    BY <1>1, IdleOp DEF P!Task
  <2> QED BY <2>1 DEF AskedOf, Counting
<1> QED BY <1>2, <1>3, <1>4 DEF PlayInv

\* A step of a request that has been made.
LEMMA ServingStep ==
    ASSUME PlayInv, Kept, NEW v \in Player, P!Serving(v) PROVE PlayInv'
<1>1. v \in P!Task
  BY DEF P!Task
<1> QED BY <1>1, Salts, NewSalts, Grants, Plays, CountsIn, Prunes, Counts, Rereads, SetsRow, Selects,
           Exchanges, NewKeys, Serves DEF P!Serving

LEMMA CorrectingStep ==
    ASSUME PlayInv, Kept, P!Correcting PROVE PlayInv'
<1>1. timer \in P!Task
  BY DEF P!Task
<1> QED BY <1>1, Corrects, Prunes, Counts, EmptyDeleted, Rereads, SetsRow DEF P!Correcting

LEMMA FailsStep ==
    ASSUME PlayInv, Kept, NEW t \in P!Task, P!Fails(t) PROVE PlayInv'
<1>1. P!Ends(t) /\ UNCHANGED <<grant, session, salt, key, cached, issued, total, old, served>>
  BY DEF P!Fails, P!settings, P!sets
<1> QED BY <1>1, RequestEnds

LEMMA PlayStep == PlayInv /\ [P!Next]_(P!vars) => PlayInv'
<1> SUFFICES ASSUME PlayInv, [P!Next]_(P!vars) PROVE PlayInv'
  OBVIOUS
<1>1. ASSUME NEW v \in Player, NEW n \in P!Node, NEW link \in issued \cup {P!Plain},
             NEW what \in {"manifest", "segment"}, P!Watched(P!ask(v, n, link, what))
      PROVE  PlayInv'
  BY <1>1, Asks DEF P!Watched, Kept
<1>2. ASSUME NEW v \in Player, P!Watched(P!Serving(v)) PROVE PlayInv'
  BY <1>2, ServingStep DEF P!Watched, Kept
<1>3. ASSUME NEW t \in P!Task, P!Watched(P!Fails(t)) PROVE PlayInv'
  BY <1>3, FailsStep DEF P!Watched, Kept
<1>4. CASE P!Watched(P!Correcting)
  BY <1>4, CorrectingStep DEF P!Watched, Kept
<1>5. CASE \/ \E h \in total : P!Watched(P!Ages(h))
           \/ P!Watched(P!KeyExpires) \/ (\E s \in {"idle", "stopped"} : P!Watched(P!control(s)))
           \/ P!Watched(P!beginSessionDeletion)
           \/ P!Watched(P!deleteSessionAndRevokePlaybackGrants) \/ P!Watched(P!grantExpires)
  BY <1>5, Aside DEF P!Watched, Kept, Outside
<1>6. CASE UNCHANGED P!vars
  <2>1. UNCHANGED <<grant, session, salt, key, cached, total, old, issued, play, allowed, served>>
    BY <1>6 DEF P!vars
  <2> QED BY <2>1 DEF PlayInv, PlayTypes, OneSecret, AskedOf
<1> QED BY <1>1, <1>2, <1>3, <1>4, <1>5, <1>6 DEF P!Next

---------------------------------------------------------------------------
(* The composition: each scope has the invariant of its component, and a   *)
(* step in it is one of that component, or leaves its variables alone.     *)

ControlInv == /\ scope \in SignIn => AuthInv
              /\ scope \in {"one", "two"} => ApiInv
              /\ scope = "binding" => BindInv
              /\ scope = "schema" => SchemaInv

\* The initial states have the invariant of every component.
LEMMA ControlInit == Init => ControlInv
BY AuthInit, ApiInit, BindingInit, SchemaInit DEF Init, ControlInv

\* The bounds of the scopes leave steps out and add none.
LEMMA ApiSteps == ApiNext => R!Next
<1> SUFFICES ASSUME ApiNext PROVE R!Next
  OBVIOUS
<1>1. {q1, q2} \subseteq Request
  BY ControlAssumption
<1>2. Serving \subseteq R!Route /\ R!Withdrawals \subseteq R!Route
  <2>1. Serving \subseteq R!Route
    BY DEF Serving, R!Route
  <2>2. R!Withdrawals \subseteq R!Route
    BY DEF R!Withdrawals, R!Route
  <2> QED BY <2>1, <2>2
<1>3. R!User \subseteq R!Who /\ TRUE \in BOOLEAN
  BY DEF R!Who
<1>4. CASE \E r \in Request : R!Watched(R!Handling(r))
  BY <1>4 DEF R!Next
<1>5. CASE R!Watched(R!Crash)
  BY <1>5 DEF R!Next
<1>6. CASE \E r \in Request, route \in R!Route, by \in R!Who, csrf, body \in BOOLEAN :
             R!Watched(R!receive(r, route, by, csrf, body))
  BY <1>6 DEF R!Next
<1>7. ASSUME NEW r \in Request, NEW route \in R!Route, NEW by \in R!Who,
             R!Watched(R!receive(r, route, by, TRUE, TRUE))
      PROVE  R!Next
  BY <1>3, <1>7 DEF R!Next
<1> QED BY <1>1, <1>2, <1>3, <1>4, <1>5, <1>6, <1>7 DEF ApiNext

\* Which scope it is tells whose step it is.
LEMMA Scoped ==
    ASSUME [Next]_vars
    PROVE  /\ scope' = scope
           /\ scope \in SignIn => A!Next \/ UNCHANGED <<avars, faults>>
           /\ scope \in {"one", "two"} => R!Next \/ UNCHANGED <<rvars, faults>>
           /\ scope = "binding" => B!Next \/ UNCHANGED <<bvars, faults>>
           /\ scope = "schema" => S!Next \/ UNCHANGED <<svars, faults>>
<1> USE DEF SignIn, Playing
<1>1. CASE UNCHANGED vars
  BY <1>1 DEF vars
<1>2. CASE OfAuth(AuthNext)
  BY <1>2 DEF OfAuth, AuthNext
<1>3. CASE OfApi(ApiNext)
  BY <1>3, ApiSteps DEF OfApi
<1>4. CASE OfBinding(B!Next)
  BY <1>4 DEF OfBinding
<1>5. CASE OfSchema(S!Next)
  BY <1>5 DEF OfSchema
<1>6. CASE OfPlay(PlayNext) \/ OfDemands(DemandNext) \/ OfPacing(PacingNext)
  BY <1>6 DEF OfPlay, OfDemands, OfPacing
<1> QED BY <1>1, <1>2, <1>3, <1>4, <1>5, <1>6 DEF Next

\* Every step keeps the invariant of its component.
LEMMA ControlStep == ControlInv /\ [Next]_vars => ControlInv'
<1> SUFFICES ASSUME ControlInv, [Next]_vars PROVE ControlInv'
  OBVIOUS
<1>1. SignIn' = SignIn
  BY DEF SignIn
<1>2. scope \in SignIn => AuthInv'
  BY Scoped, AuthStep DEF ControlInv
<1>3. scope \in {"one", "two"} => ApiInv'
  BY Scoped, ApiStep DEF ControlInv
<1>4. scope = "binding" => BindInv'
  BY Scoped, BindingStep DEF ControlInv
<1>5. scope = "schema" => SchemaInv'
  BY Scoped, SchemaStep DEF ControlInv
<1> QED BY <1>1, <1>2, <1>3, <1>4, <1>5, Scoped DEF ControlInv

\* A provider's access token has the setting by which it is found, a session has its
\* credential, a deleted user is signed out, one of the first set-ups wins; a binding that
\* can be chosen has its credential, and a credential on a worker its row, but for those that
\* an operator accepted to leave and those that createBinding could not erase: it died, its
\* put was applied and reported as failed, its reading back or its last deletion failed.
\* For any calls, failing stores and crashes (auth.ts, provider-service.ts).
THEOREM CredentialsHold == Spec => []CredentialsSafe
<1>1. ControlInv => CredentialsSafe
  BY AuthSafe DEF ControlInv, CredentialsSafe, BindInv
<1> QED BY <1>1, ControlInit, ControlStep, PTL DEF Spec

\* Of the requests that are served while rights are withdrawn, each has had the permission
\* for its effect since it came, and the audit log has the attempt and how it ended
\* (server.ts, audited operations).
THEOREM EffectsHold == Spec => []EffectsAuthorized
<1>1. ControlInv => EffectsAuthorized
  BY ApiSafe DEF ControlInv, EffectsAuthorized
<1> QED BY <1>1, ControlInit, ControlStep, PTL DEF Spec

\* The history of the migrations says what the tables are, a version that was left has its
\* backup, and no process serves on a schema older than its build, with any number of builds
\* that migrate at once and crash (the sqlite and postgres migration runners).
THEOREM SchemaHolds == Spec => []SchemaSound
<1>1. ControlInv => SchemaSound
  BY DEF ControlInv, SchemaSound, SchemaInv
<1> QED BY <1>1, ControlInit, ControlStep, PTL DEF Spec

\* The same of signing in alone, with every interleaving of any logins, deletions and
\* retention: the scopes of the composition take a few of them at a time.
THEOREM SignInHolds == A!Spec => []A!CredentialsSafe
<1>1. AuthInv /\ [A!Next]_(A!vars) => AuthInv'
  BY AuthStep DEF A!vars, avars
<1> QED BY <1>1, AuthInit, AuthSafe, PTL DEF A!Spec

\* The same of the management API alone: any number of requests of any routes at once.
THEOREM RequestsHold == R!Spec => [](R!EffectsAuthorized /\ R!AuditKept)
<1>1. ApiInv /\ [R!Next]_(R!vars) => ApiInv'
  BY ApiStep DEF R!vars, rvars
<1> QED BY <1>1, ApiInit, ApiSafe, PTL DEF R!Spec

\* Who plays was permitted to since the request came, with a link of its own where it is an
\* edge; all links are signed with the stored key and all viewers hashed with the stored
\* salt, though several nodes need them first.  Any number of viewers and edges, while links
\* are revoked and expire and sessions stop, start again and are deleted (session-service.ts).
THEOREM LinksHold == P!Spec => []P!PlaybackSafe
<1>1. PlayInv => P!PlaybackSafe
  BY DEF PlayInv, OneSecret, P!PlaybackSafe
<1> QED BY <1>1, PlayInit, PlayStep, PTL DEF P!Spec

=============================================================================
