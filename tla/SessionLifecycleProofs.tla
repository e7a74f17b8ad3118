----------------------- MODULE SessionLifecycleProofs -----------------------
(***************************************************************************)
(* SessionLifecycle keeps credentials with the rows that need them         *)
(* (CredentialsKept) and never takes a deletion back (DeletionFence), for  *)
(* any number of sessions, providers, requests, faults and crashes.        *)
(*                                                                         *)
(* Neither is inductive.  The invariant adds what a task suspended between *)
(* two awaits may still rely on: until its row is written a new session is *)
(* known to nobody else (Fresh); what has been read or written before      *)
(* still holds of the credential, the row and the producer (Knows);        *)
(* nobody removes a provider that is being added (Adds); and during the    *)
(* start-up there is no other task and no producer (BootInv).              *)
(***************************************************************************)
EXTENDS SessionLifecycle, TLAPS

States == {"idle", "stopped", "active"}
Row == [rev : Nat, state : States, deleting : BOOLEAN, owned : BOOLEAN,
        profile : Profiles \cup {NoTask}, provider : Providers \cup {NoTask}]
Store == [row : [Sessions -> Row], used : SUBSET Sessions,
          marker : [Sessions -> BOOLEAN], secret : [Sessions -> BOOLEAN],
          provider : [Providers -> {"none", "ready", "deleting"}],
          providerSecret : [Providers -> BOOLEAN], profiles : SUBSET Profiles]

\* The places of a task, by what it has under way.
Young == {"lookup", "marker", "secret", "commit"}
Deleting == {"stop", "fin_secret", "fin_marker", "fin_row"}
OnSession == Young \cup Deleting \cup
             {"unmark", "reconcile", "undo", "unindex", "read", "write", "quiesce", "delete", "begin"}
OnProvider == {"p_secret", "p_row", "p_check", "p_undo", "p_begin", "p_clean", "p_final"}
OfBoot == {"free", "seed", "seeding", "recover", "reconcile", "undo", "unindex"} \cup Deleting
Pcs == {"free", "seed", "seeding", "recover", "q_delete"} \cup OnSession \cup OnProvider

Task == [pc : Pcs, on : Sessions \cup {NoTask}, with : Providers \cup States \cup {NoTask},
         via : Profiles \cup {NoTask}, owned : BOOLEAN, rev : Nat]

Types ==
  /\ store \in Store
  /\ task \in [Tasks -> Task]
  /\ producer \in [Sessions -> {"none", "starting", "running"}]
  /\ faults \in Nat /\ crashes \in Nat

\* What a task is about follows from its place; until the start-up is over there is no
\* other task and no producer.
Shaped(t) ==
  LET pc == task[t].pc IN
  /\ IF pc \in OnSession THEN task[t].on \in Sessions ELSE task[t].on = NoTask
  /\ pc \in Young \cup OnProvider => task[t].with \in Providers
  /\ pc \in {"read", "write"} => task[t].with \in States
BootInv ==
  /\ \A t \in Tasks : Shaped(t)
  /\ task[Boot].pc \in OfBoot
  /\ ~Up => /\ \A t \in Tasks \ {Boot} : task[t] = Idle
            /\ \A s \in Sessions : producer[s] = "none"
Core == Types /\ BootInv

\* A session is created once: before its row is written no other task can do anything
\* about it, and afterwards nothing brings a row back.
Fresh(t) ==
  task[t].pc \in Young =>
    LET s == task[t].on IN
    /\ s \in store.used /\ ~Live(s)
    /\ \A u \in Tasks \ {t} : task[u].on = s => task[u].pc \in {"read", "delete"}
FreshInv ==
  /\ \A t \in Tasks : Fresh(t)
  /\ \A s \in Sessions \ store.used :
       /\ ~Live(s) /\ ~store.secret[s] /\ ~store.marker[s]
       /\ \A t \in Tasks : task[t].on = s => task[t].pc = "read"

\* What a task on a session knows of its credential and its row.
Knows(t) ==
  LET s == task[t].on
      pc == task[t].pc IN
  /\ pc \in {"lookup", "marker"} => ~store.secret[s]
  /\ pc \in {"marker", "secret"} => task[t].owned
  /\ pc = "secret" => store.marker[s]
  /\ pc = "commit" => IF task[t].owned THEN store.marker[s] /\ store.secret[s]
                                       ELSE ~store.secret[s]
  /\ pc = "undo" => ~store.row[s].owned
  /\ pc \in {"unmark", "unindex"} => (store.secret[s] => Live(s))
  /\ pc = "write" => /\ task[t].rev > 0
                     /\ Live(s) => task[t].rev <= store.row[s].rev
                     /\ Live(s) /\ task[t].rev = store.row[s].rev => ~store.row[s].deleting
  /\ pc \in {"begin"} \cup Deleting => task[t].owned \/ ~store.secret[s]
  /\ pc \in Deleting => (Live(s) => store.row[s].deleting)
  /\ pc \in Deleting \ {"stop"} => producer[s] = "none"
  /\ pc \in {"fin_marker", "fin_row"} => ~store.secret[s]

RowInv(s) ==
  LET r == store.row[s] IN
  /\ r.rev = 0 => r = NoRow
  /\ r.deleting => r.state = "stopped"
  /\ r.rev > 0 /\ ~r.owned => ~store.secret[s]

\* While a provider is being added nobody can be removing it.
Adds(t) ==
  LET p == task[t].with
      pc == task[t].pc IN
  /\ pc \in {"p_secret", "p_row"} =>
       /\ store.provider[p] = "none"
       /\ \A u \in Tasks \ {t} : task[u].with = p => task[u].pc \notin OnProvider \ {"p_begin"}
  /\ pc = "p_row" => store.providerSecret[p]
  /\ pc = "p_undo" => store.provider[p] = "none"
  /\ pc \in {"p_clean", "p_final"} => store.provider[p] # "ready"

SessionInv ==
  /\ FreshInv
  /\ \A t \in Tasks : Knows(t)
  /\ \A s \in Sessions : RowInv(s)
  /\ NoLostCredential /\ SessionKeepsCredential /\ CredentialOutlivesProducer
ProviderInv == (\A t \in Tasks : Adds(t)) /\ ProviderKeepsSecret

IInv == Core /\ SessionInv /\ ProviderInv

---------------------------------------------------------------------------
(* What a step does to the tasks and to the store.                         *)

Others(t) == \A u \in Tasks \ {t} : task'[u] = task[u]
Moves(t, P) ==
  /\ task'[t].pc \in P /\ task'[t].on = task[t].on /\ task'[t].with = task[t].with
  /\ task'[t].owned = task[t].owned /\ task'[t].rev = task[t].rev
Ends(t) ==
  /\ task'[t].on = NoTask /\ task'[t].with = NoTask
  /\ IF t = Boot THEN task'[t].pc \in {"seed", "recover"} ELSE task'[t] = Idle
Tasked(t) == task' \in [Tasks -> Task] /\ Others(t)

\* A task goes to its next await.
LEMMA GotoMoves ==
  ASSUME task \in [Tasks -> Task], NEW t \in Tasks, NEW pc \in Pcs, Goto(t, pc)
  PROVE  Tasked(t) /\ Moves(t, {pc})
BY DEF Goto, Tasked, Moves, Others, Task

\* A task is over.
LEMMA ReturnEnds ==
  ASSUME task \in [Tasks -> Task], NEW t \in Tasks, Return(t) \/ Throw(t)
  PROVE  Tasked(t) /\ Ends(t)
<1>1. /\ Ended(t) \in Task /\ Aborted(t) \in Task
      /\ Ended(t).on = NoTask /\ Ended(t).with = NoTask
      /\ Aborted(t).on = NoTask /\ Aborted(t).with = NoTask
      /\ t = Boot => Ended(t).pc = "recover" /\ Aborted(t).pc = "seed"
      /\ t # Boot => Ended(t) = Idle /\ Aborted(t) = Idle
  BY DEF Ended, Aborted, Idle, Task, Pcs
<1>2. PICK r \in {Ended(t), Aborted(t)} : task' = [task EXCEPT ![t] = r]
  BY DEF Return, Throw
<1>3. r \in Task BY <1>1
<1>4. task' \in [Tasks -> Task] /\ task'[t] = r /\ Others(t) BY <1>2, <1>3 DEF Others
<1> QED BY <1>1, <1>4 DEF Tasked, Ends

\* A task begins.
LEMMA BeginStarts ==
  ASSUME task \in [Tasks -> Task], NEW t \in Tasks, NEW pc \in Pcs,
         NEW on \in Sessions \cup {NoTask}, NEW with \in Providers \cup States \cup {NoTask},
         NEW via \in Profiles \cup {NoTask}, Begin(t, pc, on, with, via)
  PROVE  /\ Up /\ task[t] = Idle /\ Tasked(t)
         /\ task'[t].pc = pc /\ task'[t].on = on /\ task'[t].with = with
         /\ task'[t].owned = FALSE
<1> DEFINE r == [Idle EXCEPT !.pc = pc, !.on = on, !.with = with, !.via = via]
<1>1. /\ r.pc = pc /\ r.on = on /\ r.with = with /\ r.owned = FALSE
  BY DEF Idle
<1>2. r \in Task BY DEF Idle, Task
<1>3. Up /\ task[t] = Idle /\ task' = [task EXCEPT ![t] = r] BY DEF Begin
<1> HIDE DEF r
<1>4. task' \in [Tasks -> Task] /\ task'[t] = r /\ Others(t) BY <1>2, <1>3 DEF Others
<1> QED BY <1>1, <1>3, <1>4 DEF Tasked

SameSessions == /\ store'.row = store.row /\ store'.used = store.used
                /\ store'.marker = store.marker /\ store'.secret = store.secret
SameProviders == /\ store'.provider = store.provider
                 /\ store'.providerSecret = store.providerSecret

NewRowOf(s, r) ==
  /\ store' \in Store /\ store'.used = store.used
  /\ store'.marker = store.marker /\ store'.secret = store.secret /\ SameProviders
  /\ store'.row = [store.row EXCEPT ![s] = r]
NewMarker(s, b) ==
  /\ store' \in Store /\ store'.used = store.used
  /\ store'.row = store.row /\ store'.secret = store.secret /\ SameProviders
  /\ store'.marker = [store.marker EXCEPT ![s] = b]
NewSecret(s, b) ==
  /\ store' \in Store /\ store'.used = store.used
  /\ store'.marker = store.marker /\ store'.row = store.row /\ SameProviders
  /\ store'.secret = [store.secret EXCEPT ![s] = b]
NewProvider(p, st) ==
  /\ store' \in Store /\ SameSessions /\ store'.providerSecret = store.providerSecret
  /\ store'.provider = [store.provider EXCEPT ![p] = st]
NewProviderSecret(p, b) ==
  /\ store' \in Store /\ SameSessions /\ store'.provider = store.provider
  /\ store'.providerSecret = [store.providerSecret EXCEPT ![p] = b]

\* Each write changes one part of the store.
LEMMA WriteSets ==
  ASSUME store \in Store
  PROVE  /\ \A s \in Sessions, r \in Row : store' = SetRow(s, r) => NewRowOf(s, r)
         /\ \A s \in Sessions, b \in BOOLEAN : store' = SetMarker(s, b) => NewMarker(s, b)
         /\ \A s \in Sessions, b \in BOOLEAN : store' = SetSecret(s, b) => NewSecret(s, b)
         /\ \A p \in Providers, st \in {"none", "ready", "deleting"} :
              store' = SetProvider(p, st) => NewProvider(p, st)
         /\ \A p \in Providers, b \in BOOLEAN :
              store' = SetProviderSecret(p, b) => NewProviderSecret(p, b)
<1> USE DEF Store, SameSessions, SameProviders
<1>1. \A s \in Sessions, r \in Row : store' = SetRow(s, r) => NewRowOf(s, r)
  BY DEF SetRow, NewRowOf
<1>2. \A s \in Sessions, b \in BOOLEAN : store' = SetMarker(s, b) => NewMarker(s, b)
  BY DEF SetMarker, NewMarker
<1>3. \A s \in Sessions, b \in BOOLEAN : store' = SetSecret(s, b) => NewSecret(s, b)
  BY DEF SetSecret, NewSecret
<1>4. \A p \in Providers, st \in {"none", "ready", "deleting"} :
              store' = SetProvider(p, st) => NewProvider(p, st)
  BY DEF SetProvider, NewProvider
<1>5. \A p \in Providers, b \in BOOLEAN :
              store' = SetProviderSecret(p, b) => NewProviderSecret(p, b)
  BY DEF SetProviderSecret, NewProviderSecret
<1> QED BY <1>1, <1>2, <1>3, <1>4, <1>5

\* So does a change of the profiles, which no invariant is about.
LEMMA ProfilesSet ==
  ASSUME store \in Store, NEW Q \in SUBSET Profiles, store' = SetProfiles(Q)
  PROVE  store' \in Store /\ SameSessions /\ SameProviders
BY DEF Store, SetProfiles, SameSessions, SameProviders

---------------------------------------------------------------------------
(* What every step of a task keeps.                                        *)

\* A task that goes on, or is over, leaves the others and the start-up in order.
LEMMA CoreKept ==
  ASSUME Core, NEW t \in Tasks, Tasked(t), task[t].pc # "free" \/ (Up /\ t # Boot),
         Ends(t) \/ Shaped(t)', t = Boot => task'[t].pc \in OfBoot \ {"free"},
         store' \in Store, faults' \in Nat, crashes' \in Nat,
         producer' \in [Sessions -> {"none", "starting", "running"}],
         \A s \in Sessions : producer'[s] \in {producer[s], "none"}
  PROVE  Core'
<1> USE LifecycleAssumption DEF Core, Tasked, Others
<1>1. Types' BY DEF Types
<1>2. Boot \in Tasks /\ NoTask \notin Sessions BY DEF Tasks
<1>3. \A u \in Tasks : Shaped(u)'
  <2>1. Shaped(t)'
    <3>1. CASE Ends(t)
      BY <3>1 DEF Ends, Shaped, Idle, OnSession, OnProvider, Young, Deleting
    <3> QED BY <3>1
  <2> QED BY <2>1 DEF BootInv, Shaped
<1>4. task'[Boot].pc \in OfBoot BY <1>2 DEF BootInv
<1>5. ~Up' => /\ \A u \in Tasks \ {Boot} : task'[u] = Idle
              /\ \A s \in Sessions : producer'[s] = "none"
  <2>1. CASE Up
    <3>1. Up' BY <1>2, <2>1 DEF Up
    <3> QED BY <2>1, <3>1 DEF Up
  <2>2. CASE ~Up
    <3>1. t = Boot BY <2>2 DEF BootInv, Idle
    <3> QED BY <2>2, <3>1 DEF BootInv
  <2> QED BY <2>1, <2>2
<1> QED BY <1>1, <1>3, <1>4, <1>5 DEF BootInv

\* A step that is not about a session or its credential keeps what is known of them.
LEMMA SessionsKept ==
  ASSUME SessionInv, BootInv, NEW t \in Tasks, Tasked(t), SameSessions,
         task'[t].pc \notin OnSession, task'[t].on = NoTask, producer' = producer
  PROVE  SessionInv'
<1> USE LifecycleAssumption DEF SessionInv, Tasked, Others, SameSessions
<1>1. \A s \in Sessions : RowInv(s)' BY DEF RowInv
<1>2. /\ NoLostCredential' /\ SessionKeepsCredential' /\ CredentialOutlivesProducer'
  BY DEF NoLostCredential, SessionKeepsCredential, CredentialOutlivesProducer, Live
<1>3. \A u \in Tasks : Knows(u)'
  <2> SUFFICES ASSUME NEW u \in Tasks PROVE Knows(u)' OBVIOUS
  <2>1. CASE u = t BY <2>1 DEF Knows, OnSession, Young, Deleting
  <2>2. CASE u # t BY <2>2 DEF Knows, Live
  <2> QED BY <2>1, <2>2
<1>4. FreshInv'
  <2>1. \A u \in Tasks : Fresh(u)'
    <3> SUFFICES ASSUME NEW u \in Tasks PROVE Fresh(u)' OBVIOUS
    <3>1. CASE u = t BY <3>1 DEF Fresh, OnSession
    <3>2. CASE u # t
      <4>1. task'[u] = task[u] BY <3>2
      <4>2. task[u].pc \in Young => task[u].on \in Sessions
        BY DEF BootInv, Shaped, OnSession, Young
      <4> QED BY <4>1, <4>2 DEF FreshInv, Fresh, Live
    <3> QED BY <3>1, <3>2
  <2> QED BY <2>1 DEF FreshInv, Live
<1> QED BY <1>1, <1>2, <1>3, <1>4

\* A step that is not about a provider keeps what is known of providers.
LEMMA ProvidersKept ==
  ASSUME ProviderInv, NEW t \in Tasks, Tasked(t), SameProviders,
         task'[t].pc \notin OnProvider \ {"p_begin"}
  PROVE  ProviderInv'
<1> USE DEF ProviderInv, Tasked, Others, SameProviders
<1>1. ProviderKeepsSecret' BY DEF ProviderKeepsSecret
<1>2. \A u \in Tasks : Adds(u)'
  <2> SUFFICES ASSUME NEW u \in Tasks PROVE Adds(u)' OBVIOUS
  <2>1. CASE u = t BY <2>1 DEF Adds, OnProvider
  <2>2. CASE u # t BY <2>2 DEF Adds, OnProvider
  <2> QED BY <2>1, <2>2
<1> QED BY <1>1, <1>2

---------------------------------------------------------------------------
(* Steps on a session.                                                     *)

CredInv(s) ==
  /\ store.secret[s] => store.marker[s] \/ Live(s)
  /\ store.row[s].owned /\ ~store.row[s].deleting => store.secret[s]
  /\ producer[s] = "running" /\ store.row[s].owned => store.secret[s]

\* What one task at work on a session may change of it for the others.
RowChange(s) ==
  LET r == store.row[s]
      n == store'.row[s] IN
  \/ n = r
  \/ /\ r.rev > 0 /\ n.rev = r.rev + 1 /\ n.owned = r.owned
     /\ r.deleting => n.deleting
  \/ n = NoRow /\ ~store'.secret[s]
SessionChange(t) ==
  LET s == task[t].on IN
  /\ store' \in Store /\ store'.used = store.used /\ SameProviders
  /\ producer' \in [Sessions -> {"none", "starting", "running"}]
  /\ \A x \in Sessions : producer'[x] \in {producer[x], "none"}
  /\ \A x \in Sessions \ {s} : /\ store'.row[x] = store.row[x] /\ producer'[x] = producer[x]
                               /\ store'.marker[x] = store.marker[x]
                               /\ store'.secret[x] = store.secret[x]
  /\ task[t].pc \in {"read", "delete"} => SameSessions
  /\ task[t].pc \notin Young => RowChange(s) /\ (store'.secret[s] => store.secret[s])
  /\ task[t].pc \in Young =>
       /\ task[t].pc # "commit" => store'.row[s] = store.row[s]
       /\ store'.secret[s] => store.secret[s] \/ task[t].pc = "secret"
Own(t) ==
  \/ Ends(t)
  \/ /\ task'[t].on = task[t].on /\ task'[t].pc \in OnSession /\ Shaped(t)' /\ Knows(t)'
     /\ task'[t].pc \in Young => task[t].pc \in Young /\ store'.row[task[t].on] = store.row[task[t].on]
     /\ task[t].pc \in {"read", "delete"} => task'[t].pc = task[t].pc \/ Live(task[t].on)

\* A step of a task on its session keeps the invariant if it keeps it for the two.
LEMMA SessionStep ==
  ASSUME IInv, NEW t \in Tasks, NEW s \in Sessions, task[t].on = s, task[t].pc \in OnSession,
         Tasked(t), SessionChange(t), Own(t),
         t = Boot => task'[t].pc \in OfBoot \ {"free"}, faults' \in Nat, crashes' \in Nat,
         RowInv(s)', CredInv(s)'
  PROVE  IInv'
<1>1. Core /\ SessionInv /\ ProviderInv BY DEF IInv
<1>2. Core'
  <2>1. store' \in Store /\ producer' \in [Sessions -> {"none", "starting", "running"}]
        /\ \A x \in Sessions : producer'[x] \in {producer[x], "none"}
    BY DEF SessionChange
  <2>2. Ends(t) \/ Shaped(t)' BY DEF Own
  <2>3. task[t].pc # "free" BY DEF OnSession, Young, Deleting
  <2> QED BY <1>1, <2>1, <2>2, <2>3, CoreKept
<1>3. ProviderInv'
  <2>1. task'[t].pc \notin OnProvider \ {"p_begin"}
    BY DEF Own, Ends, Idle, OnProvider, OnSession, Young, Deleting
  <2> QED BY <1>1, <2>1, ProvidersKept DEF SessionChange
<1>4. \A x \in Sessions : RowInv(x)' /\ CredInv(x)'
  <2> SUFFICES ASSUME NEW x \in Sessions \ {s} PROVE RowInv(x)' /\ CredInv(x)'
    OBVIOUS
  <2>1. /\ store'.row[x] = store.row[x] /\ producer'[x] = producer[x]
        /\ store'.marker[x] = store.marker[x] /\ store'.secret[x] = store.secret[x]
    BY DEF SessionChange
  <2>2. RowInv(x) /\ CredInv(x)
    BY <1>1 DEF SessionInv, NoLostCredential, SessionKeepsCredential,
                CredentialOutlivesProducer, CredInv
  <2> QED BY <2>1, <2>2 DEF RowInv, CredInv, Live
<1>5. NoLostCredential' /\ SessionKeepsCredential' /\ CredentialOutlivesProducer'
  BY <1>4 DEF NoLostCredential, SessionKeepsCredential, CredentialOutlivesProducer,
      CredInv
<1>6. \A u \in Tasks \ {t} : task'[u] = task[u] BY DEF Tasked, Others
<1>7. ASSUME NEW u \in Tasks PROVE Knows(u)'
  <2>1. CASE u = t
    BY <2>1 DEF Own, Knows, Ends, Idle, Deleting
  <2>2. CASE u # t /\ task[u].on # s
    <3>1. task[u].pc \notin OnSession \/ task[u].on \in Sessions \ {s}
      BY <1>1, <2>2 DEF Core, BootInv, Shaped
    <3>2. CASE task[u].pc \notin OnSession
      BY <1>6, <2>2, <3>2 DEF Knows, OnSession, Young, Deleting
    <3>3. CASE task[u].on \in Sessions \ {s}
      BY <1>1, <1>6, <2>2, <3>3 DEF SessionInv, Knows, Live, SessionChange
    <3> QED BY <3>1, <3>2, <3>3
  <2>3. CASE u # t /\ task[u].on = s /\ task[t].pc \in Young
    <3>1. task[u].pc \in {"read", "delete"}
      BY <1>1, <2>3 DEF SessionInv, FreshInv, Fresh
    <3> QED BY <1>6, <2>3, <3>1 DEF Knows, Deleting
  <2>4. CASE u # t /\ task[u].on = s /\ task[t].pc \notin Young
    <3>1. CASE task[u].pc \in Young
      <4>1. task[t].pc \in {"read", "delete"}
        BY <1>1, <2>4, <3>1 DEF SessionInv, FreshInv, Fresh
      <4>2. SameSessions BY <4>1 DEF SessionChange, OnSession, Young, Deleting
      <4> QED BY <1>1, <1>6, <2>4, <3>1, <4>2
            DEF SessionInv, Knows, Live, SameSessions, Young, Deleting
    <3>2. CASE task[u].pc \notin Young
      <4>1. Knows(u) /\ RowInv(s) BY <1>1 DEF SessionInv
      <4>2. RowChange(s) /\ (store'.secret[s] => store.secret[s])
            /\ producer'[s] \in {producer[s], "none"}
        BY <1>1, <2>4 DEF SessionChange
      <4>3. store.row[s].rev \in Nat /\ task[u].rev \in Nat
        BY <1>1 DEF Core, Types, Store, Row, Task
      <4>4. task'[u] = task[u] /\ task[u].on = s BY <1>6, <2>4
      <4> USE <3>2, <4>1, <4>2, <4>3, <4>4 DEF Knows, RowInv, RowChange, Live, NoRow,
      Young
      <4>5. CASE store'.row[s] = store.row[s] BY <4>5 DEF Deleting
      <4>6. CASE store'.row[s].rev = store.row[s].rev + 1 /\ store.row[s].rev > 0
                 /\ store'.row[s].owned = store.row[s].owned
                 /\ store.row[s].deleting => store'.row[s].deleting
        BY <4>6 DEF Deleting
      <4>7. CASE store'.row[s] = NoRow /\ ~store'.secret[s] BY <4>7 DEF Deleting
      <4> QED BY <4>5, <4>6, <4>7
    <3> QED BY <3>1, <3>2
  <2> QED BY <2>1, <2>2, <2>3, <2>4
<1>8. FreshInv'
  <2>1. ASSUME NEW u \in Tasks PROVE Fresh(u)'
    <3>1. CASE u = t
      BY <1>1, <1>6, <3>1 DEF SessionInv, FreshInv, Fresh, Own, Ends, Idle, SessionChange,
                              Live, Young
    <3>2. CASE u # t /\ task[u].pc \notin Young
      BY <1>6, <3>2 DEF Fresh
    <3>3. CASE u # t /\ task[u].pc \in Young /\ task[u].on # s
      <4>1. task[u].on \in Sessions BY <1>1, <3>3 DEF Core, BootInv, Shaped, OnSession
      <4>2. task'[t].on \in {s, NoTask} BY DEF Own, Ends
      <4>3. NoTask \notin Sessions BY LifecycleAssumption
      <4> QED BY <1>1, <1>6, <3>3, <4>1, <4>2, <4>3
            DEF SessionInv, FreshInv, Fresh, SessionChange, Live
    <3>4. CASE u # t /\ task[u].pc \in Young /\ task[u].on = s
      <4>1. task[t].pc \in {"read", "delete"} /\ ~Live(s) /\ s \in store.used
        BY <1>1, <3>4 DEF SessionInv, FreshInv, Fresh
      <4>2. SameSessions BY <4>1 DEF SessionChange, OnSession, Young, Deleting
      <4>3. task'[t].pc \in {"read", "delete"} \/ task'[t].on = NoTask
        BY <4>1 DEF Own, Ends
      <4> QED BY <1>1, <1>6, <3>4, <4>1, <4>2, <4>3, LifecycleAssumption
            DEF SessionInv, FreshInv, Fresh, Live, SameSessions
    <3> QED BY <3>1, <3>2, <3>3, <3>4
  <2>2. ASSUME NEW x \in Sessions \ store'.used
        PROVE  /\ ~Live(x)' /\ ~store'.secret[x] /\ ~store'.marker[x]
               /\ \A u \in Tasks : task'[u].on = x => task'[u].pc = "read"
    <3>1. x \in Sessions \ store.used BY <2>2 DEF SessionChange
    <3>2. x # s \/ task[t].pc = "read"
      BY <1>1, <3>1 DEF SessionInv, FreshInv, OnSession, Young, Deleting
    <3>3. /\ store'.row[x] = store.row[x] /\ store'.secret[x] = store.secret[x]
          /\ store'.marker[x] = store.marker[x]
      BY <3>1, <3>2 DEF SessionChange, SameSessions
    <3>4. task'[t].on = x => task'[t].pc = "read"
      BY <1>1, <3>1, <3>2, LifecycleAssumption DEF SessionInv, FreshInv, Own, Ends
    <3> QED BY <1>1, <1>6, <3>1, <3>2, <3>3, <3>4
            DEF SessionInv, FreshInv, Live
  <2> QED BY <2>1, <2>2 DEF FreshInv
<1> QED BY <1>1, <1>2, <1>3, <1>4, <1>5, <1>7, <1>8 DEF IInv, SessionInv


\* What the invariant says of a task and its session.
LEMMA OwnFacts ==
  ASSUME IInv, NEW t \in Tasks, NEW s \in Sessions, task[t].on = s
  PROVE  Knows(t) /\ Fresh(t) /\ RowInv(s) /\ CredInv(s) /\ Shaped(t)
BY DEF IInv, SessionInv, FreshInv, CredInv, NoLostCredential, SessionKeepsCredential,
       CredentialOutlivesProducer, Core, BootInv
\* The types of what a step on a session reads.
Typed(t, s) ==
  /\ store.row[s].rev \in Nat /\ store.row[s].owned \in BOOLEAN /\ store.row[s].deleting \in BOOLEAN
  /\ store.secret[s] \in BOOLEAN /\ store.marker[s] \in BOOLEAN
  /\ task[t].owned \in BOOLEAN /\ task[t].rev \in Nat

\* They follow from the invariant.
LEMMA OwnTypes ==
  ASSUME IInv, NEW t \in Tasks, NEW s \in Sessions
  PROVE  Typed(t, s)
BY DEF Typed, IInv, Core, Types, Store, Row, Task

\* An update of a row raises its revision and keeps its owner.
LEMMA RevisedIs ==
  ASSUME store \in Store, NEW s \in Sessions, NEW st \in States, NEW d \in BOOLEAN
  PROVE  \E r \in Row : /\ Revised(s, st, d) = SetRow(s, r)
                       /\ r.rev = store.row[s].rev + 1 /\ r.owned = store.row[s].owned
                       /\ r.deleting = d /\ r.state = st
<1> DEFINE r == [store.row[s] EXCEPT !.rev = store.row[s].rev + 1, !.state = st, !.deleting = d]
<1>1. store.row[s] \in Row BY DEF Store
<1>2. r \in Row
  <2>1. store.row[s].rev + 1 \in Nat BY <1>1 DEF Row
  <2> QED BY <1>1, <2>1 DEF Row, States
<1>3. r.rev = store.row[s].rev + 1 /\ r.owned = store.row[s].owned /\ r.state = st
  BY <1>1 DEF Row
<1>4. r.deleting = d BY <1>1 DEF Row
<1>5. Revised(s, st, d) = SetRow(s, r) BY DEF Revised
<1> QED BY <1>2, <1>3, <1>4, <1>5

\* NoRow is a row.
LEMMA NoRowIs == NoRow \in Row /\ NoRow.rev = 0 /\ ~NoRow.owned /\ ~NoRow.deleting
BY DEF NoRow, Row, States

\* getProfile and getProvider answer, or the request ends.
LEMMA LookupKeeps ==
  ASSUME IInv, NEW t \in Tasks, Lookup(t)
  PROVE  IInv'
<1>1. task[t].pc = "lookup" BY DEF Lookup, At
<1>2. task[t].on \in Sessions
  BY <1>1 DEF IInv, Core, BootInv, Shaped, OnSession, Young, Deleting
<1> SUFFICES ASSUME NEW s \in Sessions, task[t].on = s PROVE IInv' BY <1>2
<1>3. Knows(t) /\ Fresh(t) /\ RowInv(s) /\ CredInv(s) /\ Shaped(t) BY OwnFacts
<1>4. Core BY DEF IInv
<1>5. Typed(t, s) BY OwnTypes
<1> USE DEF Typed
<1>6. CASE Goto(t, "marker") /\ Reads /\ UNCHANGED faults /\ task[t].owned
  <2>1. Tasked(t) /\ Moves(t, {"marker"})
    BY <1>4, <1>6, GotoMoves DEF Core, Types, Pcs, OnSession, Young, Deleting
  <2>2. store' = store /\ producer' = producer BY <1>6 DEF Reads
  <2>3. /\ store'.row[s] = store.row[s] /\ store'.marker[s] = store.marker[s]
        /\ store'.secret[s] = store.secret[s] /\ producer'[s] = producer[s]
    BY <1>4, <2>2
  <2>4. faults' \in Nat /\ crashes' \in Nat
    BY <1>4, <1>6, LifecycleAssumption DEF Reads, Writes, Fails, Fault, Core, Types
  <2>5. SessionChange(t)
    BY <1>1, <1>3, <1>4, <1>6, <2>2 DEF SessionChange, Live, RowChange, SameProviders,
        SameSessions, Knows,
       NewSecret, NewMarker, NewRowOf, Core, Types, Store, OnSession, Young, Deleting
  <2>6. Own(t)
    <3>1. task'[t].on = s /\ task'[t].pc = "marker" BY <2>1 DEF Moves
    <3>2. Shaped(t)'
      BY <1>1, <1>3, <2>1, <3>1 DEF Shaped, Moves, OnProvider, OnSession, Young, Deleting
    <3>3. Knows(t)'
      BY <1>1, <1>3, <1>5, <1>6, <2>1, <2>3, <3>1, NoRowIs
         DEF Moves, Knows, Fresh, RowInv, CredInv, Live, Deleting, Young
    <3> QED BY <1>1, <2>3, <3>1, <3>2, <3>3 DEF Own, OnSession, Young, Deleting
  <2>7. t = Boot => task'[t].pc \in OfBoot \ {"free"}
    BY <1>1, <1>4, <2>1 DEF Core, BootInv, OfBoot, Ends, Moves, OnSession, Young, Deleting
  <2>8. RowInv(s)' /\ CredInv(s)'
    <3>1. RowInv(s)' BY <1>1, <1>3, <1>5, <1>6, <2>3, NoRowIs DEF RowInv, Knows, Fresh,
      Live, OnSession, Young, Deleting
    <3>2. CredInv(s)' BY <1>1, <1>3, <1>5, <1>6, <2>3, NoRowIs DEF RowInv, CredInv,
      Knows, Fresh, Live, OnSession, Young, Deleting
    <3> QED BY <3>1, <3>2
  <2> QED BY <1>1, <2>1, <2>4, <2>5, <2>6, <2>7, <2>8, SessionStep DEF OnSession, Young,
      Deleting
<1>7. CASE Goto(t, "commit") /\ Reads /\ UNCHANGED faults /\ ~task[t].owned
  <2>1. Tasked(t) /\ Moves(t, {"commit"})
    BY <1>4, <1>7, GotoMoves DEF Core, Types, Pcs, OnSession, Young, Deleting
  <2>2. store' = store /\ producer' = producer BY <1>7 DEF Reads
  <2>3. /\ store'.row[s] = store.row[s] /\ store'.marker[s] = store.marker[s]
        /\ store'.secret[s] = store.secret[s] /\ producer'[s] = producer[s]
    BY <1>4, <2>2
  <2>4. faults' \in Nat /\ crashes' \in Nat
    BY <1>4, <1>7, LifecycleAssumption DEF Reads, Writes, Fails, Fault, Core, Types
  <2>5. SessionChange(t)
    BY <1>1, <1>3, <1>4, <1>7, <2>2 DEF SessionChange, Live, RowChange, SameProviders,
        SameSessions, Knows,
       NewSecret, NewMarker, NewRowOf, Core, Types, Store, OnSession, Young, Deleting
  <2>6. Own(t)
    <3>1. task'[t].on = s /\ task'[t].pc = "commit" BY <2>1 DEF Moves
    <3>2. Shaped(t)'
      BY <1>1, <1>3, <2>1, <3>1 DEF Shaped, Moves, OnProvider, OnSession, Young, Deleting
    <3>3. Knows(t)'
      BY <1>1, <1>3, <1>5, <1>7, <2>1, <2>3, <3>1, NoRowIs
         DEF Moves, Knows, Fresh, RowInv, CredInv, Live, Deleting, Young
    <3> QED BY <1>1, <2>3, <3>1, <3>2, <3>3 DEF Own, OnSession, Young, Deleting
  <2>7. t = Boot => task'[t].pc \in OfBoot \ {"free"}
    BY <1>1, <1>4, <2>1 DEF Core, BootInv, OfBoot, Ends, Moves, OnSession, Young, Deleting
  <2>8. RowInv(s)' /\ CredInv(s)'
    <3>1. RowInv(s)' BY <1>1, <1>3, <1>5, <1>7, <2>3, NoRowIs DEF RowInv, Knows, Fresh,
      Live, OnSession, Young, Deleting
    <3>2. CredInv(s)' BY <1>1, <1>3, <1>5, <1>7, <2>3, NoRowIs DEF RowInv, CredInv,
      Knows, Fresh, Live, OnSession, Young, Deleting
    <3> QED BY <3>1, <3>2
  <2> QED BY <1>1, <2>1, <2>4, <2>5, <2>6, <2>7, <2>8, SessionStep DEF OnSession, Young,
      Deleting
<1>8. CASE Throw(t) /\ Reads /\ UNCHANGED faults
  <2>1. Tasked(t) /\ Ends(t) BY <1>4, <1>8, ReturnEnds DEF Core, Types
  <2>2. store' = store /\ producer' = producer BY <1>8 DEF Reads
  <2>3. /\ store'.row[s] = store.row[s] /\ store'.marker[s] = store.marker[s]
        /\ store'.secret[s] = store.secret[s] /\ producer'[s] = producer[s]
    BY <1>4, <2>2
  <2>4. faults' \in Nat /\ crashes' \in Nat
    BY <1>4, <1>8, LifecycleAssumption DEF Reads, Writes, Fails, Fault, Core, Types
  <2>5. SessionChange(t)
    BY <1>1, <1>3, <1>4, <1>8, <2>2 DEF SessionChange, Live, RowChange, SameProviders,
        SameSessions, Knows,
       NewSecret, NewMarker, NewRowOf, Core, Types, Store, OnSession, Young, Deleting
  <2>6. Own(t) BY <2>1 DEF Own
  <2>7. t = Boot => task'[t].pc \in OfBoot \ {"free"}
    BY <1>1, <1>4, <2>1 DEF Core, BootInv, OfBoot, Ends, Moves, OnSession, Young, Deleting
  <2>8. RowInv(s)' /\ CredInv(s)'
    <3>1. RowInv(s)' BY <1>1, <1>3, <1>5, <1>8, <2>3, NoRowIs DEF RowInv, Knows, Fresh,
      Live, OnSession, Young, Deleting
    <3>2. CredInv(s)' BY <1>1, <1>3, <1>5, <1>8, <2>3, NoRowIs DEF RowInv, CredInv,
      Knows, Fresh, Live, OnSession, Young, Deleting
    <3> QED BY <3>1, <3>2
  <2> QED BY <1>1, <2>1, <2>4, <2>5, <2>6, <2>7, <2>8, SessionStep DEF OnSession, Young,
      Deleting
<1> QED BY <1>1, <1>6, <1>7, <1>8 DEF Lookup

\* The marker is there before the credential it points at.
LEMMA PutMarkerKeeps ==
  ASSUME IInv, NEW t \in Tasks, PutMarker(t)
  PROVE  IInv'
<1>1. task[t].pc = "marker" BY DEF PutMarker, At
<1>2. task[t].on \in Sessions
  BY <1>1 DEF IInv, Core, BootInv, Shaped, OnSession, Young, Deleting
<1> SUFFICES ASSUME NEW s \in Sessions, task[t].on = s PROVE IInv' BY <1>2
<1>3. Knows(t) /\ Fresh(t) /\ RowInv(s) /\ CredInv(s) /\ Shaped(t) BY OwnFacts
<1>4. Core BY DEF IInv
<1>5. Typed(t, s) BY OwnTypes
<1> USE DEF Typed
<1>6. CASE Goto(t, "secret") /\ Writes(SetMarker(s, TRUE))
  <2>1. Tasked(t) /\ Moves(t, {"secret"})
    BY <1>4, <1>6, GotoMoves DEF Core, Types, Pcs, OnSession, Young, Deleting
  <2>2. NewMarker(s, TRUE) /\ producer' = producer
    BY <1>4, <1>6, WriteSets DEF Writes, Core, Types
  <2>3. /\ store'.row[s] = store.row[s] /\ store'.marker[s] = TRUE
        /\ store'.secret[s] = store.secret[s] /\ producer'[s] = producer[s]
    BY <1>4, <2>2 DEF NewMarker, Core, Types, Store
  <2>4. faults' \in Nat /\ crashes' \in Nat
    BY <1>4, <1>6, LifecycleAssumption DEF Reads, Writes, Fails, Fault, Core, Types
  <2>5. SessionChange(t)
    BY <1>1, <1>3, <1>4, <1>6, <2>2 DEF SessionChange, Live, RowChange, SameProviders,
        SameSessions, Knows,
       NewSecret, NewMarker, NewRowOf, Core, Types, Store, OnSession, Young, Deleting
  <2>6. Own(t)
    <3>1. task'[t].on = s /\ task'[t].pc = "secret" BY <2>1 DEF Moves
    <3>2. Shaped(t)'
      BY <1>1, <1>3, <2>1, <3>1 DEF Shaped, Moves, OnProvider, OnSession, Young, Deleting
    <3>3. Knows(t)'
      BY <1>1, <1>3, <1>5, <1>6, <2>1, <2>3, <3>1, NoRowIs
         DEF Moves, Knows, Fresh, RowInv, CredInv, Live, Deleting, Young
    <3> QED BY <1>1, <2>3, <3>1, <3>2, <3>3 DEF Own, OnSession, Young, Deleting
  <2>7. t = Boot => task'[t].pc \in OfBoot \ {"free"}
    BY <1>1, <1>4, <2>1 DEF Core, BootInv, OfBoot, Ends, Moves, OnSession, Young, Deleting
  <2>8. RowInv(s)' /\ CredInv(s)'
    <3>1. RowInv(s)' BY <1>1, <1>3, <1>5, <1>6, <2>3, NoRowIs DEF RowInv, Knows, Fresh,
      Live, OnSession, Young, Deleting
    <3>2. CredInv(s)' BY <1>1, <1>3, <1>5, <1>6, <2>3, NoRowIs DEF RowInv, CredInv,
      Knows, Fresh, Live, OnSession, Young, Deleting
    <3> QED BY <3>1, <3>2
  <2> QED BY <1>1, <2>1, <2>4, <2>5, <2>6, <2>7, <2>8, SessionStep DEF OnSession, Young,
      Deleting
<1>7. CASE Throw(t) /\ Fails(SetMarker(s, TRUE))
  <2>1. Tasked(t) /\ Ends(t) BY <1>4, <1>7, ReturnEnds DEF Core, Types
  <2>2. (store' = store \/ NewMarker(s, TRUE)) /\ producer' = producer
    BY <1>4, <1>7, WriteSets DEF Fails, Core, Types
  <2>3. /\ store'.row[s] = store.row[s] /\ (store.marker[s] => store'.marker[s])
        /\ store'.secret[s] = store.secret[s] /\ producer'[s] = producer[s]
    BY <1>4, <2>2 DEF NewMarker, Core, Types, Store
  <2>4. faults' \in Nat /\ crashes' \in Nat
    BY <1>4, <1>7, LifecycleAssumption DEF Reads, Writes, Fails, Fault, Core, Types
  <2>5. SessionChange(t)
    BY <1>1, <1>3, <1>4, <1>7, <2>2 DEF SessionChange, Live, RowChange, SameProviders,
        SameSessions, Knows,
       NewSecret, NewMarker, NewRowOf, Core, Types, Store, OnSession, Young, Deleting
  <2>6. Own(t) BY <2>1 DEF Own
  <2>7. t = Boot => task'[t].pc \in OfBoot \ {"free"}
    BY <1>1, <1>4, <2>1 DEF Core, BootInv, OfBoot, Ends, Moves, OnSession, Young, Deleting
  <2>8. RowInv(s)' /\ CredInv(s)'
    <3>1. RowInv(s)' BY <1>1, <1>3, <1>5, <1>7, <2>3, NoRowIs DEF RowInv, Knows, Fresh,
      Live, OnSession, Young, Deleting
    <3>2. CredInv(s)' BY <1>1, <1>3, <1>5, <1>7, <2>3, NoRowIs DEF RowInv, CredInv,
      Knows, Fresh, Live, OnSession, Young, Deleting
    <3> QED BY <3>1, <3>2
  <2> QED BY <1>1, <2>1, <2>4, <2>5, <2>6, <2>7, <2>8, SessionStep DEF OnSession, Young,
      Deleting
<1> QED BY <1>1, <1>6, <1>7 DEF PutMarker

\* The credential is stored; whether it was decides the reconciliation.
LEMMA PutSecretKeeps ==
  ASSUME IInv, NEW t \in Tasks, PutSecret(t)
  PROVE  IInv'
<1>1. task[t].pc = "secret" BY DEF PutSecret, At
<1>2. task[t].on \in Sessions
  BY <1>1 DEF IInv, Core, BootInv, Shaped, OnSession, Young, Deleting
<1> SUFFICES ASSUME NEW s \in Sessions, task[t].on = s PROVE IInv' BY <1>2
<1>3. Knows(t) /\ Fresh(t) /\ RowInv(s) /\ CredInv(s) /\ Shaped(t) BY OwnFacts
<1>4. Core BY DEF IInv
<1>5. Typed(t, s) BY OwnTypes
<1> USE DEF Typed
<1>6. CASE Goto(t, "commit") /\ Writes(SetSecret(s, TRUE))
  <2>1. Tasked(t) /\ Moves(t, {"commit"})
    BY <1>4, <1>6, GotoMoves DEF Core, Types, Pcs, OnSession, Young, Deleting
  <2>2. NewSecret(s, TRUE) /\ producer' = producer
    BY <1>4, <1>6, WriteSets DEF Writes, Core, Types
  <2>3. /\ store'.row[s] = store.row[s] /\ store'.marker[s] = store.marker[s]
        /\ store'.secret[s] = TRUE /\ producer'[s] = producer[s]
    BY <1>4, <2>2 DEF NewSecret, Core, Types, Store
  <2>4. faults' \in Nat /\ crashes' \in Nat
    BY <1>4, <1>6, LifecycleAssumption DEF Reads, Writes, Fails, Fault, Core, Types
  <2>5. SessionChange(t)
    BY <1>1, <1>3, <1>4, <1>6, <2>2 DEF SessionChange, Live, RowChange, SameProviders,
        SameSessions, Knows,
       NewSecret, NewMarker, NewRowOf, Core, Types, Store, OnSession, Young, Deleting
  <2>6. Own(t)
    <3>1. task'[t].on = s /\ task'[t].pc = "commit" BY <2>1 DEF Moves
    <3>2. Shaped(t)'
      BY <1>1, <1>3, <2>1, <3>1 DEF Shaped, Moves, OnProvider, OnSession, Young, Deleting
    <3>3. Knows(t)'
      BY <1>1, <1>3, <1>5, <1>6, <2>1, <2>3, <3>1, NoRowIs
         DEF Moves, Knows, Fresh, RowInv, CredInv, Live, Deleting, Young
    <3> QED BY <1>1, <2>3, <3>1, <3>2, <3>3 DEF Own, OnSession, Young, Deleting
  <2>7. t = Boot => task'[t].pc \in OfBoot \ {"free"}
    BY <1>1, <1>4, <2>1 DEF Core, BootInv, OfBoot, Ends, Moves, OnSession, Young, Deleting
  <2>8. RowInv(s)' /\ CredInv(s)'
    <3>1. RowInv(s)' BY <1>1, <1>3, <1>5, <1>6, <2>3, NoRowIs DEF RowInv, Knows, Fresh,
      Live, OnSession, Young, Deleting
    <3>2. CredInv(s)' BY <1>1, <1>3, <1>5, <1>6, <2>3, NoRowIs DEF RowInv, CredInv,
      Knows, Fresh, Live, OnSession, Young, Deleting
    <3> QED BY <3>1, <3>2
  <2> QED BY <1>1, <2>1, <2>4, <2>5, <2>6, <2>7, <2>8, SessionStep DEF OnSession, Young,
      Deleting
<1>7. CASE Goto(t, "reconcile") /\ Fails(SetSecret(s, TRUE))
  <2>1. Tasked(t) /\ Moves(t, {"reconcile"})
    BY <1>4, <1>7, GotoMoves DEF Core, Types, Pcs, OnSession, Young, Deleting
  <2>2. (store' = store \/ NewSecret(s, TRUE)) /\ producer' = producer
    BY <1>4, <1>7, WriteSets DEF Fails, Core, Types
  <2>3. /\ store'.row[s] = store.row[s] /\ store'.marker[s] = store.marker[s]
        /\ (store.secret[s] => store'.secret[s]) /\ producer'[s] = producer[s]
    BY <1>4, <2>2 DEF NewSecret, Core, Types, Store
  <2>4. faults' \in Nat /\ crashes' \in Nat
    BY <1>4, <1>7, LifecycleAssumption DEF Reads, Writes, Fails, Fault, Core, Types
  <2>5. SessionChange(t)
    BY <1>1, <1>3, <1>4, <1>7, <2>2 DEF SessionChange, Live, RowChange, SameProviders,
        SameSessions, Knows,
       NewSecret, NewMarker, NewRowOf, Core, Types, Store, OnSession, Young, Deleting
  <2>6. Own(t)
    <3>1. task'[t].on = s /\ task'[t].pc = "reconcile" BY <2>1 DEF Moves
    <3>2. Shaped(t)'
      BY <1>1, <1>3, <2>1, <3>1 DEF Shaped, Moves, OnProvider, OnSession, Young, Deleting
    <3>3. Knows(t)'
      BY <1>1, <1>3, <1>5, <1>7, <2>1, <2>3, <3>1, NoRowIs
         DEF Moves, Knows, Fresh, RowInv, CredInv, Live, Deleting, Young
    <3> QED BY <1>1, <2>3, <3>1, <3>2, <3>3 DEF Own, OnSession, Young, Deleting
  <2>7. t = Boot => task'[t].pc \in OfBoot \ {"free"}
    BY <1>1, <1>4, <2>1 DEF Core, BootInv, OfBoot, Ends, Moves, OnSession, Young, Deleting
  <2>8. RowInv(s)' /\ CredInv(s)'
    <3>1. RowInv(s)' BY <1>1, <1>3, <1>5, <1>7, <2>3, NoRowIs DEF RowInv, Knows, Fresh,
      Live, OnSession, Young, Deleting
    <3>2. CredInv(s)' BY <1>1, <1>3, <1>5, <1>7, <2>3, NoRowIs DEF RowInv, CredInv,
      Knows, Fresh, Live, OnSession, Young, Deleting
    <3> QED BY <3>1, <3>2
  <2> QED BY <1>1, <2>1, <2>4, <2>5, <2>6, <2>7, <2>8, SessionStep DEF OnSession, Young,
      Deleting
<1> QED BY <1>1, <1>6, <1>7 DEF PutSecret

\* The marker of a committed session may stay behind.
LEMMA UnmarkKeeps ==
  ASSUME IInv, NEW t \in Tasks, Unmark(t)
  PROVE  IInv'
<1>1. task[t].pc = "unmark" BY DEF Unmark, At
<1>2. task[t].on \in Sessions
  BY <1>1 DEF IInv, Core, BootInv, Shaped, OnSession, Young, Deleting
<1> SUFFICES ASSUME NEW s \in Sessions, task[t].on = s PROVE IInv' BY <1>2
<1>3. Knows(t) /\ Fresh(t) /\ RowInv(s) /\ CredInv(s) /\ Shaped(t) BY OwnFacts
<1>4. Core BY DEF IInv
<1>5. Typed(t, s) BY OwnTypes
<1> USE DEF Typed
<1>6. CASE Return(t) /\ Writes(SetMarker(s, FALSE))
  <2>1. Tasked(t) /\ Ends(t) BY <1>4, <1>6, ReturnEnds DEF Core, Types
  <2>2. NewMarker(s, FALSE) /\ producer' = producer
    BY <1>4, <1>6, WriteSets DEF Writes, Core, Types
  <2>3. /\ store'.row[s] = store.row[s] /\ store'.marker[s] = FALSE
        /\ store'.secret[s] = store.secret[s] /\ producer'[s] = producer[s]
    BY <1>4, <2>2 DEF NewMarker, Core, Types, Store
  <2>4. faults' \in Nat /\ crashes' \in Nat
    BY <1>4, <1>6, LifecycleAssumption DEF Reads, Writes, Fails, Fault, Core, Types
  <2>5. SessionChange(t)
    BY <1>1, <1>3, <1>4, <1>6, <2>2 DEF SessionChange, Live, RowChange, SameProviders,
        SameSessions, Knows,
       NewSecret, NewMarker, NewRowOf, Core, Types, Store, OnSession, Young, Deleting
  <2>6. Own(t) BY <2>1 DEF Own
  <2>7. t = Boot => task'[t].pc \in OfBoot \ {"free"}
    BY <1>1, <1>4, <2>1 DEF Core, BootInv, OfBoot, Ends, Moves, OnSession, Young, Deleting
  <2>8. RowInv(s)' /\ CredInv(s)'
    <3>1. RowInv(s)' BY <1>1, <1>3, <1>5, <1>6, <2>3, NoRowIs DEF RowInv, Knows, Fresh,
      Live, OnSession, Young, Deleting
    <3>2. CredInv(s)' BY <1>1, <1>3, <1>5, <1>6, <2>3, NoRowIs DEF RowInv, CredInv,
      Knows, Fresh, Live, OnSession, Young, Deleting
    <3> QED BY <3>1, <3>2
  <2> QED BY <1>1, <2>1, <2>4, <2>5, <2>6, <2>7, <2>8, SessionStep DEF OnSession, Young,
      Deleting
<1>7. CASE Return(t) /\ Fails(SetMarker(s, FALSE))
  <2>1. Tasked(t) /\ Ends(t) BY <1>4, <1>7, ReturnEnds DEF Core, Types
  <2>2. (store' = store \/ NewMarker(s, FALSE)) /\ producer' = producer
    BY <1>4, <1>7, WriteSets DEF Fails, Core, Types
  <2>3. /\ store'.row[s] = store.row[s] /\ (store'.marker[s] => store.marker[s])
        /\ store'.secret[s] = store.secret[s] /\ producer'[s] = producer[s]
    BY <1>4, <2>2 DEF NewMarker, Core, Types, Store
  <2>4. faults' \in Nat /\ crashes' \in Nat
    BY <1>4, <1>7, LifecycleAssumption DEF Reads, Writes, Fails, Fault, Core, Types
  <2>5. SessionChange(t)
    BY <1>1, <1>3, <1>4, <1>7, <2>2 DEF SessionChange, Live, RowChange, SameProviders,
        SameSessions, Knows,
       NewSecret, NewMarker, NewRowOf, Core, Types, Store, OnSession, Young, Deleting
  <2>6. Own(t) BY <2>1 DEF Own
  <2>7. t = Boot => task'[t].pc \in OfBoot \ {"free"}
    BY <1>1, <1>4, <2>1 DEF Core, BootInv, OfBoot, Ends, Moves, OnSession, Young, Deleting
  <2>8. RowInv(s)' /\ CredInv(s)'
    <3>1. RowInv(s)' BY <1>1, <1>3, <1>5, <1>7, <2>3, NoRowIs DEF RowInv, Knows, Fresh,
      Live, OnSession, Young, Deleting
    <3>2. CredInv(s)' BY <1>1, <1>3, <1>5, <1>7, <2>3, NoRowIs DEF RowInv, CredInv,
      Knows, Fresh, Live, OnSession, Young, Deleting
    <3> QED BY <3>1, <3>2
  <2> QED BY <1>1, <2>1, <2>4, <2>5, <2>6, <2>7, <2>8, SessionStep DEF OnSession, Young,
      Deleting
<1> QED BY <1>1, <1>6, <1>7 DEF Unmark

\* The reconciliation takes the credential only of a session without an owned row.
LEMMA ReconcileKeeps ==
  ASSUME IInv, NEW t \in Tasks, Reconcile(t)
  PROVE  IInv'
<1>1. task[t].pc = "reconcile" BY DEF Reconcile, At
<1>2. task[t].on \in Sessions
  BY <1>1 DEF IInv, Core, BootInv, Shaped, OnSession, Young, Deleting
<1> SUFFICES ASSUME NEW s \in Sessions, task[t].on = s PROVE IInv' BY <1>2
<1>3. Knows(t) /\ Fresh(t) /\ RowInv(s) /\ CredInv(s) /\ Shaped(t) BY OwnFacts
<1>4. Core BY DEF IInv
<1>5. Typed(t, s) BY OwnTypes
<1> USE DEF Typed
<1>6. CASE Goto(t, "unindex") /\ Reads /\ UNCHANGED faults /\ store.row[s].owned
  <2>1. Tasked(t) /\ Moves(t, {"unindex"})
    BY <1>4, <1>6, GotoMoves DEF Core, Types, Pcs, OnSession, Young, Deleting
  <2>2. store' = store /\ producer' = producer BY <1>6 DEF Reads
  <2>3. /\ store'.row[s] = store.row[s] /\ store'.marker[s] = store.marker[s]
        /\ store'.secret[s] = store.secret[s] /\ producer'[s] = producer[s]
    BY <1>4, <2>2
  <2>4. faults' \in Nat /\ crashes' \in Nat
    BY <1>4, <1>6, LifecycleAssumption DEF Reads, Writes, Fails, Fault, Core, Types
  <2>5. SessionChange(t)
    BY <1>1, <1>3, <1>4, <1>6, <2>2 DEF SessionChange, Live, RowChange, SameProviders,
        SameSessions, Knows,
       NewSecret, NewMarker, NewRowOf, Core, Types, Store, OnSession, Young, Deleting
  <2>6. Own(t)
    <3>1. task'[t].on = s /\ task'[t].pc = "unindex" BY <2>1 DEF Moves
    <3>2. Shaped(t)'
      BY <1>1, <1>3, <2>1, <3>1 DEF Shaped, Moves, OnProvider, OnSession, Young, Deleting
    <3>3. Knows(t)'
      BY <1>1, <1>3, <1>5, <1>6, <2>1, <2>3, <3>1, NoRowIs
         DEF Moves, Knows, Fresh, RowInv, CredInv, Live, Deleting, Young
    <3> QED BY <1>1, <2>3, <3>1, <3>2, <3>3 DEF Own, OnSession, Young, Deleting
  <2>7. t = Boot => task'[t].pc \in OfBoot \ {"free"}
    BY <1>1, <1>4, <2>1 DEF Core, BootInv, OfBoot, Ends, Moves, OnSession, Young, Deleting
  <2>8. RowInv(s)' /\ CredInv(s)'
    <3>1. RowInv(s)' BY <1>1, <1>3, <1>5, <1>6, <2>3, NoRowIs DEF RowInv, Knows, Fresh,
      Live, OnSession, Young, Deleting
    <3>2. CredInv(s)' BY <1>1, <1>3, <1>5, <1>6, <2>3, NoRowIs DEF RowInv, CredInv,
      Knows, Fresh, Live, OnSession, Young, Deleting
    <3> QED BY <3>1, <3>2
  <2> QED BY <1>1, <2>1, <2>4, <2>5, <2>6, <2>7, <2>8, SessionStep DEF OnSession, Young,
      Deleting
<1>7. CASE Goto(t, "undo") /\ Reads /\ UNCHANGED faults /\ ~store.row[s].owned
  <2>1. Tasked(t) /\ Moves(t, {"undo"})
    BY <1>4, <1>7, GotoMoves DEF Core, Types, Pcs, OnSession, Young, Deleting
  <2>2. store' = store /\ producer' = producer BY <1>7 DEF Reads
  <2>3. /\ store'.row[s] = store.row[s] /\ store'.marker[s] = store.marker[s]
        /\ store'.secret[s] = store.secret[s] /\ producer'[s] = producer[s]
    BY <1>4, <2>2
  <2>4. faults' \in Nat /\ crashes' \in Nat
    BY <1>4, <1>7, LifecycleAssumption DEF Reads, Writes, Fails, Fault, Core, Types
  <2>5. SessionChange(t)
    BY <1>1, <1>3, <1>4, <1>7, <2>2 DEF SessionChange, Live, RowChange, SameProviders,
        SameSessions, Knows,
       NewSecret, NewMarker, NewRowOf, Core, Types, Store, OnSession, Young, Deleting
  <2>6. Own(t)
    <3>1. task'[t].on = s /\ task'[t].pc = "undo" BY <2>1 DEF Moves
    <3>2. Shaped(t)'
      BY <1>1, <1>3, <2>1, <3>1 DEF Shaped, Moves, OnProvider, OnSession, Young, Deleting
    <3>3. Knows(t)'
      BY <1>1, <1>3, <1>5, <1>7, <2>1, <2>3, <3>1, NoRowIs
         DEF Moves, Knows, Fresh, RowInv, CredInv, Live, Deleting, Young
    <3> QED BY <1>1, <2>3, <3>1, <3>2, <3>3 DEF Own, OnSession, Young, Deleting
  <2>7. t = Boot => task'[t].pc \in OfBoot \ {"free"}
    BY <1>1, <1>4, <2>1 DEF Core, BootInv, OfBoot, Ends, Moves, OnSession, Young, Deleting
  <2>8. RowInv(s)' /\ CredInv(s)'
    <3>1. RowInv(s)' BY <1>1, <1>3, <1>5, <1>7, <2>3, NoRowIs DEF RowInv, Knows, Fresh,
      Live, OnSession, Young, Deleting
    <3>2. CredInv(s)' BY <1>1, <1>3, <1>5, <1>7, <2>3, NoRowIs DEF RowInv, CredInv,
      Knows, Fresh, Live, OnSession, Young, Deleting
    <3> QED BY <3>1, <3>2
  <2> QED BY <1>1, <2>1, <2>4, <2>5, <2>6, <2>7, <2>8, SessionStep DEF OnSession, Young,
      Deleting
<1>8. CASE Throw(t) /\ Reads /\ Fault
  <2>1. Tasked(t) /\ Ends(t) BY <1>4, <1>8, ReturnEnds DEF Core, Types
  <2>2. store' = store /\ producer' = producer BY <1>8 DEF Reads
  <2>3. /\ store'.row[s] = store.row[s] /\ store'.marker[s] = store.marker[s]
        /\ store'.secret[s] = store.secret[s] /\ producer'[s] = producer[s]
    BY <1>4, <2>2
  <2>4. faults' \in Nat /\ crashes' \in Nat
    BY <1>4, <1>8, LifecycleAssumption DEF Reads, Writes, Fails, Fault, Core, Types
  <2>5. SessionChange(t)
    BY <1>1, <1>3, <1>4, <1>8, <2>2 DEF SessionChange, Live, RowChange, SameProviders,
        SameSessions, Knows,
       NewSecret, NewMarker, NewRowOf, Core, Types, Store, OnSession, Young, Deleting
  <2>6. Own(t) BY <2>1 DEF Own
  <2>7. t = Boot => task'[t].pc \in OfBoot \ {"free"}
    BY <1>1, <1>4, <2>1 DEF Core, BootInv, OfBoot, Ends, Moves, OnSession, Young, Deleting
  <2>8. RowInv(s)' /\ CredInv(s)'
    <3>1. RowInv(s)' BY <1>1, <1>3, <1>5, <1>8, <2>3, NoRowIs DEF RowInv, Knows, Fresh,
      Live, OnSession, Young, Deleting
    <3>2. CredInv(s)' BY <1>1, <1>3, <1>5, <1>8, <2>3, NoRowIs DEF RowInv, CredInv,
      Knows, Fresh, Live, OnSession, Young, Deleting
    <3> QED BY <3>1, <3>2
  <2> QED BY <1>1, <2>1, <2>4, <2>5, <2>6, <2>7, <2>8, SessionStep DEF OnSession, Young,
      Deleting
<1> QED BY <1>1, <1>6, <1>7, <1>8 DEF Reconcile

\* What the failed creation left is removed.
LEMMA UndoSecretKeeps ==
  ASSUME IInv, NEW t \in Tasks, UndoSecret(t)
  PROVE  IInv'
<1>1. task[t].pc = "undo" BY DEF UndoSecret, At
<1>2. task[t].on \in Sessions
  BY <1>1 DEF IInv, Core, BootInv, Shaped, OnSession, Young, Deleting
<1> SUFFICES ASSUME NEW s \in Sessions, task[t].on = s PROVE IInv' BY <1>2
<1>3. Knows(t) /\ Fresh(t) /\ RowInv(s) /\ CredInv(s) /\ Shaped(t) BY OwnFacts
<1>4. Core BY DEF IInv
<1>5. Typed(t, s) BY OwnTypes
<1> USE DEF Typed
<1>6. CASE Goto(t, "unindex") /\ Writes(SetSecret(s, FALSE))
  <2>1. Tasked(t) /\ Moves(t, {"unindex"})
    BY <1>4, <1>6, GotoMoves DEF Core, Types, Pcs, OnSession, Young, Deleting
  <2>2. NewSecret(s, FALSE) /\ producer' = producer
    BY <1>4, <1>6, WriteSets DEF Writes, Core, Types
  <2>3. /\ store'.row[s] = store.row[s] /\ store'.marker[s] = store.marker[s]
        /\ store'.secret[s] = FALSE /\ producer'[s] = producer[s]
    BY <1>4, <2>2 DEF NewSecret, Core, Types, Store
  <2>4. faults' \in Nat /\ crashes' \in Nat
    BY <1>4, <1>6, LifecycleAssumption DEF Reads, Writes, Fails, Fault, Core, Types
  <2>5. SessionChange(t)
    BY <1>1, <1>3, <1>4, <1>6, <2>2 DEF SessionChange, Live, RowChange, SameProviders,
        SameSessions, Knows,
       NewSecret, NewMarker, NewRowOf, Core, Types, Store, OnSession, Young, Deleting
  <2>6. Own(t)
    <3>1. task'[t].on = s /\ task'[t].pc = "unindex" BY <2>1 DEF Moves
    <3>2. Shaped(t)'
      BY <1>1, <1>3, <2>1, <3>1 DEF Shaped, Moves, OnProvider, OnSession, Young, Deleting
    <3>3. Knows(t)'
      BY <1>1, <1>3, <1>5, <1>6, <2>1, <2>3, <3>1, NoRowIs
         DEF Moves, Knows, Fresh, RowInv, CredInv, Live, Deleting, Young
    <3> QED BY <1>1, <2>3, <3>1, <3>2, <3>3 DEF Own, OnSession, Young, Deleting
  <2>7. t = Boot => task'[t].pc \in OfBoot \ {"free"}
    BY <1>1, <1>4, <2>1 DEF Core, BootInv, OfBoot, Ends, Moves, OnSession, Young, Deleting
  <2>8. RowInv(s)' /\ CredInv(s)'
    <3>1. RowInv(s)' BY <1>1, <1>3, <1>5, <1>6, <2>3, NoRowIs DEF RowInv, Knows, Fresh,
      Live, OnSession, Young, Deleting
    <3>2. CredInv(s)' BY <1>1, <1>3, <1>5, <1>6, <2>3, NoRowIs DEF RowInv, CredInv,
      Knows, Fresh, Live, OnSession, Young, Deleting
    <3> QED BY <3>1, <3>2
  <2> QED BY <1>1, <2>1, <2>4, <2>5, <2>6, <2>7, <2>8, SessionStep DEF OnSession, Young,
      Deleting
<1>7. CASE Throw(t) /\ Fails(SetSecret(s, FALSE))
  <2>1. Tasked(t) /\ Ends(t) BY <1>4, <1>7, ReturnEnds DEF Core, Types
  <2>2. (store' = store \/ NewSecret(s, FALSE)) /\ producer' = producer
    BY <1>4, <1>7, WriteSets DEF Fails, Core, Types
  <2>3. /\ store'.row[s] = store.row[s] /\ store'.marker[s] = store.marker[s]
        /\ (store'.secret[s] => store.secret[s]) /\ producer'[s] = producer[s]
    BY <1>4, <2>2 DEF NewSecret, Core, Types, Store
  <2>4. faults' \in Nat /\ crashes' \in Nat
    BY <1>4, <1>7, LifecycleAssumption DEF Reads, Writes, Fails, Fault, Core, Types
  <2>5. SessionChange(t)
    BY <1>1, <1>3, <1>4, <1>7, <2>2 DEF SessionChange, Live, RowChange, SameProviders,
        SameSessions, Knows,
       NewSecret, NewMarker, NewRowOf, Core, Types, Store, OnSession, Young, Deleting
  <2>6. Own(t) BY <2>1 DEF Own
  <2>7. t = Boot => task'[t].pc \in OfBoot \ {"free"}
    BY <1>1, <1>4, <2>1 DEF Core, BootInv, OfBoot, Ends, Moves, OnSession, Young, Deleting
  <2>8. RowInv(s)' /\ CredInv(s)'
    <3>1. RowInv(s)' BY <1>1, <1>3, <1>5, <1>7, <2>3, NoRowIs DEF RowInv, Knows, Fresh,
      Live, OnSession, Young, Deleting
    <3>2. CredInv(s)' BY <1>1, <1>3, <1>5, <1>7, <2>3, NoRowIs DEF RowInv, CredInv,
      Knows, Fresh, Live, OnSession, Young, Deleting
    <3> QED BY <3>1, <3>2
  <2> QED BY <1>1, <2>1, <2>4, <2>5, <2>6, <2>7, <2>8, SessionStep DEF OnSession, Young,
      Deleting
<1> QED BY <1>1, <1>6, <1>7 DEF UndoSecret

\* The marker goes once nothing needs it.
LEMMA UnindexKeeps ==
  ASSUME IInv, NEW t \in Tasks, Unindex(t)
  PROVE  IInv'
<1>1. task[t].pc = "unindex" BY DEF Unindex, At
<1>2. task[t].on \in Sessions
  BY <1>1 DEF IInv, Core, BootInv, Shaped, OnSession, Young, Deleting
<1> SUFFICES ASSUME NEW s \in Sessions, task[t].on = s PROVE IInv' BY <1>2
<1>3. Knows(t) /\ Fresh(t) /\ RowInv(s) /\ CredInv(s) /\ Shaped(t) BY OwnFacts
<1>4. Core BY DEF IInv
<1>5. Typed(t, s) BY OwnTypes
<1> USE DEF Typed
<1>6. CASE Return(t) /\ Writes(SetMarker(s, FALSE))
  <2>1. Tasked(t) /\ Ends(t) BY <1>4, <1>6, ReturnEnds DEF Core, Types
  <2>2. NewMarker(s, FALSE) /\ producer' = producer
    BY <1>4, <1>6, WriteSets DEF Writes, Core, Types
  <2>3. /\ store'.row[s] = store.row[s] /\ store'.marker[s] = FALSE
        /\ store'.secret[s] = store.secret[s] /\ producer'[s] = producer[s]
    BY <1>4, <2>2 DEF NewMarker, Core, Types, Store
  <2>4. faults' \in Nat /\ crashes' \in Nat
    BY <1>4, <1>6, LifecycleAssumption DEF Reads, Writes, Fails, Fault, Core, Types
  <2>5. SessionChange(t)
    BY <1>1, <1>3, <1>4, <1>6, <2>2 DEF SessionChange, Live, RowChange, SameProviders,
        SameSessions, Knows,
       NewSecret, NewMarker, NewRowOf, Core, Types, Store, OnSession, Young, Deleting
  <2>6. Own(t) BY <2>1 DEF Own
  <2>7. t = Boot => task'[t].pc \in OfBoot \ {"free"}
    BY <1>1, <1>4, <2>1 DEF Core, BootInv, OfBoot, Ends, Moves, OnSession, Young, Deleting
  <2>8. RowInv(s)' /\ CredInv(s)'
    <3>1. RowInv(s)' BY <1>1, <1>3, <1>5, <1>6, <2>3, NoRowIs DEF RowInv, Knows, Fresh,
      Live, OnSession, Young, Deleting
    <3>2. CredInv(s)' BY <1>1, <1>3, <1>5, <1>6, <2>3, NoRowIs DEF RowInv, CredInv,
      Knows, Fresh, Live, OnSession, Young, Deleting
    <3> QED BY <3>1, <3>2
  <2> QED BY <1>1, <2>1, <2>4, <2>5, <2>6, <2>7, <2>8, SessionStep DEF OnSession, Young,
      Deleting
<1>7. CASE Throw(t) /\ Fails(SetMarker(s, FALSE))
  <2>1. Tasked(t) /\ Ends(t) BY <1>4, <1>7, ReturnEnds DEF Core, Types
  <2>2. (store' = store \/ NewMarker(s, FALSE)) /\ producer' = producer
    BY <1>4, <1>7, WriteSets DEF Fails, Core, Types
  <2>3. /\ store'.row[s] = store.row[s] /\ (store'.marker[s] => store.marker[s])
        /\ store'.secret[s] = store.secret[s] /\ producer'[s] = producer[s]
    BY <1>4, <2>2 DEF NewMarker, Core, Types, Store
  <2>4. faults' \in Nat /\ crashes' \in Nat
    BY <1>4, <1>7, LifecycleAssumption DEF Reads, Writes, Fails, Fault, Core, Types
  <2>5. SessionChange(t)
    BY <1>1, <1>3, <1>4, <1>7, <2>2 DEF SessionChange, Live, RowChange, SameProviders,
        SameSessions, Knows,
       NewSecret, NewMarker, NewRowOf, Core, Types, Store, OnSession, Young, Deleting
  <2>6. Own(t) BY <2>1 DEF Own
  <2>7. t = Boot => task'[t].pc \in OfBoot \ {"free"}
    BY <1>1, <1>4, <2>1 DEF Core, BootInv, OfBoot, Ends, Moves, OnSession, Young, Deleting
  <2>8. RowInv(s)' /\ CredInv(s)'
    <3>1. RowInv(s)' BY <1>1, <1>3, <1>5, <1>7, <2>3, NoRowIs DEF RowInv, Knows, Fresh,
      Live, OnSession, Young, Deleting
    <3>2. CredInv(s)' BY <1>1, <1>3, <1>5, <1>7, <2>3, NoRowIs DEF RowInv, CredInv,
      Knows, Fresh, Live, OnSession, Young, Deleting
    <3> QED BY <3>1, <3>2
  <2> QED BY <1>1, <2>1, <2>4, <2>5, <2>6, <2>7, <2>8, SessionStep DEF OnSession, Young,
      Deleting
<1> QED BY <1>1, <1>6, <1>7 DEF Unindex

\* A deletion takes the credential first, when no producer can run.
LEMMA DeleteSecretKeeps ==
  ASSUME IInv, NEW t \in Tasks, DeleteSecret(t)
  PROVE  IInv'
<1>1. task[t].pc = "fin_secret" BY DEF DeleteSecret, At
<1>2. task[t].on \in Sessions
  BY <1>1 DEF IInv, Core, BootInv, Shaped, OnSession, Young, Deleting
<1> SUFFICES ASSUME NEW s \in Sessions, task[t].on = s PROVE IInv' BY <1>2
<1>3. Knows(t) /\ Fresh(t) /\ RowInv(s) /\ CredInv(s) /\ Shaped(t) BY OwnFacts
<1>4. Core BY DEF IInv
<1>5. Typed(t, s) BY OwnTypes
<1> USE DEF Typed
<1>6. CASE Goto(t, "fin_row") /\ Reads /\ UNCHANGED faults /\ ~task[t].owned
  <2>1. Tasked(t) /\ Moves(t, {"fin_row"})
    BY <1>4, <1>6, GotoMoves DEF Core, Types, Pcs, OnSession, Young, Deleting
  <2>2. store' = store /\ producer' = producer BY <1>6 DEF Reads
  <2>3. /\ store'.row[s] = store.row[s] /\ store'.marker[s] = store.marker[s]
        /\ store'.secret[s] = store.secret[s] /\ producer'[s] = producer[s]
    BY <1>4, <2>2
  <2>4. faults' \in Nat /\ crashes' \in Nat
    BY <1>4, <1>6, LifecycleAssumption DEF Reads, Writes, Fails, Fault, Core, Types
  <2>5. SessionChange(t)
    BY <1>1, <1>3, <1>4, <1>6, <2>2 DEF SessionChange, Live, RowChange, SameProviders,
        SameSessions, Knows,
       NewSecret, NewMarker, NewRowOf, Core, Types, Store, OnSession, Young, Deleting
  <2>6. Own(t)
    <3>1. task'[t].on = s /\ task'[t].pc = "fin_row" BY <2>1 DEF Moves
    <3>2. Shaped(t)'
      BY <1>1, <1>3, <2>1, <3>1 DEF Shaped, Moves, OnProvider, OnSession, Young, Deleting
    <3>3. Knows(t)'
      BY <1>1, <1>3, <1>5, <1>6, <2>1, <2>3, <3>1, NoRowIs
         DEF Moves, Knows, Fresh, RowInv, CredInv, Live, Deleting, Young
    <3> QED BY <1>1, <2>3, <3>1, <3>2, <3>3 DEF Own, OnSession, Young, Deleting
  <2>7. t = Boot => task'[t].pc \in OfBoot \ {"free"}
    BY <1>1, <1>4, <2>1 DEF Core, BootInv, OfBoot, Ends, Moves, OnSession, Young, Deleting
  <2>8. RowInv(s)' /\ CredInv(s)'
    <3>1. RowInv(s)' BY <1>1, <1>3, <1>5, <1>6, <2>3, NoRowIs DEF RowInv, Knows, Fresh,
      Live, OnSession, Young, Deleting
    <3>2. CredInv(s)' BY <1>1, <1>3, <1>5, <1>6, <2>3, NoRowIs DEF RowInv, CredInv,
      Knows, Fresh, Live, OnSession, Young, Deleting
    <3> QED BY <3>1, <3>2
  <2> QED BY <1>1, <2>1, <2>4, <2>5, <2>6, <2>7, <2>8, SessionStep DEF OnSession, Young,
      Deleting
<1>7. CASE Goto(t, "fin_marker") /\ Writes(SetSecret(s, FALSE))
  <2>1. Tasked(t) /\ Moves(t, {"fin_marker"})
    BY <1>4, <1>7, GotoMoves DEF Core, Types, Pcs, OnSession, Young, Deleting
  <2>2. NewSecret(s, FALSE) /\ producer' = producer
    BY <1>4, <1>7, WriteSets DEF Writes, Core, Types
  <2>3. /\ store'.row[s] = store.row[s] /\ store'.marker[s] = store.marker[s]
        /\ store'.secret[s] = FALSE /\ producer'[s] = producer[s]
    BY <1>4, <2>2 DEF NewSecret, Core, Types, Store
  <2>4. faults' \in Nat /\ crashes' \in Nat
    BY <1>4, <1>7, LifecycleAssumption DEF Reads, Writes, Fails, Fault, Core, Types
  <2>5. SessionChange(t)
    BY <1>1, <1>3, <1>4, <1>7, <2>2 DEF SessionChange, Live, RowChange, SameProviders,
        SameSessions, Knows,
       NewSecret, NewMarker, NewRowOf, Core, Types, Store, OnSession, Young, Deleting
  <2>6. Own(t)
    <3>1. task'[t].on = s /\ task'[t].pc = "fin_marker" BY <2>1 DEF Moves
    <3>2. Shaped(t)'
      BY <1>1, <1>3, <2>1, <3>1 DEF Shaped, Moves, OnProvider, OnSession, Young, Deleting
    <3>3. Knows(t)'
      BY <1>1, <1>3, <1>5, <1>7, <2>1, <2>3, <3>1, NoRowIs
         DEF Moves, Knows, Fresh, RowInv, CredInv, Live, Deleting, Young
    <3> QED BY <1>1, <2>3, <3>1, <3>2, <3>3 DEF Own, OnSession, Young, Deleting
  <2>7. t = Boot => task'[t].pc \in OfBoot \ {"free"}
    BY <1>1, <1>4, <2>1 DEF Core, BootInv, OfBoot, Ends, Moves, OnSession, Young, Deleting
  <2>8. RowInv(s)' /\ CredInv(s)'
    <3>1. RowInv(s)' BY <1>1, <1>3, <1>5, <1>7, <2>3, NoRowIs DEF RowInv, Knows, Fresh,
      Live, OnSession, Young, Deleting
    <3>2. CredInv(s)' BY <1>1, <1>3, <1>5, <1>7, <2>3, NoRowIs DEF RowInv, CredInv,
      Knows, Fresh, Live, OnSession, Young, Deleting
    <3> QED BY <3>1, <3>2
  <2> QED BY <1>1, <2>1, <2>4, <2>5, <2>6, <2>7, <2>8, SessionStep DEF OnSession, Young,
      Deleting
<1>8. CASE Throw(t) /\ Fails(SetSecret(s, FALSE))
  <2>1. Tasked(t) /\ Ends(t) BY <1>4, <1>8, ReturnEnds DEF Core, Types
  <2>2. (store' = store \/ NewSecret(s, FALSE)) /\ producer' = producer
    BY <1>4, <1>8, WriteSets DEF Fails, Core, Types
  <2>3. /\ store'.row[s] = store.row[s] /\ store'.marker[s] = store.marker[s]
        /\ (store'.secret[s] => store.secret[s]) /\ producer'[s] = producer[s]
    BY <1>4, <2>2 DEF NewSecret, Core, Types, Store
  <2>4. faults' \in Nat /\ crashes' \in Nat
    BY <1>4, <1>8, LifecycleAssumption DEF Reads, Writes, Fails, Fault, Core, Types
  <2>5. SessionChange(t)
    BY <1>1, <1>3, <1>4, <1>8, <2>2 DEF SessionChange, Live, RowChange, SameProviders,
        SameSessions, Knows,
       NewSecret, NewMarker, NewRowOf, Core, Types, Store, OnSession, Young, Deleting
  <2>6. Own(t) BY <2>1 DEF Own
  <2>7. t = Boot => task'[t].pc \in OfBoot \ {"free"}
    BY <1>1, <1>4, <2>1 DEF Core, BootInv, OfBoot, Ends, Moves, OnSession, Young, Deleting
  <2>8. RowInv(s)' /\ CredInv(s)'
    <3>1. RowInv(s)' BY <1>1, <1>3, <1>5, <1>8, <2>3, NoRowIs DEF RowInv, Knows, Fresh,
      Live, OnSession, Young, Deleting
    <3>2. CredInv(s)' BY <1>1, <1>3, <1>5, <1>8, <2>3, NoRowIs DEF RowInv, CredInv,
      Knows, Fresh, Live, OnSession, Young, Deleting
    <3> QED BY <3>1, <3>2
  <2> QED BY <1>1, <2>1, <2>4, <2>5, <2>6, <2>7, <2>8, SessionStep DEF OnSession, Young,
      Deleting
<1> QED BY <1>1, <1>6, <1>7, <1>8 DEF DeleteSecret

\* The marker goes when there is no credential.
LEMMA DeleteMarkerKeeps ==
  ASSUME IInv, NEW t \in Tasks, DeleteMarker(t)
  PROVE  IInv'
<1>1. task[t].pc = "fin_marker" BY DEF DeleteMarker, At
<1>2. task[t].on \in Sessions
  BY <1>1 DEF IInv, Core, BootInv, Shaped, OnSession, Young, Deleting
<1> SUFFICES ASSUME NEW s \in Sessions, task[t].on = s PROVE IInv' BY <1>2
<1>3. Knows(t) /\ Fresh(t) /\ RowInv(s) /\ CredInv(s) /\ Shaped(t) BY OwnFacts
<1>4. Core BY DEF IInv
<1>5. Typed(t, s) BY OwnTypes
<1> USE DEF Typed
<1>6. CASE Goto(t, "fin_row") /\ Writes(SetMarker(s, FALSE))
  <2>1. Tasked(t) /\ Moves(t, {"fin_row"})
    BY <1>4, <1>6, GotoMoves DEF Core, Types, Pcs, OnSession, Young, Deleting
  <2>2. NewMarker(s, FALSE) /\ producer' = producer
    BY <1>4, <1>6, WriteSets DEF Writes, Core, Types
  <2>3. /\ store'.row[s] = store.row[s] /\ store'.marker[s] = FALSE
        /\ store'.secret[s] = store.secret[s] /\ producer'[s] = producer[s]
    BY <1>4, <2>2 DEF NewMarker, Core, Types, Store
  <2>4. faults' \in Nat /\ crashes' \in Nat
    BY <1>4, <1>6, LifecycleAssumption DEF Reads, Writes, Fails, Fault, Core, Types
  <2>5. SessionChange(t)
    BY <1>1, <1>3, <1>4, <1>6, <2>2 DEF SessionChange, Live, RowChange, SameProviders,
        SameSessions, Knows,
       NewSecret, NewMarker, NewRowOf, Core, Types, Store, OnSession, Young, Deleting
  <2>6. Own(t)
    <3>1. task'[t].on = s /\ task'[t].pc = "fin_row" BY <2>1 DEF Moves
    <3>2. Shaped(t)'
      BY <1>1, <1>3, <2>1, <3>1 DEF Shaped, Moves, OnProvider, OnSession, Young, Deleting
    <3>3. Knows(t)'
      BY <1>1, <1>3, <1>5, <1>6, <2>1, <2>3, <3>1, NoRowIs
         DEF Moves, Knows, Fresh, RowInv, CredInv, Live, Deleting, Young
    <3> QED BY <1>1, <2>3, <3>1, <3>2, <3>3 DEF Own, OnSession, Young, Deleting
  <2>7. t = Boot => task'[t].pc \in OfBoot \ {"free"}
    BY <1>1, <1>4, <2>1 DEF Core, BootInv, OfBoot, Ends, Moves, OnSession, Young, Deleting
  <2>8. RowInv(s)' /\ CredInv(s)'
    <3>1. RowInv(s)' BY <1>1, <1>3, <1>5, <1>6, <2>3, NoRowIs DEF RowInv, Knows, Fresh,
      Live, OnSession, Young, Deleting
    <3>2. CredInv(s)' BY <1>1, <1>3, <1>5, <1>6, <2>3, NoRowIs DEF RowInv, CredInv,
      Knows, Fresh, Live, OnSession, Young, Deleting
    <3> QED BY <3>1, <3>2
  <2> QED BY <1>1, <2>1, <2>4, <2>5, <2>6, <2>7, <2>8, SessionStep DEF OnSession, Young,
      Deleting
<1>7. CASE Throw(t) /\ Fails(SetMarker(s, FALSE))
  <2>1. Tasked(t) /\ Ends(t) BY <1>4, <1>7, ReturnEnds DEF Core, Types
  <2>2. (store' = store \/ NewMarker(s, FALSE)) /\ producer' = producer
    BY <1>4, <1>7, WriteSets DEF Fails, Core, Types
  <2>3. /\ store'.row[s] = store.row[s] /\ (store'.marker[s] => store.marker[s])
        /\ store'.secret[s] = store.secret[s] /\ producer'[s] = producer[s]
    BY <1>4, <2>2 DEF NewMarker, Core, Types, Store
  <2>4. faults' \in Nat /\ crashes' \in Nat
    BY <1>4, <1>7, LifecycleAssumption DEF Reads, Writes, Fails, Fault, Core, Types
  <2>5. SessionChange(t)
    BY <1>1, <1>3, <1>4, <1>7, <2>2 DEF SessionChange, Live, RowChange, SameProviders,
        SameSessions, Knows,
       NewSecret, NewMarker, NewRowOf, Core, Types, Store, OnSession, Young, Deleting
  <2>6. Own(t) BY <2>1 DEF Own
  <2>7. t = Boot => task'[t].pc \in OfBoot \ {"free"}
    BY <1>1, <1>4, <2>1 DEF Core, BootInv, OfBoot, Ends, Moves, OnSession, Young, Deleting
  <2>8. RowInv(s)' /\ CredInv(s)'
    <3>1. RowInv(s)' BY <1>1, <1>3, <1>5, <1>7, <2>3, NoRowIs DEF RowInv, Knows, Fresh,
      Live, OnSession, Young, Deleting
    <3>2. CredInv(s)' BY <1>1, <1>3, <1>5, <1>7, <2>3, NoRowIs DEF RowInv, CredInv,
      Knows, Fresh, Live, OnSession, Young, Deleting
    <3> QED BY <3>1, <3>2
  <2> QED BY <1>1, <2>1, <2>4, <2>5, <2>6, <2>7, <2>8, SessionStep DEF OnSession, Young,
      Deleting
<1> QED BY <1>1, <1>6, <1>7 DEF DeleteMarker

\* The row goes last.
LEMMA DeleteRowKeeps ==
  ASSUME IInv, NEW t \in Tasks, DeleteRow(t)
  PROVE  IInv'
<1>1. task[t].pc = "fin_row" BY DEF DeleteRow, At
<1>2. task[t].on \in Sessions
  BY <1>1 DEF IInv, Core, BootInv, Shaped, OnSession, Young, Deleting
<1> SUFFICES ASSUME NEW s \in Sessions, task[t].on = s PROVE IInv' BY <1>2
<1>3. Knows(t) /\ Fresh(t) /\ RowInv(s) /\ CredInv(s) /\ Shaped(t) BY OwnFacts
<1>4. Core BY DEF IInv
<1>5. Typed(t, s) BY OwnTypes
<1> USE DEF Typed
<1>6. CASE Return(t) /\ Writes(SetRow(s, NoRow))
  <2>1. Tasked(t) /\ Ends(t) BY <1>4, <1>6, ReturnEnds DEF Core, Types
  <2>2. NewRowOf(s, NoRow) /\ producer' = producer
    BY <1>4, <1>6, WriteSets, NoRowIs DEF Writes, Core, Types
  <2>3. /\ store'.row[s] = NoRow /\ store'.marker[s] = store.marker[s]
        /\ store'.secret[s] = store.secret[s] /\ producer'[s] = producer[s]
    BY <1>4, <2>2 DEF NewRowOf, Core, Types, Store
  <2>4. faults' \in Nat /\ crashes' \in Nat
    BY <1>4, <1>6, LifecycleAssumption DEF Reads, Writes, Fails, Fault, Core, Types
  <2>5. SessionChange(t)
    BY <1>1, <1>3, <1>4, <1>6, <2>2 DEF SessionChange, Live, RowChange, SameProviders,
        SameSessions, Knows,
       NewSecret, NewMarker, NewRowOf, Core, Types, Store, OnSession, Young, Deleting
  <2>6. Own(t) BY <2>1 DEF Own
  <2>7. t = Boot => task'[t].pc \in OfBoot \ {"free"}
    BY <1>1, <1>4, <2>1 DEF Core, BootInv, OfBoot, Ends, Moves, OnSession, Young, Deleting
  <2>8. RowInv(s)' /\ CredInv(s)'
    <3>1. RowInv(s)' BY <1>1, <1>3, <1>5, <1>6, <2>3, NoRowIs DEF RowInv, Knows, Fresh,
      Live, OnSession, Young, Deleting
    <3>2. CredInv(s)' BY <1>1, <1>3, <1>5, <1>6, <2>3, NoRowIs DEF RowInv, CredInv,
      Knows, Fresh, Live, OnSession, Young, Deleting
    <3> QED BY <3>1, <3>2
  <2> QED BY <1>1, <2>1, <2>4, <2>5, <2>6, <2>7, <2>8, SessionStep DEF OnSession, Young,
      Deleting
<1>7. CASE Throw(t) /\ Fails(SetRow(s, NoRow))
  <2>1. Tasked(t) /\ Ends(t) BY <1>4, <1>7, ReturnEnds DEF Core, Types
  <2>2. (store' = store \/ NewRowOf(s, NoRow)) /\ producer' = producer
    BY <1>4, <1>7, WriteSets, NoRowIs DEF Fails, Core, Types
  <2>3. /\ (store'.row[s] = store.row[s] \/ store'.row[s] = NoRow) /\ store'.marker[s] = store.marker[s]
        /\ store'.secret[s] = store.secret[s] /\ producer'[s] = producer[s]
    BY <1>4, <2>2 DEF NewRowOf, Core, Types, Store
  <2>4. faults' \in Nat /\ crashes' \in Nat
    BY <1>4, <1>7, LifecycleAssumption DEF Reads, Writes, Fails, Fault, Core, Types
  <2>5. SessionChange(t)
    BY <1>1, <1>3, <1>4, <1>7, <2>2 DEF SessionChange, Live, RowChange, SameProviders,
        SameSessions, Knows,
       NewSecret, NewMarker, NewRowOf, Core, Types, Store, OnSession, Young, Deleting
  <2>6. Own(t) BY <2>1 DEF Own
  <2>7. t = Boot => task'[t].pc \in OfBoot \ {"free"}
    BY <1>1, <1>4, <2>1 DEF Core, BootInv, OfBoot, Ends, Moves, OnSession, Young, Deleting
  <2>8. RowInv(s)' /\ CredInv(s)'
    <3>1. RowInv(s)' BY <1>1, <1>3, <1>5, <1>7, <2>3, NoRowIs DEF RowInv, Knows, Fresh,
      Live, OnSession, Young, Deleting
    <3>2. CredInv(s)' BY <1>1, <1>3, <1>5, <1>7, <2>3, NoRowIs DEF RowInv, CredInv,
      Knows, Fresh, Live, OnSession, Young, Deleting
    <3> QED BY <3>1, <3>2
  <2> QED BY <1>1, <2>1, <2>4, <2>5, <2>6, <2>7, <2>8, SessionStep DEF OnSession, Young,
      Deleting
<1> QED BY <1>1, <1>6, <1>7 DEF DeleteRow

\* The row is written with its credential in place, or not at all as far as the caller knows.
LEMMA CommitSessionKeeps ==
  ASSUME IInv, NEW t \in Tasks, CommitSession(t)
  PROVE  IInv'
<1>1. task[t].pc = "commit" BY DEF CommitSession, At
<1>2. task[t].on \in Sessions
  BY <1>1 DEF IInv, Core, BootInv, Shaped, OnSession, Young, Deleting
<1> SUFFICES ASSUME NEW s \in Sessions, task[t].on = s PROVE IInv' BY <1>2
<1>3. Knows(t) /\ Fresh(t) /\ RowInv(s) /\ CredInv(s) /\ Shaped(t) BY OwnFacts
<1>4. Core BY DEF IInv
<1>5. Typed(t, s) BY OwnTypes
<1> USE DEF Typed
<1>6. NewRow(t) \in Row /\ NewRow(t).rev = 1 /\ NewRow(t).owned = task[t].owned
      /\ ~NewRow(t).deleting /\ NewRow(t).state = "idle"
  BY <1>1, <1>3, <1>4 DEF Core, Types, Task, Shaped, NewRow, Row, States, Young
<1>7. CASE Goto(t, "unmark") /\ Writes(SetRow(s, NewRow(t))) /\ task[t].owned
  <2>1. Tasked(t) /\ Moves(t, {"unmark"})
    BY <1>4, <1>7, GotoMoves DEF Core, Types, Pcs, OnSession, Young, Deleting
  <2>2. NewRowOf(s, NewRow(t)) /\ producer' = producer
    BY <1>4, <1>7, WriteSets, <1>6 DEF Writes, Core, Types
  <2>3. /\ store'.row[s] = NewRow(t) /\ store'.marker[s] = store.marker[s]
        /\ store'.secret[s] = store.secret[s] /\ producer'[s] = producer[s]
    BY <1>4, <2>2 DEF NewRowOf, Core, Types, Store
  <2>4. faults' \in Nat /\ crashes' \in Nat
    BY <1>4, <1>7, LifecycleAssumption DEF Reads, Writes, Fails, Fault, Core, Types
  <2>5. SessionChange(t)
    BY <1>1, <1>3, <1>4, <1>7, <2>2, <1>6 DEF SessionChange, Live, RowChange,
        SameProviders, SameSessions, Knows,
       NewSecret, NewMarker, NewRowOf, Core, Types, Store, OnSession, Young, Deleting
  <2>6. Own(t)
    <3>1. task'[t].on = s /\ task'[t].pc = "unmark" BY <2>1 DEF Moves
    <3>2. Shaped(t)'
      BY <1>1, <1>3, <2>1, <3>1 DEF Shaped, Moves, OnProvider, OnSession, Young, Deleting
    <3>3. Knows(t)'
      BY <1>1, <1>3, <1>5, <1>7, <2>1, <2>3, <3>1, NoRowIs, <1>6
         DEF Moves, Knows, Fresh, RowInv, CredInv, Live, Deleting, Young
    <3> QED BY <1>1, <2>3, <3>1, <3>2, <3>3 DEF Own, OnSession, Young, Deleting
  <2>7. t = Boot => task'[t].pc \in OfBoot \ {"free"}
    BY <1>1, <1>4, <2>1 DEF Core, BootInv, OfBoot, Ends, Moves, OnSession, Young, Deleting
  <2>8. RowInv(s)' /\ CredInv(s)'
    <3>1. RowInv(s)' BY <1>1, <1>3, <1>5, <1>7, <2>3, NoRowIs, <1>6 DEF RowInv, Knows,
      Fresh, Live, OnSession, Young, Deleting
    <3>2. CredInv(s)' BY <1>1, <1>3, <1>5, <1>7, <2>3, NoRowIs, <1>6 DEF RowInv,
      CredInv, Knows, Fresh, Live, OnSession, Young, Deleting
    <3> QED BY <3>1, <3>2
  <2> QED BY <1>1, <2>1, <2>4, <2>5, <2>6, <2>7, <2>8, SessionStep DEF OnSession, Young,
      Deleting
<1>8. CASE Return(t) /\ Writes(SetRow(s, NewRow(t))) /\ ~task[t].owned
  <2>1. Tasked(t) /\ Ends(t) BY <1>4, <1>8, ReturnEnds DEF Core, Types
  <2>2. NewRowOf(s, NewRow(t)) /\ producer' = producer
    BY <1>4, <1>8, WriteSets, <1>6 DEF Writes, Core, Types
  <2>3. /\ store'.row[s] = NewRow(t) /\ store'.marker[s] = store.marker[s]
        /\ store'.secret[s] = store.secret[s] /\ producer'[s] = producer[s]
    BY <1>4, <2>2 DEF NewRowOf, Core, Types, Store
  <2>4. faults' \in Nat /\ crashes' \in Nat
    BY <1>4, <1>8, LifecycleAssumption DEF Reads, Writes, Fails, Fault, Core, Types
  <2>5. SessionChange(t)
    BY <1>1, <1>3, <1>4, <1>8, <2>2, <1>6 DEF SessionChange, Live, RowChange,
        SameProviders, SameSessions, Knows,
       NewSecret, NewMarker, NewRowOf, Core, Types, Store, OnSession, Young, Deleting
  <2>6. Own(t) BY <2>1 DEF Own
  <2>7. t = Boot => task'[t].pc \in OfBoot \ {"free"}
    BY <1>1, <1>4, <2>1 DEF Core, BootInv, OfBoot, Ends, Moves, OnSession, Young, Deleting
  <2>8. RowInv(s)' /\ CredInv(s)'
    <3>1. RowInv(s)' BY <1>1, <1>3, <1>5, <1>8, <2>3, NoRowIs, <1>6 DEF RowInv, Knows,
      Fresh, Live, OnSession, Young, Deleting
    <3>2. CredInv(s)' BY <1>1, <1>3, <1>5, <1>8, <2>3, NoRowIs, <1>6 DEF RowInv,
      CredInv, Knows, Fresh, Live, OnSession, Young, Deleting
    <3> QED BY <3>1, <3>2
  <2> QED BY <1>1, <2>1, <2>4, <2>5, <2>6, <2>7, <2>8, SessionStep DEF OnSession, Young,
      Deleting
<1>9. CASE Goto(t, "reconcile") /\ Fails(SetRow(s, NewRow(t))) /\ task[t].owned
  <2>1. Tasked(t) /\ Moves(t, {"reconcile"})
    BY <1>4, <1>9, GotoMoves DEF Core, Types, Pcs, OnSession, Young, Deleting
  <2>2. (store' = store \/ NewRowOf(s, NewRow(t))) /\ producer' = producer
    BY <1>4, <1>9, WriteSets, <1>6 DEF Fails, Core, Types
  <2>3. /\ (store'.row[s] = store.row[s] \/ store'.row[s] = NewRow(t)) /\ store'.marker[s] = store.marker[s]
        /\ store'.secret[s] = store.secret[s] /\ producer'[s] = producer[s]
    BY <1>4, <2>2 DEF NewRowOf, Core, Types, Store
  <2>4. faults' \in Nat /\ crashes' \in Nat
    BY <1>4, <1>9, LifecycleAssumption DEF Reads, Writes, Fails, Fault, Core, Types
  <2>5. SessionChange(t)
    BY <1>1, <1>3, <1>4, <1>9, <2>2, <1>6 DEF SessionChange, Live, RowChange,
        SameProviders, SameSessions, Knows,
       NewSecret, NewMarker, NewRowOf, Core, Types, Store, OnSession, Young, Deleting
  <2>6. Own(t)
    <3>1. task'[t].on = s /\ task'[t].pc = "reconcile" BY <2>1 DEF Moves
    <3>2. Shaped(t)'
      BY <1>1, <1>3, <2>1, <3>1 DEF Shaped, Moves, OnProvider, OnSession, Young, Deleting
    <3>3. Knows(t)'
      BY <1>1, <1>3, <1>5, <1>9, <2>1, <2>3, <3>1, NoRowIs, <1>6
         DEF Moves, Knows, Fresh, RowInv, CredInv, Live, Deleting, Young
    <3> QED BY <1>1, <2>3, <3>1, <3>2, <3>3 DEF Own, OnSession, Young, Deleting
  <2>7. t = Boot => task'[t].pc \in OfBoot \ {"free"}
    BY <1>1, <1>4, <2>1 DEF Core, BootInv, OfBoot, Ends, Moves, OnSession, Young, Deleting
  <2>8. RowInv(s)' /\ CredInv(s)'
    <3>1. RowInv(s)'
      <4>1. CASE store'.row[s] = store.row[s] BY <1>1, <1>3, <1>5, <1>9, <2>3, <4>1,
      NoRowIs, <1>6 DEF RowInv, Knows, Fresh, Live
      <4>2. CASE store'.row[s] = NewRow(t) BY <1>1, <1>3, <1>5, <1>9, <2>3, <4>2,
      NoRowIs, <1>6 DEF RowInv, Knows, Fresh, Live
      <4> QED BY <2>3, <4>1, <4>2
    <3>2. CredInv(s)' BY <1>1, <1>3, <1>5, <1>9, <2>3, NoRowIs, <1>6 DEF RowInv,
      CredInv, Knows, Fresh, Live, OnSession, Young, Deleting
    <3> QED BY <3>1, <3>2
  <2> QED BY <1>1, <2>1, <2>4, <2>5, <2>6, <2>7, <2>8, SessionStep DEF OnSession, Young,
      Deleting
<1>10. CASE Throw(t) /\ Fails(SetRow(s, NewRow(t))) /\ ~task[t].owned
  <2>1. Tasked(t) /\ Ends(t) BY <1>4, <1>10, ReturnEnds DEF Core, Types
  <2>2. (store' = store \/ NewRowOf(s, NewRow(t))) /\ producer' = producer
    BY <1>4, <1>10, WriteSets, <1>6 DEF Fails, Core, Types
  <2>3. /\ (store'.row[s] = store.row[s] \/ store'.row[s] = NewRow(t)) /\ store'.marker[s] = store.marker[s]
        /\ store'.secret[s] = store.secret[s] /\ producer'[s] = producer[s]
    BY <1>4, <2>2 DEF NewRowOf, Core, Types, Store
  <2>4. faults' \in Nat /\ crashes' \in Nat
    BY <1>4, <1>10, LifecycleAssumption DEF Reads, Writes, Fails, Fault, Core, Types
  <2>5. SessionChange(t)
    BY <1>1, <1>3, <1>4, <1>10, <2>2, <1>6 DEF SessionChange, Live, RowChange,
        SameProviders, SameSessions, Knows,
       NewSecret, NewMarker, NewRowOf, Core, Types, Store, OnSession, Young, Deleting
  <2>6. Own(t) BY <2>1 DEF Own
  <2>7. t = Boot => task'[t].pc \in OfBoot \ {"free"}
    BY <1>1, <1>4, <2>1 DEF Core, BootInv, OfBoot, Ends, Moves, OnSession, Young, Deleting
  <2>8. RowInv(s)' /\ CredInv(s)'
    <3>1. RowInv(s)'
      <4>1. CASE store'.row[s] = store.row[s] BY <1>1, <1>3, <1>5, <1>10, <2>3, <4>1,
      NoRowIs, <1>6 DEF RowInv, Knows, Fresh, Live
      <4>2. CASE store'.row[s] = NewRow(t) BY <1>1, <1>3, <1>5, <1>10, <2>3, <4>2,
      NoRowIs, <1>6 DEF RowInv, Knows, Fresh, Live
      <4> QED BY <2>3, <4>1, <4>2
    <3>2. CredInv(s)' BY <1>1, <1>3, <1>5, <1>10, <2>3, NoRowIs, <1>6 DEF RowInv,
      CredInv, Knows, Fresh, Live, OnSession, Young, Deleting
    <3> QED BY <3>1, <3>2
  <2> QED BY <1>1, <2>1, <2>4, <2>5, <2>6, <2>7, <2>8, SessionStep DEF OnSession, Young,
      Deleting
<1>11. CASE Goto(t, "reconcile") /\ Reads /\ UNCHANGED faults /\ task[t].owned
  <2>1. Tasked(t) /\ Moves(t, {"reconcile"})
    BY <1>4, <1>11, GotoMoves DEF Core, Types, Pcs, OnSession, Young, Deleting
  <2>2. store' = store /\ producer' = producer BY <1>11 DEF Reads
  <2>3. /\ store'.row[s] = store.row[s] /\ store'.marker[s] = store.marker[s]
        /\ store'.secret[s] = store.secret[s] /\ producer'[s] = producer[s]
    BY <1>4, <2>2
  <2>4. faults' \in Nat /\ crashes' \in Nat
    BY <1>4, <1>11, LifecycleAssumption DEF Reads, Writes, Fails, Fault, Core, Types
  <2>5. SessionChange(t)
    BY <1>1, <1>3, <1>4, <1>11, <2>2, <1>6 DEF SessionChange, Live, RowChange,
        SameProviders, SameSessions, Knows,
       NewSecret, NewMarker, NewRowOf, Core, Types, Store, OnSession, Young, Deleting
  <2>6. Own(t)
    <3>1. task'[t].on = s /\ task'[t].pc = "reconcile" BY <2>1 DEF Moves
    <3>2. Shaped(t)'
      BY <1>1, <1>3, <2>1, <3>1 DEF Shaped, Moves, OnProvider, OnSession, Young, Deleting
    <3>3. Knows(t)'
      BY <1>1, <1>3, <1>5, <1>11, <2>1, <2>3, <3>1, NoRowIs, <1>6
         DEF Moves, Knows, Fresh, RowInv, CredInv, Live, Deleting, Young
    <3> QED BY <1>1, <2>3, <3>1, <3>2, <3>3 DEF Own, OnSession, Young, Deleting
  <2>7. t = Boot => task'[t].pc \in OfBoot \ {"free"}
    BY <1>1, <1>4, <2>1 DEF Core, BootInv, OfBoot, Ends, Moves, OnSession, Young, Deleting
  <2>8. RowInv(s)' /\ CredInv(s)'
    <3>1. RowInv(s)' BY <1>1, <1>3, <1>5, <1>11, <2>3, NoRowIs, <1>6 DEF RowInv, Knows,
      Fresh, Live, OnSession, Young, Deleting
    <3>2. CredInv(s)' BY <1>1, <1>3, <1>5, <1>11, <2>3, NoRowIs, <1>6 DEF RowInv,
      CredInv, Knows, Fresh, Live, OnSession, Young, Deleting
    <3> QED BY <3>1, <3>2
  <2> QED BY <1>1, <2>1, <2>4, <2>5, <2>6, <2>7, <2>8, SessionStep DEF OnSession, Young,
      Deleting
<1>12. CASE Throw(t) /\ Reads /\ UNCHANGED faults /\ ~task[t].owned
  <2>1. Tasked(t) /\ Ends(t) BY <1>4, <1>12, ReturnEnds DEF Core, Types
  <2>2. store' = store /\ producer' = producer BY <1>12 DEF Reads
  <2>3. /\ store'.row[s] = store.row[s] /\ store'.marker[s] = store.marker[s]
        /\ store'.secret[s] = store.secret[s] /\ producer'[s] = producer[s]
    BY <1>4, <2>2
  <2>4. faults' \in Nat /\ crashes' \in Nat
    BY <1>4, <1>12, LifecycleAssumption DEF Reads, Writes, Fails, Fault, Core, Types
  <2>5. SessionChange(t)
    BY <1>1, <1>3, <1>4, <1>12, <2>2, <1>6 DEF SessionChange, Live, RowChange,
        SameProviders, SameSessions, Knows,
       NewSecret, NewMarker, NewRowOf, Core, Types, Store, OnSession, Young, Deleting
  <2>6. Own(t) BY <2>1 DEF Own
  <2>7. t = Boot => task'[t].pc \in OfBoot \ {"free"}
    BY <1>1, <1>4, <2>1 DEF Core, BootInv, OfBoot, Ends, Moves, OnSession, Young, Deleting
  <2>8. RowInv(s)' /\ CredInv(s)'
    <3>1. RowInv(s)' BY <1>1, <1>3, <1>5, <1>12, <2>3, NoRowIs, <1>6 DEF RowInv, Knows,
      Fresh, Live, OnSession, Young, Deleting
    <3>2. CredInv(s)' BY <1>1, <1>3, <1>5, <1>12, <2>3, NoRowIs, <1>6 DEF RowInv,
      CredInv, Knows, Fresh, Live, OnSession, Young, Deleting
    <3> QED BY <3>1, <3>2
  <2> QED BY <1>1, <2>1, <2>4, <2>5, <2>6, <2>7, <2>8, SessionStep DEF OnSession, Young,
      Deleting
<1> QED BY <1>1, <1>7, <1>8, <1>9, <1>10, <1>11, <1>12, <1>6 DEF CommitSession

\* An update is written at the revision that was read, before which no deletion began.
LEMMA WriteRowKeeps ==
  ASSUME IInv, NEW t \in Tasks, WriteRow(t)
  PROVE  IInv'
<1>1. task[t].pc = "write" BY DEF WriteRow, At
<1>2. task[t].on \in Sessions
  BY <1>1 DEF IInv, Core, BootInv, Shaped, OnSession, Young, Deleting
<1> SUFFICES ASSUME NEW s \in Sessions, task[t].on = s PROVE IInv' BY <1>2
<1>3. Knows(t) /\ Fresh(t) /\ RowInv(s) /\ CredInv(s) /\ Shaped(t) BY OwnFacts
<1>4. Core BY DEF IInv
<1>5. Typed(t, s) BY OwnTypes
<1> USE DEF Typed
<1>6. PICK r \in Row : /\ Revised(s, task[t].with, store.row[s].deleting) = SetRow(s, r)
                      /\ r.rev = store.row[s].rev + 1 /\ r.owned = store.row[s].owned
                      /\ r.deleting = store.row[s].deleting /\ r.state = task[t].with
  BY <1>1, <1>3, <1>4, RevisedIs DEF Core, Types, Shaped, States, Store, Row
<1>7. CASE Goto(t, "read") /\ Reads /\ UNCHANGED faults
  <2>1. Tasked(t) /\ Moves(t, {"read"})
    BY <1>4, <1>7, GotoMoves DEF Core, Types, Pcs, OnSession, Young, Deleting
  <2>2. store' = store /\ producer' = producer BY <1>7 DEF Reads
  <2>3. /\ store'.row[s] = store.row[s] /\ store'.marker[s] = store.marker[s]
        /\ store'.secret[s] = store.secret[s] /\ producer'[s] = producer[s]
    BY <1>4, <2>2
  <2>4. faults' \in Nat /\ crashes' \in Nat
    BY <1>4, <1>7, LifecycleAssumption DEF Reads, Writes, Fails, Fault, Core, Types
  <2>5. SessionChange(t)
    BY <1>1, <1>3, <1>4, <1>7, <2>2, <1>6 DEF SessionChange, Written, Live, RowChange,
        SameProviders, SameSessions, Knows,
       NewSecret, NewMarker, NewRowOf, Core, Types, Store, OnSession, Young, Deleting
  <2>6. Own(t)
    <3>1. task'[t].on = s /\ task'[t].pc = "read" BY <2>1 DEF Moves
    <3>2. Shaped(t)'
      BY <1>1, <1>3, <2>1, <3>1 DEF Shaped, Moves, OnProvider, OnSession, Young, Deleting
    <3>3. Knows(t)'
      BY <1>1, <1>3, <1>5, <1>7, <2>1, <2>3, <3>1, NoRowIs, <1>6
         DEF Moves, Knows, Fresh, RowInv, CredInv, Live, Written, Deleting, Young
    <3> QED BY <1>1, <2>3, <3>1, <3>2, <3>3 DEF Own, OnSession, Young, Deleting
  <2>7. t = Boot => task'[t].pc \in OfBoot \ {"free"}
    BY <1>1, <1>4, <2>1 DEF Core, BootInv, OfBoot, Ends, Moves, OnSession, Young, Deleting
  <2>8. RowInv(s)' /\ CredInv(s)'
    <3>1. RowInv(s)' BY <1>1, <1>3, <1>5, <1>7, <2>3, NoRowIs, <1>6 DEF RowInv, Knows,
      Fresh, Live, Written, OnSession, Young, Deleting
    <3>2. CredInv(s)' BY <1>1, <1>3, <1>5, <1>7, <2>3, NoRowIs, <1>6 DEF RowInv,
      CredInv, Knows, Fresh, Live, Written, OnSession, Young, Deleting
    <3> QED BY <3>1, <3>2
  <2> QED BY <1>1, <2>1, <2>4, <2>5, <2>6, <2>7, <2>8, SessionStep DEF OnSession, Young,
      Deleting
<1>8. CASE Goto(t, "quiesce") /\ Writes(SetRow(s, r)) /\ Written(t)
  <2>1. Tasked(t) /\ Moves(t, {"quiesce"})
    BY <1>4, <1>8, GotoMoves DEF Core, Types, Pcs, OnSession, Young, Deleting
  <2>2. NewRowOf(s, r) /\ producer' = producer
    BY <1>4, <1>8, WriteSets, <1>6 DEF Writes, Core, Types
  <2>3. /\ store'.row[s] = r /\ store'.marker[s] = store.marker[s]
        /\ store'.secret[s] = store.secret[s] /\ producer'[s] = producer[s]
    BY <1>4, <2>2 DEF NewRowOf, Core, Types, Store
  <2>4. faults' \in Nat /\ crashes' \in Nat
    BY <1>4, <1>8, LifecycleAssumption DEF Reads, Writes, Fails, Fault, Core, Types
  <2>5. SessionChange(t)
    BY <1>1, <1>3, <1>4, <1>8, <2>2, <1>6 DEF SessionChange, Written, Live, RowChange,
        SameProviders, SameSessions, Knows,
       NewSecret, NewMarker, NewRowOf, Core, Types, Store, OnSession, Young, Deleting
  <2>6. Own(t)
    <3>1. task'[t].on = s /\ task'[t].pc = "quiesce" BY <2>1 DEF Moves
    <3>2. Shaped(t)'
      BY <1>1, <1>3, <2>1, <3>1 DEF Shaped, Moves, OnProvider, OnSession, Young, Deleting
    <3>3. Knows(t)'
      BY <1>1, <1>3, <1>5, <1>8, <2>1, <2>3, <3>1, NoRowIs, <1>6
         DEF Moves, Knows, Fresh, RowInv, CredInv, Live, Written, Deleting, Young
    <3> QED BY <1>1, <2>3, <3>1, <3>2, <3>3 DEF Own, OnSession, Young, Deleting
  <2>7. t = Boot => task'[t].pc \in OfBoot \ {"free"}
    BY <1>1, <1>4, <2>1 DEF Core, BootInv, OfBoot, Ends, Moves, OnSession, Young, Deleting
  <2>8. RowInv(s)' /\ CredInv(s)'
    <3>1. RowInv(s)' BY <1>1, <1>3, <1>5, <1>8, <2>3, NoRowIs, <1>6 DEF RowInv, Knows,
      Fresh, Live, Written, OnSession, Young, Deleting
    <3>2. CredInv(s)' BY <1>1, <1>3, <1>5, <1>8, <2>3, NoRowIs, <1>6 DEF RowInv,
      CredInv, Knows, Fresh, Live, Written, OnSession, Young, Deleting
    <3> QED BY <3>1, <3>2
  <2> QED BY <1>1, <2>1, <2>4, <2>5, <2>6, <2>7, <2>8, SessionStep DEF OnSession, Young,
      Deleting
<1>9. CASE Return(t) /\ Writes(SetRow(s, r)) /\ Written(t)
  <2>1. Tasked(t) /\ Ends(t) BY <1>4, <1>9, ReturnEnds DEF Core, Types
  <2>2. NewRowOf(s, r) /\ producer' = producer
    BY <1>4, <1>9, WriteSets, <1>6 DEF Writes, Core, Types
  <2>3. /\ store'.row[s] = r /\ store'.marker[s] = store.marker[s]
        /\ store'.secret[s] = store.secret[s] /\ producer'[s] = producer[s]
    BY <1>4, <2>2 DEF NewRowOf, Core, Types, Store
  <2>4. faults' \in Nat /\ crashes' \in Nat
    BY <1>4, <1>9, LifecycleAssumption DEF Reads, Writes, Fails, Fault, Core, Types
  <2>5. SessionChange(t)
    BY <1>1, <1>3, <1>4, <1>9, <2>2, <1>6 DEF SessionChange, Written, Live, RowChange,
        SameProviders, SameSessions, Knows,
       NewSecret, NewMarker, NewRowOf, Core, Types, Store, OnSession, Young, Deleting
  <2>6. Own(t) BY <2>1 DEF Own
  <2>7. t = Boot => task'[t].pc \in OfBoot \ {"free"}
    BY <1>1, <1>4, <2>1 DEF Core, BootInv, OfBoot, Ends, Moves, OnSession, Young, Deleting
  <2>8. RowInv(s)' /\ CredInv(s)'
    <3>1. RowInv(s)' BY <1>1, <1>3, <1>5, <1>9, <2>3, NoRowIs, <1>6 DEF RowInv, Knows,
      Fresh, Live, Written, OnSession, Young, Deleting
    <3>2. CredInv(s)' BY <1>1, <1>3, <1>5, <1>9, <2>3, NoRowIs, <1>6 DEF RowInv,
      CredInv, Knows, Fresh, Live, Written, OnSession, Young, Deleting
    <3> QED BY <3>1, <3>2
  <2> QED BY <1>1, <2>1, <2>4, <2>5, <2>6, <2>7, <2>8, SessionStep DEF OnSession, Young,
      Deleting
<1>10. CASE Throw(t) /\ Fails(SetRow(s, r)) /\ Written(t)
  <2>1. Tasked(t) /\ Ends(t) BY <1>4, <1>10, ReturnEnds DEF Core, Types
  <2>2. (store' = store \/ NewRowOf(s, r)) /\ producer' = producer
    BY <1>4, <1>10, WriteSets, <1>6 DEF Fails, Core, Types
  <2>3. /\ (store'.row[s] = store.row[s] \/ store'.row[s] = r) /\ store'.marker[s] = store.marker[s]
        /\ store'.secret[s] = store.secret[s] /\ producer'[s] = producer[s]
    BY <1>4, <2>2 DEF NewRowOf, Core, Types, Store
  <2>4. faults' \in Nat /\ crashes' \in Nat
    BY <1>4, <1>10, LifecycleAssumption DEF Reads, Writes, Fails, Fault, Core, Types
  <2>5. SessionChange(t)
    BY <1>1, <1>3, <1>4, <1>10, <2>2, <1>6 DEF SessionChange, Written, Live, RowChange,
        SameProviders, SameSessions, Knows,
       NewSecret, NewMarker, NewRowOf, Core, Types, Store, OnSession, Young, Deleting
  <2>6. Own(t) BY <2>1 DEF Own
  <2>7. t = Boot => task'[t].pc \in OfBoot \ {"free"}
    BY <1>1, <1>4, <2>1 DEF Core, BootInv, OfBoot, Ends, Moves, OnSession, Young, Deleting
  <2>8. RowInv(s)' /\ CredInv(s)'
    <3>1. RowInv(s)' BY <1>1, <1>3, <1>5, <1>10, <2>3, NoRowIs, <1>6 DEF RowInv, Knows,
      Fresh, Live, Written, OnSession, Young, Deleting
    <3>2. CredInv(s)' BY <1>1, <1>3, <1>5, <1>10, <2>3, NoRowIs, <1>6 DEF RowInv,
      CredInv, Knows, Fresh, Live, Written, OnSession, Young, Deleting
    <3> QED BY <3>1, <3>2
  <2> QED BY <1>1, <2>1, <2>4, <2>5, <2>6, <2>7, <2>8, SessionStep DEF OnSession, Young,
      Deleting
<1> QED BY <1>1, <1>7, <1>8, <1>9, <1>10, <1>6 DEF WriteRow

\* The fence is raised.
LEMMA BeginDeletionKeeps ==
  ASSUME IInv, NEW t \in Tasks, BeginDeletion(t)
  PROVE  IInv'
<1>1. task[t].pc = "begin" BY DEF BeginDeletion, At
<1>2. task[t].on \in Sessions
  BY <1>1 DEF IInv, Core, BootInv, Shaped, OnSession, Young, Deleting
<1> SUFFICES ASSUME NEW s \in Sessions, task[t].on = s PROVE IInv' BY <1>2
<1>3. Knows(t) /\ Fresh(t) /\ RowInv(s) /\ CredInv(s) /\ Shaped(t) BY OwnFacts
<1>4. Core BY DEF IInv
<1>5. Typed(t, s) BY OwnTypes
<1> USE DEF Typed
<1>6. PICK r \in Row : /\ Revised(s, "stopped", TRUE) = SetRow(s, r)
                      /\ r.rev = store.row[s].rev + 1 /\ r.owned = store.row[s].owned
                      /\ r.deleting = TRUE /\ r.state = "stopped"
  BY <1>1, <1>3, <1>4, RevisedIs DEF Core, Types, Shaped, States, Store, Row
<1>7. CASE Goto(t, "stop") /\ Writes(SetRow(s, r)) /\ Live(s)
  <2>1. Tasked(t) /\ Moves(t, {"stop"})
    BY <1>4, <1>7, GotoMoves DEF Core, Types, Pcs, OnSession, Young, Deleting
  <2>2. NewRowOf(s, r) /\ producer' = producer
    BY <1>4, <1>7, WriteSets, <1>6 DEF Writes, Core, Types
  <2>3. /\ store'.row[s] = r /\ store'.marker[s] = store.marker[s]
        /\ store'.secret[s] = store.secret[s] /\ producer'[s] = producer[s]
    BY <1>4, <2>2 DEF NewRowOf, Core, Types, Store
  <2>4. faults' \in Nat /\ crashes' \in Nat
    BY <1>4, <1>7, LifecycleAssumption DEF Reads, Writes, Fails, Fault, Core, Types
  <2>5. SessionChange(t)
    BY <1>1, <1>3, <1>4, <1>7, <2>2, <1>6 DEF SessionChange, Live, RowChange,
        SameProviders, SameSessions, Knows,
       NewSecret, NewMarker, NewRowOf, Core, Types, Store, OnSession, Young, Deleting
  <2>6. Own(t)
    <3>1. task'[t].on = s /\ task'[t].pc = "stop" BY <2>1 DEF Moves
    <3>2. Shaped(t)'
      BY <1>1, <1>3, <2>1, <3>1 DEF Shaped, Moves, OnProvider, OnSession, Young, Deleting
    <3>3. Knows(t)'
      BY <1>1, <1>3, <1>5, <1>7, <2>1, <2>3, <3>1, NoRowIs, <1>6
         DEF Moves, Knows, Fresh, RowInv, CredInv, Live, Deleting, Young
    <3> QED BY <1>1, <2>3, <3>1, <3>2, <3>3 DEF Own, OnSession, Young, Deleting
  <2>7. t = Boot => task'[t].pc \in OfBoot \ {"free"}
    BY <1>1, <1>4, <2>1 DEF Core, BootInv, OfBoot, Ends, Moves, OnSession, Young, Deleting
  <2>8. RowInv(s)' /\ CredInv(s)'
    <3>1. RowInv(s)' BY <1>1, <1>3, <1>5, <1>7, <2>3, NoRowIs, <1>6 DEF RowInv, Knows,
      Fresh, Live, OnSession, Young, Deleting
    <3>2. CredInv(s)' BY <1>1, <1>3, <1>5, <1>7, <2>3, NoRowIs, <1>6 DEF RowInv,
      CredInv, Knows, Fresh, Live, OnSession, Young, Deleting
    <3> QED BY <3>1, <3>2
  <2> QED BY <1>1, <2>1, <2>4, <2>5, <2>6, <2>7, <2>8, SessionStep DEF OnSession, Young,
      Deleting
<1>8. CASE Throw(t) /\ Fails(SetRow(s, r)) /\ Live(s)
  <2>1. Tasked(t) /\ Ends(t) BY <1>4, <1>8, ReturnEnds DEF Core, Types
  <2>2. (store' = store \/ NewRowOf(s, r)) /\ producer' = producer
    BY <1>4, <1>8, WriteSets, <1>6 DEF Fails, Core, Types
  <2>3. /\ (store'.row[s] = store.row[s] \/ store'.row[s] = r) /\ store'.marker[s] = store.marker[s]
        /\ store'.secret[s] = store.secret[s] /\ producer'[s] = producer[s]
    BY <1>4, <2>2 DEF NewRowOf, Core, Types, Store
  <2>4. faults' \in Nat /\ crashes' \in Nat
    BY <1>4, <1>8, LifecycleAssumption DEF Reads, Writes, Fails, Fault, Core, Types
  <2>5. SessionChange(t)
    BY <1>1, <1>3, <1>4, <1>8, <2>2, <1>6 DEF SessionChange, Live, RowChange,
        SameProviders, SameSessions, Knows,
       NewSecret, NewMarker, NewRowOf, Core, Types, Store, OnSession, Young, Deleting
  <2>6. Own(t) BY <2>1 DEF Own
  <2>7. t = Boot => task'[t].pc \in OfBoot \ {"free"}
    BY <1>1, <1>4, <2>1 DEF Core, BootInv, OfBoot, Ends, Moves, OnSession, Young, Deleting
  <2>8. RowInv(s)' /\ CredInv(s)'
    <3>1. RowInv(s)' BY <1>1, <1>3, <1>5, <1>8, <2>3, NoRowIs, <1>6 DEF RowInv, Knows,
      Fresh, Live, OnSession, Young, Deleting
    <3>2. CredInv(s)' BY <1>1, <1>3, <1>5, <1>8, <2>3, NoRowIs, <1>6 DEF RowInv,
      CredInv, Knows, Fresh, Live, OnSession, Young, Deleting
    <3> QED BY <3>1, <3>2
  <2> QED BY <1>1, <2>1, <2>4, <2>5, <2>6, <2>7, <2>8, SessionStep DEF OnSession, Young,
      Deleting
<1>9. CASE Throw(t) /\ Reads /\ UNCHANGED faults
  <2>1. Tasked(t) /\ Ends(t) BY <1>4, <1>9, ReturnEnds DEF Core, Types
  <2>2. store' = store /\ producer' = producer BY <1>9 DEF Reads
  <2>3. /\ store'.row[s] = store.row[s] /\ store'.marker[s] = store.marker[s]
        /\ store'.secret[s] = store.secret[s] /\ producer'[s] = producer[s]
    BY <1>4, <2>2
  <2>4. faults' \in Nat /\ crashes' \in Nat
    BY <1>4, <1>9, LifecycleAssumption DEF Reads, Writes, Fails, Fault, Core, Types
  <2>5. SessionChange(t)
    BY <1>1, <1>3, <1>4, <1>9, <2>2, <1>6 DEF SessionChange, Live, RowChange,
        SameProviders, SameSessions, Knows,
       NewSecret, NewMarker, NewRowOf, Core, Types, Store, OnSession, Young, Deleting
  <2>6. Own(t) BY <2>1 DEF Own
  <2>7. t = Boot => task'[t].pc \in OfBoot \ {"free"}
    BY <1>1, <1>4, <2>1 DEF Core, BootInv, OfBoot, Ends, Moves, OnSession, Young, Deleting
  <2>8. RowInv(s)' /\ CredInv(s)'
    <3>1. RowInv(s)' BY <1>1, <1>3, <1>5, <1>9, <2>3, NoRowIs, <1>6 DEF RowInv, Knows,
      Fresh, Live, OnSession, Young, Deleting
    <3>2. CredInv(s)' BY <1>1, <1>3, <1>5, <1>9, <2>3, NoRowIs, <1>6 DEF RowInv,
      CredInv, Knows, Fresh, Live, OnSession, Young, Deleting
    <3> QED BY <3>1, <3>2
  <2> QED BY <1>1, <2>1, <2>4, <2>5, <2>6, <2>7, <2>8, SessionStep DEF OnSession, Young,
      Deleting
<1> QED BY <1>1, <1>7, <1>8, <1>9, <1>6 DEF BeginDeletion, Live, Typed

\* A stopped session loses its producer.
LEMMA StopSessionKeeps ==
  ASSUME IInv, NEW t \in Tasks, StopSession(t)
  PROVE  IInv'
<1>1. task[t].pc = "quiesce" BY DEF StopSession, At
<1>2. task[t].on \in Sessions
  BY <1>1 DEF IInv, Core, BootInv, Shaped, OnSession, Young, Deleting
<1> SUFFICES ASSUME NEW s \in Sessions, task[t].on = s PROVE IInv' BY <1>2
<1>3. Knows(t) /\ Fresh(t) /\ RowInv(s) /\ CredInv(s) /\ Shaped(t) BY OwnFacts
<1>4. Core BY DEF IInv
<1>5. Typed(t, s) BY OwnTypes
<1> USE DEF Typed
<1>6. CASE Return(t) /\ UNCHANGED <<store, faults, crashes>> /\ producer' = [producer EXCEPT ![s] = "none"]
  <2>1. Tasked(t) /\ Ends(t) BY <1>4, <1>6, ReturnEnds DEF Core, Types
  <2>2. store' = store /\ producer' = [producer EXCEPT ![s] = "none"] BY <1>6 DEF Reads
  <2>3. /\ store'.row[s] = store.row[s] /\ store'.marker[s] = store.marker[s]
        /\ store'.secret[s] = store.secret[s] /\ producer'[s] = "none"
    BY <1>4, <2>2 DEF Core, Types
  <2>4. faults' \in Nat /\ crashes' \in Nat
    BY <1>4, <1>6, LifecycleAssumption DEF Reads, Writes, Fails, Fault, Core, Types
  <2>5. SessionChange(t)
    BY <1>1, <1>3, <1>4, <1>6, <2>2 DEF SessionChange, Live, RowChange, SameProviders,
        SameSessions, Knows,
       NewSecret, NewMarker, NewRowOf, Core, Types, Store, OnSession, Young, Deleting
  <2>6. Own(t) BY <2>1 DEF Own
  <2>7. t = Boot => task'[t].pc \in OfBoot \ {"free"}
    BY <1>1, <1>4, <2>1 DEF Core, BootInv, OfBoot, Ends, Moves, OnSession, Young, Deleting
  <2>8. RowInv(s)' /\ CredInv(s)'
    <3>1. RowInv(s)' BY <1>1, <1>3, <1>5, <1>6, <2>3, NoRowIs DEF RowInv, Knows, Fresh,
      Live, OnSession, Young, Deleting
    <3>2. CredInv(s)' BY <1>1, <1>3, <1>5, <1>6, <2>3, NoRowIs DEF RowInv, CredInv,
      Knows, Fresh, Live, OnSession, Young, Deleting
    <3> QED BY <3>1, <3>2
  <2> QED BY <1>1, <2>1, <2>4, <2>5, <2>6, <2>7, <2>8, SessionStep DEF OnSession, Young,
      Deleting
<1>7. CASE Throw(t) /\ Fault /\ UNCHANGED <<store, producer, crashes>>
  <2>1. Tasked(t) /\ Ends(t) BY <1>4, <1>7, ReturnEnds DEF Core, Types
  <2>2. store' = store /\ producer' = producer BY <1>7 DEF Reads
  <2>3. /\ store'.row[s] = store.row[s] /\ store'.marker[s] = store.marker[s]
        /\ store'.secret[s] = store.secret[s] /\ producer'[s] = producer[s]
    BY <1>4, <2>2
  <2>4. faults' \in Nat /\ crashes' \in Nat
    BY <1>4, <1>7, LifecycleAssumption DEF Reads, Writes, Fails, Fault, Core, Types
  <2>5. SessionChange(t)
    BY <1>1, <1>3, <1>4, <1>7, <2>2 DEF SessionChange, Live, RowChange, SameProviders,
        SameSessions, Knows,
       NewSecret, NewMarker, NewRowOf, Core, Types, Store, OnSession, Young, Deleting
  <2>6. Own(t) BY <2>1 DEF Own
  <2>7. t = Boot => task'[t].pc \in OfBoot \ {"free"}
    BY <1>1, <1>4, <2>1 DEF Core, BootInv, OfBoot, Ends, Moves, OnSession, Young, Deleting
  <2>8. RowInv(s)' /\ CredInv(s)'
    <3>1. RowInv(s)' BY <1>1, <1>3, <1>5, <1>7, <2>3, NoRowIs DEF RowInv, Knows, Fresh,
      Live, OnSession, Young, Deleting
    <3>2. CredInv(s)' BY <1>1, <1>3, <1>5, <1>7, <2>3, NoRowIs DEF RowInv, CredInv,
      Knows, Fresh, Live, OnSession, Young, Deleting
    <3> QED BY <3>1, <3>2
  <2> QED BY <1>1, <2>1, <2>4, <2>5, <2>6, <2>7, <2>8, SessionStep DEF OnSession, Young,
      Deleting
<1> QED BY <1>1, <1>6, <1>7 DEF StopSession

\* A deletion waits for the producer before it touches the credential.
LEMMA StopForDeletionKeeps ==
  ASSUME IInv, NEW t \in Tasks, StopForDeletion(t)
  PROVE  IInv'
<1>1. task[t].pc = "stop" BY DEF StopForDeletion, At
<1>2. task[t].on \in Sessions
  BY <1>1 DEF IInv, Core, BootInv, Shaped, OnSession, Young, Deleting
<1> SUFFICES ASSUME NEW s \in Sessions, task[t].on = s PROVE IInv' BY <1>2
<1>3. Knows(t) /\ Fresh(t) /\ RowInv(s) /\ CredInv(s) /\ Shaped(t) BY OwnFacts
<1>4. Core BY DEF IInv
<1>5. Typed(t, s) BY OwnTypes
<1> USE DEF Typed
<1>6. CASE Goto(t, "fin_secret") /\ UNCHANGED <<store, faults, crashes>> /\ producer' = [producer EXCEPT ![s] = "none"]
  <2>1. Tasked(t) /\ Moves(t, {"fin_secret"})
    BY <1>4, <1>6, GotoMoves DEF Core, Types, Pcs, OnSession, Young, Deleting
  <2>2. store' = store /\ producer' = [producer EXCEPT ![s] = "none"] BY <1>6 DEF Reads
  <2>3. /\ store'.row[s] = store.row[s] /\ store'.marker[s] = store.marker[s]
        /\ store'.secret[s] = store.secret[s] /\ producer'[s] = "none"
    BY <1>4, <2>2 DEF Core, Types
  <2>4. faults' \in Nat /\ crashes' \in Nat
    BY <1>4, <1>6, LifecycleAssumption DEF Reads, Writes, Fails, Fault, Core, Types
  <2>5. SessionChange(t)
    BY <1>1, <1>3, <1>4, <1>6, <2>2 DEF SessionChange, Live, RowChange, SameProviders,
        SameSessions, Knows,
       NewSecret, NewMarker, NewRowOf, Core, Types, Store, OnSession, Young, Deleting
  <2>6. Own(t)
    <3>1. task'[t].on = s /\ task'[t].pc = "fin_secret" BY <2>1 DEF Moves
    <3>2. Shaped(t)'
      BY <1>1, <1>3, <2>1, <3>1 DEF Shaped, Moves, OnProvider, OnSession, Young, Deleting
    <3>3. Knows(t)'
      BY <1>1, <1>3, <1>5, <1>6, <2>1, <2>3, <3>1, NoRowIs
         DEF Moves, Knows, Fresh, RowInv, CredInv, Live, Deleting, Young
    <3> QED BY <1>1, <2>3, <3>1, <3>2, <3>3 DEF Own, OnSession, Young, Deleting
  <2>7. t = Boot => task'[t].pc \in OfBoot \ {"free"}
    BY <1>1, <1>4, <2>1 DEF Core, BootInv, OfBoot, Ends, Moves, OnSession, Young, Deleting
  <2>8. RowInv(s)' /\ CredInv(s)'
    <3>1. RowInv(s)' BY <1>1, <1>3, <1>5, <1>6, <2>3, NoRowIs DEF RowInv, Knows, Fresh,
      Live, OnSession, Young, Deleting
    <3>2. CredInv(s)' BY <1>1, <1>3, <1>5, <1>6, <2>3, NoRowIs DEF RowInv, CredInv,
      Knows, Fresh, Live, OnSession, Young, Deleting
    <3> QED BY <3>1, <3>2
  <2> QED BY <1>1, <2>1, <2>4, <2>5, <2>6, <2>7, <2>8, SessionStep DEF OnSession, Young,
      Deleting
<1>7. CASE Throw(t) /\ Fault /\ UNCHANGED <<store, producer, crashes>>
  <2>1. Tasked(t) /\ Ends(t) BY <1>4, <1>7, ReturnEnds DEF Core, Types
  <2>2. store' = store /\ producer' = producer BY <1>7 DEF Reads
  <2>3. /\ store'.row[s] = store.row[s] /\ store'.marker[s] = store.marker[s]
        /\ store'.secret[s] = store.secret[s] /\ producer'[s] = producer[s]
    BY <1>4, <2>2
  <2>4. faults' \in Nat /\ crashes' \in Nat
    BY <1>4, <1>7, LifecycleAssumption DEF Reads, Writes, Fails, Fault, Core, Types
  <2>5. SessionChange(t)
    BY <1>1, <1>3, <1>4, <1>7, <2>2 DEF SessionChange, Live, RowChange, SameProviders,
        SameSessions, Knows,
       NewSecret, NewMarker, NewRowOf, Core, Types, Store, OnSession, Young, Deleting
  <2>6. Own(t) BY <2>1 DEF Own
  <2>7. t = Boot => task'[t].pc \in OfBoot \ {"free"}
    BY <1>1, <1>4, <2>1 DEF Core, BootInv, OfBoot, Ends, Moves, OnSession, Young, Deleting
  <2>8. RowInv(s)' /\ CredInv(s)'
    <3>1. RowInv(s)' BY <1>1, <1>3, <1>5, <1>7, <2>3, NoRowIs DEF RowInv, Knows, Fresh,
      Live, OnSession, Young, Deleting
    <3>2. CredInv(s)' BY <1>1, <1>3, <1>5, <1>7, <2>3, NoRowIs DEF RowInv, CredInv,
      Knows, Fresh, Live, OnSession, Young, Deleting
    <3> QED BY <3>1, <3>2
  <2> QED BY <1>1, <2>1, <2>4, <2>5, <2>6, <2>7, <2>8, SessionStep DEF OnSession, Young,
      Deleting
<1> QED BY <1>1, <1>6, <1>7 DEF StopForDeletion

\* #updateSession reads the row it is about to change.
LEMMA ReadRowKeeps ==
  ASSUME IInv, NEW t \in Tasks, ReadRow(t)
  PROVE  IInv'
<1>1. task[t].pc = "read" BY DEF ReadRow, At
<1>2. task[t].on \in Sessions
  BY <1>1 DEF IInv, Core, BootInv, Shaped, OnSession
<1> SUFFICES ASSUME NEW s \in Sessions, task[t].on = s PROVE IInv' BY <1>2
<1>3. Knows(t) /\ Fresh(t) /\ RowInv(s) /\ CredInv(s) /\ Shaped(t) BY OwnFacts
<1>4. Core /\ Typed(t, s) BY OwnTypes DEF IInv
<1>5. store' = store /\ producer' = producer /\ faults' \in Nat /\ crashes' \in Nat
  BY <1>4 DEF ReadRow, Reads, Core, Types
<1>6. SessionChange(t)
  BY <1>1, <1>4, <1>5 DEF SessionChange, RowChange, SameProviders, SameSessions, Core,
      Types, Young
<1>7. RowInv(s)' /\ CredInv(s)' BY <1>3, <1>5 DEF RowInv, CredInv, Live
<1>8. CASE Throw(t)
  <2>1. Tasked(t) /\ Ends(t) BY <1>4, <1>8, ReturnEnds DEF Core, Types
  <2>2. t = Boot => task'[t].pc \in OfBoot \ {"free"} BY <2>1 DEF Ends, OfBoot
  <2>3. Own(t) BY <2>1 DEF Own
  <2> QED BY <1>1, <1>5, <1>6, <1>7, <2>1, <2>2, <2>3, SessionStep DEF OnSession
<1>9. CASE /\ Changed(s, task[t].with)
           /\ task' = [task EXCEPT ![t].pc = "write", ![t].rev = store.row[s].rev]
  <2> DEFINE r == [task[t] EXCEPT !.pc = "write", !.rev = store.row[s].rev]
  <2>1. task[t] \in Task BY <1>4 DEF Core, Types
  <2>2. /\ r \in Task /\ r.pc = "write" /\ r.on = s /\ r.with = task[t].with
        /\ r.rev = store.row[s].rev
    BY <1>4, <2>1 DEF Typed, Task, Pcs, OnSession
  <2>3. task' = [task EXCEPT ![t] = r] BY <1>9
  <2> HIDE DEF r
  <2>4. Tasked(t) /\ task'[t] = r BY <1>4, <2>2, <2>3 DEF Core, Types, Tasked, Others
  <2>5. task[t].with \in States BY <1>1, <1>3 DEF Shaped
  <2>6. Live(s) /\ ~store.row[s].deleting
    BY <1>3, <1>9 DEF Changed, RowInv
  <2>7. Own(t)
    <3>1. Shaped(t)' BY <2>2, <2>4, <2>5 DEF Shaped, OnSession, Young, OnProvider
    <3>2. Knows(t)' BY <1>4, <1>5, <2>2, <2>4, <2>6 DEF Knows, Live, Deleting, Typed
    <3> QED BY <1>1, <2>2, <2>4, <2>6, <3>1, <3>2 DEF Own, OnSession, Young
  <2>8. t # Boot BY <1>1, <1>4 DEF Core, BootInv, OfBoot, Deleting
  <2> QED BY <1>1, <1>5, <1>6, <1>7, <2>4, <2>7, <2>8, SessionStep DEF OnSession
<1> QED BY <1>8, <1>9 DEF ReadRow

\* A deletion reads the row first and resumes one that began.
LEMMA ReadForDeletionKeeps ==
  ASSUME IInv, NEW t \in Tasks, ReadForDeletion(t)
  PROVE  IInv'
<1>1. task[t].pc = "delete" BY DEF ReadForDeletion, At
<1>2. task[t].on \in Sessions
  BY <1>1 DEF IInv, Core, BootInv, Shaped, OnSession
<1> SUFFICES ASSUME NEW s \in Sessions, task[t].on = s PROVE IInv' BY <1>2
<1>3. Knows(t) /\ Fresh(t) /\ RowInv(s) /\ CredInv(s) /\ Shaped(t) BY OwnFacts
<1>4. Core /\ Typed(t, s) BY OwnTypes DEF IInv
<1>5. store' = store /\ producer' = producer /\ faults' \in Nat /\ crashes' \in Nat
  BY <1>4 DEF ReadForDeletion, Reads, Core, Types
<1>6. SessionChange(t)
  BY <1>1, <1>4, <1>5 DEF SessionChange, RowChange, SameProviders, SameSessions, Core,
      Types, Young
<1>7. RowInv(s)' /\ CredInv(s)' BY <1>3, <1>5 DEF RowInv, CredInv, Live
<1>8. CASE Throw(t)
  <2>1. Tasked(t) /\ Ends(t) BY <1>4, <1>8, ReturnEnds DEF Core, Types
  <2>2. t = Boot => task'[t].pc \in OfBoot \ {"free"} BY <2>1 DEF Ends, OfBoot
  <2>3. Own(t) BY <2>1 DEF Own
  <2> QED BY <1>1, <1>5, <1>6, <1>7, <2>1, <2>2, <2>3, SessionStep DEF OnSession
<1>9. ASSUME NEW pc \in {"stop", "begin"}, Live(s), pc = "stop" => store.row[s].deleting,
             task' = [task EXCEPT ![t].pc = pc, ![t].owned = store.row[s].owned]
      PROVE  IInv'
  <2> DEFINE r == [task[t] EXCEPT !.pc = pc, !.owned = store.row[s].owned]
  <2>1. task[t] \in Task BY <1>4 DEF Core, Types
  <2>2. r.pc = pc /\ r.on = s /\ r.owned = store.row[s].owned BY <2>1 DEF Task
  <2>3. r \in Task BY <1>4, <2>1 DEF Typed, Task, Pcs, OnSession, Deleting
  <2>4. task' = [task EXCEPT ![t] = r] BY <1>9
  <2> HIDE DEF r
  <2>5. Tasked(t) /\ task'[t] = r BY <1>4, <2>3, <2>4 DEF Core, Types, Tasked, Others
  <2>6. Own(t)
    <3>1. Shaped(t)' BY <2>2, <2>5 DEF Shaped, OnSession, Young, OnProvider, Deleting
    <3>2. Knows(t)'
      BY <1>3, <1>4, <1>5, <1>9, <2>2, <2>5 DEF Knows, RowInv, Live, Deleting, Typed
    <3> QED BY <1>1, <1>9, <2>2, <2>5, <3>1, <3>2 DEF Own, OnSession, Young, Deleting
  <2>7. t # Boot BY <1>1, <1>4 DEF Core, BootInv, OfBoot, Deleting
  <2> QED BY <1>1, <1>5, <1>6, <1>7, <2>5, <2>6, <2>7, SessionStep DEF OnSession
<1>10. CASE /\ Live(s)
            /\ task' = [task EXCEPT ![t].pc = IF store.row[s].deleting THEN "stop" ELSE "begin",
                                    ![t].owned = store.row[s].owned]
  <2>1. CASE store.row[s].deleting BY <1>9, <1>10, <2>1
  <2>2. CASE ~store.row[s].deleting BY <1>9, <1>10, <2>2
  <2> QED BY <2>1, <2>2
<1> QED BY <1>8, <1>10 DEF ReadForDeletion

---------------------------------------------------------------------------
(* Steps on a provider.                                                    *)

\* What one task at work on a provider may change of it for the others.
ProviderChange(t, p) ==
  LET pc == task[t].pc IN
  /\ store' \in Store /\ SameSessions
  /\ \A x \in Providers \ {p} : /\ store'.provider[x] = store.provider[x]
                                /\ store'.providerSecret[x] = store.providerSecret[x]
  /\ store'.provider[p] = "ready" => store.provider[p] = "ready" \/ pc = "p_row"
  /\ store.provider[p] = "none" => store'.provider[p] = "none" \/ pc = "p_row"
  /\ store.provider[p] = "none" /\ pc = "p_begin" =>
       Ends(t) /\ store'.providerSecret[p] = store.providerSecret[p]

\* A step of a task on its provider keeps the invariant if it keeps it for the two.
LEMMA ProviderStep ==
  ASSUME IInv, NEW t \in Tasks, NEW p \in Providers, task[t].with = p,
         task[t].pc \in OnProvider, Tasked(t), ProviderChange(t, p),
         Ends(t) \/ (task'[t].pc \in OnProvider \ {"p_secret"} /\ Moves(t, OnProvider)),
         task'[t].pc = "p_row" => task[t].pc = "p_secret",
         Adds(t)', store'.provider[p] = "ready" => store'.providerSecret[p],
         producer' = producer, faults' \in Nat, crashes' \in Nat
  PROVE  IInv'
<1>1. Core /\ SessionInv /\ ProviderInv BY DEF IInv
<1>2. t # Boot /\ task[t].pc # "free" /\ task[t].on = NoTask
  BY <1>1 DEF Core, BootInv, Shaped, OfBoot, OnProvider, OnSession, Young, Deleting
<1>3. task'[t].pc \notin OnSession /\ task'[t].on = NoTask
  BY <1>2 DEF Ends, Idle, Moves, OnProvider, OnSession, Young, Deleting
<1>4. Ends(t) \/ Shaped(t)'
  BY <1>3 DEF Moves, Shaped, OnProvider, Young
<1>5. Core'
  BY <1>1, <1>2, <1>4, CoreKept DEF ProviderChange, Core, Types
<1>6. SessionInv'
  BY <1>1, <1>3, SessionsKept DEF ProviderChange, Core
<1>7. \A u \in Tasks \ {t} : task'[u] = task[u] BY DEF Tasked, Others
<1>8. ASSUME NEW u \in Tasks PROVE Adds(u)'
  <2>1. CASE u # t /\ task[u].with # p
    <3>1. Adds(u) BY <1>1 DEF ProviderInv
    <3>2. CASE task[u].pc \in OnProvider
      <4>1. task[u].with \in Providers \ {p}
        BY <1>1, <2>1, <3>2 DEF Core, BootInv, Shaped
      <4>2. task'[t].with # task[u].with \/ task'[t].pc \notin OnProvider \ {"p_begin"}
        BY <1>2, <2>1 DEF Moves, Ends, Idle, OnProvider
      <4> QED BY <1>7, <2>1, <3>1, <4>1, <4>2 DEF Adds, ProviderChange
    <3>3. CASE task[u].pc \notin OnProvider
      BY <1>7, <2>1, <3>3 DEF Adds, OnProvider
    <3> QED BY <3>2, <3>3
  <2>2. CASE u # t /\ task[u].with = p
    <3>1. Adds(u) /\ Adds(t) BY <1>1 DEF ProviderInv
    <3>2. task'[u] = task[u] BY <1>7, <2>2
    <3>3. CASE task[u].pc \in {"p_secret", "p_row"}
      <4>1. task[t].pc = "p_begin" /\ store.provider[p] = "none"
        BY <2>2, <3>1, <3>3 DEF Adds
      <4>2. Ends(t) /\ store'.provider[p] = "none"
            /\ store'.providerSecret[p] = store.providerSecret[p]
        BY <4>1 DEF ProviderChange
      <4>3. task'[t].pc \notin OnProvider BY <1>2, <4>2 DEF Ends, Idle, OnProvider
      <4> QED BY <1>7, <2>2, <3>1, <3>2, <3>3, <4>2, <4>3 DEF Adds
    <3>4. CASE task[u].pc \in {"p_undo", "p_clean", "p_final"}
      <4>1. task[t].pc # "p_row" BY <2>2, <3>1, <3>4 DEF Adds, OnProvider
      <4> QED BY <2>2, <3>1, <3>2, <3>4, <4>1 DEF Adds, ProviderChange
    <3>5. CASE task[u].pc \notin {"p_secret", "p_row", "p_undo", "p_clean", "p_final"}
      BY <3>2, <3>5 DEF Adds
    <3> QED BY <3>3, <3>4, <3>5
  <2> QED BY <2>1, <2>2
<1>9. ProviderKeepsSecret' BY <1>1 DEF ProviderKeepsSecret, ProviderInv, ProviderChange
<1> QED BY <1>5, <1>6, <1>8, <1>9 DEF IInv, ProviderInv

\* The secret of a provider is stored before its row.
LEMMA PutProviderSecretKeeps ==
  ASSUME IInv, NEW t \in Tasks, PutProviderSecret(t)
  PROVE  IInv'
<1>1. task[t].pc = "p_secret" BY DEF PutProviderSecret, At
<1>2. task[t].with \in Providers
  BY <1>1 DEF IInv, Core, BootInv, Shaped, OnProvider
<1> SUFFICES ASSUME NEW p \in Providers, task[t].with = p PROVE IInv' BY <1>2
<1>3. Core /\ Adds(t) BY DEF IInv, ProviderInv
<1>4. store.provider[p] = "ready" => store.providerSecret[p]
  BY DEF IInv, ProviderInv, ProviderKeepsSecret
<1>5. CASE Goto(t, "p_row") /\ Writes(SetProviderSecret(p, TRUE))
  <2>1. Tasked(t) /\ Moves(t, {"p_row"})
    BY <1>3, <1>5, GotoMoves DEF Core, Types, Pcs, OnProvider
  <2>2. faults' \in Nat /\ crashes' \in Nat /\ producer' = producer
    BY <1>3, <1>5, LifecycleAssumption DEF Reads, Writes, Fails, Fault, Core, Types
  <2>3. NewProviderSecret(p, TRUE) BY <1>3, <1>5, WriteSets DEF Writes, Core, Types
  <2>4. store'.provider[p] = store.provider[p] /\ store'.providerSecret[p] = TRUE
    BY <1>3, <2>3 DEF NewProviderSecret, Core, Types, Store
  <2>5. ProviderChange(t, p)
    <3>1. store' \in Store /\ SameSessions BY <1>3, <2>3 DEF Core, Types, SameSessions,
      NewProviderSecret
    <3>2. \A x \in Providers \ {p} : /\ store'.provider[x] = store.provider[x]
                                       /\ store'.providerSecret[x] = store.providerSecret[x]
      BY <1>3, <2>3 DEF Core, Types, Store, NewProviderSecret
    <3> QED BY <1>1, <1>5, <2>1, <2>4, <3>1, <3>2 DEF ProviderChange
  <2>6. Moves(t, OnProvider) /\ task'[t].pc = "p_row" BY <2>1 DEF Moves, OnProvider
  <2>7. Adds(t)'
    <3>1. \A u \in Tasks \ {t} : task'[u] = task[u] BY <2>1 DEF Tasked, Others
    <3> QED BY <1>1, <1>3, <1>5, <2>4, <2>6, <3>1 DEF Adds, Moves
  <2>8. store'.provider[p] = "ready" => store'.providerSecret[p]
    BY <1>1, <1>3, <1>4, <2>4 DEF Adds
  <2> QED BY <1>1, <2>1, <2>2, <2>5, <2>6, <2>7, <2>8, ProviderStep DEF OnProvider
<1>6. CASE Throw(t) /\ Fails(SetProviderSecret(p, TRUE))
  <2>1. Tasked(t) /\ Ends(t) BY <1>3, <1>6, ReturnEnds DEF Core, Types
  <2>2. faults' \in Nat /\ crashes' \in Nat /\ producer' = producer
    BY <1>3, <1>6, LifecycleAssumption DEF Reads, Writes, Fails, Fault, Core, Types
  <2>3. (store' = store \/ NewProviderSecret(p, TRUE)) BY <1>3, <1>6,
      WriteSets DEF Fails, Core, Types
  <2>4. store'.provider[p] = store.provider[p] /\ (store.providerSecret[p] => store'.providerSecret[p])
    BY <1>3, <2>3 DEF NewProviderSecret, Core, Types, Store
  <2>5. ProviderChange(t, p)
    <3>1. store' \in Store /\ SameSessions BY <1>3, <2>3 DEF Core, Types, SameSessions,
      NewProviderSecret
    <3>2. \A x \in Providers \ {p} : /\ store'.provider[x] = store.provider[x]
                                       /\ store'.providerSecret[x] = store.providerSecret[x]
      BY <1>3, <2>3 DEF Core, Types, Store, NewProviderSecret
    <3> QED BY <1>1, <1>6, <2>1, <2>4, <3>1, <3>2 DEF ProviderChange
  <2>6. Adds(t)' /\ task'[t].pc \notin OnProvider BY <2>1 DEF Adds, Ends, Idle, OnProvider
  <2>7. store'.provider[p] = "ready" => store'.providerSecret[p]
    BY <1>1, <1>3, <1>4, <2>4 DEF Adds
  <2> QED BY <1>1, <2>1, <2>2, <2>5, <2>6, <2>7, ProviderStep DEF OnProvider
<1> QED BY <1>5, <1>6 DEF PutProviderSecret, ProviderSessions

\* The row of a provider is written when its secret is there.
LEMMA CommitProviderKeeps ==
  ASSUME IInv, NEW t \in Tasks, CommitProvider(t)
  PROVE  IInv'
<1>1. task[t].pc = "p_row" BY DEF CommitProvider, At
<1>2. task[t].with \in Providers
  BY <1>1 DEF IInv, Core, BootInv, Shaped, OnProvider
<1> SUFFICES ASSUME NEW p \in Providers, task[t].with = p PROVE IInv' BY <1>2
<1>3. Core /\ Adds(t) BY DEF IInv, ProviderInv
<1>4. store.provider[p] = "ready" => store.providerSecret[p]
  BY DEF IInv, ProviderInv, ProviderKeepsSecret
<1>5. CASE Return(t) /\ Writes(SetProvider(p, "ready"))
  <2>1. Tasked(t) /\ Ends(t) BY <1>3, <1>5, ReturnEnds DEF Core, Types
  <2>2. faults' \in Nat /\ crashes' \in Nat /\ producer' = producer
    BY <1>3, <1>5, LifecycleAssumption DEF Reads, Writes, Fails, Fault, Core, Types
  <2>3. NewProvider(p, "ready") BY <1>3, <1>5, WriteSets DEF Writes, Core, Types
  <2>4. store'.provider[p] = "ready" /\ store'.providerSecret[p] = store.providerSecret[p]
    BY <1>3, <2>3 DEF NewProvider, Core, Types, Store
  <2>5. ProviderChange(t, p)
    <3>1. store' \in Store /\ SameSessions BY <1>3, <2>3 DEF Core, Types, SameSessions,
      NewProvider
    <3>2. \A x \in Providers \ {p} : /\ store'.provider[x] = store.provider[x]
                                       /\ store'.providerSecret[x] = store.providerSecret[x]
      BY <1>3, <2>3 DEF Core, Types, Store, NewProvider
    <3> QED BY <1>1, <1>5, <2>1, <2>4, <3>1, <3>2 DEF ProviderChange
  <2>6. Adds(t)' /\ task'[t].pc \notin OnProvider BY <2>1 DEF Adds, Ends, Idle, OnProvider
  <2>7. store'.provider[p] = "ready" => store'.providerSecret[p]
    BY <1>1, <1>3, <1>4, <2>4 DEF Adds
  <2> QED BY <1>1, <2>1, <2>2, <2>5, <2>6, <2>7, ProviderStep DEF OnProvider
<1>6. CASE Goto(t, "p_check") /\ Fails(SetProvider(p, "ready"))
  <2>1. Tasked(t) /\ Moves(t, {"p_check"})
    BY <1>3, <1>6, GotoMoves DEF Core, Types, Pcs, OnProvider
  <2>2. faults' \in Nat /\ crashes' \in Nat /\ producer' = producer
    BY <1>3, <1>6, LifecycleAssumption DEF Reads, Writes, Fails, Fault, Core, Types
  <2>3. (store' = store \/ NewProvider(p, "ready")) BY <1>3, <1>6, WriteSets DEF Fails,
      Core, Types
  <2>4. store'.provider[p] \in {store.provider[p], "ready"} /\ store'.providerSecret[p] = store.providerSecret[p]
    BY <1>3, <2>3 DEF NewProvider, Core, Types, Store
  <2>5. ProviderChange(t, p)
    <3>1. store' \in Store /\ SameSessions BY <1>3, <2>3 DEF Core, Types, SameSessions,
      NewProvider
    <3>2. \A x \in Providers \ {p} : /\ store'.provider[x] = store.provider[x]
                                       /\ store'.providerSecret[x] = store.providerSecret[x]
      BY <1>3, <2>3 DEF Core, Types, Store, NewProvider
    <3> QED BY <1>1, <1>6, <2>1, <2>4, <3>1, <3>2 DEF ProviderChange
  <2>6. Moves(t, OnProvider) /\ task'[t].pc = "p_check" BY <2>1 DEF Moves, OnProvider
  <2>7. Adds(t)'
    <3>1. \A u \in Tasks \ {t} : task'[u] = task[u] BY <2>1 DEF Tasked, Others
    <3> QED BY <1>1, <1>3, <1>6, <2>4, <2>6, <3>1 DEF Adds, Moves
  <2>8. store'.provider[p] = "ready" => store'.providerSecret[p]
    BY <1>1, <1>3, <1>4, <2>4 DEF Adds
  <2> QED BY <1>1, <2>1, <2>2, <2>5, <2>6, <2>7, <2>8, ProviderStep DEF OnProvider
<1> QED BY <1>5, <1>6 DEF CommitProvider, ProviderSessions

\* An insert reported as failed is looked up.
LEMMA CheckProviderKeeps ==
  ASSUME IInv, NEW t \in Tasks, CheckProvider(t)
  PROVE  IInv'
<1>1. task[t].pc = "p_check" BY DEF CheckProvider, At
<1>2. task[t].with \in Providers
  BY <1>1 DEF IInv, Core, BootInv, Shaped, OnProvider
<1> SUFFICES ASSUME NEW p \in Providers, task[t].with = p PROVE IInv' BY <1>2
<1>3. Core /\ Adds(t) BY DEF IInv, ProviderInv
<1>4. store.provider[p] = "ready" => store.providerSecret[p]
  BY DEF IInv, ProviderInv, ProviderKeepsSecret
<1>5. CASE Goto(t, "p_undo") /\ Reads /\ UNCHANGED faults /\ store.provider[p] = "none"
  <2>1. Tasked(t) /\ Moves(t, {"p_undo"})
    BY <1>3, <1>5, GotoMoves DEF Core, Types, Pcs, OnProvider
  <2>2. faults' \in Nat /\ crashes' \in Nat /\ producer' = producer
    BY <1>3, <1>5, LifecycleAssumption DEF Reads, Writes, Fails, Fault, Core, Types
  <2>3. store' = store BY <1>5 DEF Reads
  <2>4. store'.provider[p] = store.provider[p] /\ store'.providerSecret[p] = store.providerSecret[p]
    BY <1>3, <2>3
  <2>5. ProviderChange(t, p)
    <3>1. store' \in Store /\ SameSessions BY <1>3, <2>3 DEF Core, Types, SameSessions
    <3>2. \A x \in Providers \ {p} : /\ store'.provider[x] = store.provider[x]
                                       /\ store'.providerSecret[x] = store.providerSecret[x]
      BY <1>3, <2>3 DEF Core, Types, Store
    <3> QED BY <1>1, <1>5, <2>1, <2>4, <3>1, <3>2 DEF ProviderChange
  <2>6. Moves(t, OnProvider) /\ task'[t].pc = "p_undo" BY <2>1 DEF Moves, OnProvider
  <2>7. Adds(t)'
    <3>1. \A u \in Tasks \ {t} : task'[u] = task[u] BY <2>1 DEF Tasked, Others
    <3> QED BY <1>1, <1>3, <1>5, <2>4, <2>6, <3>1 DEF Adds, Moves
  <2>8. store'.provider[p] = "ready" => store'.providerSecret[p]
    BY <1>1, <1>3, <1>4, <2>4 DEF Adds
  <2> QED BY <1>1, <2>1, <2>2, <2>5, <2>6, <2>7, <2>8, ProviderStep DEF OnProvider
<1>6. CASE Return(t) /\ Reads /\ UNCHANGED faults
  <2>1. Tasked(t) /\ Ends(t) BY <1>3, <1>6, ReturnEnds DEF Core, Types
  <2>2. faults' \in Nat /\ crashes' \in Nat /\ producer' = producer
    BY <1>3, <1>6, LifecycleAssumption DEF Reads, Writes, Fails, Fault, Core, Types
  <2>3. store' = store BY <1>6 DEF Reads
  <2>4. store'.provider[p] = store.provider[p] /\ store'.providerSecret[p] = store.providerSecret[p]
    BY <1>3, <2>3
  <2>5. ProviderChange(t, p)
    <3>1. store' \in Store /\ SameSessions BY <1>3, <2>3 DEF Core, Types, SameSessions
    <3>2. \A x \in Providers \ {p} : /\ store'.provider[x] = store.provider[x]
                                       /\ store'.providerSecret[x] = store.providerSecret[x]
      BY <1>3, <2>3 DEF Core, Types, Store
    <3> QED BY <1>1, <1>6, <2>1, <2>4, <3>1, <3>2 DEF ProviderChange
  <2>6. Adds(t)' /\ task'[t].pc \notin OnProvider BY <2>1 DEF Adds, Ends, Idle, OnProvider
  <2>7. store'.provider[p] = "ready" => store'.providerSecret[p]
    BY <1>1, <1>3, <1>4, <2>4 DEF Adds
  <2> QED BY <1>1, <2>1, <2>2, <2>5, <2>6, <2>7, ProviderStep DEF OnProvider
<1>7. CASE Throw(t) /\ Reads /\ Fault
  <2>1. Tasked(t) /\ Ends(t) BY <1>3, <1>7, ReturnEnds DEF Core, Types
  <2>2. faults' \in Nat /\ crashes' \in Nat /\ producer' = producer
    BY <1>3, <1>7, LifecycleAssumption DEF Reads, Writes, Fails, Fault, Core, Types
  <2>3. store' = store BY <1>7 DEF Reads
  <2>4. store'.provider[p] = store.provider[p] /\ store'.providerSecret[p] = store.providerSecret[p]
    BY <1>3, <2>3
  <2>5. ProviderChange(t, p)
    <3>1. store' \in Store /\ SameSessions BY <1>3, <2>3 DEF Core, Types, SameSessions
    <3>2. \A x \in Providers \ {p} : /\ store'.provider[x] = store.provider[x]
                                       /\ store'.providerSecret[x] = store.providerSecret[x]
      BY <1>3, <2>3 DEF Core, Types, Store
    <3> QED BY <1>1, <1>7, <2>1, <2>4, <3>1, <3>2 DEF ProviderChange
  <2>6. Adds(t)' /\ task'[t].pc \notin OnProvider BY <2>1 DEF Adds, Ends, Idle, OnProvider
  <2>7. store'.provider[p] = "ready" => store'.providerSecret[p]
    BY <1>1, <1>3, <1>4, <2>4 DEF Adds
  <2> QED BY <1>1, <2>1, <2>2, <2>5, <2>6, <2>7, ProviderStep DEF OnProvider
<1> QED BY <1>5, <1>6, <1>7 DEF CheckProvider, ProviderSessions

\* The secret of a row that is not there goes.
LEMMA UndoProviderSecretKeeps ==
  ASSUME IInv, NEW t \in Tasks, UndoProviderSecret(t)
  PROVE  IInv'
<1>1. task[t].pc = "p_undo" BY DEF UndoProviderSecret, At
<1>2. task[t].with \in Providers
  BY <1>1 DEF IInv, Core, BootInv, Shaped, OnProvider
<1> SUFFICES ASSUME NEW p \in Providers, task[t].with = p PROVE IInv' BY <1>2
<1>3. Core /\ Adds(t) BY DEF IInv, ProviderInv
<1>4. store.provider[p] = "ready" => store.providerSecret[p]
  BY DEF IInv, ProviderInv, ProviderKeepsSecret
<1>5. CASE Throw(t) /\ Writes(SetProviderSecret(p, FALSE))
  <2>1. Tasked(t) /\ Ends(t) BY <1>3, <1>5, ReturnEnds DEF Core, Types
  <2>2. faults' \in Nat /\ crashes' \in Nat /\ producer' = producer
    BY <1>3, <1>5, LifecycleAssumption DEF Reads, Writes, Fails, Fault, Core, Types
  <2>3. NewProviderSecret(p, FALSE) BY <1>3, <1>5, WriteSets DEF Writes, Core, Types
  <2>4. store'.provider[p] = store.provider[p] /\ store'.providerSecret[p] = FALSE
    BY <1>3, <2>3 DEF NewProviderSecret, Core, Types, Store
  <2>5. ProviderChange(t, p)
    <3>1. store' \in Store /\ SameSessions BY <1>3, <2>3 DEF Core, Types, SameSessions,
      NewProviderSecret
    <3>2. \A x \in Providers \ {p} : /\ store'.provider[x] = store.provider[x]
                                       /\ store'.providerSecret[x] = store.providerSecret[x]
      BY <1>3, <2>3 DEF Core, Types, Store, NewProviderSecret
    <3> QED BY <1>1, <1>5, <2>1, <2>4, <3>1, <3>2 DEF ProviderChange
  <2>6. Adds(t)' /\ task'[t].pc \notin OnProvider BY <2>1 DEF Adds, Ends, Idle, OnProvider
  <2>7. store'.provider[p] = "ready" => store'.providerSecret[p]
    BY <1>1, <1>3, <1>4, <2>4 DEF Adds
  <2> QED BY <1>1, <2>1, <2>2, <2>5, <2>6, <2>7, ProviderStep DEF OnProvider
<1>6. CASE Throw(t) /\ Fails(SetProviderSecret(p, FALSE))
  <2>1. Tasked(t) /\ Ends(t) BY <1>3, <1>6, ReturnEnds DEF Core, Types
  <2>2. faults' \in Nat /\ crashes' \in Nat /\ producer' = producer
    BY <1>3, <1>6, LifecycleAssumption DEF Reads, Writes, Fails, Fault, Core, Types
  <2>3. (store' = store \/ NewProviderSecret(p, FALSE)) BY <1>3, <1>6,
      WriteSets DEF Fails, Core, Types
  <2>4. store'.provider[p] = store.provider[p] /\ (store'.providerSecret[p] => store.providerSecret[p])
    BY <1>3, <2>3 DEF NewProviderSecret, Core, Types, Store
  <2>5. ProviderChange(t, p)
    <3>1. store' \in Store /\ SameSessions BY <1>3, <2>3 DEF Core, Types, SameSessions,
      NewProviderSecret
    <3>2. \A x \in Providers \ {p} : /\ store'.provider[x] = store.provider[x]
                                       /\ store'.providerSecret[x] = store.providerSecret[x]
      BY <1>3, <2>3 DEF Core, Types, Store, NewProviderSecret
    <3> QED BY <1>1, <1>6, <2>1, <2>4, <3>1, <3>2 DEF ProviderChange
  <2>6. Adds(t)' /\ task'[t].pc \notin OnProvider BY <2>1 DEF Adds, Ends, Idle, OnProvider
  <2>7. store'.provider[p] = "ready" => store'.providerSecret[p]
    BY <1>1, <1>3, <1>4, <2>4 DEF Adds
  <2> QED BY <1>1, <2>1, <2>2, <2>5, <2>6, <2>7, ProviderStep DEF OnProvider
<1> QED BY <1>5, <1>6 DEF UndoProviderSecret, ProviderSessions

\* A deletion begins only on a row that is there.
LEMMA BeginProviderDeletionKeeps ==
  ASSUME IInv, NEW t \in Tasks, BeginProviderDeletion(t)
  PROVE  IInv'
<1>1. task[t].pc = "p_begin" BY DEF BeginProviderDeletion, At
<1>2. task[t].with \in Providers
  BY <1>1 DEF IInv, Core, BootInv, Shaped, OnProvider
<1> SUFFICES ASSUME NEW p \in Providers, task[t].with = p PROVE IInv' BY <1>2
<1>3. Core /\ Adds(t) BY DEF IInv, ProviderInv
<1>4. store.provider[p] = "ready" => store.providerSecret[p]
  BY DEF IInv, ProviderInv, ProviderKeepsSecret
<1>5. CASE Throw(t) /\ Reads /\ UNCHANGED faults
  <2>1. Tasked(t) /\ Ends(t) BY <1>3, <1>5, ReturnEnds DEF Core, Types
  <2>2. faults' \in Nat /\ crashes' \in Nat /\ producer' = producer
    BY <1>3, <1>5, LifecycleAssumption DEF Reads, Writes, Fails, Fault, Core, Types
  <2>3. store' = store BY <1>5 DEF Reads
  <2>4. store'.provider[p] = store.provider[p] /\ store'.providerSecret[p] = store.providerSecret[p]
    BY <1>3, <2>3
  <2>5. ProviderChange(t, p)
    <3>1. store' \in Store /\ SameSessions BY <1>3, <2>3 DEF Core, Types, SameSessions
    <3>2. \A x \in Providers \ {p} : /\ store'.provider[x] = store.provider[x]
                                       /\ store'.providerSecret[x] = store.providerSecret[x]
      BY <1>3, <2>3 DEF Core, Types, Store
    <3> QED BY <1>1, <1>5, <2>1, <2>4, <3>1, <3>2 DEF ProviderChange
  <2>6. Adds(t)' /\ task'[t].pc \notin OnProvider BY <2>1 DEF Adds, Ends, Idle, OnProvider
  <2>7. store'.provider[p] = "ready" => store'.providerSecret[p]
    BY <1>1, <1>3, <1>4, <2>4 DEF Adds
  <2> QED BY <1>1, <2>1, <2>2, <2>5, <2>6, <2>7, ProviderStep DEF OnProvider
<1>6. CASE Goto(t, "p_clean") /\ Writes(SetProvider(p, "deleting")) /\ store.provider[p] # "none"
  <2>1. Tasked(t) /\ Moves(t, {"p_clean"})
    BY <1>3, <1>6, GotoMoves DEF Core, Types, Pcs, OnProvider
  <2>2. faults' \in Nat /\ crashes' \in Nat /\ producer' = producer
    BY <1>3, <1>6, LifecycleAssumption DEF Reads, Writes, Fails, Fault, Core, Types
  <2>3. NewProvider(p, "deleting") BY <1>3, <1>6, WriteSets DEF Writes, Core, Types
  <2>4. store'.provider[p] = "deleting" /\ store'.providerSecret[p] = store.providerSecret[p]
    BY <1>3, <2>3 DEF NewProvider, Core, Types, Store
  <2>5. ProviderChange(t, p)
    <3>1. store' \in Store /\ SameSessions BY <1>3, <2>3 DEF Core, Types, SameSessions,
      NewProvider
    <3>2. \A x \in Providers \ {p} : /\ store'.provider[x] = store.provider[x]
                                       /\ store'.providerSecret[x] = store.providerSecret[x]
      BY <1>3, <2>3 DEF Core, Types, Store, NewProvider
    <3> QED BY <1>1, <1>6, <2>1, <2>4, <3>1, <3>2 DEF ProviderChange
  <2>6. Moves(t, OnProvider) /\ task'[t].pc = "p_clean" BY <2>1 DEF Moves, OnProvider
  <2>7. Adds(t)'
    <3>1. \A u \in Tasks \ {t} : task'[u] = task[u] BY <2>1 DEF Tasked, Others
    <3> QED BY <1>1, <1>3, <1>6, <2>4, <2>6, <3>1 DEF Adds, Moves
  <2>8. store'.provider[p] = "ready" => store'.providerSecret[p]
    BY <1>1, <1>3, <1>4, <2>4 DEF Adds
  <2> QED BY <1>1, <2>1, <2>2, <2>5, <2>6, <2>7, <2>8, ProviderStep DEF OnProvider
<1>7. CASE Throw(t) /\ Fails(SetProvider(p, "deleting")) /\ store.provider[p] # "none"
  <2>1. Tasked(t) /\ Ends(t) BY <1>3, <1>7, ReturnEnds DEF Core, Types
  <2>2. faults' \in Nat /\ crashes' \in Nat /\ producer' = producer
    BY <1>3, <1>7, LifecycleAssumption DEF Reads, Writes, Fails, Fault, Core, Types
  <2>3. (store' = store \/ NewProvider(p, "deleting")) BY <1>3, <1>7,
      WriteSets DEF Fails, Core, Types
  <2>4. store'.provider[p] \in {store.provider[p], "deleting"} /\ store'.providerSecret[p] = store.providerSecret[p]
    BY <1>3, <2>3 DEF NewProvider, Core, Types, Store
  <2>5. ProviderChange(t, p)
    <3>1. store' \in Store /\ SameSessions BY <1>3, <2>3 DEF Core, Types, SameSessions,
      NewProvider
    <3>2. \A x \in Providers \ {p} : /\ store'.provider[x] = store.provider[x]
                                       /\ store'.providerSecret[x] = store.providerSecret[x]
      BY <1>3, <2>3 DEF Core, Types, Store, NewProvider
    <3> QED BY <1>1, <1>7, <2>1, <2>4, <3>1, <3>2 DEF ProviderChange
  <2>6. Adds(t)' /\ task'[t].pc \notin OnProvider BY <2>1 DEF Adds, Ends, Idle, OnProvider
  <2>7. store'.provider[p] = "ready" => store'.providerSecret[p]
    BY <1>1, <1>3, <1>4, <2>4 DEF Adds
  <2> QED BY <1>1, <2>1, <2>2, <2>5, <2>6, <2>7, ProviderStep DEF OnProvider
<1> QED BY <1>5, <1>6, <1>7 DEF BeginProviderDeletion, ProviderSessions

\* The secret of a provider that is being deleted goes first.
LEMMA CleanProviderKeeps ==
  ASSUME IInv, NEW t \in Tasks, CleanProvider(t)
  PROVE  IInv'
<1>1. task[t].pc = "p_clean" BY DEF CleanProvider, At
<1>2. task[t].with \in Providers
  BY <1>1 DEF IInv, Core, BootInv, Shaped, OnProvider
<1> SUFFICES ASSUME NEW p \in Providers, task[t].with = p PROVE IInv' BY <1>2
<1>3. Core /\ Adds(t) BY DEF IInv, ProviderInv
<1>4. store.provider[p] = "ready" => store.providerSecret[p]
  BY DEF IInv, ProviderInv, ProviderKeepsSecret
<1>5. CASE Goto(t, "p_final") /\ Writes(SetProviderSecret(p, FALSE))
  <2>1. Tasked(t) /\ Moves(t, {"p_final"})
    BY <1>3, <1>5, GotoMoves DEF Core, Types, Pcs, OnProvider
  <2>2. faults' \in Nat /\ crashes' \in Nat /\ producer' = producer
    BY <1>3, <1>5, LifecycleAssumption DEF Reads, Writes, Fails, Fault, Core, Types
  <2>3. NewProviderSecret(p, FALSE) BY <1>3, <1>5, WriteSets DEF Writes, Core, Types
  <2>4. store'.provider[p] = store.provider[p] /\ store'.providerSecret[p] = FALSE
    BY <1>3, <2>3 DEF NewProviderSecret, Core, Types, Store
  <2>5. ProviderChange(t, p)
    <3>1. store' \in Store /\ SameSessions BY <1>3, <2>3 DEF Core, Types, SameSessions,
      NewProviderSecret
    <3>2. \A x \in Providers \ {p} : /\ store'.provider[x] = store.provider[x]
                                       /\ store'.providerSecret[x] = store.providerSecret[x]
      BY <1>3, <2>3 DEF Core, Types, Store, NewProviderSecret
    <3> QED BY <1>1, <1>5, <2>1, <2>4, <3>1, <3>2 DEF ProviderChange
  <2>6. Moves(t, OnProvider) /\ task'[t].pc = "p_final" BY <2>1 DEF Moves, OnProvider
  <2>7. Adds(t)'
    <3>1. \A u \in Tasks \ {t} : task'[u] = task[u] BY <2>1 DEF Tasked, Others
    <3> QED BY <1>1, <1>3, <1>5, <2>4, <2>6, <3>1 DEF Adds, Moves
  <2>8. store'.provider[p] = "ready" => store'.providerSecret[p]
    BY <1>1, <1>3, <1>4, <2>4 DEF Adds
  <2> QED BY <1>1, <2>1, <2>2, <2>5, <2>6, <2>7, <2>8, ProviderStep DEF OnProvider
<1>6. CASE Throw(t) /\ Fails(SetProviderSecret(p, FALSE))
  <2>1. Tasked(t) /\ Ends(t) BY <1>3, <1>6, ReturnEnds DEF Core, Types
  <2>2. faults' \in Nat /\ crashes' \in Nat /\ producer' = producer
    BY <1>3, <1>6, LifecycleAssumption DEF Reads, Writes, Fails, Fault, Core, Types
  <2>3. (store' = store \/ NewProviderSecret(p, FALSE)) BY <1>3, <1>6,
      WriteSets DEF Fails, Core, Types
  <2>4. store'.provider[p] = store.provider[p] /\ (store'.providerSecret[p] => store.providerSecret[p])
    BY <1>3, <2>3 DEF NewProviderSecret, Core, Types, Store
  <2>5. ProviderChange(t, p)
    <3>1. store' \in Store /\ SameSessions BY <1>3, <2>3 DEF Core, Types, SameSessions,
      NewProviderSecret
    <3>2. \A x \in Providers \ {p} : /\ store'.provider[x] = store.provider[x]
                                       /\ store'.providerSecret[x] = store.providerSecret[x]
      BY <1>3, <2>3 DEF Core, Types, Store, NewProviderSecret
    <3> QED BY <1>1, <1>6, <2>1, <2>4, <3>1, <3>2 DEF ProviderChange
  <2>6. Adds(t)' /\ task'[t].pc \notin OnProvider BY <2>1 DEF Adds, Ends, Idle, OnProvider
  <2>7. store'.provider[p] = "ready" => store'.providerSecret[p]
    BY <1>1, <1>3, <1>4, <2>4 DEF Adds
  <2> QED BY <1>1, <2>1, <2>2, <2>5, <2>6, <2>7, ProviderStep DEF OnProvider
<1> QED BY <1>5, <1>6 DEF CleanProvider, ProviderSessions

\* The row of a provider that is being deleted goes last.
LEMMA FinalizeProviderDeletionKeeps ==
  ASSUME IInv, NEW t \in Tasks, FinalizeProviderDeletion(t)
  PROVE  IInv'
<1>1. task[t].pc = "p_final" BY DEF FinalizeProviderDeletion, At
<1>2. task[t].with \in Providers
  BY <1>1 DEF IInv, Core, BootInv, Shaped, OnProvider
<1> SUFFICES ASSUME NEW p \in Providers, task[t].with = p PROVE IInv' BY <1>2
<1>3. Core /\ Adds(t) BY DEF IInv, ProviderInv
<1>4. store.provider[p] = "ready" => store.providerSecret[p]
  BY DEF IInv, ProviderInv, ProviderKeepsSecret
<1>5. CASE Return(t) /\ Reads /\ UNCHANGED faults /\ store.provider[p] # "deleting"
  <2>1. Tasked(t) /\ Ends(t) BY <1>3, <1>5, ReturnEnds DEF Core, Types
  <2>2. faults' \in Nat /\ crashes' \in Nat /\ producer' = producer
    BY <1>3, <1>5, LifecycleAssumption DEF Reads, Writes, Fails, Fault, Core, Types
  <2>3. store' = store BY <1>5 DEF Reads
  <2>4. store'.provider[p] = store.provider[p] /\ store'.providerSecret[p] = store.providerSecret[p]
    BY <1>3, <2>3
  <2>5. ProviderChange(t, p)
    <3>1. store' \in Store /\ SameSessions BY <1>3, <2>3 DEF Core, Types, SameSessions
    <3>2. \A x \in Providers \ {p} : /\ store'.provider[x] = store.provider[x]
                                       /\ store'.providerSecret[x] = store.providerSecret[x]
      BY <1>3, <2>3 DEF Core, Types, Store
    <3> QED BY <1>1, <1>5, <2>1, <2>4, <3>1, <3>2 DEF ProviderChange
  <2>6. Adds(t)' /\ task'[t].pc \notin OnProvider BY <2>1 DEF Adds, Ends, Idle, OnProvider
  <2>7. store'.provider[p] = "ready" => store'.providerSecret[p]
    BY <1>1, <1>3, <1>4, <2>4 DEF Adds
  <2> QED BY <1>1, <2>1, <2>2, <2>5, <2>6, <2>7, ProviderStep DEF OnProvider
<1>6. CASE Return(t) /\ Writes(SetProvider(p, "none")) /\ store.provider[p] = "deleting"
  <2>1. Tasked(t) /\ Ends(t) BY <1>3, <1>6, ReturnEnds DEF Core, Types
  <2>2. faults' \in Nat /\ crashes' \in Nat /\ producer' = producer
    BY <1>3, <1>6, LifecycleAssumption DEF Reads, Writes, Fails, Fault, Core, Types
  <2>3. NewProvider(p, "none") BY <1>3, <1>6, WriteSets DEF Writes, Core, Types
  <2>4. store'.provider[p] = "none" /\ store'.providerSecret[p] = store.providerSecret[p]
    BY <1>3, <2>3 DEF NewProvider, Core, Types, Store
  <2>5. ProviderChange(t, p)
    <3>1. store' \in Store /\ SameSessions BY <1>3, <2>3 DEF Core, Types, SameSessions,
      NewProvider
    <3>2. \A x \in Providers \ {p} : /\ store'.provider[x] = store.provider[x]
                                       /\ store'.providerSecret[x] = store.providerSecret[x]
      BY <1>3, <2>3 DEF Core, Types, Store, NewProvider
    <3> QED BY <1>1, <1>6, <2>1, <2>4, <3>1, <3>2 DEF ProviderChange
  <2>6. Adds(t)' /\ task'[t].pc \notin OnProvider BY <2>1 DEF Adds, Ends, Idle, OnProvider
  <2>7. store'.provider[p] = "ready" => store'.providerSecret[p]
    BY <1>1, <1>3, <1>4, <2>4 DEF Adds
  <2> QED BY <1>1, <2>1, <2>2, <2>5, <2>6, <2>7, ProviderStep DEF OnProvider
<1>7. CASE Goto(t, "p_final") /\ Fails(SetProvider(p, "none")) /\ store.provider[p] = "deleting"
  <2>1. Tasked(t) /\ Moves(t, {"p_final"})
    BY <1>3, <1>7, GotoMoves DEF Core, Types, Pcs, OnProvider
  <2>2. faults' \in Nat /\ crashes' \in Nat /\ producer' = producer
    BY <1>3, <1>7, LifecycleAssumption DEF Reads, Writes, Fails, Fault, Core, Types
  <2>3. (store' = store \/ NewProvider(p, "none")) BY <1>3, <1>7, WriteSets DEF Fails,
      Core, Types
  <2>4. store'.provider[p] \in {store.provider[p], "none"} /\ store'.providerSecret[p] = store.providerSecret[p]
    BY <1>3, <2>3 DEF NewProvider, Core, Types, Store
  <2>5. ProviderChange(t, p)
    <3>1. store' \in Store /\ SameSessions BY <1>3, <2>3 DEF Core, Types, SameSessions,
      NewProvider
    <3>2. \A x \in Providers \ {p} : /\ store'.provider[x] = store.provider[x]
                                       /\ store'.providerSecret[x] = store.providerSecret[x]
      BY <1>3, <2>3 DEF Core, Types, Store, NewProvider
    <3> QED BY <1>1, <1>7, <2>1, <2>4, <3>1, <3>2 DEF ProviderChange
  <2>6. Moves(t, OnProvider) /\ task'[t].pc = "p_final" BY <2>1 DEF Moves, OnProvider
  <2>7. Adds(t)'
    <3>1. \A u \in Tasks \ {t} : task'[u] = task[u] BY <2>1 DEF Tasked, Others
    <3> QED BY <1>1, <1>3, <1>7, <2>4, <2>6, <3>1 DEF Adds, Moves
  <2>8. store'.provider[p] = "ready" => store'.providerSecret[p]
    BY <1>1, <1>3, <1>4, <2>4 DEF Adds
  <2> QED BY <1>1, <2>1, <2>2, <2>5, <2>6, <2>7, <2>8, ProviderStep DEF OnProvider
<1> QED BY <1>5, <1>6, <1>7 DEF FinalizeProviderDeletion, ProviderSessions

---------------------------------------------------------------------------
(* Calls that begin.                                                       *)

\* A task that begins on a session which exists, is only read, or is recovered.
LEMMA SessionBegins ==
  ASSUME IInv, NEW t \in Tasks, NEW s \in Sessions, Tasked(t),
         task[t].on = NoTask, task[t].pc # "free" \/ (Up /\ t # Boot),
         task'[t].on = s, task'[t].pc \in OnSession \ Young, Shaped(t)', Knows(t)',
         store' = store, producer' = producer, faults' \in Nat, crashes' \in Nat,
         t = Boot => task'[t].pc \in OfBoot \ {"free"},
         task'[t].pc \in {"read", "delete"} \/ Live(s) \/ ~Up,
         s \in store.used \/ task'[t].pc = "read"
  PROVE  IInv'
<1>1. Core /\ SessionInv /\ ProviderInv BY DEF IInv
<1>2. Core'
  BY <1>1, CoreKept DEF Core, Types
<1>3. ProviderInv'
  <2>1. task'[t].pc \notin OnProvider BY DEF OnProvider, OnSession, Young, Deleting
  <2> QED BY <1>1, <2>1, ProvidersKept DEF SameProviders
<1>4. \A u \in Tasks \ {t} : task'[u] = task[u] BY DEF Tasked, Others
<1>5. \A x \in Sessions : RowInv(x)' BY <1>1 DEF SessionInv, RowInv
<1>6. NoLostCredential' /\ SessionKeepsCredential' /\ CredentialOutlivesProducer'
  BY <1>1 DEF SessionInv, NoLostCredential, SessionKeepsCredential,
      CredentialOutlivesProducer, Live
<1>7. \A u \in Tasks : Knows(u)'
  BY <1>1, <1>4 DEF SessionInv, Knows, Live
<1>8. ASSUME NEW u \in Tasks PROVE Fresh(u)'
  <2>1. CASE u = t BY <2>1 DEF Fresh
  <2>2. CASE u # t /\ task[u].pc \in Young
    <3>1. Fresh(u) BY <1>1 DEF SessionInv, FreshInv
    <3>2. Up
      <4>1. CASE t = Boot
        BY <1>1, <2>2, <4>1 DEF Core, BootInv, Idle, Young, Up
      <4>2. CASE t # Boot
        BY <1>1, <2>2, <4>2 DEF Core, BootInv, Idle, Young, Up, OfBoot, Deleting
      <4> QED BY <4>1, <4>2
    <3> QED BY <1>4, <2>2, <3>1, <3>2 DEF Fresh, Live
  <2>3. CASE u # t /\ task[u].pc \notin Young BY <1>4, <2>3 DEF Fresh
  <2> QED BY <2>1, <2>2, <2>3
<1>9. FreshInv'
  <2>1. \A x \in Sessions \ store.used : \A u \in Tasks : task'[u].on = x => task'[u].pc = "read"
    BY <1>1, <1>4 DEF SessionInv, FreshInv
  <2> QED BY <1>1, <1>8, <2>1 DEF SessionInv, FreshInv, Live
<1> QED BY <1>2, <1>3, <1>5, <1>6, <1>7, <1>9 DEF IInv, SessionInv

\* A task whose new place is about no session and no provider.
LEMMA PlainStep ==
  ASSUME IInv, NEW t \in Tasks, Tasked(t), task[t].pc # "free" \/ (Up /\ t # Boot),
         task'[t].on = NoTask, task'[t].pc \notin OnSession \cup OnProvider,
         store' \in Store, SameSessions, SameProviders, producer' = producer,
         faults' \in Nat, crashes' \in Nat, t = Boot => task'[t].pc \in OfBoot \ {"free"}
  PROVE  IInv'
<1>1. Core /\ SessionInv /\ ProviderInv BY DEF IInv
<1>2. Shaped(t)' BY DEF Shaped, OnSession, OnProvider, Young
<1>3. Core' BY <1>1, <1>2, CoreKept DEF Core, Types
<1>4. SessionInv' BY <1>1, SessionsKept DEF Core
<1>5. ProviderInv' BY <1>1, ProvidersKept
<1> QED BY <1>3, <1>4, <1>5 DEF IInv

\* create takes an identifier nobody has used.
LEMMA CreateKeeps ==
  ASSUME IInv, NEW t \in Requests, NEW s \in Sessions, NEW p \in Providers, NEW q \in Profiles,
         NEW o \in BOOLEAN, create(t, s, p, q, o)
  PROVE  IInv'
<1> DEFINE r == [pc |-> "lookup", on |-> s, with |-> p, via |-> q, owned |-> o, rev |-> 0]
<1>1. Core /\ SessionInv /\ ProviderInv BY DEF IInv
<1>2. t \in Tasks /\ t # Boot /\ NoTask \notin Sessions BY LifecycleAssumption DEF Tasks
<1>3. r \in Task BY DEF Task, Pcs, OnSession, Young
<1>4. r.pc = "lookup" /\ r.on = s /\ r.with = p OBVIOUS
<1>5. Up /\ task' = [task EXCEPT ![t] = r] BY DEF create
<1> HIDE DEF r
<1>6. Tasked(t) /\ task'[t] = r BY <1>1, <1>2, <1>3, <1>5 DEF Core, Types, Tasked, Others
<1>7. \A u \in Tasks \ {t} : task'[u] = task[u] BY <1>6 DEF Tasked, Others
<1>8. /\ store' \in Store /\ store'.row = store.row /\ store'.marker = store.marker
      /\ store'.secret = store.secret /\ SameProviders /\ store'.used = store.used \cup {s}
  BY <1>1 DEF create, Core, Types, Store, SameProviders
<1>9. producer' = producer /\ faults' \in Nat /\ crashes' \in Nat /\ s \notin store.used
  BY <1>1 DEF create, Core, Types
<1>10. Core'
  <2>1. Shaped(t)' BY <1>4, <1>6 DEF Shaped, OnSession, OnProvider, Young
  <2> QED BY <1>1, <1>2, <1>5, <1>6, <1>8, <1>9, <2>1, CoreKept DEF Core, Types
<1>11. ProviderInv'
  <2>1. task'[t].pc \notin OnProvider BY <1>4, <1>6 DEF OnProvider
  <2> QED BY <1>1, <1>2, <1>6, <1>8, <2>1, ProvidersKept
<1>12. /\ ~Live(s) /\ ~store.secret[s] /\ ~store.marker[s]
       /\ \A u \in Tasks : task[u].on = s => task[u].pc = "read"
  BY <1>1, <1>9 DEF SessionInv, FreshInv
<1>13. \A x \in Sessions : RowInv(x)' BY <1>1, <1>8 DEF SessionInv, RowInv
<1>14. NoLostCredential' /\ SessionKeepsCredential' /\ CredentialOutlivesProducer'
  BY <1>1, <1>8, <1>9 DEF SessionInv, NoLostCredential, SessionKeepsCredential,
                          CredentialOutlivesProducer, Live
<1>15. ASSUME NEW u \in Tasks PROVE Knows(u)'
  <2>1. CASE u = t BY <1>4, <1>6, <1>8, <1>12, <2>1 DEF Knows, Deleting
  <2>2. CASE u # t BY <1>1, <1>7, <1>8, <1>9, <2>2 DEF SessionInv, Knows, Live
  <2> QED BY <2>1, <2>2
<1>16. ASSUME NEW u \in Tasks PROVE Fresh(u)'
  <2>1. CASE u = t BY <1>4, <1>6, <1>7, <1>8, <1>12, <2>1 DEF Fresh, Live
  <2>2. CASE u # t
    <3>1. Fresh(u) BY <1>1 DEF SessionInv, FreshInv
    <3>2. task[u].pc \in Young => task[u].on # s BY <1>12 DEF Young
    <3> QED BY <1>4, <1>6, <1>7, <1>8, <2>2, <3>1, <3>2 DEF Fresh, Live
  <2> QED BY <2>1, <2>2
<1>17. FreshInv'
  <2>1. \A x \in Sessions \ store'.used : \A u \in Tasks : task'[u].on = x => task'[u].pc = "read"
    BY <1>1, <1>4, <1>6, <1>7, <1>8 DEF SessionInv, FreshInv
  <2> QED BY <1>1, <1>8, <1>16, <2>1 DEF SessionInv, FreshInv, Live
<1> QED BY <1>10, <1>11, <1>13, <1>14, <1>15, <1>17 DEF IInv, SessionInv

\* control and delete begin on a session without touching it.
LEMMA CallsKeep ==
  ASSUME IInv, NEW t \in Requests, NEW s \in Sessions,
         (\E state \in States : control(t, s, state)) \/ delete(t, s)
  PROVE  IInv'
<1>1. t \in Tasks /\ t # Boot BY LifecycleAssumption DEF Tasks
<1>2. Core BY DEF IInv
<1>3. PICK pc \in {"read", "delete"}, with \in States \cup {NoTask} :
        /\ Begin(t, pc, s, with, NoTask) /\ Reads /\ UNCHANGED faults
        /\ pc = "read" => with \in States
        /\ pc = "delete" => s \in store.used
  BY DEF control, delete
<1>4. pc \in Pcs BY DEF Pcs, OnSession
<1>5. Up /\ task[t] = Idle /\ Tasked(t) /\ task'[t].pc = pc /\ task'[t].on = s /\ task'[t].with = with
  BY <1>1, <1>2, <1>3, <1>4, BeginStarts DEF Core, Types
<1>6. task[t].on = NoTask BY <1>5 DEF Idle
<1>7. Shaped(t)' /\ Knows(t)'
  BY <1>3, <1>5 DEF Shaped, Knows, OnSession, OnProvider, Young, Deleting
<1>8. store' = store /\ producer' = producer /\ faults' \in Nat /\ crashes' \in Nat
  BY <1>2, <1>3 DEF Reads, Core, Types
<1> QED BY <1>1, <1>3, <1>5, <1>6, <1>7, <1>8, SessionBegins DEF OnSession, Young

\* createProvider and deleteProvider begin on a provider.
LEMMA ProviderCallsKeep ==
  ASSUME IInv, NEW t \in Requests, NEW p \in Providers,
         createProvider(t, p) \/ deleteProvider(t, p)
  PROVE  IInv'
<1>1. t \in Tasks /\ t # Boot BY LifecycleAssumption DEF Tasks
<1>2. Core /\ SessionInv /\ ProviderInv BY DEF IInv
<1>3. PICK pc \in {"p_secret", "p_begin"} :
        /\ Begin(t, pc, NoTask, p, NoTask) /\ Reads /\ UNCHANGED faults
        /\ pc = "p_secret" => store.provider[p] = "none" /\ \A u \in Tasks : task[u].with # p
  BY DEF createProvider, deleteProvider
<1>4. pc \in Pcs BY DEF Pcs, OnProvider
<1>5. Up /\ task[t] = Idle /\ Tasked(t) /\ task'[t].pc = pc /\ task'[t].on = NoTask /\ task'[t].with = p
  BY <1>1, <1>2, <1>3, <1>4, BeginStarts DEF Core, Types
<1>6. store' = store /\ producer' = producer /\ faults' \in Nat /\ crashes' \in Nat
  BY <1>2, <1>3 DEF Reads, Core, Types
<1>7. Shaped(t)' /\ task'[t].pc \notin OnSession
  BY <1>5 DEF Shaped, OnSession, OnProvider, Young, Deleting
<1>8. Core' BY <1>1, <1>2, <1>5, <1>6, <1>7, CoreKept DEF Core, Types
<1>9. SessionInv' BY <1>1, <1>2, <1>5, <1>6, <1>7, SessionsKept DEF SameSessions, Core
<1>10. \A u \in Tasks \ {t} : task'[u] = task[u] BY <1>5 DEF Tasked, Others
<1>11. ASSUME NEW u \in Tasks PROVE Adds(u)'
  <2>1. CASE u = t BY <1>3, <1>5, <1>6, <1>10, <2>1 DEF Adds
  <2>2. CASE u # t
    <3>1. Adds(u) BY <1>2 DEF ProviderInv
    <3>2. pc = "p_begin" \/ task[u].with # p BY <1>3
    <3> QED BY <1>5, <1>6, <1>10, <2>2, <3>1, <3>2 DEF Adds
  <2> QED BY <2>1, <2>2
<1>12. ProviderKeepsSecret' BY <1>2, <1>6 DEF ProviderInv, ProviderKeepsSecret
<1> QED BY <1>8, <1>9, <1>11, <1>12 DEF IInv, ProviderInv

\* Profiles come and go without a trace in the invariant.
LEMMA ProfilesKeep ==
  ASSUME IInv, NEW t \in Requests, NEW q \in Profiles, putProfile(t, q) \/ deleteProfile(t, q)
  PROVE  IInv'
<1>1. t \in Tasks /\ t # Boot BY LifecycleAssumption DEF Tasks
<1>2. Core BY DEF IInv
<1>3. CASE putProfile(t, q)
  <2>1. Up /\ task[t] = Idle /\ task' = task /\ producer' = producer
        /\ faults' = faults /\ crashes' = crashes /\ store' = SetProfiles(store.profiles \cup {q})
    BY <1>3 DEF putProfile, Writes
  <2>2. store.profiles \cup {q} \in SUBSET Profiles BY <1>2 DEF Core, Types, Store
  <2>3. store' \in Store /\ SameSessions /\ SameProviders
    BY <1>2, <2>1, <2>2, ProfilesSet DEF Core, Types
  <2>4. Tasked(t) /\ task'[t].on = NoTask /\ task'[t].pc = "free"
    BY <1>2, <2>1 DEF Tasked, Others, Core, Types, Idle
  <2> QED BY <1>1, <1>2, <2>1, <2>3, <2>4, PlainStep
        DEF Core, Types, OnSession, OnProvider, Young, Deleting
<1>4. CASE deleteProfile(t, q)
  <2>1. Begin(t, "q_delete", NoTask, NoTask, q) /\ Reads /\ UNCHANGED faults
    BY <1>4 DEF deleteProfile
  <2>2. Up /\ Tasked(t) /\ task'[t].pc = "q_delete" /\ task'[t].on = NoTask
    BY <1>1, <1>2, <2>1, BeginStarts DEF Core, Types, Pcs
  <2>3. /\ store' \in Store /\ SameSessions /\ SameProviders /\ producer' = producer
        /\ faults' \in Nat /\ crashes' \in Nat
    BY <1>2, <2>1 DEF Reads, Core, Types, SameSessions, SameProviders
  <2> QED BY <1>1, <2>2, <2>3, PlainStep DEF OnSession, OnProvider, Young, Deleting
<1> QED BY <1>3, <1>4

\* The second half of deleteProfile.
LEMMA RemoveProfileKeeps ==
  ASSUME IInv, NEW t \in Tasks, RemoveProfile(t)
  PROVE  IInv'
<1>1. task[t].pc = "q_delete" BY DEF RemoveProfile, At
<1>2. Core BY DEF IInv
<1>3. t # Boot BY <1>1, <1>2 DEF Core, BootInv, OfBoot, Deleting
<1>4. Tasked(t) /\ Ends(t) BY <1>2, ReturnEnds DEF Core, Types, RemoveProfile
<1>5. producer' = producer /\ faults' = faults /\ crashes' = crashes
      /\ store' = SetProfiles(store.profiles \ {task[t].via})
  BY DEF RemoveProfile, Writes
<1>6. store' \in Store /\ SameSessions /\ SameProviders
  <2>1. store.profiles \ {task[t].via} \in SUBSET Profiles BY <1>2 DEF Core, Types, Store
  <2> QED BY <1>2, <1>5, <2>1, ProfilesSet DEF Core, Types
<1>7. task'[t].on = NoTask /\ task'[t].pc = "free" BY <1>3, <1>4 DEF Ends, Idle
<1> QED BY <1>1, <1>2, <1>3, <1>4, <1>5, <1>6, <1>7, PlainStep
      DEF Core, Types, OnSession, OnProvider, Young, Deleting

\* The retention sweep begins on a session that is there.
LEMMA SweepsKeep ==
  ASSUME IInv, NEW s \in Sessions, SweepPending(s) \/ SweepInactive(s)
  PROVE  IInv'
<1> DEFINE t == Sweeper
<1>1. t \in Tasks /\ t # Boot BY LifecycleAssumption DEF Tasks
<1>2. Core /\ RowInv(s) /\ FreshInv BY DEF IInv, SessionInv
<1> HIDE DEF t
<1>3. Up /\ task[t] = Idle
  BY DEF SweepPending, SweepInactive, Begin, t
<1>4. task[t].on = NoTask BY <1>3 DEF Idle
<1>5. store' = store /\ producer' = producer /\ faults' \in Nat /\ crashes' \in Nat
  BY <1>2 DEF Reads, Core, Types, SweepPending, SweepInactive
<1>6. Live(s)
  BY <1>2 DEF SweepPending, SweepInactive, RowInv, Live, NoRow, Core, Types, Store, Row
<1>7. s \in store.used BY <1>2, <1>6 DEF FreshInv
<1>8. CASE SweepPending(s)
  <2>1. Begin(t, "delete", s, NoTask, NoTask) BY <1>8 DEF SweepPending, t
  <2>2. Tasked(t) /\ task'[t].pc = "delete" /\ task'[t].on = s
    BY <1>1, <1>2, <2>1, BeginStarts DEF Core, Types, Pcs, OnSession
  <2>3. Shaped(t)' /\ Knows(t)'
    BY <2>2 DEF Shaped, Knows, OnSession, OnProvider, Young, Deleting
  <2> QED BY <1>1, <1>3, <1>4, <1>5, <1>7, <2>2, <2>3, SessionBegins DEF OnSession, Young
<1>9. CASE SweepInactive(s)
  <2> DEFINE r == [task[t] EXCEPT !.pc = "begin", !.on = s, !.owned = store.row[s].owned]
  <2>1. task[t] \in Task /\ store.row[s].owned \in BOOLEAN
    BY <1>1, <1>2 DEF Core, Types, Store, Row
  <2>2. r.pc = "begin" /\ r.on = s /\ r.owned = store.row[s].owned BY <2>1 DEF Task
  <2>3. r \in Task BY <2>1 DEF Task, Pcs, OnSession
  <2>4. task' = [task EXCEPT ![t] = r] BY <1>9 DEF SweepInactive, t
  <2> HIDE DEF r
  <2>5. Tasked(t) /\ task'[t] = r BY <1>1, <1>2, <2>3, <2>4 DEF Core, Types, Tasked,
      Others
  <2>6. Shaped(t)' BY <2>2, <2>5 DEF Shaped, OnSession, OnProvider, Young
  <2>7. Knows(t)'
    <3>1. store.row[s].owned \/ ~store.secret[s] BY <1>2, <1>6 DEF RowInv, Live
    <3> QED BY <1>5, <2>2, <2>5, <3>1 DEF Knows, Deleting
  <2> QED BY <1>1, <1>3, <1>4, <1>5, <1>6, <1>7, <2>2, <2>5, <2>6, <2>7, SessionBegins
        DEF OnSession, Young
<1> QED BY <1>8, <1>9

---------------------------------------------------------------------------
(* Producers, start-up and crashes.                                        *)

\* A producer starts on a session that is not being deleted and has what it needs.
LEMMA ProducerStep ==
  ASSUME IInv, NEW s \in Sessions, NEW state \in {"none", "starting", "running"},
         producer' = [producer EXCEPT ![s] = state], UNCHANGED <<store, task, faults, crashes>>,
         state # "none" => Up /\ ((Live(s) /\ ~store.row[s].deleting) \/ producer[s] # "none"),
         state = "running" => (store.row[s].owned => store.secret[s])
  PROVE  IInv'
<1>1. Core /\ SessionInv /\ ProviderInv BY DEF IInv
<1>2. producer'[s] = state /\ \A x \in Sessions \ {s} : producer'[x] = producer[x]
  BY <1>1 DEF Core, Types
<1>3. Core'
  <2>1. Types' BY <1>1 DEF Core, Types
  <2>2. \A t \in Tasks : Shaped(t)' BY <1>1 DEF Core, BootInv, Shaped
  <2>3. task'[Boot].pc \in OfBoot BY <1>1 DEF Core, BootInv
  <2>4. ~Up' => /\ \A t \in Tasks \ {Boot} : task'[t] = Idle
                /\ \A x \in Sessions : producer'[x] = "none"
    BY <1>1, <1>2 DEF Core, BootInv, Up
  <2> QED BY <2>1, <2>2, <2>3, <2>4 DEF Core, BootInv
<1>4. ProviderInv' BY <1>1 DEF ProviderInv, Adds, ProviderKeepsSecret
<1>5. FreshInv' BY <1>1 DEF SessionInv, FreshInv, Fresh, Live
<1>6. \A x \in Sessions : RowInv(x)' BY <1>1 DEF SessionInv, RowInv
<1>7. NoLostCredential' /\ SessionKeepsCredential' /\ CredentialOutlivesProducer'
  BY <1>1, <1>2 DEF SessionInv, NoLostCredential, SessionKeepsCredential,
                    CredentialOutlivesProducer, Live
<1>8. ASSUME NEW t \in Tasks PROVE Knows(t)'
  <2>1. Knows(t) BY <1>1 DEF SessionInv
  <2>2. task[t].pc \in Deleting => task[t].on \in Sessions
    BY <1>1 DEF Core, BootInv, Shaped, OnSession
  <2>3. task[t].pc \in Deleting \ {"stop"} => producer'[task[t].on] = "none"
    <3> SUFFICES ASSUME task[t].pc \in Deleting \ {"stop"} PROVE producer'[task[t].on] = "none"
      OBVIOUS
    <3>1. producer[task[t].on] = "none" /\ (Live(task[t].on) => store.row[task[t].on].deleting)
      BY <2>1 DEF Knows
    <3> QED BY <1>2, <2>2, <3>1
  <2> QED BY <2>1, <2>3 DEF Knows, Live
<1> QED BY <1>3, <1>4, <1>5, <1>6, <1>7, <1>8 DEF IInv, SessionInv

\* StartProducer, ProducerStarted and ProducerEnds.
LEMMA ProducersKeep ==
  ASSUME IInv, NEW s \in Sessions, StartProducer(s) \/ ProducerStarted(s) \/ ProducerEnds(s)
  PROVE  IInv'
<1>1. Core /\ RowInv(s) BY DEF IInv, SessionInv
<1>2. CASE StartProducer(s)
  <2>1. Live(s) /\ ~store.row[s].deleting BY <1>1, <1>2 DEF StartProducer, RowInv
  <2> QED BY <1>2, <2>1, ProducerStep DEF StartProducer
<1>3. CASE ProducerStarted(s)
  <2>1. Up BY <1>1, <1>3 DEF ProducerStarted, Core, BootInv
  <2>2. CASE store.row[s].owned => store.secret[s]
    <3>1. producer' = [producer EXCEPT ![s] = "running"] BY <1>3, <2>2 DEF ProducerStarted
    <3> QED BY <1>3, <2>1, <2>2, <3>1, ProducerStep DEF ProducerStarted
  <2>3. CASE ~(store.row[s].owned => store.secret[s])
    <3>1. producer' = [producer EXCEPT ![s] = "none"] BY <1>3, <2>3 DEF ProducerStarted
    <3> QED BY <1>3, <2>1, <3>1, ProducerStep DEF ProducerStarted
  <2> QED BY <2>2, <2>3
<1>4. CASE ProducerEnds(s) BY <1>4, ProducerStep DEF ProducerEnds
<1> QED BY <1>2, <1>3, <1>4

\* With no call in progress and no producer only rows and secrets matter.
Quiet(t) == task[t].on = NoTask /\ task[t].pc \in {"free", "seed", "seeding", "recover"}
AtRest ==
  /\ Types
  /\ \A t \in Tasks : Quiet(t)
  /\ \A t \in Tasks \ {Boot} : task[t] = Idle
  /\ \A s \in Sessions : producer[s] = "none" /\ RowInv(s) /\ CredInv(s)
  /\ \A s \in Sessions \ store.used : ~Live(s) /\ ~store.secret[s] /\ ~store.marker[s]
  /\ ProviderKeepsSecret

\* At rest the invariant says no more than that.
LEMMA RestHolds ==
  ASSUME AtRest
  PROVE  IInv
<1>1. \A t \in Tasks : Quiet(t) BY DEF AtRest
<1>2. Core
  <2>1. \A t \in Tasks : Shaped(t)
    BY <1>1 DEF Quiet, Shaped, OnSession, OnProvider, Young, Deleting
  <2>2. task[Boot].pc \in OfBoot BY <1>1 DEF Quiet, OfBoot, Tasks
  <2> QED BY <2>1, <2>2 DEF AtRest, Core, BootInv
<1>3. \A t \in Tasks : Knows(t) BY <1>1 DEF Quiet, Knows, Deleting
<1>4. \A t \in Tasks : Fresh(t) BY <1>1 DEF Quiet, Fresh, Young
<1>5. FreshInv
  <2>1. \A s \in Sessions, t \in Tasks : task[t].on # s BY <1>1,
      LifecycleAssumption DEF Quiet
  <2> QED BY <1>4, <2>1 DEF FreshInv, AtRest
<1>6. \A t \in Tasks : Adds(t) BY <1>1 DEF Quiet, Adds
<1>7. /\ \A s \in Sessions : RowInv(s)
      /\ NoLostCredential /\ SessionKeepsCredential /\ CredentialOutlivesProducer
  BY DEF AtRest, CredInv, NoLostCredential, SessionKeepsCredential,
      CredentialOutlivesProducer
<1> QED BY <1>2, <1>3, <1>5, <1>6, <1>7 DEF IInv, SessionInv, ProviderInv, AtRest

\* What the store alone satisfies, whatever is in progress.
LEMMA StoreFacts ==
  ASSUME IInv
  PROVE  /\ \A s \in Sessions : RowInv(s) /\ CredInv(s)
         /\ \A s \in Sessions \ store.used : ~Live(s) /\ ~store.secret[s] /\ ~store.marker[s]
         /\ ProviderKeepsSecret
BY DEF IInv, SessionInv, FreshInv, ProviderInv, CredInv, NoLostCredential,
       SessionKeepsCredential, CredentialOutlivesProducer

\* The start-up begins from the built-in state of every part.
LEMMA InitIInv == Init => IInv
<1> SUFFICES ASSUME Init PROVE AtRest BY RestHolds
<1>1. NoRow \in Row /\ NoRow.rev = 0 /\ ~NoRow.owned /\ ~NoRow.deleting
  BY DEF NoRow, Row, States
<1>2. Idle \in Task /\ [Idle EXCEPT !.pc = "seed"] \in Task
  BY DEF Idle, Task, Pcs
<1>3. \A t \in Tasks : task[t] = IF t = Boot THEN [Idle EXCEPT !.pc = "seed"] ELSE Idle
  BY DEF Init
<1>4. task \in [Tasks -> Task] BY <1>2, <1>3 DEF Init
<1>5. \A t \in Tasks : Quiet(t) BY <1>3 DEF Quiet, Idle
<1>6. \A s \in Sessions : /\ store.row[s] = NoRow /\ store.marker[s] = FALSE
                          /\ store.secret[s] = FALSE /\ producer[s] = "none"
  BY DEF Init
<1>7. store \in Store
  <2>1. [s \in Sessions |-> NoRow] \in [Sessions -> Row] BY <1>1
  <2> QED BY <2>1 DEF Init, Store
<1>8. Types BY <1>4, <1>7 DEF Init, Types
<1>9. \A s \in Sessions : RowInv(s) BY <1>1, <1>6 DEF RowInv
<1>10. \A s \in Sessions : CredInv(s) BY <1>1, <1>6 DEF CredInv
<1>11. \A s \in Sessions : ~Live(s) BY <1>1, <1>6 DEF Live
<1>12. \A p \in Providers : store.provider[p] = "none" BY DEF Init
<1>13. ProviderKeepsSecret BY <1>12 DEF ProviderKeepsSecret
<1> QED BY <1>3, <1>5, <1>6, <1>8, <1>9, <1>10, <1>11, <1>13 DEF AtRest

\* A crash leaves the store, which holds what the next start needs.
LEMMA CrashKeeps ==
  ASSUME IInv, Crash
  PROVE  IInv'
<1> DEFINE first == [Idle EXCEPT !.pc = "seed"]
<1>1. Idle \in Task /\ first \in Task /\ first.pc = "seed" /\ first.on = NoTask
      /\ Idle.pc = "free" /\ Idle.on = NoTask
  BY DEF Idle, Task, Pcs
<1> HIDE DEF first
<1>2. task' = [t \in Tasks |-> IF t = Boot THEN first ELSE Idle] BY DEF Crash, first
<1>3. task' \in [Tasks -> Task] /\ \A t \in Tasks : Quiet(t)' BY <1>1, <1>2 DEF Quiet
<1>4. producer' = [s \in Sessions |-> "none"] /\ store' = store BY DEF Crash
<1>5. crashes' \in Nat /\ faults' \in Nat BY DEF Crash, IInv, Core, Types
<1>6. Types' BY <1>3, <1>4, <1>5 DEF IInv, Core, Types
<1>7. \A s \in Sessions : producer'[s] = "none" /\ RowInv(s)' /\ CredInv(s)'
  <2>1. \A s \in Sessions : RowInv(s) /\ CredInv(s) BY StoreFacts
  <2> QED BY <1>4, <2>1 DEF RowInv, CredInv, Live
<1>8. \A s \in Sessions \ store'.used : ~Live(s)' /\ ~store'.secret[s] /\ ~store'.marker[s]
  BY <1>4, StoreFacts DEF Live
<1>9. ProviderKeepsSecret' BY <1>4, StoreFacts DEF ProviderKeepsSecret
<1>10. \A t \in Tasks \ {Boot} : task'[t] = Idle BY <1>2
<1>11. AtRest' BY <1>3, <1>6, <1>7, <1>8, <1>9, <1>10 DEF AtRest
<1> QED BY <1>11, RestHolds, PTL

\* seed and the end of the start-up touch no session and no provider.
LEMMA SeedsKeep ==
  ASSUME IInv, Seed \/ (\E q \in Builtin : SeedProfile(q))
  PROVE  IInv'
<1>1. Boot \in Tasks BY DEF Tasks
<1>2. Core BY DEF IInv
<1>3. task[Boot].pc \in {"seed", "seeding"} BY DEF Seed, SeedProfile, At
<1>4. task[Boot].on = NoTask
  BY <1>1, <1>2, <1>3 DEF Core, BootInv, Shaped, OnSession, Young, Deleting
<1>5. producer' = producer /\ faults' \in Nat /\ crashes' \in Nat
  BY <1>2 DEF Seed, SeedProfile, Reads, Writes, Core, Types
<1>6. store' \in Store /\ SameSessions /\ SameProviders
  <2>1. CASE Seed BY <1>2, <2>1 DEF Seed, Reads, SameSessions, SameProviders, Core, Types
  <2>2. ASSUME NEW q \in Builtin, SeedProfile(q)
        PROVE  store' \in Store /\ SameSessions /\ SameProviders
    <3>1. store.profiles \cup {q} \in SUBSET Profiles
      BY <1>2, LifecycleAssumption DEF Core, Types, Store
    <3>2. store' = SetProfiles(store.profiles \cup {q}) BY <2>2 DEF SeedProfile, Writes
    <3> QED BY <1>2, <3>1, <3>2, ProfilesSet DEF Core, Types
  <2> QED BY <2>1, <2>2
<1>7. CASE task' = task
  <2>1. Tasked(Boot) BY <1>2, <1>7 DEF Tasked, Others, Core, Types
  <2> QED BY <1>1, <1>2, <1>3, <1>4, <1>5, <1>6, <1>7, <2>1, PlainStep
        DEF Core, BootInv, OnSession, OnProvider, Young, Deleting, OfBoot
<1>8. ASSUME NEW pc \in {"seeding", "recover"}, Goto(Boot, pc) PROVE IInv'
  <2>1. Tasked(Boot) /\ Moves(Boot, {pc})
    BY <1>1, <1>2, <1>8, GotoMoves DEF Core, Types, Pcs
  <2> QED BY <1>1, <1>3, <1>4, <1>5, <1>6, <2>1, PlainStep
        DEF Moves, OnSession, OnProvider, Young, Deleting, OfBoot
<1> QED BY <1>7, <1>8 DEF Seed, SeedProfile

\* The last step of the start-up lets calls in.
LEMMA ServeKeeps ==
  ASSUME IInv, Serve
  PROVE  IInv'
<1>1. Boot \in Tasks /\ task[Boot].pc = "recover" BY DEF Tasks, Serve, At
<1>2. Core BY DEF IInv
<1>3. ~Up BY <1>1 DEF Up
<1>4. /\ \A t \in Tasks \ {Boot} : task[t] = Idle
      /\ \A s \in Sessions : producer[s] = "none"
  BY <1>2, <1>3 DEF Core, BootInv
<1>5. Idle \in Task /\ Idle.on = NoTask /\ Idle.pc = "free" BY DEF Idle, Task, Pcs
<1>6. task' = [task EXCEPT ![Boot] = Idle] /\ store' = store /\ producer' = producer
      /\ faults' = faults /\ crashes' = crashes
  BY DEF Serve, Reads
<1>7. task' \in [Tasks -> Task] /\ \A t \in Tasks : task'[t] = Idle
  BY <1>1, <1>2, <1>4, <1>5, <1>6 DEF Core, Types
<1>8. Types' BY <1>2, <1>6, <1>7 DEF Core, Types
<1>9. \A t \in Tasks : Quiet(t)' BY <1>5, <1>7 DEF Quiet
<1>10. \A s \in Sessions : producer'[s] = "none" /\ RowInv(s)' /\ CredInv(s)'
  <2>1. \A s \in Sessions : RowInv(s) /\ CredInv(s) BY StoreFacts
  <2> QED BY <1>4, <1>6, <2>1 DEF RowInv, CredInv, Live
<1>11. \A s \in Sessions \ store'.used : ~Live(s)' /\ ~store'.secret[s] /\ ~store'.marker[s]
  BY <1>6, StoreFacts DEF Live
<1>12. ProviderKeepsSecret' BY <1>6, StoreFacts DEF ProviderKeepsSecret
<1>13. AtRest' BY <1>7, <1>8, <1>9, <1>10, <1>11, <1>12 DEF AtRest
<1> QED BY <1>13, RestHolds, PTL

\* The start-up takes a session up again.
LEMMA RecoversKeep ==
  ASSUME IInv, NEW s \in Sessions, RecoverCredential(s) \/ RecoverDeletion(s)
  PROVE  IInv'
<1>1. Boot \in Tasks /\ task[Boot].pc = "recover"
  BY DEF Tasks, RecoverCredential, RecoverDeletion, At
<1>2. Core /\ RowInv(s) /\ FreshInv BY DEF IInv, SessionInv
<1>3. ~Up /\ task[Boot].on = NoTask /\ producer[s] = "none"
  BY <1>1, <1>2 DEF Up, Core, BootInv, Shaped, OnSession, Young, Deleting
<1>4. store' = store /\ producer' = producer /\ faults' \in Nat /\ crashes' \in Nat
  BY <1>2 DEF Reads, Core, Types, RecoverCredential, RecoverDeletion
<1>5. task[Boot] \in Task /\ store.row[s].owned \in BOOLEAN
  BY <1>1, <1>2 DEF Core, Types, Store, Row
<1>6. CASE RecoverCredential(s)
  <2> DEFINE r == [task[Boot] EXCEPT !.pc = "reconcile", !.on = s]
  <2>1. r.pc = "reconcile" /\ r.on = s BY <1>5 DEF Task
  <2>2. r \in Task BY <1>5 DEF Task, Pcs, OnSession
  <2>3. task' = [task EXCEPT ![Boot] = r] BY <1>6 DEF RecoverCredential
  <2> HIDE DEF r
  <2>4. Tasked(Boot) /\ task'[Boot] = r BY <1>1, <1>2, <2>2, <2>3 DEF Core, Types,
      Tasked, Others
  <2>5. Shaped(Boot)' /\ Knows(Boot)'
    BY <2>1, <2>4 DEF Shaped, Knows, OnSession, OnProvider, Young, Deleting
  <2>6. s \in store.used BY <1>2, <1>6 DEF FreshInv, RecoverCredential, Marked
  <2> QED BY <1>1, <1>3, <1>4, <2>1, <2>4, <2>5, <2>6, SessionBegins DEF OnSession,
      Young, OfBoot
<1>7. CASE RecoverDeletion(s)
  <2> DEFINE r == [task[Boot] EXCEPT !.pc = "stop", !.on = s, !.owned = store.row[s].owned]
  <2>1. r.pc = "stop" /\ r.on = s /\ r.owned = store.row[s].owned BY <1>5 DEF Task
  <2>2. r \in Task BY <1>5 DEF Task, Pcs, OnSession, Deleting
  <2>3. task' = [task EXCEPT ![Boot] = r] BY <1>7 DEF RecoverDeletion
  <2> HIDE DEF r
  <2>4. Tasked(Boot) /\ task'[Boot] = r BY <1>1, <1>2, <2>2, <2>3 DEF Core, Types,
      Tasked, Others
  <2>5. Live(s) /\ store.row[s].deleting
    BY <1>2, <1>7 DEF RecoverDeletion, RowInv, Live, NoRow, Core, Types, Store, Row
  <2>6. Shaped(Boot)' BY <2>1, <2>4 DEF Shaped, OnSession, OnProvider, Young, Deleting
  <2>7. Knows(Boot)'
    <3>1. store.row[s].owned \/ ~store.secret[s] BY <1>2, <2>5 DEF RowInv, Live
    <3> QED BY <1>4, <2>1, <2>4, <2>5, <3>1 DEF Knows, Deleting
  <2>8. s \in store.used BY <1>2, <2>5 DEF FreshInv
  <2> QED BY <1>1, <1>3, <1>4, <2>1, <2>4, <2>5, <2>6, <2>7, <2>8, SessionBegins
        DEF OnSession, Young, OfBoot, Deleting
<1> QED BY <1>6, <1>7

\* A session left active is set to idle before anything is served.
LEMMA RecoverStateKeeps ==
  ASSUME IInv, NEW s \in Sessions, RecoverState(s)
  PROVE  IInv'
<1>1. Boot \in Tasks /\ task[Boot].pc = "recover" BY DEF Tasks, RecoverState, At
<1>2. Core BY DEF IInv
<1>3. ~Up BY <1>1 DEF Up
<1>4. /\ \A t \in Tasks \ {Boot} : task[t] = Idle
      /\ \A x \in Sessions : producer[x] = "none"
  BY <1>2, <1>3 DEF Core, BootInv
<1>5. store.row[s].state = "active" /\ ~store.row[s].deleting
  BY DEF RecoverState, Continues
<1>6. RowInv(s) /\ CredInv(s) BY StoreFacts
<1>7. store.row[s] \in Row /\ store.row[s].rev \in Nat /\ store.row[s].rev # 0
  BY <1>2, <1>5, <1>6 DEF Core, Types, Store, Row, RowInv, NoRow
<1>8. PICK r \in Row : /\ Revised(s, "idle", FALSE) = SetRow(s, r)
                       /\ r.rev = store.row[s].rev + 1 /\ r.owned = store.row[s].owned
                       /\ r.deleting = FALSE /\ r.state = "idle"
  BY <1>2, RevisedIs DEF Core, Types, States
<1>9. /\ task' = task /\ store' = SetRow(s, r) /\ producer' = producer
      /\ faults' = faults /\ crashes' = crashes
  <2>1. store.row[s].deleting = FALSE BY <1>5, <1>7 DEF Row
  <2> QED BY <1>8, <2>1 DEF RecoverState, Writes
<1>10. NewRowOf(s, r) BY <1>2, <1>8, <1>9, WriteSets DEF Core, Types
<1>11. /\ store'.row[s] = r /\ \A x \in Sessions \ {s} : store'.row[x] = store.row[x]
       /\ store'.used = store.used /\ store'.marker = store.marker
       /\ store'.secret = store.secret /\ SameProviders
  BY <1>2, <1>10 DEF NewRowOf, Core, Types, Store
<1>12. Types' BY <1>2, <1>9, <1>10 DEF Core, Types, NewRowOf
<1>13. \A t \in Tasks : Quiet(t)'
  <2>1. task[Boot].on = NoTask
    BY <1>1, <1>2 DEF Core, BootInv, Shaped, OnSession, Young, Deleting
  <2> QED BY <1>1, <1>4, <1>9, <2>1 DEF Quiet, Idle
<1>14. \A x \in Sessions : RowInv(x)' /\ CredInv(x)'
  <2>1. \A x \in Sessions : RowInv(x) /\ CredInv(x) BY StoreFacts
  <2>2. RowInv(s)' BY <1>6, <1>7, <1>8, <1>11 DEF RowInv
  <2>3. CredInv(s)' BY <1>5, <1>6, <1>7, <1>8, <1>9, <1>11 DEF CredInv, Live
  <2> QED BY <1>9, <1>11, <2>1, <2>2, <2>3 DEF RowInv, CredInv, Live
<1>15. \A x \in Sessions \ store'.used : ~Live(x)' /\ ~store'.secret[x] /\ ~store'.marker[x]
  <2>1. s \in store.used BY <1>7, StoreFacts DEF Live
  <2> QED BY <1>11, <2>1, StoreFacts DEF Live
<1>16. ProviderKeepsSecret' BY <1>11, StoreFacts DEF ProviderKeepsSecret, SameProviders
<1>17. \A t \in Tasks \ {Boot} : task'[t] = Idle BY <1>4, <1>9
<1>18. AtRest' BY <1>4, <1>9, <1>12, <1>13, <1>14, <1>15, <1>16, <1>17 DEF AtRest
<1> QED BY <1>18, RestHolds, PTL

---------------------------------------------------------------------------
(* The invariant.                                                          *)

\* Every step of a task keeps it.
LEMMA StepKeeps ==
  ASSUME IInv, NEW t \in Tasks, Step(t)
  PROVE  IInv'
<1>1. CASE \/ Lookup(t) \/ PutMarker(t) \/ PutSecret(t) \/ CommitSession(t) \/ Unmark(t)
           \/ Reconcile(t) \/ UndoSecret(t) \/ Unindex(t)
  BY <1>1, LookupKeeps, PutMarkerKeeps, PutSecretKeeps, CommitSessionKeeps, UnmarkKeeps,
     ReconcileKeeps, UndoSecretKeeps, UnindexKeeps
<1>2. CASE ReadRow(t) \/ WriteRow(t) \/ StopSession(t)
  BY <1>2, ReadRowKeeps, WriteRowKeeps, StopSessionKeeps
<1>3. CASE \/ ReadForDeletion(t) \/ BeginDeletion(t) \/ StopForDeletion(t)
           \/ DeleteSecret(t) \/ DeleteMarker(t) \/ DeleteRow(t)
  BY <1>3, ReadForDeletionKeeps, BeginDeletionKeeps, StopForDeletionKeeps,
     DeleteSecretKeeps, DeleteMarkerKeeps, DeleteRowKeeps
<1>4. CASE \/ PutProviderSecret(t) \/ CommitProvider(t) \/ CheckProvider(t) \/ UndoProviderSecret(t)
           \/ BeginProviderDeletion(t) \/ CleanProvider(t) \/ FinalizeProviderDeletion(t)
  BY <1>4, PutProviderSecretKeeps, CommitProviderKeeps, CheckProviderKeeps,
     UndoProviderSecretKeeps, BeginProviderDeletionKeeps, CleanProviderKeeps,
     FinalizeProviderDeletionKeeps
<1>5. CASE RemoveProfile(t) BY <1>5, RemoveProfileKeeps
<1> QED BY <1>1, <1>2, <1>3, <1>4, <1>5 DEF Step

\* So does every call that begins.
LEMMA RequestKeeps ==
  ASSUME IInv, NEW t \in Requests, Request(t)
  PROVE  IInv'
<1>1. ASSUME NEW s \in Sessions, NEW p \in Providers, NEW q \in Profiles, NEW o \in BOOLEAN,
             create(t, s, p, q, o)
      PROVE  IInv'
  BY <1>1, CreateKeeps
<1>2. ASSUME NEW s \in Sessions, NEW state \in States, control(t, s, state) PROVE IInv'
  BY <1>2, CallsKeep
<1>3. ASSUME NEW s \in Sessions, delete(t, s) PROVE IInv'
  BY <1>3, CallsKeep
<1>4. ASSUME NEW p \in Providers, createProvider(t, p) \/ deleteProvider(t, p) PROVE IInv'
  BY <1>4, ProviderCallsKeep
<1>5. ASSUME NEW q \in Profiles, putProfile(t, q) \/ deleteProfile(t, q) PROVE IInv'
  BY <1>5, ProfilesKeep
<1> QED BY <1>1, <1>2, <1>3, <1>4, <1>5 DEF Request, States

\* Every step of the controller keeps the invariant.
LEMMA NextIInv == IInv /\ [Next]_vars => IInv'
<1> SUFFICES ASSUME IInv, [Next]_vars PROVE IInv' OBVIOUS
<1>1. ASSUME NEW t \in Tasks, Step(t) PROVE IInv' BY <1>1, StepKeeps
<1>2. ASSUME NEW t \in Requests, Request(t) PROVE IInv' BY <1>2, RequestKeeps
<1>3. ASSUME NEW s \in Sessions, SweepPending(s) \/ SweepInactive(s) PROVE IInv'
  BY <1>3, SweepsKeep
<1>4. ASSUME NEW s \in Sessions, StartProducer(s) \/ ProducerStarted(s) \/ ProducerEnds(s)
      PROVE  IInv'
  BY <1>4, ProducersKeep
<1>5. CASE Recover
  <2>1. CASE Seed \/ (\E q \in Builtin : SeedProfile(q)) BY <2>1, SeedsKeep
  <2>2. CASE Serve BY <2>2, ServeKeeps
  <2>3. ASSUME NEW s \in Sessions, RecoverCredential(s) \/ RecoverDeletion(s) PROVE IInv'
    BY <2>3, RecoversKeep
  <2>4. ASSUME NEW s \in Sessions, RecoverState(s) PROVE IInv' BY <2>4, RecoverStateKeeps
  <2> QED BY <1>5, <2>1, <2>2, <2>3, <2>4 DEF Recover
<1>6. CASE Crash BY <1>6, CrashKeeps
<1>7. CASE UNCHANGED vars
  BY <1>7 DEF vars, IInv, Core, Types, BootInv, Shaped, Up, SessionInv, FreshInv, Fresh,
      Knows,
     RowInv, Live, NoLostCredential, SessionKeepsCredential, CredentialOutlivesProducer,
     ProviderInv, Adds, ProviderKeepsSecret
<1> QED BY <1>1, <1>2, <1>3, <1>4, <1>5, <1>6, <1>7 DEF Next

\* It holds throughout.
LEMMA Invariance == Spec => []IInv
BY InitIInv, NextIInv, PTL DEF Spec

---------------------------------------------------------------------------
(* Theorems.                                                               *)

\* CredentialsKept: whichever call of the repository or of the secret store fails, with or
\* without its effect, and wherever the process stops between two of them, a stored source
\* credential can be found from its marker or from its session, a session or a provider that

\* is not being deleted has its credential, and a producer never outlives the one it uses.
THEOREM CredentialsAreKept == Spec => []CredentialsKept
<1>1. IInv => CredentialsKept
  BY DEF IInv, SessionInv, ProviderInv, CredentialsKept
<1> QED BY <1>1, Invariance, PTL

\* The rows of the sessions change in five places.
LEMMA RowWriters ==
  ASSUME IInv, Next
  PROVE  \/ store'.row = store.row
         \/ \E t \in Tasks : CommitSession(t) \/ WriteRow(t) \/ BeginDeletion(t) \/ DeleteRow(t)
         \/ \E s \in Sessions : RecoverState(s)
<1> DEFINE Same == store'.row = store.row
<1>1. store \in Store BY DEF IInv, Core, Types
<1>2. \A s \in Sessions, b \in BOOLEAN :
        /\ Writes(SetMarker(s, b)) \/ Fails(SetMarker(s, b)) => Same
        /\ Writes(SetSecret(s, b)) \/ Fails(SetSecret(s, b)) => Same
  <2> SUFFICES ASSUME NEW s \in Sessions, NEW b \in BOOLEAN
               PROVE  /\ Writes(SetMarker(s, b)) \/ Fails(SetMarker(s, b)) => Same
                      /\ Writes(SetSecret(s, b)) \/ Fails(SetSecret(s, b)) => Same
    OBVIOUS
  <2>1. SetMarker(s, b).row = store.row /\ SetSecret(s, b).row = store.row
    BY <1>1 DEF Store, SetMarker, SetSecret
  <2> QED BY <2>1 DEF Writes, Fails
<1>3. \A p \in Providers \cup States \cup {NoTask}, b \in BOOLEAN, st \in {"none", "ready", "deleting"} :
        /\ Writes(SetProvider(p, st)) \/ Fails(SetProvider(p, st)) => Same
        /\ Writes(SetProviderSecret(p, b)) \/ Fails(SetProviderSecret(p, b)) => Same
  <2> SUFFICES ASSUME NEW p, NEW b \in BOOLEAN, NEW st \in {"none", "ready", "deleting"}
               PROVE  /\ Writes(SetProvider(p, st)) \/ Fails(SetProvider(p, st)) => Same
                      /\ Writes(SetProviderSecret(p, b)) \/ Fails(SetProviderSecret(p, b)) => Same
    OBVIOUS
  <2>1. SetProvider(p, st).row = store.row /\ SetProviderSecret(p, b).row = store.row
    BY <1>1 DEF Store, SetProvider, SetProviderSecret
  <2> QED BY <2>1 DEF Writes, Fails
<1>4. \A Q : Writes(SetProfiles(Q)) => Same
  BY DEF Writes, SetProfiles
<1>5. ASSUME NEW t \in Tasks, Step(t), ~CommitSession(t), ~WriteRow(t), ~BeginDeletion(t), ~DeleteRow(t)
      PROVE  Same
  <2>1. CASE \/ Lookup(t) \/ Reconcile(t) \/ ReadRow(t) \/ StopSession(t) \/ ReadForDeletion(t)
             \/ StopForDeletion(t) \/ CheckProvider(t)
    BY <2>1 DEF Lookup, Reconcile, ReadRow, StopSession, ReadForDeletion, StopForDeletion,
                CheckProvider, Reads
  <2>2. CASE \/ PutMarker(t) \/ PutSecret(t) \/ Unmark(t) \/ UndoSecret(t) \/ Unindex(t)
             \/ DeleteSecret(t) \/ DeleteMarker(t)
    <3>1. task[t].on \in Sessions
      BY <2>2 DEF IInv, Core, BootInv, Shaped, OnSession, Young, Deleting, At,
         PutMarker, PutSecret, Unmark, UndoSecret, Unindex, DeleteSecret, DeleteMarker
    <3> QED BY <1>2, <2>2, <3>1 DEF PutMarker, PutSecret, Unmark, UndoSecret, Unindex,
              DeleteSecret, DeleteMarker, Reads
  <2>3. CASE \/ PutProviderSecret(t) \/ CommitProvider(t) \/ UndoProviderSecret(t)
             \/ BeginProviderDeletion(t) \/ CleanProvider(t) \/ FinalizeProviderDeletion(t)
    <3>1. task[t].with \in Providers \cup States \cup {NoTask}
      BY DEF IInv, Core, Types, Task
    <3> QED BY <1>3, <2>3, <3>1 DEF PutProviderSecret, CommitProvider, UndoProviderSecret,
              BeginProviderDeletion, CleanProvider, FinalizeProviderDeletion, Reads
  <2>4. CASE RemoveProfile(t) BY <1>4, <2>4 DEF RemoveProfile
  <2> QED BY <1>5, <2>1, <2>2, <2>3, <2>4 DEF Step
<1>6. ASSUME NEW t \in Requests, Request(t) PROVE Same
  <2>1. ASSUME NEW s \in Sessions, NEW p \in Providers, NEW q \in Profiles, NEW o \in BOOLEAN,
               create(t, s, p, q, o)
        PROVE  Same
    BY <2>1 DEF create
  <2>2. ASSUME NEW s \in Sessions, NEW state \in States, control(t, s, state) \/ delete(t, s)
        PROVE  Same
    BY <2>2 DEF control, delete, Reads
  <2>3. ASSUME NEW p \in Providers, createProvider(t, p) \/ deleteProvider(t, p) PROVE Same
    BY <2>3 DEF createProvider, deleteProvider, Reads
  <2>4. ASSUME NEW q \in Profiles, putProfile(t, q) \/ deleteProfile(t, q) PROVE Same
    BY <1>4, <2>4 DEF putProfile, deleteProfile, Reads
  <2>5. "idle" \in States BY DEF States
  <2> QED BY <1>6, <2>1, <2>2, <2>3, <2>4, <2>5 DEF Request, States
<1>7. ASSUME NEW s \in Sessions, SweepPending(s) \/ SweepInactive(s) PROVE Same
  BY <1>7 DEF SweepPending, SweepInactive, Reads
<1>8. ASSUME NEW s \in Sessions, StartProducer(s) \/ ProducerStarted(s) \/ ProducerEnds(s)
      PROVE  Same
  BY <1>8 DEF StartProducer, ProducerStarted, ProducerEnds
<1>9. CASE Recover
  <2>1. CASE Seed \/ Serve BY <2>1 DEF Seed, Serve, Reads
  <2>2. ASSUME NEW q \in Builtin, SeedProfile(q) PROVE Same BY <1>4, <2>2 DEF SeedProfile
  <2>3. ASSUME NEW s \in Sessions, RecoverCredential(s) \/ RecoverDeletion(s) PROVE Same
    BY <2>3 DEF RecoverCredential, RecoverDeletion, Reads
  <2> QED BY <1>9, <2>1, <2>2, <2>3 DEF Recover
<1>10. CASE Crash BY <1>10 DEF Crash
<1> QED BY <1>5, <1>6, <1>7, <1>8, <1>9, <1>10 DEF Next

\* What DeletionFence asks of one session in one step.
Fenced(s) ==
  store.row[s].deleting =>
    \/ store'.row[s] = NoRow
    \/ store'.row[s].deleting /\ store'.row[s].state = "stopped"

\* None of the five lowers a fence.
LEMMA FenceStays ==
  ASSUME IInv, [Next]_vars, NEW s \in Sessions
  PROVE  Fenced(s)
<1>1. Core /\ FreshInv /\ RowInv(s) BY DEF IInv, SessionInv
<1>2. CASE store'.row[s] = store.row[s] BY <1>1, <1>2 DEF Fenced, RowInv
<1>3. ASSUME NEW t \in Tasks, NEW r \in Row,
             store' \in {store, SetRow(task[t].on, r)}, task[t].on \in Sessions,
             task[t].on = s => ~store.row[s].deleting \/ r = NoRow
      PROVE  Fenced(s)
  <2>1. store' = store \/ NewRowOf(task[t].on, r)
    BY <1>1, <1>3, WriteSets DEF Core, Types
  <2>2. store'.row[s] = store.row[s] \/ (task[t].on = s /\ store'.row[s] = r)
    BY <1>1, <2>1 DEF NewRowOf, Core, Types, Store
  <2> QED BY <1>2, <1>3, <2>2 DEF Fenced
<1>4. ASSUME NEW t \in Tasks, CommitSession(t) PROVE Fenced(s)
  <2>1. task[t].on \in Sessions /\ task[t].with \in Providers /\ task[t].pc = "commit"
    BY <1>1, <1>4 DEF CommitSession, At, Core, BootInv, Shaped, OnSession, Young
  <2>2. NewRow(t) \in Row
    BY <1>1, <2>1 DEF Core, Types, Task, NewRow, Row, States
  <2>3. store' \in {store, SetRow(task[t].on, NewRow(t))}
    BY <1>4 DEF CommitSession, Writes, Fails, Reads
  <2>4. task[t].on = s => ~store.row[s].deleting
    <3>1. task[t].on = s => ~Live(s) BY <1>1, <2>1 DEF FreshInv, Fresh, Young
    <3>2. ~Live(s) => store.row[s] = NoRow
      BY <1>1 DEF Live, RowInv, Core, Types, Store, Row
    <3> QED BY <3>1, <3>2, NoRowIs
  <2> QED BY <1>3, <2>1, <2>2, <2>3, <2>4
<1>5. ASSUME NEW t \in Tasks, WriteRow(t) PROVE Fenced(s)
  <2>1. task[t].on \in Sessions /\ task[t].with \in States /\ task[t].pc = "write"
    BY <1>1, <1>5 DEF WriteRow, At, Core, BootInv, Shaped, OnSession
  <2>2. PICK r \in Row : Revised(task[t].on, task[t].with, store.row[task[t].on].deleting)
                           = SetRow(task[t].on, r)
    <3>1. store.row[task[t].on].deleting \in BOOLEAN BY <1>1, <2>1 DEF Core, Types,
      Store, Row
    <3> QED BY <1>1, <2>1, <3>1, RevisedIs DEF Core, Types
  <2>3. CASE Written(t)
    <3>1. store' \in {store, SetRow(task[t].on, r)}
      BY <1>5, <2>2, <2>3 DEF WriteRow, Writes, Fails, Reads
    <3>2. task[t].on = s => ~store.row[s].deleting
      BY <2>1, <2>3 DEF IInv, SessionInv, Knows, Written, Live
    <3> QED BY <1>3, <2>1, <3>1, <3>2
  <2>4. CASE ~Written(t) BY <1>2, <1>5, <2>4 DEF WriteRow, Reads
  <2> QED BY <2>3, <2>4
<1>6. ASSUME NEW t \in Tasks, BeginDeletion(t) PROVE Fenced(s)
  <2>1. task[t].on \in Sessions
    BY <1>1, <1>6 DEF BeginDeletion, At, Core, BootInv, Shaped, OnSession
  <2>2. PICK r \in Row : /\ Revised(task[t].on, "stopped", TRUE) = SetRow(task[t].on, r)
                         /\ r.rev = store.row[task[t].on].rev + 1
                         /\ r.owned = store.row[task[t].on].owned
                         /\ r.deleting = TRUE /\ r.state = "stopped"
    <3>1. "stopped" \in States /\ TRUE \in BOOLEAN BY DEF States
    <3>2. \A st \in States, d \in BOOLEAN :
            \E r \in Row : /\ Revised(task[t].on, st, d) = SetRow(task[t].on, r)
                          /\ r.rev = store.row[task[t].on].rev + 1
                          /\ r.owned = store.row[task[t].on].owned
                          /\ r.deleting = d /\ r.state = st
      BY <1>1, <2>1, RevisedIs DEF Core, Types
    <3> QED BY <3>1, <3>2
  <2>3. CASE Live(task[t].on) /\ ~store.row[task[t].on].deleting
    <3>1. store' \in {store, SetRow(task[t].on, r)}
      BY <1>6, <2>2, <2>3 DEF BeginDeletion, Writes, Fails
    <3> QED BY <1>3, <2>1, <2>3, <3>1
  <2>4. CASE ~(Live(task[t].on) /\ ~store.row[task[t].on].deleting)
    BY <1>2, <1>6, <2>4 DEF BeginDeletion, Reads
  <2> QED BY <2>3, <2>4
<1>7. ASSUME NEW t \in Tasks, DeleteRow(t) PROVE Fenced(s)
  <2>1. task[t].on \in Sessions
    BY <1>1, <1>7 DEF DeleteRow, At, Core, BootInv, Shaped, OnSession, Deleting
  <2>2. store' \in {store, SetRow(task[t].on, NoRow)}
    BY <1>7 DEF DeleteRow, Writes, Fails
  <2> QED BY <1>3, <2>1, <2>2, NoRowIs
<1>8. ASSUME NEW x \in Sessions, RecoverState(x) PROVE Fenced(s)
  BY <1>8 DEF RecoverState, Fenced
<1>9. CASE UNCHANGED vars BY <1>2, <1>9 DEF vars
<1>10. CASE Next BY <1>2, <1>4, <1>5, <1>6, <1>7, <1>8, <1>10, RowWriters
<1> QED BY <1>9, <1>10

\* DeletionFence: a control call or the report of a finished segment which read a session

\* before its deletion began never writes it back as if nothing had happened.
THEOREM DeletionIsFenced == Spec => DeletionFence
<1>1. IInv /\ [Next]_vars => \A s \in Sessions : Fenced(s) BY FenceStays
<1>2. IInv /\ [Next]_vars =>
        [\A s \in Sessions : store.row[s].deleting =>
           \/ store'.row[s] = NoRow
           \/ store'.row[s].deleting /\ store'.row[s].state = "stopped"]_vars
  BY <1>1 DEF Fenced
<1> QED BY <1>2, Invariance, PTL DEF Spec, DeletionFence
=============================================================================
