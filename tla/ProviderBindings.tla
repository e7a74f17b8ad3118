-------------------------- MODULE ProviderBindings --------------------------
(* A provider credential that lives on a source worker: the controller asks  *)
(* the worker to bind a provider, the worker stores the credential in its    *)
(* own secret store and the binding in the repository (provider-service.ts); *)
(* deleting it marks the row, has the worker erase the credential, and only  *)
(* then removes the row (server.ts, cluster-service.ts).  Writes may be      *)
(* applied and reported as failed, commands and answers may be lost, the     *)
(* worker may disconnect, crash, or be revoked.                              *)
EXTENDS Integers

CONSTANTS Deletion,      \* the calls of DELETE /provider-bindings/:id
          MaxFaults

VARIABLES row,           \* the binding: none, live or pending (deletion)
          secret,        \* the worker's secret store has the credential
          bind,          \* where the worker is in createBinding
          del,           \* where a deletion is
          unbind,        \* what the worker does for the unbind command of a deletion
          connected, revoked,
          given,         \* the operator acknowledged an orphaned credential
          stray,         \* createBinding died or failed where it leaves what it has staged
          faults

vars == <<row, secret, bind, del, unbind, connected, revoked, given, stray, faults>>
link == <<connected, revoked, given, stray>>

TypeOK ==
  /\ row \in {"none", "live", "pending"}
  /\ bind \in {"idle", "asked", "staged", "drop", "unsure", "undo", "done"}
  /\ del \in [Deletion -> {"idle", "begun", "waiting", "finalize"}]
  /\ unbind \in [Deletion -> {"no", "sent", "read", "erased"}]
  /\ {secret, connected, revoked, given, stray} \subseteq BOOLEAN
  /\ faults \in 0 .. MaxFaults

Init ==
  /\ row = "none" /\ secret = FALSE /\ bind = "idle"
  /\ del = [d \in Deletion |-> "idle"] /\ unbind = [d \in Deletion |-> "no"]
  /\ connected = TRUE /\ revoked = FALSE /\ given = FALSE /\ stray = FALSE /\ faults = 0

Fault == faults < MaxFaults /\ faults' = faults + 1
Healthy == UNCHANGED faults
To(d, l) == del' = [del EXCEPT ![d] = l]

----------------------------------------------------------------------------
(* Binding.  The identifier of a binding is fresh, so a call creates it once. *)

postProviderBinding ==
  /\ bind = "idle" /\ connected /\ bind' = "asked"
  /\ UNCHANGED <<row, secret, del, unbind, link, faults>>

\* The worker has signed in at the provider: first the credential, whose write may fail,
\* also after it was applied; the error ends createBinding ...
stageCredential ==
  /\ bind = "asked"
  /\ \/ Healthy /\ secret' = TRUE /\ bind' = "staged" /\ UNCHANGED stray
     \/ Fault /\ secret' \in BOOLEAN /\ bind' = "done" /\ stray' = secret'
  /\ UNCHANGED <<row, del, unbind, connected, revoked, given>>

\* ... then the row.  It is refused if the node was revoked or the provider
\* changed or is being deleted.
createProviderBinding ==
  /\ bind = "staged"
  /\ \/ Healthy /\ ~revoked /\ row' = "live" /\ bind' = "done"
     \/ Healthy /\ bind' = "drop" /\ UNCHANGED row
     \/ Fault /\ bind' = "unsure" /\ row' \in {row} \cup (IF revoked THEN {} ELSE {"live"})
  /\ UNCHANGED <<secret, del, unbind, link>>

\* A refusal erases the credential and throws, into the same handler as a failing call.
deleteStaged ==
  /\ bind = "drop" /\ bind' = "unsure"
  /\ (Healthy /\ secret' = FALSE) \/ (Fault /\ secret' \in {secret, FALSE})
  /\ UNCHANGED <<row, del, unbind, link>>

\* The handler reads the binding back (a pending one is not returned) and keeps the
\* credential of one that is there, or of one that cannot be read.
readBack ==
  /\ bind = "unsure"
  /\ \/ /\ Healthy /\ UNCHANGED stray
        /\ bind' = IF row = "live" THEN "done" ELSE "undo"
     \/ Fault /\ bind' = "done" /\ stray' = (stray \/ secret)
  /\ UNCHANGED <<row, secret, del, unbind, connected, revoked, given>>

\* Otherwise it erases the credential; if that fails, it stays.
undoStaged ==
  /\ bind = "undo" /\ bind' = "done"
  /\ \/ Healthy /\ secret' = FALSE /\ UNCHANGED stray
     \/ Fault /\ secret' \in {secret, FALSE} /\ stray' = (stray \/ secret')
  /\ UNCHANGED <<row, del, unbind, connected, revoked, given>>

----------------------------------------------------------------------------
(* Deleting.                                                                  *)

beginBindingDeletion(d) ==
  /\ del[d] = "idle" /\ row # "none"
  /\ \/ Healthy /\ row' = "pending" /\ To(d, "begun")
     \/ Fault /\ row' \in {row, "pending"} /\ UNCHANGED del
  /\ UNCHANGED <<secret, bind, unbind, link>>

\* A connected worker is asked to erase the credential; otherwise the node has
\* to be revoked and the operator has to accept that the credential stays.
deleteProviderBindingWithCredentialCleanup(d) ==
  /\ del[d] = "begun"
  /\ \/ /\ connected /\ unbind' = [unbind EXCEPT ![d] = "sent"] /\ To(d, "waiting")
        /\ UNCHANGED given
     \/ ~connected /\ revoked /\ given' = TRUE /\ To(d, "finalize") /\ UNCHANGED unbind
     \/ ~connected /\ To(d, "idle") /\ UNCHANGED <<given, unbind>>
  /\ UNCHANGED <<row, secret, bind, connected, revoked, stray, faults>>

\* The worker reads the row, which has to be pending, and erases.  Either call may fail,
\* which is its answer.
Refused(d) ==
  /\ unbind' = [unbind EXCEPT ![d] = "no"]
  /\ del' = [del EXCEPT ![d] = IF @ = "waiting" THEN "idle" ELSE @]
removeBinding(d) ==
  /\ \/ /\ unbind[d] = "sent" /\ row = "pending" /\ Healthy
        /\ unbind' = [unbind EXCEPT ![d] = "read"] /\ UNCHANGED <<secret, del>>
     \/ /\ unbind[d] = "sent" /\ UNCHANGED secret /\ Refused(d)
        /\ (row # "pending" /\ Healthy) \/ Fault
     \/ /\ unbind[d] = "read" /\ secret' = FALSE /\ Healthy
        /\ unbind' = [unbind EXCEPT ![d] = "erased"] /\ UNCHANGED del
     \/ unbind[d] = "read" /\ Fault /\ secret' \in {secret, FALSE} /\ Refused(d)
  /\ UNCHANGED <<row, bind, link>>

unbindAnswered(d) ==
  /\ unbind[d] = "erased" /\ unbind' = [unbind EXCEPT ![d] = "no"]
  /\ del' = [del EXCEPT ![d] = IF connected /\ @ = "waiting" THEN "finalize" ELSE @]
  /\ UNCHANGED <<row, secret, bind, link, faults>>

\* Sixty seconds, or the connection closes; the worker may still go on.
unbindTimesOut(d) ==
  /\ del[d] = "waiting" /\ Fault /\ To(d, "idle")
  /\ UNCHANGED <<row, secret, bind, unbind, link>>

\* A finalization that fails is repeated, from the mark on.
finalizeBindingDeletion(d) ==
  /\ del[d] = "finalize"
  /\ \/ Healthy /\ row' = "none" /\ To(d, "idle")
     \/ Fault /\ row' \in {row, "none"} /\ To(d, IF row' = "none" THEN "idle" ELSE "finalize")
  /\ UNCHANGED <<secret, bind, unbind, link>>

----------------------------------------------------------------------------
(* The worker's connection and life.                                          *)

Disconnect ==
  /\ Fault /\ connected /\ connected' = FALSE
  /\ del' = [d \in Deletion |-> IF del[d] = "waiting" THEN "idle" ELSE del[d]]
  /\ UNCHANGED <<row, secret, bind, unbind, revoked, given, stray>>

Reconnect ==
  /\ ~connected /\ ~revoked /\ connected' = TRUE
  /\ UNCHANGED <<row, secret, bind, del, unbind, revoked, given, stray, faults>>

\* The process of the worker dies: its handlers end where they are.
WorkerCrash ==
  /\ Fault /\ connected' = FALSE
  /\ bind' = IF bind = "idle" THEN "idle" ELSE "done"
  /\ stray' = (stray \/ (secret /\ bind \in {"staged", "drop", "unsure", "undo"}))
  /\ unbind' = [d \in Deletion |-> "no"]
  /\ del' = [d \in Deletion |-> IF del[d] = "waiting" THEN "idle" ELSE del[d]]
  /\ UNCHANGED <<row, secret, revoked, given>>

revokeNode ==
  /\ ~revoked /\ revoked' = TRUE /\ connected' = FALSE
  /\ del' = [d \in Deletion |-> IF del[d] = "waiting" THEN "idle" ELSE del[d]]
  /\ UNCHANGED <<row, secret, bind, unbind, given, stray, faults>>

Binding == stageCredential \/ createProviderBinding \/ deleteStaged \/ readBack \/ undoStaged
Deleting(d) == deleteProviderBindingWithCredentialCleanup(d) \/ removeBinding(d)
               \/ unbindAnswered(d) \/ finalizeBindingDeletion(d)

Next == \/ postProviderBinding \/ Binding
        \/ \E d \in Deletion : beginBindingDeletion(d) \/ Deleting(d) \/ unbindTimesOut(d)
        \/ Disconnect \/ Reconnect \/ WorkerCrash \/ revokeNode

Spec == Init /\ [][Next]_vars

----------------------------------------------------------------------------

\* A credential on a worker always has a row by which the operator finds it: a
\* row is removed only after the worker erased the credential, or after the
\* operator accepted that a revoked worker keeps it, whichever of its calls fail; and
\* createBinding erases what it has staged when the row was refused or its outcome is
\* unknown.  It leaves a credential behind where it cannot do that: if it dies before
\* the row is there, if the store reports a write that it has applied as failed, and if
\* reading the row back, or the last erasure, fails.
CredentialHasRow ==
  secret /\ row = "none" => given \/ stray \/ bind \in {"staged", "drop", "unsure", "undo"}

\* A binding that can be chosen has its credential.
BindingHasCredential == row = "live" => secret

\* Both directions.
BindingsMatch == CredentialHasRow /\ BindingHasCredential
=============================================================================
