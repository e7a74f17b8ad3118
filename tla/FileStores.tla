---------------------------- MODULE FileStores -----------------------------
(* What a node keeps in files and objects (packages/adapters):               *)
(*   the secret file, read and rewritten whole by every change               *)
(*   (EncryptedFileSecretStore, WindowsDpapiSecretStore), or the keychain   *)
(*   (MacKeychainSecretStore), which macOS changes one secret at a time;                    *)
(*   the certificate authority, which is created at its first use and kept   *)
(*   in the secrets (FileCertificateAuthority);                              *)
(*   an object of the object store: a content and a metadata file on disk,   *)
(*   changed under the queue of its path, or one object in a cloud.          *)
EXTENDS Integers, Sequences, FiniteSets

CONSTANTS None,
          Op,           \* operations in flight
          Ref,          \* names of secrets
          MaxOps,       \* operations begun
          MaxFaults     \* calls that fail, crashes

VARIABLES driver,       \* the object store
          backend,      \* where the secrets are
          secrets,      \* the secret file, or the keychain
          content, meta,\* the object and its metadata, by the version they are of
          queue,        \* mutationQueues: the operations on each path, in order
          op,
          ca,           \* #ca: the promise of the authority, and the authority
          signed,       \* authorities that signed a certificate
          last,         \* what the last change of each secret wrote
          stored,       \* the version the last put that ended has stored
          expired,      \* versions whose expiry is past
          torn,         \* a put or a removal was interrupted
          made, faults

vars == <<driver, backend, secrets, content, meta, queue, op, ca, signed, last, stored, expired, torn,
          made, faults>>
svars == <<backend, secrets, last, ca, signed>>
ovars == <<content, meta, stored, expired, torn>>

Authority == "cluster:certificate-authority"
Path == {"secrets", "object"}
Backend == {"encrypted-file", "dpapi", "keychain"}
Driver == {"local", "s3", "azure-blob", "gcs"}
Idle == [at |-> "idle"]
Promise(is, key) == [is |-> is, key |-> key]
NoPromise == Promise("none", None)

Init ==
  /\ driver \in Driver /\ backend \in Backend
  /\ secrets = [r \in Ref \cup {Authority} |-> None] /\ last = secrets
  /\ content = None /\ meta = None /\ stored = None /\ expired = {} /\ torn = FALSE
  /\ queue = [p \in Path |-> <<>>] /\ op = [o \in Op |-> Idle]
  /\ ca = NoPromise /\ signed = {} /\ made = 0 /\ faults = 0

At(o, at) == op[o].at = at
Becomes(o, t) == op' = [op EXCEPT ![o] = t]
Goes(o, at) == Becomes(o, [op[o] EXCEPT !.at = at])
Fault == faults < MaxFaults /\ faults' = faults + 1
Begins == made < MaxOps /\ made' = made + 1

-----------------------------------------------------------------------------
(* withFileMutation: the operations on one path follow one another. *)

Enters(o, p) == queue' = [queue EXCEPT ![p] = Append(@, o)]
\* The first one is over; who is not in the queue (a keychain has none) leaves it alone.
Leaves(o, p) == queue' = [queue EXCEPT ![p] = IF @ # <<>> /\ Head(@) = o THEN Tail(@) ELSE @]
MutantWithFileMutation(o, p) == \E i \in 1 .. Len(queue[p]) : queue[p][i] = o
withFileMutation(o, p) == queue[p] # <<>> /\ Head(queue[p]) = o

-----------------------------------------------------------------------------
(* Secrets. *)

\* put and delete of a secret enter the queue of the file, or go to the keychain.
Asks(o, r, v) ==
  /\ Becomes(o, [at |-> IF backend = "keychain" THEN "keychain" ELSE "queued",
                 ref |-> r, value |-> v, copy |-> None])
  /\ IF backend = "keychain" THEN UNCHANGED queue ELSE Enters(o, "secrets")
put(o, r) ==
  /\ At(o, "idle") /\ Begins /\ Asks(o, r, made')
  /\ UNCHANGED <<driver, svars, ovars, faults>>
delete(o, r) ==
  /\ At(o, "idle") /\ Begins /\ Asks(o, r, None)
  /\ UNCHANGED <<driver, svars, ovars, faults>>

\* #read: the whole file, empty if there is none.
read(o) ==
  /\ At(o, "queued") /\ withFileMutation(o, "secrets")
  /\ Becomes(o, [op[o] EXCEPT !.copy = secrets,
                             !.at = IF backend = "dpapi" /\ op[o].value # None THEN "protect"
                                    ELSE "temporary"])
  /\ UNCHANGED <<driver, svars, ovars, queue, made, faults>>

\* #protect: PowerShell encrypts the value.
protect(o) ==
  /\ At(o, "protect") /\ Goes(o, "temporary")
  /\ UNCHANGED <<driver, svars, ovars, queue, made, faults>>

Sets(o, all) ==
  /\ secrets' = [all EXCEPT ![op[o].ref] = op[o].value]
  /\ last' = [last EXCEPT ![op[o].ref] = op[o].value]
  /\ Goes(o, "renamed")
  /\ UNCHANGED <<driver, backend, ca, signed, ovars, queue, made, faults>>

\* The keychain changes the one secret.
putKeychainSecret(o) == At(o, "keychain") /\ op[o].value # None /\ Sets(o, secrets)
deleteGenericPassword(o) == At(o, "keychain") /\ op[o].value = None /\ Sets(o, secrets)

\* publishFileAtomically: a temporary file that is synced, then renamed.
publishFileAtomically(o) == At(o, "temporary") /\ Sets(o, op[o].copy)

\* The operation ends: the authority that was being created is known, or it never
\* will be in this process.
Created(o, how) == IF op[o].ref = Authority THEN Promise(how, op[o].value) ELSE ca
settled(o) ==
  /\ At(o, "renamed") /\ ca' = Created(o, "fulfilled")
  /\ Becomes(o, IF op[o].ref = Authority THEN [at |-> "ca-wait"] ELSE Idle) /\ Leaves(o, "secrets")
  /\ UNCHANGED <<driver, backend, secrets, last, signed, ovars, made, faults>>

\* It fails before the rename, or after it (a chmod, a sync of the directory).
mutationFails(o) ==
  /\ op[o].at \in {"queued", "protect", "temporary", "renamed", "keychain"} /\ Fault
  /\ backend # "keychain" => withFileMutation(o, "secrets")
  /\ ca' = Created(o, "rejected")
  /\ Becomes(o, Idle) /\ Leaves(o, "secrets")
  /\ UNCHANGED <<driver, backend, secrets, last, signed, ovars, made>>

-----------------------------------------------------------------------------
(* The certificate authority. *)

\* #loadOrCreate: the first call reads or creates, the others wait for it.
loadOrCreate(o) ==
  /\ At(o, "idle") /\ Begins
  /\ IF ca = NoPromise THEN ca' = Promise("pending", None) /\ Becomes(o, [at |-> "ca-read"])
     ELSE UNCHANGED ca /\ Becomes(o, [at |-> "ca-wait"])
  /\ UNCHANGED <<driver, backend, secrets, last, signed, ovars, queue, faults>>

\* #readOrCreate: what is stored, or a new one, which is put before it is used; the
\* caller goes on when the promise settles, like the others.
readOrCreate(o) ==
  /\ At(o, "ca-read")
  /\ IF secrets[Authority] # None
     THEN /\ ca' = Promise("fulfilled", secrets[Authority]) /\ Becomes(o, [at |-> "ca-wait"]) /\ UNCHANGED <<queue, made>>
     ELSE /\ made' = made + 1 /\ UNCHANGED ca
          /\ Asks(o, Authority, made')
  /\ UNCHANGED <<driver, backend, secrets, last, signed, ovars, faults>>
readFails(o) ==
  /\ At(o, "ca-read") /\ Fault /\ ca' = Promise("rejected", None) /\ Becomes(o, Idle)
  /\ UNCHANGED <<driver, backend, secrets, last, signed, ovars, queue, made>>

\* issue, signCsr: signed with the authority of the promise, or refused with it.
signCsr(o) ==
  /\ At(o, "ca-wait") /\ ca.is \in {"fulfilled", "rejected"}
  /\ signed' = IF ca.is = "rejected" THEN signed ELSE signed \cup {ca.key}
  /\ Becomes(o, Idle)
  /\ UNCHANGED <<driver, backend, secrets, last, ca, ovars, queue, made, faults>>

-----------------------------------------------------------------------------
(* The object on disk. *)

\* put, open, stat and delete enter the queue of the metadata path.
asks(o, what) ==
  /\ driver = "local" /\ At(o, "idle") /\ Begins
  /\ Becomes(o, [at |-> what, version |-> made', seen |-> None, got |-> None, left |-> {}])
  /\ Enters(o, "object") /\ UNCHANGED <<driver, svars, ovars, faults>>

objectPut(o) ==
  /\ At(o, "put") /\ withFileMutation(o, "object")
  /\ content' = op[o].version /\ torn' = TRUE /\ Goes(o, "metadata")
  /\ UNCHANGED <<driver, svars, meta, stored, expired, queue, made, faults>>

\* #writeMetadata of a put.
writeMetadata(o) ==
  /\ At(o, "metadata")
  /\ meta' = op[o].version /\ stored' = op[o].version /\ torn' = FALSE
  /\ Becomes(o, Idle) /\ Leaves(o, "object")
  /\ UNCHANGED <<driver, svars, content, expired, made, faults>>

\* #readMetadata: no file, an expired object, which is removed, or the metadata.
readMetadata(o) ==
  /\ op[o].at \in {"open", "stat"} /\ withFileMutation(o, "object")
  /\ CASE meta = None \/ (op[o].at = "stat" /\ meta \notin expired) ->
            Becomes(o, Idle) /\ Leaves(o, "object")
       [] meta \in expired ->
            Becomes(o, [op[o] EXCEPT !.at = "remove", !.left = {"content", "metadata"}]) /\ UNCHANGED queue
       [] OTHER -> Becomes(o, [op[o] EXCEPT !.at = "file", !.seen = meta]) /\ UNCHANGED queue
  /\ UNCHANGED <<driver, svars, ovars, made, faults>>

\* open: the content file, which may be gone, ...
openFile(o) ==
  /\ At(o, "file")
  /\ IF content = None THEN Becomes(o, Idle) /\ Leaves(o, "object")
     ELSE Becomes(o, [op[o] EXCEPT !.at = "touch", !.got = content]) /\ UNCHANGED queue
  /\ UNCHANGED <<driver, svars, ovars, made, faults>>

\* ... then the metadata with a new access time; the stream is handed out.
touch(o) ==
  /\ At(o, "touch") /\ meta' = op[o].seen
  /\ Goes(o, "streams") /\ Leaves(o, "object")
  /\ UNCHANGED <<driver, svars, content, stored, expired, torn, made, faults>>
streamEnds(o) ==
  /\ At(o, "streams") /\ Becomes(o, Idle)
  /\ UNCHANGED <<driver, svars, ovars, queue, made, faults>>

\* #deleteObject: the two files, in any order.
objectDelete(o) ==
  /\ At(o, "delete") /\ withFileMutation(o, "object")
  /\ Becomes(o, [op[o] EXCEPT !.at = "remove", !.left = {"content", "metadata"}])
  /\ UNCHANGED <<driver, svars, ovars, queue, made, faults>>
deleteObject(o, file) ==
  /\ At(o, "remove") /\ file \in op[o].left
  /\ content' = IF file = "content" THEN None ELSE content
  /\ meta' = IF file = "metadata" THEN None ELSE meta
  /\ IF op[o].left = {file}
     THEN torn' = FALSE /\ stored' = None /\ Becomes(o, Idle) /\ Leaves(o, "object")
     ELSE /\ torn' = TRUE /\ Becomes(o, [op[o] EXCEPT !.left = @ \ {file}])
          /\ UNCHANGED <<stored, queue>>
  /\ UNCHANGED <<driver, svars, expired, made, faults>>

\* A write fails or the content has another hash: the operation leaves what it did.
objectFails(o) ==
  /\ op[o].at \in {"put", "metadata", "touch", "remove"} /\ withFileMutation(o, "object") /\ Fault
  /\ Becomes(o, Idle) /\ Leaves(o, "object")
  /\ UNCHANGED <<driver, svars, ovars, made>>

-----------------------------------------------------------------------------
(* The object in a cloud: one request each, by any number of nodes. *)

Uploads(o) ==
  /\ At(o, "idle") /\ Begins
  /\ content' = made' /\ meta' = made' /\ stored' = made'
  /\ UNCHANGED <<driver, svars, expired, torn, queue, faults>>

\* An upload replaces the object and its metadata at once; Azure and GCS are then asked
\* what they have, which may be the upload of another node, or nothing.
s3Put(o) == driver = "s3" /\ Uploads(o) /\ UNCHANGED op
azurePut(o) == driver = "azure-blob" /\ Uploads(o) /\ Becomes(o, [at |-> "uploaded"])
gcsPut(o) == driver = "gcs" /\ Uploads(o) /\ Becomes(o, [at |-> "uploaded"])
described(o) ==
  /\ At(o, "uploaded") /\ Becomes(o, Idle)
  /\ UNCHANGED <<driver, svars, ovars, queue, made, faults>>

\* stat: an expired object is removed by a second request.
Heads(o) ==
  /\ At(o, "idle") /\ Begins /\ meta \in expired
  /\ Becomes(o, [at |-> "expired"])
  /\ UNCHANGED <<driver, svars, ovars, queue, faults>>
s3Stat(o) == driver = "s3" /\ Heads(o)
azureStat(o) == driver = "azure-blob" /\ Heads(o)

\* GCS is asked whether the object exists, then for its metadata, by open as well.
gcsStat(o) ==
  /\ driver = "gcs" /\ At(o, "idle") /\ Begins /\ content # None
  /\ Becomes(o, [at |-> "exists"])
  /\ UNCHANGED <<driver, svars, ovars, queue, faults>>
gcsMetadata(o, opening) ==
  /\ At(o, "exists")
  /\ Becomes(o, CASE meta = None -> Idle
                  [] meta \in expired -> [at |-> "expired"]
                  [] OTHER -> IF opening THEN [at |-> "found"] ELSE Idle)
  /\ UNCHANGED <<driver, svars, ovars, queue, made, faults>>

\* open: the stream of what is there, expired or not.
Downloads(o) == Becomes(o, [at |-> "streams", seen |-> meta, got |-> content])
cloudOpen(o) ==
  /\ driver \in {"s3", "azure-blob"} /\ At(o, "idle") /\ Begins /\ content # None /\ Downloads(o)
  /\ UNCHANGED <<driver, svars, ovars, queue, faults>>
gcsOpen(o) ==
  /\ At(o, "found") /\ IF content = None THEN Becomes(o, Idle) ELSE Downloads(o)
  /\ UNCHANGED <<driver, svars, ovars, queue, made, faults>>

cloudDelete(o) ==
  /\ \/ At(o, "expired") /\ UNCHANGED made
     \/ driver # "local" /\ At(o, "idle") /\ Begins
  /\ content' = None /\ meta' = None /\ stored' = None /\ Becomes(o, Idle)
  /\ UNCHANGED <<driver, svars, expired, torn, queue, faults>>

-----------------------------------------------------------------------------
\* The expiry of the object passes.
expires ==
  /\ meta # None /\ meta \notin expired /\ expired' = expired \cup {meta}
  /\ UNCHANGED <<driver, svars, content, meta, stored, torn, queue, op, made, faults>>

\* The process is killed and starts again: files and objects stay.
Crash ==
  /\ Fault /\ op' = [o \in Op |-> Idle] /\ queue' = [p \in Path |-> <<>>] /\ ca' = NoPromise
  /\ UNCHANGED <<driver, backend, secrets, last, signed, ovars, made>>

OfSecrets ==
  \E o \in Op :
    \/ \E r \in Ref : put(o, r) \/ delete(o, r)
    \/ read(o) \/ protect(o) \/ publishFileAtomically(o)
    \/ putKeychainSecret(o) \/ deleteGenericPassword(o) \/ settled(o) \/ mutationFails(o)
    \/ loadOrCreate(o) \/ readOrCreate(o) \/ readFails(o) \/ signCsr(o)
OfObjects ==
  \/ \E o \in Op :
       \/ \E what \in {"put", "open", "stat", "delete"} : asks(o, what)
       \/ objectPut(o) \/ writeMetadata(o) \/ readMetadata(o) \/ openFile(o) \/ touch(o)
       \/ streamEnds(o) \/ objectDelete(o) \/ objectFails(o)
       \/ \E file \in {"content", "metadata"} : deleteObject(o, file)
       \/ s3Put(o) \/ azurePut(o) \/ gcsPut(o) \/ described(o) \/ s3Stat(o) \/ azureStat(o)
       \/ gcsStat(o) \/ (\E opening \in BOOLEAN : gcsMetadata(o, opening))
       \/ cloudOpen(o) \/ gcsOpen(o) \/ cloudDelete(o)
  \/ expires
Next == OfSecrets \/ OfObjects \/ Crash

Spec == Init /\ [][Next]_vars

-----------------------------------------------------------------------------
TypeOK ==
  /\ driver \in Driver /\ backend \in Backend /\ expired \subseteq 1 .. made /\ torn \in BOOLEAN
  /\ \A p \in Path : \A i \in 1 .. Len(queue[p]) : queue[p][i] \in Op

\* No change of a secret is undone by the change of another one, whatever fails or
\* crashes (the file is rewritten whole); every certificate was signed by the authority
\* that is stored, and by no other.  A stream that is handed out has the content its
\* metadata speaks of, content and metadata are of one version, and the object the last
\* put on disk stored is there until it expires or is deleted, unless a put or a removal
\* was interrupted (the torn object is what restore's hash check is for).
FilesKept ==
  /\ secrets = last
  /\ signed \subseteq {secrets[Authority]}
  /\ faults = 0 => \A o \in Op : At(o, "streams") => op[o].got = op[o].seen
  /\ ~torn /\ (\A o \in Op : op[o].at # "touch") =>
       content = meta /\ (stored # None => content = stored)

=============================================================================
