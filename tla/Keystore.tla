------------------------------- MODULE Keystore -------------------------------
(***************************************************************************)
(* The key store (pkg/frost/keystore/keychain_store.go) on top of the file *)
(* backend (pkg/storage/file.go, through keystore/file_storage.go) or the  *)
(* memory backend (pkg/storage/memory.go, keystore/memory_storage.go),     *)
(* used by several goroutines of a process that may crash.                 *)
(*                                                                         *)
(* The backend holds its lock for one operation at a time.  The key store  *)
(* has no lock of its own: StoreKeyPackage is an Exists and then a Put,    *)
(* UpdateMetadata a Get and then a Put, ListKeyPackages a List and then    *)
(* one Get per key.  A Put of the file backend writes a temporary file and *)
(* renames it; a crash leaves behind whatever is on disk.  Any operation   *)
(* on a file may fail.  The memory backend keeps nothing; the key store    *)
(* never asks it for a time to live, so its entries do not expire.         *)
(*                                                                         *)
(* An identifier is a sequence of characters that begins with the prefix   *)
(* it is stored under, Keys or Groups: the operations on group public keys *)
(* make the same backend calls as those on key packages.                   *)
(***************************************************************************)
EXTENDS Integers, Sequences, SequencesExt, FiniteSets

CONSTANTS
  Callers,     \* goroutines
  Ids,         \* keyID and groupID arguments, with their prefix
  Shares,      \* secret shares (or public keys) to store
  GroupIDs,    \* groups of key packages
  Packages,    \* key packages to store: a group and a share each
  MinSigners,  \* the threshold of the packages stored
  Backends,    \* the backends to look at
  OnDisk,      \* identifiers an earlier process may have stored packages for
  MaxCalls,    \* bound: calls in a behaviour
  MaxCrashes   \* bound: crashes in a behaviour

Keys == "frost/keypackages/"
Groups == "frost/groups/"

ASSUME KeystoreAssumptions ==
  /\ \A i \in Ids : i \in Seq(STRING) /\ i # <<>> /\ Head(i) \in {Keys, Groups}
  /\ Shares \subseteq STRING /\ {"", "torn"} \cap Shares = {} /\ Shares # {}
  /\ GroupIDs # {} /\ "" \notin GroupIDs
  /\ Packages \subseteq GroupIDs \X Shares
  /\ MinSigners \in Nat \ {0}
  /\ Backends \subseteq {"file", "memory"}
  /\ OnDisk \subseteq Ids
  /\ MaxCalls \in Nat /\ MaxCrashes \in Nat
  /\ "nobody" \notin Callers

\* strings.ReplaceAll of "/" and then of "..", from left to right.
Sanitized(chars) ==
  FoldLeft(LAMBDA acc, ch : IF ch = "." /\ acc # <<>> /\ Last(acc) = "."
                              THEN Append(Front(acc), "_") ELSE Append(acc, ch),
           <<>>,
           [n \in DOMAIN chars |-> IF chars[n] = "/" THEN "_" ELSE chars[n]])

\* keyPackageStorageKey, groupKeyStorageKey.
StorageKey(id) == <<Head(id)>> \o Sanitized(Tail(id))

StorageKeys == {StorageKey(i) : i \in Ids}

VARIABLES
  backend,  \* the backend in use
  files,    \* the files under basePath, or data; NoFile where there is none
  tmp,      \* the .tmp file next to each
  closed,   \* the backend's closed flag
  lock,     \* who is inside Put, holding the backend's lock
  pc,       \* where each caller is in the code
  frame,    \* the locals of each caller's call
  result,   \* what each caller's last call returned
  calls,    \* calls begun
  crashes,  \* crashes so far
  offered   \* history: what was asked to be stored, and where

vars == <<backend, files, tmp, closed, lock, pc, frame, result, calls, crashes, offered>>

\* StoredKeyPackage; group is the GroupID of the metadata, which a caller may
\* change, and "" where there is none.
NoFile == [id |-> <<>>, share |-> "", minSigners |-> 0, group |-> ""]
Torn == [NoFile EXCEPT !.share = "torn"]

FromKeyPackage(id, group, share) ==
  [id |-> id, share |-> share, minSigners |-> MinSigners, group |-> group]

Nobody == "nobody"

\* group, keys, found: what ListKeyPackages looks for, has still to read, and
\* has found.  History: present, the packages of that group that were there
\* since it began; failed, those whose file it could not read; alone, no
\* other call has changed the file of this one since it began.
NoFrame ==
  [op |-> "Get", id |-> <<>>, content |-> NoFile, group |-> "", keys |-> {},
   found |-> {}, present |-> {}, failed |-> {}, alone |-> TRUE]

\* package: the frost.KeyPackage returned.  History: replaced, there was a
\* file when the call filed its own.
NoResult ==
  [op |-> "Get", id |-> <<>>, err |-> "storage", content |-> NoFile,
   package |-> [share |-> "", minSigners |-> 0], found |-> {}, present |-> {},
   failed |-> {}, replaced |-> FALSE, alone |-> TRUE]

\* NewFileBackend over a directory that may hold packages already, or
\* NewMemoryBackend.
Init ==
  /\ backend \in Backends
  /\ \E ids \in IF backend = "file" THEN {{}, OnDisk} ELSE {{}} :
       LET share == CHOOSE sh \in Shares : TRUE
           group == CHOOSE g \in GroupIDs : TRUE
           old(k) == {FromKeyPackage(i, group, share) :
                        i \in {j \in ids : StorageKey(j) = k}}
       IN  /\ files = [k \in StorageKeys |->
                IF old(k) = {} THEN NoFile ELSE CHOOSE content \in old(k) : TRUE]
           /\ offered = {[key |-> StorageKey(i), id |-> i, share |-> share] : i \in ids}
  /\ tmp = [k \in StorageKeys |-> NoFile]
  /\ closed = FALSE
  /\ lock = Nobody
  /\ pc = [c \in Callers |-> "idle"]
  /\ frame = [c \in Callers |-> NoFrame]
  /\ result = [c \in Callers |-> NoResult]
  /\ calls = 0
  /\ crashes = 0

Present(id) == files[StorageKey(id)] # NoFile

\* An operation of the backend may fail: it is closed, or permission is
\* denied or the disk fails.
MayFail == closed \/ backend = "file"

\* A call of c begins; its first backend operation needs the lock free.
Enter(c) ==
  /\ pc[c] = "idle"
  /\ calls < MaxCalls
  /\ lock = Nobody
  /\ calls' = calls + 1

\* A call that ends in the step it began in.
Answer(c, answer) ==
  /\ result' = [result EXCEPT ![c] = answer]
  /\ UNCHANGED <<pc, frame>>

Failure(err) == [NoResult EXCEPT !.err = err]
Success(op, id) == [NoResult EXCEPT !.op = op, !.id = id, !.err = ""]

\* A call in progress ends.
Return(c, answer) ==
  /\ pc' = [pc EXCEPT ![c] = "idle"]
  /\ frame' = [frame EXCEPT ![c] = NoFrame]
  /\ result' = [result EXCEPT ![c] = answer]

-----------------------------------------------------------------------------
(* StoreKeyPackage, StoreGroupPublicKey, UpdateMetadata.                   *)

\* Exists, the first half of StoreKeyPackage.
\* Mutant: what is there is not looked at.
NothingExists(id) == FALSE
Exists(id) == Present(id)

Store(c, id, group, share) ==
  /\ Enter(c)
  /\ offered' = offered \cup {[key |-> StorageKey(id), id |-> id, share |-> share]}
  /\ \/ MayFail /\ Answer(c, Failure("storage"))
     \/ ~closed /\ Exists(id) /\ Answer(c, Failure("exists"))
     \/ /\ ~closed /\ ~Exists(id)
        /\ pc' = [pc EXCEPT ![c] = "put"]
        /\ frame' = [frame EXCEPT ![c] =
             [NoFrame EXCEPT !.op = "Store", !.id = id,
                             !.content = FromKeyPackage(id, group, share)]]
        /\ result' = [result EXCEPT ![c] = NoResult]
  /\ UNCHANGED <<backend, files, tmp, closed, lock, crashes>>

StoreKeyPackage(c, id, group, share) ==
  Head(id) = Keys /\ Store(c, id, group, share)
StoreGroupPublicKey(c, id, share) == Head(id) = Groups /\ Store(c, id, "", share)

\* The errors Get may return, or unmarshalling what it read; "" is none.
ReadErrors(k) ==
  (IF MayFail THEN {"storage"} ELSE {})
    \cup (CASE closed -> {}
            [] ~closed /\ files[k] = NoFile -> {"not found"}
            [] ~closed /\ files[k] = Torn -> {"unmarshal"}
            [] OTHER -> {""})

\* Get, the first half of UpdateMetadata: what was read is given the new
\* metadata, which names the same package and threshold.
UpdateMetadata(c, id, group) ==
  LET old == files[StorageKey(id)]
  IN  /\ Head(id) = Keys
      /\ Enter(c)
      /\ \E err \in ReadErrors(StorageKey(id)) :
           \/ err # "" /\ Answer(c, Failure(err))
           \/ /\ err = ""
              /\ pc' = [pc EXCEPT ![c] = "put"]
              /\ frame' = [frame EXCEPT ![c] =
                   [NoFrame EXCEPT !.op = "Update", !.id = id,
                                   !.content = [old EXCEPT !.id = id, !.group = group]]]
              /\ result' = [result EXCEPT ![c] = NoResult]
      /\ UNCHANGED <<backend, files, tmp, closed, lock, crashes, offered>>

\* Put takes the lock and opens the temporary file, truncating an old one;
\* it fails when the backend is closed or the directory cannot be made.
\* Mutant: the file itself is opened and written in place.
PutBeginInPlace(c) ==
  LET k == StorageKey(frame[c].id)
  IN  /\ backend = "file"
      /\ pc[c] = "put" /\ lock = Nobody /\ ~closed
      /\ lock' = c
      /\ files' = [files EXCEPT ![k] = Torn]
      /\ pc' = [pc EXCEPT ![c] = "write"]
      /\ UNCHANGED <<backend, tmp, closed, frame, result, calls, crashes, offered>>
PutBegin(c) ==
  LET f == frame[c]
  IN  /\ backend = "file"
      /\ pc[c] = "put" /\ lock = Nobody
      /\ \/ /\ Return(c, Failure("storage"))
            /\ UNCHANGED <<lock, tmp>>
         \/ /\ ~closed
            /\ lock' = c
            /\ tmp' = [tmp EXCEPT ![StorageKey(f.id)] = Torn]
            /\ pc' = [pc EXCEPT ![c] = "write"]
            /\ UNCHANGED <<frame, result>>
      /\ UNCHANGED <<backend, files, closed, calls, crashes, offered>>

\* os.WriteFile writes all of it.
PutWrite(c) ==
  /\ pc[c] = "write"
  /\ tmp' = [tmp EXCEPT ![StorageKey(frame[c].id)] = frame[c].content]
  /\ pc' = [pc EXCEPT ![c] = "rename"]
  /\ UNCHANGED <<backend, files, closed, lock, frame, result, calls, crashes, offered>>

\* The deferred Unlock of Put.
\* Mutant: an error path returns without it.
KeptLock(c) == lock
Unlocked(c) == Nobody

\* os.WriteFile fails; what it wrote so far stays in the temporary file.
PutWriteFails(c) ==
  /\ pc[c] = "write"
  /\ lock' = Unlocked(c)
  /\ Return(c, Failure("storage"))
  /\ UNCHANGED <<backend, files, tmp, closed, calls, crashes, offered>>

\* The filter of ListKeyPackages; "" is every group.
Wanted(content, group) == group = "" \/ content.group = group

\* The other calls after that of c made content of what is stored under k:
\* those that are at the file of k are no longer alone, and it has not been
\* there all the time for the lists that do not want it.
Interfered(c, k, content) ==
  [d \in Callers |->
     [frame[d] EXCEPT
        !.alone = @ /\ ~(d # c /\ pc[d] \in {"put", "write", "rename"}
                           /\ StorageKey(frame[d].id) = k),
        !.present = IF content # NoFile /\ Wanted(content, frame[d].group)
                      THEN @ ELSE @ \ {k}]]

\* The call of c replaces what is stored under its key and returns.
Filed(c, content) ==
  LET f == frame[c]
      k == StorageKey(f.id)
  IN  /\ files' = [files EXCEPT ![k] = content]
      /\ pc' = [pc EXCEPT ![c] = "idle"]
      /\ frame' = [Interfered(c, k, content) EXCEPT ![c] = NoFrame]
      /\ result' = [result EXCEPT ![c] =
           [Success(f.op, f.id) EXCEPT !.replaced = Present(f.id),
                                         !.alone = f.alone]]

PutRename(c) ==
  LET k == StorageKey(frame[c].id)
  IN  /\ pc[c] = "rename"
      /\ Filed(c, tmp[k])
      /\ tmp' = [tmp EXCEPT ![k] = NoFile]
      /\ lock' = Unlocked(c)
      /\ UNCHANGED <<backend, closed, calls, crashes, offered>>

\* os.Rename fails; the temporary file is removed.
PutRenameFails(c) ==
  LET f == frame[c]
  IN  /\ pc[c] = "rename"
      /\ tmp' = [tmp EXCEPT ![StorageKey(f.id)] = NoFile]
      /\ lock' = Unlocked(c)
      /\ Return(c, Failure("storage"))
      /\ UNCHANGED <<backend, files, closed, calls, crashes, offered>>

\* Put of the memory backend stores a copy, or finds the backend closed.
PutMemory(c) ==
  /\ backend = "memory"
  /\ pc[c] = "put" /\ lock = Nobody
  /\ \/ /\ closed
        /\ Return(c, Failure("storage"))
        /\ UNCHANGED files
     \/ ~closed /\ Filed(c, frame[c].content)
  /\ UNCHANGED <<backend, tmp, closed, lock, calls, crashes, offered>>

-----------------------------------------------------------------------------
(* The other operations.                                                   *)

\* ToKeyPackage restores everything but MinSigners and MaxSigners.
ToKeyPackage(content) == [share |-> content.share, minSigners |-> 0]

Get(c, id) ==
  LET content == files[StorageKey(id)]
  IN  /\ Enter(c)
      /\ \E err \in ReadErrors(StorageKey(id)) :
           \/ err # "" /\ Answer(c, Failure(err))
           \/ err = "" /\ Answer(c, [Success("Get", id) EXCEPT
                !.content = content, !.package = ToKeyPackage(content)])
      /\ UNCHANGED <<backend, files, tmp, closed, lock, crashes, offered>>

GetKeyPackage(c, id) == Head(id) = Keys /\ Get(c, id)
GetGroupPublicKey(c, id) == Head(id) = Groups /\ Get(c, id)

Delete(c, id) ==
  LET k == StorageKey(id)
  IN  /\ Enter(c)
      /\ \/ /\ MayFail
            /\ result' = [result EXCEPT ![c] = Failure("storage")]
            /\ UNCHANGED <<files, frame>>
         \/ /\ ~closed /\ ~Present(id)
            /\ result' = [result EXCEPT ![c] = Failure("not found")]
            /\ UNCHANGED <<files, frame>>
         \/ /\ ~closed /\ Present(id)
            /\ result' = [result EXCEPT ![c] = Success("Delete", id)]
            /\ files' = [files EXCEPT ![k] = NoFile]
            /\ frame' = Interfered(c, k, NoFile)
      /\ UNCHANGED <<backend, tmp, closed, lock, pc, crashes, offered>>

DeleteKeyPackage(c, id) == Head(id) = Keys /\ Delete(c, id)
DeleteGroupPublicKey(c, id) == Head(id) = Groups /\ Delete(c, id)

\* List, which sees no temporary file, and skips a directory it may not read:
\* then no key is listed.
List(c, prefix, group) ==
  LET all == {k \in StorageKeys : Head(k) = prefix /\ files[k] # NoFile}
      present == {k \in all : Wanted(files[k], group)}
  IN  /\ Enter(c)
      /\ \/ MayFail /\ Answer(c, Failure("storage"))
         \/ /\ ~closed /\ (backend = "file" \/ all = {})
            /\ Answer(c, [Success("List", <<>>) EXCEPT
                            !.present = present, !.failed = all])
         \/ /\ ~closed /\ all # {}
            /\ pc' = [pc EXCEPT ![c] = "list"]
            /\ frame' = [frame EXCEPT ![c] =
                 [NoFrame EXCEPT !.op = "List", !.group = group, !.keys = all,
                                 !.present = present]]
            /\ result' = [result EXCEPT ![c] = NoResult]
      /\ UNCHANGED <<backend, files, tmp, closed, lock, crashes, offered>>

ListKeyPackages(c, group) == List(c, Keys, group)
ListGroups(c) == List(c, Groups, "")

\* The keys left after k could not be read: it is skipped.
\* Mutant: the loop ends.
NoKeysLeft(c, k) == {}
KeysLeft(c, k) == frame[c].keys \ {k}

\* One Get of ListKeyPackages, the filter, and the return after the last.
ListGet(c) ==
  /\ pc[c] = "list" /\ lock = Nobody
  /\ \E k \in frame[c].keys : \E err \in ReadErrors(k) :
       LET f == frame[c]
           left == IF err = "" THEN f.keys \ {k} ELSE KeysLeft(c, k)
           found == f.found \cup (IF err = "" /\ Wanted(files[k], f.group) THEN {k} ELSE {})
           failed == f.failed \cup (IF err = "storage" THEN {k} ELSE {})
       IN  \/ /\ left # {}
              /\ frame' = [frame EXCEPT ![c].keys = left, ![c].found = found,
                                        ![c].failed = failed]
              /\ UNCHANGED <<pc, result>>
           \/ /\ left = {}
              /\ Return(c, [Success("List", <<>>) EXCEPT
                              !.found = found, !.present = f.present, !.failed = failed])
  /\ UNCHANGED <<backend, files, tmp, closed, lock, calls, crashes, offered>>

\* What the file backend keeps, the memory backend forgets.
Kept == IF backend = "file" THEN files ELSE [k \in StorageKeys |-> NoFile]

Close ==
  /\ lock = Nobody
  /\ ~closed
  /\ closed' = TRUE
  /\ files' = Kept
  /\ frame' = [d \in Callers |-> [frame[d] EXCEPT !.present = {}]]
  /\ UNCHANGED <<backend, tmp, lock, pc, result, calls, crashes, offered>>

\* The process dies and is started again: the files stay as they are.
Crash ==
  /\ crashes < MaxCrashes
  /\ files' = Kept
  /\ crashes' = crashes + 1
  /\ closed' = FALSE
  /\ lock' = Nobody
  /\ pc' = [c \in Callers |-> "idle"]
  /\ frame' = [c \in Callers |-> NoFrame]
  /\ result' = [c \in Callers |-> NoResult]
  /\ UNCHANGED <<backend, tmp, calls, offered>>

Begin(c) ==
  \/ \E id \in Ids :
       \/ \E kp \in Packages : StoreKeyPackage(c, id, kp[1], kp[2])
       \/ \E share \in Shares : StoreGroupPublicKey(c, id, share)
       \/ \E group \in GroupIDs : UpdateMetadata(c, id, group)
       \/ GetKeyPackage(c, id) \/ GetGroupPublicKey(c, id)
       \/ DeleteKeyPackage(c, id) \/ DeleteGroupPublicKey(c, id)
  \/ \E group \in GroupIDs \cup {""} : ListKeyPackages(c, group)
  \/ ListGroups(c)

Step(c) ==
  \/ PutBegin(c) \/ PutWrite(c) \/ PutWriteFails(c)
  \/ PutRename(c) \/ PutRenameFails(c) \/ PutMemory(c)
  \/ ListGet(c)

Next ==
  \/ \E c \in Callers : Begin(c) \/ Step(c)
  \/ Close
  \/ Crash

Spec == Init /\ [][Next]_vars

\* A call in progress goes on: file operations end, and the RWMutex lets in
\* whoever waits for it.
Fairness == \A c \in Callers : WF_vars(Step(c))

FairSpec == Spec /\ Fairness

-----------------------------------------------------------------------------
(* Properties.                                                             *)

\* Whatever overlaps, fails or crashes, what a reader finds under a key is
\* nothing, or exactly one package that somebody asked to store there, whole:
\* "Atomic writes prevent partial data corruption" (pkg/storage/doc.go).  And
\* what Get returns was stored under the identifier it was asked for, be it
\* one of a key package or of a group (as long as no two are sanitized to the
\* same).
SharesIntact ==
  /\ lock = Nobody =>
       \A k \in StorageKeys :
         files[k] # NoFile =>
           \E o \in offered : o.key = k /\ o.share = files[k].share
  /\ \A c \in Callers :
       result[c].op = "Get" /\ result[c].err = "" =>
         /\ result[c].content.id = result[c].id
         /\ result[c].package.share = result[c].content.share

\* ListKeyPackages, which reads key by key without a lock while others store,
\* delete and change groups, misses none of the group that was there from its
\* beginning to its end, unless it could not read that very one: it goes on
\* without an error then, although "ListKeyPackages returns metadata for all
\* stored key packages" (keystore.go).
ListComplete ==
  \A c \in Callers :
    result[c].op = "List" /\ result[c].err = "" =>
      result[c].present \ result[c].failed \subseteq result[c].found

\* Every call returns, also when a write fails in the middle of it.
CallsReturn == \A c \in Callers : pc[c] # "idle" ~> pc[c] = "idle"

\* StoreKeyPackage "Returns ErrAlreadyExists if a key package with the same
\* key ID already exists", UpdateMetadata "Returns ErrNotFound if the key
\* package does not exist" (keystore.go).  Both look first and write later;
\* a store that succeeds replaced nothing and an update brought nothing back,
\* as long as no other call filed or deleted the same key in between.
WritesMatchChecks ==
  \A c \in Callers :
    result[c].err = "" /\ result[c].alone =>
      /\ result[c].op = "Store" => ~result[c].replaced
      /\ result[c].op = "Update" => result[c].replaced
=============================================================================
