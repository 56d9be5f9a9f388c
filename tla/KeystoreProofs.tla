----------------------------- MODULE KeystoreProofs -----------------------------
(***************************************************************************)
(* Proofs about the key store on the file and the memory backend, for      *)
(* every number of goroutines, identifiers, shares, calls and crashes.     *)
(* What the sanitizing of identifiers computes plays no part: StorageKey   *)
(* stays folded, and where two identifiers must not share a key, the       *)
(* theorem says so.                                                        *)
(***************************************************************************)
EXTENDS Keystore, TLAPS

-----------------------------------------------------------------------------
(* Types.                                                                  *)

Ident == Ids \cup {<<>>}
AnyShare == Shares \cup {"", "torn"}

Content ==
  [id : Ident, share : AnyShare, minSigners : {0, MinSigners},
   group : GroupIDs \cup {""}]

Frame ==
  [op : {"Get", "Store", "Update", "List"}, id : Ident, content : Content,
   group : GroupIDs \cup {""}, keys : SUBSET StorageKeys,
   found : SUBSET StorageKeys, present : SUBSET StorageKeys,
   failed : SUBSET StorageKeys, alone : BOOLEAN]

Ops == {"Get", "Store", "Update", "List", "Delete"}
Errors == {"", "storage", "exists", "not found", "unmarshal"}

Result ==
  [op : Ops, id : Ident, err : Errors, content : Content,
   package : [share : AnyShare, minSigners : {0}], found : SUBSET StorageKeys,
   present : SUBSET StorageKeys, failed : SUBSET StorageKeys,
   replaced : BOOLEAN, alone : BOOLEAN]

Labels == {"idle", "put", "write", "rename", "list"}

TypeOK ==
  /\ backend \in {"file", "memory"}
  /\ files \in [StorageKeys -> Content]
  /\ tmp \in [StorageKeys -> Content]
  /\ closed \in BOOLEAN
  /\ lock \in Callers \cup {Nobody}
  /\ pc \in [Callers -> Labels]
  /\ frame \in [Callers -> Frame]
  /\ result \in [Callers -> Result]
  /\ calls \in Nat /\ crashes \in Nat
  /\ offered \subseteq [key : StorageKeys, id : Ids, share : Shares]

LEMMA StorageKeyType == \A i \in Ids : StorageKey(i) \in StorageKeys
BY DEF StorageKeys

LEMMA NobodyCalls == Nobody \notin Callers
BY KeystoreAssumptions DEF Nobody

LEMMA NoFileType == NoFile \in Content /\ NoFile.id = <<>> /\ NoFile.share = ""
BY DEF NoFile, Content, Ident, AnyShare

LEMMA TornType == Torn \in Content /\ Torn.share = "torn"
BY DEF Torn, NoFile, Content, Ident, AnyShare

LEMMA FromKeyPackageType ==
  ASSUME NEW id \in Ids, NEW group \in GroupIDs \cup {""}, NEW share \in Shares
  PROVE  /\ FromKeyPackage(id, group, share) \in Content
         /\ FromKeyPackage(id, group, share).id = id
         /\ FromKeyPackage(id, group, share).share = share
BY DEF FromKeyPackage, Content, Ident, AnyShare

LEMMA NoFrameType == NoFrame \in Frame
BY NoFileType DEF NoFrame, Frame, Ident

LEMMA NoResultType == NoResult \in Result /\ NoResult.err = "storage"
BY NoFileType DEF NoResult, Result, Ident, AnyShare, Ops, Errors

LEMMA FailureType ==
  ASSUME NEW err \in Errors
  PROVE  Failure(err) \in Result /\ Failure(err).err = err
BY NoFileType DEF Failure, NoResult, Result, Ident, AnyShare, Ops, Errors

LEMMA SuccessType ==
  ASSUME NEW op \in Ops, NEW id \in Ident
  PROVE  /\ Success(op, id) \in Result
         /\ Success(op, id).op = op
         /\ Success(op, id).id = id
BY NoFileType DEF Success, NoResult, Result, Ident, AnyShare, Ops, Errors

-----------------------------------------------------------------------------
(* The invariant.                                                          *)

Putting == {"put", "write", "rename"}

\* A whole package that one of the offers asks to store under key k.
Good(offers, k, content) ==
  /\ content \in Content
  /\ content.id \in Ids /\ StorageKey(content.id) = k
  /\ content.share \in Shares
  /\ \E o \in offers : o.key = k /\ o.share = content.share

FilesGood == \A k \in StorageKeys : files[k] # NoFile => Good(offered, k, files[k])

\* Whoever writes has the lock of the file backend.
LockHeld ==
  \A c \in Callers :
    /\ pc[c] \in {"write", "rename"} <=> lock = c
    /\ pc[c] \in {"write", "rename"} => backend = "file"

\* A call that writes has a whole package, and from its write to its rename
\* the temporary file is this package.
PutsGood ==
  \A c \in Callers : pc[c] \in Putting =>
    /\ frame[c].id \in Ids /\ frame[c].op \in {"Store", "Update"}
    /\ Good(offered, StorageKey(frame[c].id), frame[c].content)
    /\ pc[c] = "rename" => tmp[StorageKey(frame[c].id)] = frame[c].content

\* What a call saw before it writes is still so, if nobody came between;
\* once the memory backend is closed it will not write.
PutsMatch ==
  \A c \in Callers :
    pc[c] \in Putting /\ frame[c].alone /\ (closed => backend = "file") =>
      /\ frame[c].op = "Store" => files[StorageKey(frame[c].id)] = NoFile
      /\ frame[c].op = "Update" => files[StorageKey(frame[c].id)] # NoFile

\* A package that was there since the list began can still be read, and is
\* one of the group; it is still to read, found, or could not be read.
ListsGood ==
  \A c \in Callers : pc[c] = "list" =>
    /\ frame[c].present \subseteq frame[c].keys \cup frame[c].found \cup frame[c].failed
    /\ \A k \in frame[c].present :
         ~closed /\ files[k] # NoFile /\ Wanted(files[k], frame[c].group)

\* What a call may return.
ResultOK(r) ==
  /\ r.op = "Get" /\ r.err = "" =>
       /\ r.content.id \in Ids /\ r.id \in Ids
       /\ StorageKey(r.content.id) = StorageKey(r.id)
       /\ r.package.share = r.content.share
  /\ r.op = "List" /\ r.err = "" => r.present \ r.failed \subseteq r.found
  /\ r.err = "" /\ r.alone =>
       /\ r.op = "Store" => ~r.replaced
       /\ r.op = "Update" => r.replaced

ResultsGood == \A c \in Callers : ResultOK(result[c])

KeyInv ==
  /\ TypeOK /\ FilesGood /\ LockHeld /\ PutsGood /\ PutsMatch /\ ListsGood
  /\ ResultsGood

LEMMA FailureOK ==
  ASSUME NEW r, r.err # "" PROVE ResultOK(r)
BY DEF ResultOK

\* A readable file holds a whole package.
LEMMA ReadableGood ==
  ASSUME KeyInv, NEW k \in StorageKeys, "" \in ReadErrors(k)
  PROVE  ~closed /\ files[k] # NoFile /\ Good(offered, k, files[k])
<1>1. ~closed /\ files[k] # NoFile
  BY DEF ReadErrors
<1>2. QED
  BY <1>1 DEF KeyInv, FilesGood

LEMMA ReadErrorsType == \A k : ReadErrors(k) \subseteq Errors
BY DEF ReadErrors, Errors

\* Packages stay offered.
LEMMA GoodStays ==
  ASSUME NEW offers, NEW more, offers \subseteq more
  PROVE  \A k, content : Good(offers, k, content) => Good(more, k, content)
BY DEF Good

-----------------------------------------------------------------------------
(* Steps that have their frames in common.                                 *)

\* What a call leaves alone that does not write.
NothingWritten == UNCHANGED <<backend, files, tmp, closed, lock, crashes>>

OffersGrow ==
  /\ offered \subseteq offered'
  /\ offered' \subseteq [key : StorageKeys, id : Ids, share : Shares]

\* A call begins and ends in one step, without a change of the backend.
LEMMA AnswerInv ==
  ASSUME KeyInv, NEW c \in Callers, NEW r \in Result, ResultOK(r),
         Answer(c, r), calls' \in Nat, NothingWritten, OffersGrow
  PROVE  KeyInv'
<1>1. /\ UNCHANGED <<pc, frame>>
      /\ result' \in [Callers -> Result] /\ result'[c] = r
      /\ \A d \in Callers \ {c} : result'[d] = result[d]
  BY DEF KeyInv, TypeOK, Answer
<1>2. TypeOK'
  BY <1>1 DEF KeyInv, TypeOK, NothingWritten, OffersGrow
<1>3. FilesGood'
  BY GoodStays DEF KeyInv, FilesGood, NothingWritten, OffersGrow
<1>4. LockHeld' /\ PutsMatch' /\ ListsGood'
  BY <1>1 DEF KeyInv, LockHeld, PutsMatch, ListsGood, NothingWritten
<1>5. PutsGood'
  BY <1>1, GoodStays DEF KeyInv, PutsGood, NothingWritten, OffersGrow
<1>6. ResultsGood'
  BY <1>1 DEF KeyInv, ResultsGood
<1>7. QED
  BY <1>2, <1>3, <1>4, <1>5, <1>6 DEF KeyInv

\* Caller c goes to a label with a frame, and the others stay.
Goes(c, label, f) ==
  /\ pc' = [pc EXCEPT ![c] = label]
  /\ frame' = [frame EXCEPT ![c] = f]

LEMMA GoesType ==
  ASSUME TypeOK, NEW c \in Callers, NEW label \in Labels, NEW f \in Frame,
         Goes(c, label, f)
  PROVE  /\ pc' \in [Callers -> Labels] /\ frame' \in [Callers -> Frame]
         /\ pc'[c] = label /\ frame'[c] = f
         /\ \A d \in Callers \ {c} : pc'[d] = pc[d] /\ frame'[d] = frame[d]
BY DEF TypeOK, Goes

\* A call begins that will go on.
LEMMA BeginInv ==
  ASSUME KeyInv, NEW c \in Callers, pc[c] = "idle",
         NEW label \in {"put", "list"}, NEW f \in Frame, Goes(c, label, f),
         label = "put" =>
           /\ f.id \in Ids /\ f.op \in {"Store", "Update"}
           /\ Good(offered', StorageKey(f.id), f.content)
           /\ f.op = "Store" => files[StorageKey(f.id)] = NoFile
           /\ f.op = "Update" => files[StorageKey(f.id)] # NoFile,
         label = "list" =>
           /\ f.present \subseteq f.keys
           /\ \A k \in f.present :
                ~closed /\ files[k] # NoFile /\ Wanted(files[k], f.group),
         result' = [result EXCEPT ![c] = NoResult],
         calls' \in Nat, NothingWritten, OffersGrow
  PROVE  KeyInv'
<1>1. /\ pc' \in [Callers -> Labels] /\ frame' \in [Callers -> Frame]
      /\ pc'[c] = label /\ frame'[c] = f
      /\ \A d \in Callers \ {c} : pc'[d] = pc[d] /\ frame'[d] = frame[d]
  BY GoesType DEF KeyInv, Labels
<1>2. /\ result' \in [Callers -> Result] /\ result'[c] = NoResult
      /\ \A d \in Callers \ {c} : result'[d] = result[d]
  BY NoResultType DEF KeyInv, TypeOK
<1>3. TypeOK'
  BY <1>1, <1>2 DEF KeyInv, TypeOK, NothingWritten, OffersGrow
<1>4. FilesGood'
  BY GoodStays DEF KeyInv, FilesGood, NothingWritten, OffersGrow
<1>5. LockHeld'
  BY <1>1 DEF KeyInv, LockHeld, NothingWritten
<1>6. PutsGood'
  BY <1>1, GoodStays DEF KeyInv, PutsGood, Putting, NothingWritten, OffersGrow
<1>7. PutsMatch'
  BY <1>1 DEF KeyInv, PutsMatch, Putting, NothingWritten
<1>8. ListsGood'
  BY <1>1 DEF KeyInv, ListsGood, NothingWritten
<1>9. ResultsGood'
  BY <1>2, NoResultType, FailureOK DEF KeyInv, ResultsGood
<1>10. QED
  BY <1>3, <1>4, <1>5, <1>6, <1>7, <1>8, <1>9 DEF KeyInv

\* A call in progress ends, and gives back the lock if it has it.  No other
\* call relies on what it leaves in its temporary file.
LEMMA ReturnInv ==
  ASSUME KeyInv, NEW c \in Callers, NEW r \in Result, ResultOK(r), Return(c, r),
         pc[c] # "idle",
         UNCHANGED <<backend, files, closed, calls, crashes, offered>>,
         pc[c] \in {"write", "rename"} =>
           /\ lock' = Nobody /\ tmp' \in [StorageKeys -> Content],
         pc[c] \notin {"write", "rename"} => UNCHANGED <<lock, tmp>>
  PROVE  KeyInv'
<1>1. /\ pc' \in [Callers -> Labels] /\ frame' \in [Callers -> Frame]
      /\ pc'[c] = "idle"
      /\ \A d \in Callers \ {c} : pc'[d] = pc[d] /\ frame'[d] = frame[d]
  BY GoesType, NoFrameType DEF KeyInv, Labels, Return, Goes
<1>2. /\ result' \in [Callers -> Result] /\ result'[c] = r
      /\ \A d \in Callers \ {c} : result'[d] = result[d]
  BY DEF KeyInv, TypeOK, Return
<1>3. TypeOK'
  BY <1>1, <1>2 DEF KeyInv, TypeOK
<1>4. FilesGood'
  BY DEF KeyInv, FilesGood
<1>5. LockHeld'
  BY <1>1, NobodyCalls DEF KeyInv, LockHeld
<1>6. ASSUME NEW d \in Callers, pc'[d] = "rename"
      PROVE  tmp' = tmp
  BY <1>1, <1>6 DEF KeyInv, LockHeld
<1>7. PutsGood'
  BY <1>1, <1>6 DEF KeyInv, PutsGood, Putting
<1>8. PutsMatch' /\ ListsGood'
  BY <1>1 DEF KeyInv, PutsMatch, ListsGood, Putting
<1>9. ResultsGood'
  BY <1>2 DEF KeyInv, ResultsGood
<1>10. QED
  BY <1>3, <1>4, <1>5, <1>7, <1>8, <1>9 DEF KeyInv

-----------------------------------------------------------------------------
(* The steps of Put.                                                       *)

\* Put has taken the lock and opened the temporary file.
LEMMA PutOpenedInv ==
  ASSUME KeyInv, NEW c \in Callers, backend = "file", pc[c] = "put",
         lock = Nobody, lock' = c,
         tmp' = [tmp EXCEPT ![StorageKey(frame[c].id)] = Torn],
         pc' = [pc EXCEPT ![c] = "write"],
         UNCHANGED <<backend, files, closed, frame, result, calls, crashes, offered>>
  PROVE  KeyInv'
<1>1. pc' \in [Callers -> Labels] /\ pc'[c] = "write"
      /\ \A d \in Callers \ {c} : pc'[d] = pc[d]
  BY DEF KeyInv, TypeOK, Labels
<1>2. tmp' \in [StorageKeys -> Content]
  BY TornType DEF KeyInv, TypeOK
<1>3. TypeOK'
  BY <1>1, <1>2 DEF KeyInv, TypeOK
<1>4. \A d \in Callers : pc[d] \notin {"write", "rename"}
  BY NobodyCalls DEF KeyInv, LockHeld
<1>5. LockHeld'
  BY <1>1, <1>4 DEF LockHeld
<1>6. PutsGood'
  BY <1>1, <1>4 DEF KeyInv, PutsGood, Putting
<1>7. PutsMatch' /\ ListsGood'
  BY <1>1 DEF KeyInv, PutsMatch, ListsGood, Putting
<1>8. FilesGood' /\ ResultsGood'
  BY DEF KeyInv, FilesGood, ResultsGood
<1>9. QED
  BY <1>3, <1>5, <1>6, <1>7, <1>8 DEF KeyInv

LEMMA PutWriteInv ==
  ASSUME KeyInv, NEW c \in Callers, PutWrite(c)
  PROVE  KeyInv'
<1> DEFINE k == StorageKey(frame[c].id)
<1>1. /\ pc[c] = "write"
      /\ tmp' = [tmp EXCEPT ![k] = frame[c].content]
      /\ pc' = [pc EXCEPT ![c] = "rename"]
      /\ UNCHANGED <<backend, files, closed, lock, frame, result, calls, crashes,
                     offered>>
  BY DEF PutWrite
<1>2. /\ pc' \in [Callers -> Labels] /\ pc'[c] = "rename"
      /\ \A d \in Callers \ {c} : pc'[d] = pc[d]
  BY <1>1 DEF KeyInv, TypeOK, Labels
<1>3. frame[c].id \in Ids /\ frame[c].content \in Content
  BY <1>1 DEF KeyInv, PutsGood, Putting, Good
<1>4. tmp' \in [StorageKeys -> Content] /\ tmp'[k] = frame[c].content
  BY <1>1, <1>3, StorageKeyType DEF KeyInv, TypeOK
<1> HIDE DEF k
<1>5. TypeOK'
  BY <1>1, <1>2, <1>4 DEF KeyInv, TypeOK
<1>6. lock = c /\ \A d \in Callers \ {c} : pc'[d] # "rename"
  BY <1>1, <1>2 DEF KeyInv, LockHeld
<1>7. LockHeld'
  BY <1>1, <1>2 DEF KeyInv, LockHeld
<1>8. PutsGood'
  BY <1>1, <1>2, <1>4, <1>6 DEF KeyInv, PutsGood, Putting, k
<1>9. PutsMatch' /\ ListsGood'
  BY <1>1, <1>2 DEF KeyInv, PutsMatch, ListsGood, Putting
<1>10. FilesGood' /\ ResultsGood'
  BY <1>1 DEF KeyInv, FilesGood, ResultsGood
<1>11. QED
  BY <1>5, <1>7, <1>8, <1>9, <1>10 DEF KeyInv

\* The frames of the others when the file of key k changes.
LEMMA InterferedFields ==
  ASSUME TypeOK, NEW c \in Callers, NEW k, NEW x, NEW d \in Callers
  PROVE  LET g == Interfered(c, k, x)[d]
         IN  /\ g \in Frame
             /\ g.op = frame[d].op /\ g.id = frame[d].id
             /\ g.content = frame[d].content /\ g.group = frame[d].group
             /\ g.keys = frame[d].keys /\ g.found = frame[d].found
             /\ g.failed = frame[d].failed
             /\ g.present \subseteq frame[d].present
             /\ k \in g.present => x # NoFile /\ Wanted(x, frame[d].group)
             /\ g.alone => frame[d].alone
             /\ g.alone /\ d # c /\ pc[d] \in Putting => StorageKey(frame[d].id) # k
<1> DEFINE b == frame[d].alone /\ ~(d # c /\ pc[d] \in {"put", "write", "rename"}
                                      /\ StorageKey(frame[d].id) = k)
           there == IF x # NoFile /\ Wanted(x, frame[d].group)
                      THEN frame[d].present ELSE frame[d].present \ {k}
           g == [frame[d] EXCEPT !.alone = b, !.present = there]
<1>1. frame[d] \in Frame
  BY DEF TypeOK
<1>2. b \in BOOLEAN
  OBVIOUS
<1>3. Interfered(c, k, x)[d] = g
  BY DEF Interfered
<1>4. /\ there \subseteq frame[d].present /\ there \subseteq StorageKeys
      /\ k \in there => x # NoFile /\ Wanted(x, frame[d].group)
  BY <1>1 DEF Frame
<1> HIDE DEF b, there
<1>5. /\ g \in Frame
      /\ g.op = frame[d].op /\ g.id = frame[d].id
      /\ g.content = frame[d].content /\ g.group = frame[d].group
      /\ g.keys = frame[d].keys /\ g.found = frame[d].found
      /\ g.failed = frame[d].failed /\ g.present = there
      /\ g.alone = b
  BY <1>1, <1>2, <1>4 DEF Frame
<1> HIDE DEF g
<1>6. b => frame[d].alone
  BY DEF b
<1>7. b /\ d # c /\ pc[d] \in Putting => StorageKey(frame[d].id) # k
  BY DEF b, Putting
<1>8. QED
  BY <1>3, <1>4, <1>5, <1>6, <1>7

\* The call's package is in its place, and the call returns.
LEMMA FiledInv ==
  ASSUME KeyInv, NEW c \in Callers, pc[c] \in Putting,
         pc[c] = "put" => lock = Nobody, ~closed \/ backend = "file",
         Filed(c, frame[c].content), lock' = Nobody,
         tmp' \in [StorageKeys -> Content],
         UNCHANGED <<backend, closed, calls, crashes, offered>>
  PROVE  KeyInv'
<1> DEFINE f == frame[c]
           k == StorageKey(f.id)
           e == Success(f.op, f.id)
           r == [e EXCEPT !.replaced = Present(f.id), !.alone = f.alone]
<1>1. /\ f \in Frame /\ f.id \in Ids /\ f.op \in {"Store", "Update"}
      /\ Good(offered, k, f.content) /\ f.content \in Content /\ k \in StorageKeys
      /\ f.alone \in BOOLEAN
  BY StorageKeyType DEF KeyInv, TypeOK, PutsGood, Good, Frame
<1>2. /\ files' = [files EXCEPT ![k] = f.content]
      /\ pc' = [pc EXCEPT ![c] = "idle"]
      /\ frame' = [Interfered(c, k, f.content) EXCEPT ![c] = NoFrame]
      /\ result' = [result EXCEPT ![c] = r]
  BY DEF Filed
<1>3. Present(f.id) \in BOOLEAN /\ (Present(f.id) <=> files[k] # NoFile)
  BY DEF Present
<1>4. r \in Result /\ r.op = f.op /\ r.replaced = Present(f.id) /\ r.alone = f.alone
  <2>1. e \in Result /\ e.op = f.op
    <3>1. f.op \in Ops /\ f.id \in Ident
      BY <1>1 DEF Ops, Ident
    <3> HIDE DEF f
    <3>2. QED
      BY <3>1, SuccessType
  <2> HIDE DEF e
  <2>2. QED
    BY <1>1, <1>3, <2>1 DEF Result
<1>5. ResultOK(r)
  <2>1. f.alone => /\ f.op = "Store" => ~Present(f.id)
                   /\ f.op = "Update" => Present(f.id)
    BY <1>3 DEF KeyInv, PutsMatch
  <2> HIDE DEF r, f
  <2>2. QED
    BY <1>1, <1>4, <2>1 DEF ResultOK
<1> HIDE DEF r
<1>6. /\ result' \in [Callers -> Result] /\ result'[c] = r
      /\ \A d \in Callers \ {c} : result'[d] = result[d]
      /\ pc' \in [Callers -> Labels] /\ pc'[c] = "idle"
      /\ \A d \in Callers \ {c} : pc'[d] = pc[d]
      /\ files' \in [StorageKeys -> Content] /\ files'[k] = f.content
      /\ \A j \in StorageKeys \ {k} : files'[j] = files[j]
  BY <1>1, <1>2, <1>4 DEF KeyInv, TypeOK, Labels
<1> HIDE DEF k, f
<1>7. /\ frame' \in [Callers -> Frame]
      /\ \A d \in Callers \ {c} :
           /\ frame'[d].op = frame[d].op /\ frame'[d].id = frame[d].id
           /\ frame'[d].content = frame[d].content
           /\ frame'[d].group = frame[d].group /\ frame'[d].keys = frame[d].keys
           /\ frame'[d].found = frame[d].found /\ frame'[d].failed = frame[d].failed
           /\ frame'[d].present \subseteq frame[d].present
           /\ k \in frame'[d].present => Wanted(f.content, frame[d].group)
           /\ frame'[d].alone => frame[d].alone
           /\ frame'[d].alone /\ pc[d] \in Putting => StorageKey(frame[d].id) # k
  <2>1. DOMAIN Interfered(c, k, f.content) = Callers
    BY DEF Interfered
  <2>2. \A d \in Callers \ {c} : frame'[d] = Interfered(c, k, f.content)[d]
    BY <1>2, <2>1
  <2>3. frame'[c] = NoFrame /\ frame' = [d \in Callers |-> frame'[d]]
    BY <1>2, <2>1
  <2>4. TypeOK
    BY DEF KeyInv
  <2>5. \A d \in Callers \ {c} : frame'[d] \in Frame
    BY <2>2, <2>4, InterferedFields
  <2>6. frame' \in [Callers -> Frame]
    BY <2>3, <2>5, NoFrameType
  <2>7. QED
    BY <2>2, <2>4, <2>6, InterferedFields
<1>8. TypeOK'
  BY <1>6, <1>7 DEF KeyInv, TypeOK
<1>9. f.content # NoFile
  BY <1>1, NoFileType, KeystoreAssumptions DEF Good
<1>10. FilesGood'
  BY <1>1, <1>6 DEF KeyInv, FilesGood
<1>11. \A d \in Callers \ {c} : pc[d] \notin {"write", "rename"}
  BY NobodyCalls DEF KeyInv, LockHeld, Putting
<1>12. LockHeld'
  BY <1>6, <1>11, NobodyCalls DEF LockHeld
<1>13. PutsGood'
  BY <1>6, <1>7, <1>11 DEF KeyInv, PutsGood, Putting
<1>14. PutsMatch'
  <2> SUFFICES ASSUME NEW d \in Callers, pc'[d] \in Putting, frame'[d].alone,
                      closed => backend = "file"
               PROVE  /\ frame'[d].op = "Store" =>
                           files'[StorageKey(frame'[d].id)] = NoFile
                      /\ frame'[d].op = "Update" =>
                           files'[StorageKey(frame'[d].id)] # NoFile
    BY DEF PutsMatch
  <2>1. d # c /\ pc[d] \in Putting
    BY <1>6 DEF Putting
  <2>2. /\ frame'[d].op = frame[d].op /\ frame'[d].id = frame[d].id
        /\ frame[d].alone /\ StorageKey(frame[d].id) # k
    BY <1>7, <2>1
  <2>3. StorageKey(frame[d].id) \in StorageKeys
    BY <2>1, StorageKeyType DEF KeyInv, PutsGood
  <2>4. files'[StorageKey(frame[d].id)] = files[StorageKey(frame[d].id)]
    BY <1>6, <2>2, <2>3
  <2>5. QED
    BY <2>1, <2>2, <2>4 DEF KeyInv, PutsMatch
<1>15. ListsGood'
  <2> SUFFICES ASSUME NEW d \in Callers, pc'[d] = "list"
               PROVE  /\ frame'[d].present \subseteq
                           frame'[d].keys \cup frame'[d].found \cup frame'[d].failed
                      /\ \A j \in frame'[d].present :
                           /\ ~closed /\ files'[j] # NoFile
                           /\ Wanted(files'[j], frame'[d].group)
    BY DEF ListsGood
  <2>1. d # c /\ pc[d] = "list"
    BY <1>6
  <2>2. /\ frame[d].present \subseteq
             frame[d].keys \cup frame[d].found \cup frame[d].failed
        /\ \A j \in frame[d].present :
             ~closed /\ files[j] # NoFile /\ Wanted(files[j], frame[d].group)
    BY <2>1 DEF KeyInv, ListsGood
  <2>3. frame[d].present \subseteq StorageKeys
    BY DEF KeyInv, TypeOK, Frame
  <2>4. frame'[d].present \subseteq
          frame'[d].keys \cup frame'[d].found \cup frame'[d].failed
    BY <1>7, <2>1, <2>2
  <2>5. ASSUME NEW j \in frame'[d].present
        PROVE  ~closed /\ files'[j] # NoFile /\ Wanted(files'[j], frame'[d].group)
    BY <1>6, <1>7, <1>9, <2>1, <2>2, <2>3
  <2>6. QED
    BY <2>4, <2>5
<1>16. ResultsGood'
  BY <1>5, <1>6 DEF KeyInv, ResultsGood
<1>17. QED
  BY <1>8, <1>10, <1>12, <1>13, <1>14, <1>15, <1>16 DEF KeyInv

-----------------------------------------------------------------------------
(* Delete, ListGet, Close and Crash.                                       *)

\* A file is removed: the frames say so to whoever relies on it.
LEMMA DeletedInv ==
  ASSUME KeyInv, NEW c \in Callers, NEW id \in Ids, pc[c] = "idle",
         files' = [files EXCEPT ![StorageKey(id)] = NoFile],
         frame' = Interfered(c, StorageKey(id), NoFile),
         NEW r \in Result, ResultOK(r), result' = [result EXCEPT ![c] = r],
         calls' \in Nat,
         UNCHANGED <<backend, tmp, closed, lock, pc, crashes, offered>>
  PROVE  KeyInv'
<1> DEFINE k == StorageKey(id)
<1>1. /\ k \in StorageKeys /\ files' \in [StorageKeys -> Content]
      /\ files'[k] = NoFile /\ \A j \in StorageKeys \ {k} : files'[j] = files[j]
  BY StorageKeyType, NoFileType DEF KeyInv, TypeOK
<1>2. TypeOK
  BY DEF KeyInv
<1>3. ASSUME NEW d \in Callers
      PROVE  /\ frame'[d] \in Frame
             /\ frame'[d].op = frame[d].op /\ frame'[d].id = frame[d].id
             /\ frame'[d].content = frame[d].content
             /\ frame'[d].group = frame[d].group /\ frame'[d].keys = frame[d].keys
             /\ frame'[d].found = frame[d].found
             /\ frame'[d].failed = frame[d].failed
             /\ frame'[d].present \subseteq frame[d].present
             /\ k \notin frame'[d].present
             /\ frame'[d].alone => frame[d].alone
             /\ frame'[d].alone /\ d # c /\ pc[d] \in Putting =>
                  StorageKey(frame[d].id) # k
  BY <1>2, InterferedFields
<1>4. frame' \in [Callers -> Frame]
  <2>1. frame' = [d \in Callers |-> frame'[d]]
    BY DEF Interfered
  <2>2. QED
    BY <1>3, <2>1
<1> HIDE DEF k
<1>5. /\ result' \in [Callers -> Result] /\ result'[c] = r
      /\ \A d \in Callers \ {c} : result'[d] = result[d]
  BY DEF KeyInv, TypeOK
<1>6. TypeOK'
  BY <1>1, <1>4, <1>5 DEF KeyInv, TypeOK
<1>7. FilesGood'
  BY <1>1 DEF KeyInv, FilesGood
<1>8. LockHeld'
  BY DEF KeyInv, LockHeld
<1>9. PutsGood'
  BY <1>3, ZenonT(40) DEF KeyInv, PutsGood
<1>10. PutsMatch'
  <2> SUFFICES ASSUME NEW d \in Callers, pc[d] \in Putting, frame'[d].alone,
                      closed => backend = "file"
               PROVE  /\ frame'[d].op = "Store" =>
                           files'[StorageKey(frame'[d].id)] = NoFile
                      /\ frame'[d].op = "Update" =>
                           files'[StorageKey(frame'[d].id)] # NoFile
    BY DEF PutsMatch
  <2>1. d # c
    BY DEF Putting
  <2>2. /\ frame'[d].op = frame[d].op /\ frame'[d].id = frame[d].id
        /\ frame[d].alone /\ StorageKey(frame[d].id) # k
    BY <1>3, <2>1
  <2>3. StorageKey(frame[d].id) \in StorageKeys
    BY StorageKeyType DEF KeyInv, PutsGood
  <2>4. files'[StorageKey(frame[d].id)] = files[StorageKey(frame[d].id)]
    BY <1>1, <2>2, <2>3
  <2>5. QED
    BY <2>2, <2>4 DEF KeyInv, PutsMatch
<1>11. ListsGood'
  <2> SUFFICES ASSUME NEW d \in Callers, pc[d] = "list"
               PROVE  /\ frame'[d].present \subseteq
                           frame'[d].keys \cup frame'[d].found \cup frame'[d].failed
                      /\ \A j \in frame'[d].present :
                           /\ ~closed /\ files'[j] # NoFile
                           /\ Wanted(files'[j], frame'[d].group)
    BY DEF ListsGood
  <2>1. /\ frame[d].present \subseteq
             frame[d].keys \cup frame[d].found \cup frame[d].failed
        /\ \A j \in frame[d].present :
             ~closed /\ files[j] # NoFile /\ Wanted(files[j], frame[d].group)
    BY DEF KeyInv, ListsGood
  <2>2. frame[d].present \subseteq StorageKeys
    BY DEF KeyInv, TypeOK, Frame
  <2>3. frame'[d].present \subseteq
          frame'[d].keys \cup frame'[d].found \cup frame'[d].failed
    BY <1>3, <2>1
  <2>4. ASSUME NEW j \in frame'[d].present
        PROVE  ~closed /\ files'[j] # NoFile /\ Wanted(files'[j], frame'[d].group)
    BY <1>1, <1>3, <2>1, <2>2
  <2>5. QED
    BY <2>3, <2>4
<1>12. ResultsGood'
  BY <1>5 DEF KeyInv, ResultsGood
<1>13. QED
  BY <1>6, <1>7, <1>8, <1>9, <1>10, <1>11, <1>12 DEF KeyInv

LEMMA KeptType ==
  ASSUME TypeOK
  PROVE  /\ Kept \in [StorageKeys -> Content]
         /\ backend = "file" => Kept = files
         /\ \A k \in StorageKeys : Kept[k] = files[k] \/ Kept[k] = NoFile
BY NoFileType DEF TypeOK, Kept

LEMMA CloseInv ==
  ASSUME KeyInv, Close
  PROVE  KeyInv'
<1>1. /\ lock = Nobody /\ ~closed /\ closed' = TRUE /\ files' = Kept
      /\ frame' = [d \in Callers |-> [frame[d] EXCEPT !.present = {}]]
      /\ UNCHANGED <<backend, tmp, lock, pc, result, calls, crashes, offered>>
  BY DEF Close
<1>2. TypeOK
  BY DEF KeyInv
<1>3. \A d \in Callers : frame[d] \in Frame
  BY <1>2 DEF TypeOK
<1>4. ASSUME NEW d \in Callers
      PROVE  /\ frame'[d] \in Frame
             /\ frame'[d].op = frame[d].op /\ frame'[d].id = frame[d].id
             /\ frame'[d].content = frame[d].content
             /\ frame'[d].present = {}
             /\ frame'[d].alone = frame[d].alone
  <2>1. frame'[d] = [frame[d] EXCEPT !.present = {}] /\ frame[d] \in Frame
    BY <1>1, <1>3
  <2>2. QED
    BY <2>1 DEF Frame
<1>5. frame' \in [Callers -> Frame]
  <2>1. frame' = [d \in Callers |-> frame'[d]]
    BY <1>1
  <2>2. QED
    BY <1>4, <2>1
<1>6. /\ files' \in [StorageKeys -> Content]
      /\ backend = "file" => files' = files
      /\ \A k \in StorageKeys : files'[k] = files[k] \/ files'[k] = NoFile
  BY <1>1, <1>2, KeptType
<1>7. TypeOK'
  BY <1>1, <1>5, <1>6 DEF KeyInv, TypeOK
<1>8. FilesGood'
  BY <1>1, <1>6 DEF KeyInv, FilesGood
<1>9. LockHeld' /\ ResultsGood'
  BY <1>1 DEF KeyInv, LockHeld, ResultsGood
<1>10. PutsGood'
  BY <1>1, <1>4 DEF KeyInv, PutsGood
<1>11. PutsMatch'
  BY <1>1, <1>4, <1>6 DEF KeyInv, PutsMatch
<1>12. ListsGood'
  BY <1>4 DEF ListsGood
<1>13. QED
  BY <1>7, <1>8, <1>9, <1>10, <1>11, <1>12 DEF KeyInv

LEMMA CrashInv ==
  ASSUME KeyInv, Crash
  PROVE  KeyInv'
<1>1. /\ files' = Kept /\ crashes' = crashes + 1 /\ closed' = FALSE /\ lock' = Nobody
      /\ pc' = [c \in Callers |-> "idle"]
      /\ frame' = [c \in Callers |-> NoFrame]
      /\ result' = [c \in Callers |-> NoResult]
      /\ UNCHANGED <<backend, tmp, calls, offered>>
  BY DEF Crash
<1>2. /\ files' \in [StorageKeys -> Content]
      /\ \A k \in StorageKeys : files'[k] = files[k] \/ files'[k] = NoFile
  BY <1>1, KeptType DEF KeyInv
<1>3. TypeOK'
  <2>1. /\ pc' \in [Callers -> Labels] /\ frame' \in [Callers -> Frame]
        /\ result' \in [Callers -> Result]
    BY <1>1, NoFrameType, NoResultType DEF Labels
  <2>2. crashes' \in Nat
    BY <1>1 DEF KeyInv, TypeOK
  <2>3. QED
    BY <1>1, <1>2, <2>1, <2>2 DEF KeyInv, TypeOK
<1>4. FilesGood'
  BY <1>1, <1>2 DEF KeyInv, FilesGood
<1>5. LockHeld' /\ PutsGood' /\ PutsMatch' /\ ListsGood'
  BY <1>1, NobodyCalls DEF LockHeld, PutsGood, PutsMatch, ListsGood, Putting
<1>6. ResultsGood'
  BY <1>1, NoResultType, FailureOK DEF ResultsGood
<1>7. QED
  BY <1>3, <1>4, <1>5, <1>6 DEF KeyInv

LEMMA ListGetInv ==
  ASSUME KeyInv, NEW c \in Callers, ListGet(c)
  PROVE  KeyInv'
<1> DEFINE f == frame[c]
<1>1. /\ pc[c] = "list"
      /\ UNCHANGED <<backend, files, tmp, closed, lock, calls, crashes, offered>>
  BY DEF ListGet
<1>2. /\ f \in Frame /\ f.keys \subseteq StorageKeys /\ f.found \subseteq StorageKeys
      /\ f.present \subseteq StorageKeys /\ f.failed \subseteq StorageKeys
      /\ f.present \subseteq f.keys \cup f.found \cup f.failed
      /\ \A k \in f.present :
           ~closed /\ files[k] # NoFile /\ Wanted(files[k], f.group)
  BY <1>1 DEF KeyInv, TypeOK, Frame, ListsGood
<1>2a. PICK k \in f.keys : \E err \in ReadErrors(k) :
        LET left == IF err = "" THEN f.keys \ {k} ELSE KeysLeft(c, k)
            found == f.found \cup (IF err = "" /\ Wanted(files[k], f.group) THEN {k} ELSE {})
            failed == f.failed \cup (IF err = "storage" THEN {k} ELSE {})
        IN  \/ /\ left # {}
               /\ frame' = [frame EXCEPT ![c].keys = left, ![c].found = found,
                                         ![c].failed = failed]
               /\ UNCHANGED <<pc, result>>
            \/ /\ left = {}
               /\ Return(c, [Success("List", <<>>) EXCEPT
                               !.found = found, !.present = f.present, !.failed = failed])
  BY DEF ListGet
<1>3. PICK err \in ReadErrors(k) :
        LET left == IF err = "" THEN f.keys \ {k} ELSE KeysLeft(c, k)
            found == f.found \cup (IF err = "" /\ Wanted(files[k], f.group) THEN {k} ELSE {})
            failed == f.failed \cup (IF err = "storage" THEN {k} ELSE {})
        IN  \/ /\ left # {}
               /\ frame' = [frame EXCEPT ![c].keys = left, ![c].found = found,
                                         ![c].failed = failed]
               /\ UNCHANGED <<pc, result>>
            \/ /\ left = {}
               /\ Return(c, [Success("List", <<>>) EXCEPT
                               !.found = found, !.present = f.present, !.failed = failed])
  BY <1>2a
<1> DEFINE left == f.keys \ {k}
           found == f.found \cup (IF err = "" /\ Wanted(files[k], f.group) THEN {k} ELSE {})
           failed == f.failed \cup (IF err = "storage" THEN {k} ELSE {})
           r == [Success("List", <<>>) EXCEPT
                   !.found = found, !.present = f.present, !.failed = failed]
<1>4. \/ /\ frame' = [frame EXCEPT ![c].keys = left, ![c].found = found,
                                   ![c].failed = failed]
         /\ UNCHANGED <<pc, result>>
      \/ left = {} /\ Return(c, r)
  BY <1>3 DEF KeysLeft
<1>5. k \in f.present => err \in {"", "storage"}
  <2> SUFFICES ASSUME k \in f.present PROVE err \in {"", "storage"}
    OBVIOUS
  <2>1. ~closed /\ files[k] # NoFile /\ Good(offered, k, files[k])
    BY <1>2 DEF KeyInv, FilesGood
  <2>2. files[k] # Torn
    BY <2>1, TornType, KeystoreAssumptions DEF Good
  <2>3. QED
    BY <1>3, <2>1, <2>2 DEF ReadErrors
<1>6. /\ found \subseteq StorageKeys /\ left \subseteq StorageKeys
      /\ failed \subseteq StorageKeys
      /\ f.present \subseteq left \cup found \cup failed
  BY <1>2, <1>5
<1> HIDE DEF found, left, failed, f, r
<1>7. CASE /\ frame' = [frame EXCEPT ![c].keys = left, ![c].found = found,
                                     ![c].failed = failed]
           /\ UNCHANGED <<pc, result>>
  <2> DEFINE g == [[[f EXCEPT !.keys = left] EXCEPT !.found = found]
                     EXCEPT !.failed = failed]
  <2>1. /\ g \in Frame /\ g.keys = left /\ g.found = found /\ g.failed = failed
        /\ g.present = f.present /\ g.group = f.group
    BY <1>2, <1>6 DEF Frame
  <2>2. frame' = [frame EXCEPT ![c] = g]
    BY <1>7 DEF f, KeyInv, TypeOK
  <2> HIDE DEF g
  <2>3. /\ frame' \in [Callers -> Frame] /\ frame'[c] = g
        /\ \A d \in Callers \ {c} : frame'[d] = frame[d]
    BY <2>1, <2>2 DEF KeyInv, TypeOK
  <2>4. TypeOK'
    BY <1>1, <1>7, <2>3 DEF KeyInv, TypeOK
  <2>5. FilesGood' /\ LockHeld' /\ ResultsGood'
    BY <1>1, <1>7 DEF KeyInv, FilesGood, LockHeld, ResultsGood
  <2>6. PutsGood' /\ PutsMatch'
    BY <1>1, <1>7, <2>3 DEF KeyInv, PutsGood, PutsMatch, Putting
  <2>7. ListsGood'
    BY <1>1, <1>2, <1>6, <1>7, <2>1, <2>3 DEF KeyInv, ListsGood
  <2>8. QED
    BY <2>4, <2>5, <2>6, <2>7 DEF KeyInv
<1>8. CASE left = {} /\ Return(c, r)
  <2> DEFINE e == Success("List", <<>>)
  <2>1. e \in Result /\ e.op = "List"
    BY SuccessType DEF Ops, Ident
  <2>2. r = [e EXCEPT !.found = found, !.present = f.present, !.failed = failed]
    BY DEF r
  <2> HIDE DEF e
  <2>3. /\ r \in Result /\ r.op = "List" /\ r.found = found
        /\ r.present = f.present /\ r.failed = failed
    BY <1>2, <1>6, <2>1, <2>2 DEF Result
  <2>4. ResultOK(r)
    BY <1>6, <1>8, <2>3 DEF ResultOK
  <2>5. QED
    BY <1>1, <1>8, <2>3, <2>4, ReturnInv
<1>9. QED
  BY <1>4, <1>7, <1>8

-----------------------------------------------------------------------------
(* The calls.                                                              *)

LEMMA FailureResult ==
  ASSUME NEW err \in Errors \ {""}
  PROVE  Failure(err) \in Result /\ ResultOK(Failure(err))
<1>1. Failure(err) \in Result /\ Failure(err).err = err
  BY FailureType
<1>2. QED
  BY <1>1, FailureOK

LEMMA Literals ==
  /\ "storage" \in Errors \ {""} /\ "exists" \in Errors \ {""}
  /\ "not found" \in Errors \ {""}
BY DEF Errors

LEMMA DeleteResult ==
  ASSUME NEW id \in Ids
  PROVE  Success("Delete", id) \in Result /\ ResultOK(Success("Delete", id))
<1>1. Success("Delete", id) \in Result /\ Success("Delete", id).op = "Delete"
  BY SuccessType DEF Ops, Ident
<1>2. QED
  BY <1>1 DEF ResultOK

LEMMA EnterStep ==
  ASSUME KeyInv, NEW c \in Callers, Enter(c)
  PROVE  pc[c] = "idle" /\ lock = Nobody /\ calls' \in Nat
BY DEF KeyInv, TypeOK, Enter

LEMMA StoreInv ==
  ASSUME KeyInv, NEW c \in Callers, NEW id \in Ids,
         NEW group \in GroupIDs \cup {""}, NEW share \in Shares,
         Store(c, id, group, share)
  PROVE  KeyInv'
<1> DEFINE o == [key |-> StorageKey(id), id |-> id, share |-> share]
<1>1. pc[c] = "idle" /\ calls' \in Nat
  BY EnterStep DEF Store
<1>2. offered' = offered \cup {o} /\ NothingWritten
  BY DEF Store, NothingWritten
<1>3. OffersGrow
  <2>1. o \in [key : StorageKeys, id : Ids, share : Shares]
    BY StorageKeyType
  <2> HIDE DEF o
  <2>2. QED
    BY <1>2, <2>1 DEF OffersGrow, KeyInv, TypeOK
<1>4. ASSUME NEW err \in Errors \ {""}, Answer(c, Failure(err))
      PROVE  KeyInv'
  BY <1>1, <1>2, <1>3, <1>4, FailureResult, AnswerInv
<1> DEFINE content == FromKeyPackage(id, group, share)
           f == [NoFrame EXCEPT !.op = "Store", !.id = id, !.content = content]
<1>5. CASE /\ ~Exists(id) /\ Goes(c, "put", f)
           /\ result' = [result EXCEPT ![c] = NoResult]
  <2>1. Good(offered', StorageKey(id), content)
    <3>1. o \in offered' /\ o.key = StorageKey(id) /\ o.share = content.share
      BY <1>2, FromKeyPackageType
    <3>2. content.id = id /\ content.share \in Shares /\ content \in Content
      BY FromKeyPackageType
    <3> HIDE DEF content, o
    <3>3. QED
      BY <3>1, <3>2 DEF Good
  <2>2. content \in Content
    BY FromKeyPackageType
  <2> HIDE DEF content
  <2>3. f \in Frame /\ f.op = "Store" /\ f.id = id /\ f.content = content
    BY <2>2, NoFrameType DEF Frame, Ident
  <2>4. files[StorageKey(id)] = NoFile
    BY <1>5 DEF Exists, Present
  <2> HIDE DEF f
  <2>5. QED
    BY <1>1, <1>2, <1>3, <1>5, <2>1, <2>3, <2>4, BeginInv
<1>6. QED
  BY <1>4, <1>5, Literals DEF Store, Goes

LEMMA UpdateMetadataInv ==
  ASSUME KeyInv, NEW c \in Callers, NEW id \in Ids, NEW group \in GroupIDs,
         UpdateMetadata(c, id, group)
  PROVE  KeyInv'
<1> DEFINE old == files[StorageKey(id)]
           content == [old EXCEPT !.id = id, !.group = group]
           f == [NoFrame EXCEPT !.op = "Update", !.id = id, !.content = content]
<1>1. pc[c] = "idle" /\ calls' \in Nat
  BY EnterStep DEF UpdateMetadata
<1>2. NothingWritten /\ OffersGrow /\ offered' = offered
  BY DEF UpdateMetadata, NothingWritten, OffersGrow, KeyInv, TypeOK
<1>3. ASSUME NEW err \in ReadErrors(StorageKey(id)), err # "", Answer(c, Failure(err))
      PROVE  KeyInv'
  BY <1>1, <1>2, <1>3, ReadErrorsType, FailureResult, AnswerInv
<1>4. CASE /\ "" \in ReadErrors(StorageKey(id)) /\ Goes(c, "put", f)
           /\ result' = [result EXCEPT ![c] = NoResult]
  <2>1. old # NoFile /\ Good(offered, StorageKey(id), old)
    BY <1>4, ReadableGood, StorageKeyType
  <2>2. old \in Content
    BY <2>1 DEF Good
  <2> HIDE DEF old
  <2>3. content \in Content /\ content.id = id /\ content.share = old.share
    BY <2>2 DEF Content, Ident
  <2>4. Good(offered', StorageKey(id), content)
    BY <1>2, <2>1, <2>3 DEF Good
  <2> HIDE DEF content
  <2>5. f \in Frame /\ f.op = "Update" /\ f.id = id /\ f.content = content
    BY <2>3, NoFrameType DEF Frame, Ident
  <2> HIDE DEF f
  <2>6. QED
    BY <1>1, <1>2, <1>4, <2>1, <2>4, <2>5, BeginInv DEF old
<1>5. QED
  BY <1>3, <1>4 DEF UpdateMetadata, Goes

LEMMA GetInv ==
  ASSUME KeyInv, NEW c \in Callers, NEW id \in Ids, Get(c, id)
  PROVE  KeyInv'
<1> DEFINE content == files[StorageKey(id)]
           e == Success("Get", id)
           r == [e EXCEPT !.content = content, !.package = ToKeyPackage(content)]
<1>1. calls' \in Nat
  BY EnterStep DEF Get
<1>2. NothingWritten /\ OffersGrow
  BY DEF Get, NothingWritten, OffersGrow, KeyInv, TypeOK
<1>3. ASSUME NEW err \in ReadErrors(StorageKey(id)), err # "", Answer(c, Failure(err))
      PROVE  KeyInv'
  BY <1>1, <1>2, <1>3, ReadErrorsType, FailureResult, AnswerInv
<1>4. CASE "" \in ReadErrors(StorageKey(id)) /\ Answer(c, r)
  <2>1. Good(offered, StorageKey(id), content)
    BY <1>4, ReadableGood, StorageKeyType
  <2>2. /\ content \in Content /\ content.id \in Ids
        /\ StorageKey(content.id) = StorageKey(id)
    BY <2>1 DEF Good
  <2>3. /\ ToKeyPackage(content) \in [share : AnyShare, minSigners : {0}]
        /\ ToKeyPackage(content).share = content.share
    BY <2>2 DEF ToKeyPackage, Content
  <2>4. e \in Result /\ e.id = id /\ e.op = "Get"
    BY SuccessType DEF Ops, Ident
  <2> HIDE DEF e, content
  <2>5. /\ r \in Result /\ r.id = id /\ r.content = content /\ r.op = "Get"
        /\ r.package = ToKeyPackage(content)
    BY <2>2, <2>3, <2>4 DEF Result
  <2> HIDE DEF r
  <2>6. ResultOK(r)
    BY <2>2, <2>3, <2>5 DEF ResultOK
  <2>7. QED
    BY <1>1, <1>2, <1>4, <2>5, <2>6, AnswerInv
<1>5. QED
  BY <1>3, <1>4 DEF Get

LEMMA DeleteInv ==
  ASSUME KeyInv, NEW c \in Callers, NEW id \in Ids, Delete(c, id)
  PROVE  KeyInv'
<1>1. pc[c] = "idle" /\ calls' \in Nat
  BY EnterStep DEF Delete
<1>2. UNCHANGED <<backend, tmp, closed, lock, pc, crashes, offered>>
  BY DEF Delete
<1>3. ASSUME NEW err \in Errors \ {""}, result' = [result EXCEPT ![c] = Failure(err)],
             UNCHANGED <<files, frame>>
      PROVE  KeyInv'
  <2>1. Answer(c, Failure(err)) /\ NothingWritten /\ OffersGrow
    BY <1>2, <1>3 DEF Answer, NothingWritten, OffersGrow, KeyInv, TypeOK
  <2>2. QED
    BY <1>1, <2>1, FailureResult, AnswerInv
<1>4. CASE /\ result' = [result EXCEPT ![c] = Success("Delete", id)]
           /\ files' = [files EXCEPT ![StorageKey(id)] = NoFile]
           /\ frame' = Interfered(c, StorageKey(id), NoFile)
  BY <1>1, <1>2, <1>4, DeleteResult, DeletedInv
<1>5. QED
  BY <1>3, <1>4, Literals DEF Delete

LEMMA ListInv ==
  ASSUME KeyInv, NEW c \in Callers, NEW prefix, NEW group \in GroupIDs \cup {""},
         List(c, prefix, group)
  PROVE  KeyInv'
<1> DEFINE all == {k \in StorageKeys : Head(k) = prefix /\ files[k] # NoFile}
           present == {k \in all : Wanted(files[k], group)}
           f == [NoFrame EXCEPT !.op = "List", !.group = group, !.keys = all,
                                !.present = present]
           e == Success("List", <<>>)
           r == [e EXCEPT !.present = present, !.failed = all]
<1>1. pc[c] = "idle" /\ calls' \in Nat
  BY EnterStep DEF List
<1>2. NothingWritten /\ OffersGrow
  BY DEF List, NothingWritten, OffersGrow, KeyInv, TypeOK
<1>3. /\ all \subseteq StorageKeys /\ present \subseteq all
      /\ \A k \in present : files[k] # NoFile /\ Wanted(files[k], group)
  OBVIOUS
<1>4. CASE Answer(c, Failure("storage"))
  BY <1>1, <1>2, <1>4, Literals, FailureResult, AnswerInv
<1>5. CASE Answer(c, r)
  <2>1. e \in Result /\ e.op = "List"
    BY SuccessType DEF Ops, Ident
  <2> HIDE DEF e, all, present
  <2>2. r \in Result /\ r.op = "List" /\ r.present = present /\ r.failed = all
    BY <1>3, <2>1 DEF Result
  <2> HIDE DEF r
  <2>3. ResultOK(r)
    BY <1>3, <2>2 DEF ResultOK
  <2>4. QED
    BY <1>1, <1>2, <1>5, <2>2, <2>3, AnswerInv
<1>6. CASE /\ ~closed /\ Goes(c, "list", f)
           /\ result' = [result EXCEPT ![c] = NoResult]
  <2> HIDE DEF all, present
  <2>1. /\ f \in Frame /\ f.keys = all /\ f.present = present
        /\ f.group = group
    BY <1>3, NoFrameType DEF Frame
  <2> HIDE DEF f
  <2>2. QED
    BY <1>1, <1>2, <1>3, <1>6, <2>1, BeginInv
<1>7. QED
  BY <1>4, <1>5, <1>6 DEF List, Goes

-----------------------------------------------------------------------------
(* The steps of a call in progress, and the theorems.                      *)

LEMMA PutBeginInv ==
  ASSUME KeyInv, NEW c \in Callers, PutBegin(c)
  PROVE  KeyInv'
<1> DEFINE r == Failure("storage")
<1>1. /\ backend = "file" /\ pc[c] = "put" /\ lock = Nobody
      /\ UNCHANGED <<backend, files, closed, calls, crashes, offered>>
  BY DEF PutBegin
<1>2. CASE Return(c, r) /\ UNCHANGED <<lock, tmp>>
  <2>1. r \in Result /\ ResultOK(r)
    BY FailureResult, Literals
  <2> HIDE DEF r
  <2>2. QED
    BY <1>1, <1>2, <2>1, ReturnInv
<1>3. CASE /\ lock' = c /\ tmp' = [tmp EXCEPT ![StorageKey(frame[c].id)] = Torn]
           /\ pc' = [pc EXCEPT ![c] = "write"] /\ UNCHANGED <<frame, result>>
  BY <1>1, <1>3, PutOpenedInv
<1>4. QED
  BY <1>2, <1>3 DEF PutBegin

LEMMA PutWriteFailsInv ==
  ASSUME KeyInv, NEW c \in Callers, PutWriteFails(c)
  PROVE  KeyInv'
<1> DEFINE r == Failure("storage")
<1>1. /\ pc[c] = "write" /\ lock' = Nobody /\ Return(c, r)
      /\ UNCHANGED <<backend, files, tmp, closed, calls, crashes, offered>>
  BY DEF PutWriteFails, Unlocked
<1>2. r \in Result /\ ResultOK(r)
  BY FailureResult, Literals
<1>3. tmp' \in [StorageKeys -> Content]
  BY <1>1 DEF KeyInv, TypeOK
<1> HIDE DEF r
<1>4. QED
  BY <1>1, <1>2, <1>3, ReturnInv

LEMMA PutRenameFailsInv ==
  ASSUME KeyInv, NEW c \in Callers, PutRenameFails(c)
  PROVE  KeyInv'
<1> DEFINE r == Failure("storage")
<1>1. /\ pc[c] = "rename" /\ lock' = Nobody /\ Return(c, r)
      /\ tmp' = [tmp EXCEPT ![StorageKey(frame[c].id)] = NoFile]
      /\ UNCHANGED <<backend, files, closed, calls, crashes, offered>>
  BY DEF PutRenameFails, Unlocked
<1>2. r \in Result /\ ResultOK(r)
  BY FailureResult, Literals
<1>3. tmp' \in [StorageKeys -> Content]
  BY <1>1, NoFileType DEF KeyInv, TypeOK
<1> HIDE DEF r
<1>4. QED
  BY <1>1, <1>2, <1>3, ReturnInv

LEMMA PutRenameInv ==
  ASSUME KeyInv, NEW c \in Callers, PutRename(c)
  PROVE  KeyInv'
<1> DEFINE k == StorageKey(frame[c].id)
<1>1. /\ pc[c] = "rename" /\ Filed(c, tmp[k]) /\ lock' = Nobody
      /\ tmp' = [tmp EXCEPT ![k] = NoFile]
      /\ UNCHANGED <<backend, closed, calls, crashes, offered>>
  BY DEF PutRename, Unlocked
<1>2. tmp[k] = frame[c].content /\ backend = "file"
  BY <1>1 DEF KeyInv, PutsGood, LockHeld, Putting
<1>3. tmp' \in [StorageKeys -> Content]
  BY <1>1, NoFileType DEF KeyInv, TypeOK
<1>4. Filed(c, frame[c].content)
  BY <1>1, <1>2
<1>5. QED
  BY <1>1, <1>2, <1>3, <1>4, FiledInv DEF Putting

LEMMA PutMemoryInv ==
  ASSUME KeyInv, NEW c \in Callers, PutMemory(c)
  PROVE  KeyInv'
<1> DEFINE r == Failure("storage")
<1>1. /\ pc[c] = "put" /\ lock = Nobody
      /\ UNCHANGED <<backend, tmp, closed, lock, calls, crashes, offered>>
  BY DEF PutMemory
<1>2. CASE Return(c, r) /\ UNCHANGED files
  <2>1. r \in Result /\ ResultOK(r)
    BY FailureResult, Literals
  <2> HIDE DEF r
  <2>2. QED
    BY <1>1, <1>2, <2>1, ReturnInv
<1>3. CASE ~closed /\ Filed(c, frame[c].content)
  <2>1. tmp' \in [StorageKeys -> Content]
    BY <1>1 DEF KeyInv, TypeOK
  <2>2. QED
    BY <1>1, <1>3, <2>1, FiledInv DEF Putting
<1>4. QED
  BY <1>2, <1>3 DEF PutMemory

\* The packages an earlier process left are whole, and were offered.
LEMMA InitKeyInv == Init => KeyInv
<1> SUFFICES ASSUME Init PROVE KeyInv
  OBVIOUS
<1> DEFINE share == CHOOSE sh \in Shares : TRUE
           group == CHOOSE g \in GroupIDs : TRUE
<1>1. share \in Shares /\ group \in GroupIDs
  BY KeystoreAssumptions
<1> HIDE DEF share, group
<1>2. PICK ids \in IF backend = "file" THEN {{}, OnDisk} ELSE {{}} :
        LET old(k) == {FromKeyPackage(i, group, share) :
                     i \in {j \in ids : StorageKey(j) = k}}
        IN  /\ files = [k \in StorageKeys |->
                 IF old(k) = {} THEN NoFile ELSE CHOOSE content \in old(k) : TRUE]
            /\ offered = {[key |-> StorageKey(i), id |-> i, share |-> share] : i \in ids}
  BY DEF Init, share, group
<1> DEFINE old(k) == {FromKeyPackage(i, group, share) :
                     i \in {j \in ids : StorageKey(j) = k}}
<1>3. ids \subseteq Ids
  BY <1>2, KeystoreAssumptions
<1>4. offered \subseteq [key : StorageKeys, id : Ids, share : Shares]
  BY <1>1, <1>2, <1>3, StorageKeyType
<1>5. ASSUME NEW k \in StorageKeys
      PROVE  files[k] = NoFile \/ files[k] \in old(k)
  BY <1>2
<1>6. ASSUME NEW k \in StorageKeys, NEW content \in old(k)
      PROVE  Good(offered, k, content)
  <2>1. PICK i \in ids : StorageKey(i) = k /\ content = FromKeyPackage(i, group, share)
    OBVIOUS
  <2>2. content \in Content /\ content.id = i /\ content.share = share
    BY <1>1, <1>3, <2>1, FromKeyPackageType
  <2> DEFINE o == [key |-> StorageKey(i), id |-> i, share |-> share]
  <2>3. o \in offered /\ o.key = k /\ o.share = content.share
    BY <1>2, <2>1, <2>2
  <2> HIDE DEF o
  <2>4. QED
    BY <1>1, <1>3, <2>1, <2>2, <2>3 DEF Good
<1>7. FilesGood
  BY <1>5, <1>6 DEF FilesGood
<1>8. files \in [StorageKeys -> Content]
  <2>1. \A k \in StorageKeys : files[k] \in Content
    BY <1>5, <1>6, NoFileType DEF Good
  <2>2. files = [k \in StorageKeys |-> files[k]]
    BY <1>2
  <2>3. QED
    BY <2>1, <2>2
<1>9. TypeOK
  <2>1. /\ pc \in [Callers -> Labels] /\ frame \in [Callers -> Frame]
        /\ result \in [Callers -> Result] /\ tmp \in [StorageKeys -> Content]
    BY NoFrameType, NoResultType, NoFileType DEF Init, Labels
  <2>2. backend \in {"file", "memory"}
    BY KeystoreAssumptions DEF Init
  <2>3. QED
    BY <1>4, <1>8, <2>1, <2>2 DEF Init, TypeOK
<1>10. LockHeld /\ PutsGood /\ PutsMatch /\ ListsGood
  BY NobodyCalls DEF Init, LockHeld, PutsGood, PutsMatch, ListsGood, Putting
<1>11. ResultsGood
  BY NoResultType, FailureOK DEF Init, ResultsGood
<1>12. QED
  BY <1>7, <1>9, <1>10, <1>11 DEF KeyInv

LEMMA NextKeyInv == KeyInv /\ [Next]_vars => KeyInv'
<1> SUFFICES ASSUME KeyInv, [Next]_vars PROVE KeyInv'
  OBVIOUS
<1>1. ASSUME NEW c \in Callers, Begin(c)
      PROVE  KeyInv'
  <2>1. ASSUME NEW id \in Ids, NEW kp \in Packages,
               StoreKeyPackage(c, id, kp[1], kp[2])
        PROVE  KeyInv'
    <3>1. kp[1] \in GroupIDs /\ kp[2] \in Shares
      BY KeystoreAssumptions
    <3>2. QED
      BY <2>1, <3>1, StoreInv DEF StoreKeyPackage
  <2>2. ASSUME NEW id \in Ids, NEW share \in Shares,
               StoreGroupPublicKey(c, id, share)
        PROVE  KeyInv'
    BY <2>2, StoreInv DEF StoreGroupPublicKey
  <2>3. QED
    BY <1>1, <2>1, <2>2, UpdateMetadataInv, GetInv, DeleteInv, ListInv
       DEF Begin, GetKeyPackage, GetGroupPublicKey, DeleteKeyPackage,
           DeleteGroupPublicKey, ListKeyPackages, ListGroups
<1>2. ASSUME NEW c \in Callers, Step(c)
      PROVE  KeyInv'
  BY <1>2, PutBeginInv, PutWriteInv, PutWriteFailsInv, PutRenameInv,
     PutRenameFailsInv, PutMemoryInv, ListGetInv DEF Step
<1>3. CASE UNCHANGED vars
  BY <1>3 DEF vars, KeyInv, TypeOK, FilesGood, LockHeld, PutsGood, PutsMatch,
              ListsGood, ResultsGood
<1>4. QED
  BY <1>1, <1>2, <1>3, CloseInv, CrashInv DEF Next

LEMMA KeyInvHolds == Spec => []KeyInv
BY InitKeyInv, NextKeyInv, PTL DEF Spec

\* Identifiers that are not sanitized to the same storage key: a
\* requirement on the identifiers, which the key store does not check.
DistinctKeys == \A i, j \in Ids : StorageKey(i) = StorageKey(j) => i = j

\* Whatever writes overlap, fail or crash, a reader finds nothing or a whole
\* package somebody asked to store there; and what Get returns was stored
\* under the identifier asked for.
THEOREM StoredSharesIntact ==
  ASSUME DistinctKeys
  PROVE  Spec => []SharesIntact
<1>1. KeyInv => SharesIntact
  <2> SUFFICES ASSUME KeyInv PROVE SharesIntact
    OBVIOUS
  <2>1. ASSUME NEW k \in StorageKeys, files[k] # NoFile
        PROVE  \E o \in offered : o.key = k /\ o.share = files[k].share
    BY <2>1 DEF KeyInv, FilesGood, Good
  <2>2. ASSUME NEW c \in Callers, result[c].op = "Get", result[c].err = ""
        PROVE  /\ result[c].content.id = result[c].id
               /\ result[c].package.share = result[c].content.share
    BY <2>2 DEF KeyInv, ResultsGood, ResultOK, DistinctKeys
  <2>3. QED
    BY <2>1, <2>2 DEF SharesIntact
<1>2. QED
  BY <1>1, KeyInvHolds, PTL

\* ListKeyPackages and ListGroups, which read key by key without a lock while
\* files fail to be read and others store, delete and change groups, miss no
\* package of the group that was there from their beginning to their end,
\* unless its own file could not be read.
THEOREM ListsAreComplete == Spec => []ListComplete
<1>1. KeyInv => ListComplete
  BY DEF KeyInv, ResultsGood, ResultOK, ListComplete
<1>2. QED
  BY <1>1, KeyInvHolds, PTL

\* A store that succeeds replaced nothing and an update brought nothing back,
\* unless another call filed or deleted the same key between the check and the
\* write, which are separate operations of the backend.
THEOREM ChecksHoldAtWrites == Spec => []WritesMatchChecks
<1>1. KeyInv => WritesMatchChecks
  BY DEF KeyInv, ResultsGood, ResultOK, WritesMatchChecks
<1>2. QED
  BY <1>1, KeyInvHolds, PTL
=============================================================================
