------------------------- MODULE AuthenticationProofs -------------------------
(***************************************************************************)
(* Proofs about the signers that keep their key in protected memory and    *)
(* the authenticator, for every number of goroutines, signers, keys,       *)
(* participants, calls and purges.                                         *)
(***************************************************************************)
EXTENDS Authentication, TLAPS

-----------------------------------------------------------------------------
(* Types of the state that holds keys.                                     *)

Key == Nat \cup {Nil}

Software ==
  [kind : {"ed25519"}, public : Nat, secret : [key : Key, epoch : Key],
   born : Nat, destroyed : {"no", "busy", "quiet"}]

Other == {NoSigner} \cup [kind : {"adapter"}, device : Int, public : Int]

Use ==
  [op : {"sign"}, id : Ids, payload : Payload]
    \cup [op : {"export"}, slice : Slices]

OpenCall == [signer : Signers, buf : Key, use : Use]

TypeOK ==
  /\ slices \in [Slices -> Key]
  /\ signers \in [Signers -> Software \cup Other]
  /\ procs \in [Procs -> {Idle} \cup OpenCall]
  /\ epoch \in Nat
  /\ keys \in Nat

\* Software signers are told from the others by their kind.
LEMMA SoftwareKind ==
  ASSUME TypeOK, NEW x \in Signers
  PROVE  /\ IsSoftware(x) <=> signers[x] \in Software
         /\ IsSoftware(x) => signers[x] # NoSigner
<1>1. signers[x] \in Software \cup Other
  BY DEF TypeOK
<1>2. \A s \in Software : s.kind = "ed25519"
  BY DEF Software
<1>3. \A s \in Other : s.kind # "ed25519"
  BY DEF Other, NoSigner
<1>4. NoSigner.kind # "ed25519"
  BY DEF NoSigner
<1>5. QED
  BY <1>1, <1>2, <1>3, <1>4 DEF IsSoftware

\* The fields of an open call.
LEMMA OpenCallFields ==
  ASSUME TypeOK, NEW p \in Procs, IsOpen(p)
  PROVE  /\ procs[p] \in OpenCall
         /\ procs[p].signer \in Signers /\ procs[p].buf \in Key
         /\ procs[p].use \in Use
BY DEF TypeOK, IsOpen, OpenCall

-----------------------------------------------------------------------------
(* What keeps keys where they belong.                                      *)

\* An enclave, if there is one, holds the signer's own key, sealed in the
\* epoch the signer was created in; it is there unless somebody destroyed
\* the signer or purged the memory; and after a quiet Destroy neither the
\* signer nor any call has the key.
SignersSound ==
  \A x \in Signers : IsSoftware(x) =>
    /\ signers[x].born <= epoch
    /\ signers[x].secret # NoEnclave =>
         signers[x].secret = [key |-> signers[x].public, epoch |-> signers[x].born]
    /\ signers[x].destroyed = "no" /\ signers[x].born = epoch =>
         signers[x].secret # NoEnclave
    /\ signers[x].destroyed = "quiet" =>
         /\ signers[x].secret = NoEnclave
         /\ \A p \in Procs : IsOpen(p) => procs[p].signer # x

\* An open call has its signer's key, unless a purge took it.
CallsSound ==
  \A p \in Procs : IsOpen(p) =>
    /\ IsSoftware(procs[p].signer)
    /\ procs[p].buf = IF signers[procs[p].signer].born = epoch
                        THEN signers[procs[p].signer].public ELSE Nil

SecretInv == TypeOK /\ SignersSound /\ CallsSound

\* A new signer, with the key it was created for.
LEMMA SoftwareSignerFields ==
  ASSUME NEW k \in Nat, epoch \in Nat
  PROVE  LET s == SoftwareSigner(k, k)
         IN  /\ s \in Software
             /\ s.public = k /\ s.born = epoch /\ s.destroyed = "no"
             /\ s.secret = [key |-> k, epoch |-> epoch]
             /\ s.secret # NoEnclave
<1>1. [key |-> k, epoch |-> epoch] # NoEnclave
  BY DEF NoEnclave, Nil
<1>2. QED
  BY <1>1 DEF SoftwareSigner, Software, Enclave, Key

\* A signer comes into being where there was none.
LEMMA NewSignerInv ==
  ASSUME SecretInv, NEW x \in Signers, signers[x] = NoSigner,
         NEW s \in Software \cup Other,
         s \in Software =>
           /\ s.born = epoch /\ s.destroyed = "no"
           /\ s.secret = [key |-> s.public, epoch |-> s.born]
           /\ s.secret # NoEnclave,
         signers' = [signers EXCEPT ![x] = s],
         UNCHANGED <<procs, epoch>>, slices' \in [Slices -> Key], keys' \in Nat
  PROVE  SecretInv'
<1>1. /\ signers' \in [Signers -> Software \cup Other]
      /\ signers'[x] = s /\ \A y \in Signers \ {x} : signers'[y] = signers[y]
  BY DEF SecretInv, TypeOK
<1>2. TypeOK'
  BY <1>1 DEF SecretInv, TypeOK
<1>3. \A p \in Procs : IsOpen(p) =>
        procs[p].signer \in Signers \ {x}
  BY OpenCallFields, SoftwareKind DEF SecretInv, CallsSound
<1>4. CallsSound'
  BY <1>1, <1>3 DEF SecretInv, CallsSound, IsSoftware, IsOpen
<1>5. SignersSound'
  <2> SUFFICES ASSUME NEW y \in Signers, IsSoftware(y)'
               PROVE  /\ signers'[y].born <= epoch
                      /\ signers'[y].secret # NoEnclave =>
                           signers'[y].secret = [key |-> signers'[y].public,
                                                 epoch |-> signers'[y].born]
                      /\ signers'[y].destroyed = "no" /\ signers'[y].born = epoch =>
                           signers'[y].secret # NoEnclave
                      /\ signers'[y].destroyed = "quiet" =>
                           /\ signers'[y].secret = NoEnclave
                           /\ \A p \in Procs : IsOpen(p) => procs[p].signer # y
    BY DEF SignersSound, IsOpen
  <2>1. CASE y = x
    <3>1. s \in Software
      BY <1>1, <2>1 DEF IsSoftware, Other, NoSigner
    <3>2. QED
      BY <1>1, <2>1, <3>1 DEF SecretInv, TypeOK, Software
  <2>2. CASE y # x
    BY <1>1, <2>2 DEF SecretInv, SignersSound, IsSoftware
  <2>3. QED
    BY <2>1, <2>2
<1>6. QED
  BY <1>2, <1>4, <1>5 DEF SecretInv

\* The secret of a software signer is replaced, and perhaps its history.
LEMMA SignerUpdated ==
  ASSUME TypeOK, NEW x \in Signers, IsSoftware(x),
         NEW e \in [key : Key, epoch : Key], NEW d \in {"no", "busy", "quiet"},
         signers' = [signers EXCEPT ![x].secret = e, ![x].destroyed = d]
  PROVE  /\ signers' \in [Signers -> Software \cup Other]
         /\ \A y \in Signers :
              /\ IsSoftware(y)' <=> IsSoftware(y)
              /\ IsSoftware(y) => /\ signers'[y].public = signers[y].public
                                  /\ signers'[y].born = signers[y].born
              /\ y # x => signers'[y] = signers[y]
         /\ signers'[x].secret = e /\ signers'[x].destroyed = d
<1> DEFINE s == [signers[x] EXCEPT !.secret = e, !.destroyed = d]
<1>1. signers[x] \in Software
  BY SoftwareKind
<1>2. /\ s \in Software /\ s.kind = "ed25519"
      /\ s.public = signers[x].public /\ s.born = signers[x].born
      /\ s.secret = e /\ s.destroyed = d
  BY <1>1 DEF Software
<1>3. signers' = [signers EXCEPT ![x] = s]
  BY <1>1 DEF TypeOK
<1> HIDE DEF s
<1>4. /\ signers'[x] = s /\ \A y \in Signers \ {x} : signers'[y] = signers[y]
      /\ signers' \in [Signers -> Software \cup Other]
  BY <1>2, <1>3, ZenonT(40) DEF TypeOK
<1>5. QED
  BY <1>2, <1>4 DEF IsSoftware

LEMMA NoEnclaveType == NoEnclave \in [key : Key, epoch : Key]
BY DEF NoEnclave, Key, Nil

\* Open leaves the enclave where it is and gives the call a copy.
LEMMA OpenInv ==
  ASSUME SecretInv, NEW p \in Procs, NEW x \in Signers, NEW use \in Use,
         Open(p, x, use)
  PROVE  SecretInv'
<1> DEFINE call == [signer |-> x, buf |-> signers[x].secret.key, use |-> use]
<1>1. /\ IsSoftware(x) /\ signers[x].secret # NoEnclave
      /\ signers[x].secret.epoch = epoch
      /\ procs' = [procs EXCEPT ![p] = call]
      /\ UNCHANGED <<slices, epoch, keys>>
  BY DEF Open, Opens
<1>2. signers[x] \in Software
  BY <1>1, SoftwareKind DEF SecretInv
<1>3. signers' = signers
  BY <1>2 DEF Open, Left, Software, SecretInv, TypeOK
<1>4. /\ signers[x].secret = [key |-> signers[x].public, epoch |-> signers[x].born]
      /\ signers[x].destroyed # "quiet"
  BY <1>1 DEF SecretInv, SignersSound
<1>5. /\ signers[x].born = epoch /\ signers[x].secret.key = signers[x].public
      /\ signers[x].public \in Nat
  BY <1>1, <1>2, <1>4 DEF Software
<1>6. call \in OpenCall /\ call.signer = x /\ call.buf = signers[x].public
  BY <1>5 DEF OpenCall, Key
<1> HIDE DEF call
<1>7. /\ procs' \in [Procs -> {Idle} \cup OpenCall]
      /\ procs'[p] = call /\ \A q \in Procs \ {p} : procs'[q] = procs[q]
  BY <1>1, <1>6 DEF SecretInv, TypeOK
<1>8. TypeOK'
  BY <1>1, <1>3, <1>7 DEF SecretInv, TypeOK
<1>9. SignersSound'
  BY <1>1, <1>3, <1>4, <1>6, <1>7 DEF SecretInv, SignersSound, IsSoftware, IsOpen
<1>10. CallsSound'
  BY <1>1, <1>3, <1>5, <1>6, <1>7 DEF SecretInv, CallsSound, IsSoftware, IsOpen
<1>11. QED
  BY <1>8, <1>9, <1>10 DEF SecretInv

\* The slice a call exports its key to.
LEMMA ExportType ==
  ASSUME SecretInv, NEW p \in Procs, UseAndReseal(p)
  PROVE  slices' \in [Slices -> Key]
<1>1. procs[p].buf \in Key /\ procs[p].use \in Use
  BY OpenCallFields DEF SecretInv, UseAndReseal
<1>2. CASE slices' = slices
  BY <1>2 DEF SecretInv, TypeOK
<1>3. CASE /\ procs[p].use.op = "export"
           /\ slices' = [slices EXCEPT ![procs[p].use.slice] = procs[p].buf]
  <2>1. procs[p].use.slice \in Slices
    BY <1>1, <1>3 DEF Use
  <2>2. QED
    BY <1>1, <1>3, <2>1 DEF SecretInv, TypeOK
<1>4. QED
  BY <1>2, <1>3 DEF UseAndReseal

\* Reseal puts back what the call holds, without looking.
LEMMA ResealInv ==
  ASSUME SecretInv, NEW p \in Procs, UseAndReseal(p)
  PROVE  SecretInv'
<1> DEFINE x == procs[p].signer
           buf == procs[p].buf
           e == Seal(buf)
<1>1. IsOpen(p) /\ UNCHANGED <<epoch, keys>> /\ procs' = [procs EXCEPT ![p] = Idle]
  BY DEF UseAndReseal
<1>2. x \in Signers /\ buf \in Key /\ IsSoftware(x)
  BY <1>1, OpenCallFields DEF SecretInv, CallsSound
<1>3. /\ signers[x] \in Software
      /\ signers[x].public \in Nat /\ signers[x].born \in Nat
      /\ signers[x].destroyed \in {"no", "busy", "quiet"}
  BY <1>2, SoftwareKind DEF SecretInv, Software
<1>4. buf = IF signers[x].born = epoch THEN signers[x].public ELSE Nil
  BY <1>1 DEF SecretInv, CallsSound
<1>5. signers[x].destroyed # "quiet"
  BY <1>1, <1>2 DEF SecretInv, SignersSound
<1>6. /\ e \in [key : Key, epoch : Key]
      /\ e # NoEnclave =>
           e = [key |-> signers[x].public, epoch |-> signers[x].born]
      /\ signers[x].born = epoch => e # NoEnclave
  <2>1. CASE signers[x].born = epoch
    <3>1. e = [key |-> signers[x].public, epoch |-> signers[x].born]
      BY <1>3, <1>4, <2>1 DEF Seal, Enclave, Nil
    <3>2. QED
      BY <1>3, <3>1 DEF Key, NoEnclave, Nil
  <2>2. CASE signers[x].born # epoch
    BY <1>4, <2>2, NoEnclaveType DEF Seal
  <2>3. QED
    BY <2>1, <2>2
<1>7. signers' = [signers EXCEPT ![x].secret = e,
                                 ![x].destroyed = signers[x].destroyed]
  <2>1. signers' = [signers EXCEPT ![x].secret = e]
    BY DEF UseAndReseal, Resealed
  <2>2. [signers[x] EXCEPT !.secret = e]
          = [signers[x] EXCEPT !.secret = e, !.destroyed = signers[x].destroyed]
    BY <1>3 DEF Software
  <2>3. QED
    BY <1>2, <2>1, <2>2 DEF SecretInv, TypeOK
<1> HIDE DEF e, x
<1>8. /\ signers' \in [Signers -> Software \cup Other]
      /\ \A y \in Signers :
           /\ IsSoftware(y)' <=> IsSoftware(y)
           /\ IsSoftware(y) => /\ signers'[y].public = signers[y].public
                               /\ signers'[y].born = signers[y].born
           /\ y # x => signers'[y] = signers[y]
      /\ signers'[x].secret = e /\ signers'[x].destroyed = signers[x].destroyed
  BY <1>2, <1>3, <1>6, <1>7, SignerUpdated, ZenonT(40) DEF SecretInv
<1>9. /\ procs' \in [Procs -> {Idle} \cup OpenCall]
      /\ \A q \in Procs : IsOpen(q)' => IsOpen(q) /\ procs'[q] = procs[q]
  BY <1>1 DEF SecretInv, TypeOK, IsOpen
<1>10. TypeOK'
  BY <1>1, <1>8, <1>9, ExportType DEF SecretInv, TypeOK
<1>11. SignersSound'
  <2> SUFFICES ASSUME NEW y \in Signers, IsSoftware(y)'
               PROVE  /\ signers'[y].born <= epoch
                      /\ signers'[y].secret # NoEnclave =>
                           signers'[y].secret = [key |-> signers'[y].public,
                                                 epoch |-> signers'[y].born]
                      /\ signers'[y].destroyed = "no" /\ signers'[y].born = epoch =>
                           signers'[y].secret # NoEnclave
                      /\ signers'[y].destroyed = "quiet" =>
                           /\ signers'[y].secret = NoEnclave
                           /\ \A q \in Procs : IsOpen(q)' => procs'[q].signer # y
    BY <1>1 DEF SignersSound
  <2>1. IsSoftware(y)
    BY <1>8
  <2>2. CASE y = x
    BY <1>2, <1>5, <1>6, <1>8, <2>2 DEF SecretInv, SignersSound
  <2>3. CASE y # x
    BY <1>8, <1>9, <2>1, <2>3 DEF SecretInv, SignersSound
  <2>4. QED
    BY <2>2, <2>3
<1>12. CallsSound'
  <2> SUFFICES ASSUME NEW q \in Procs, IsOpen(q)'
               PROVE  /\ signers'[procs[q].signer].kind = "ed25519"
                      /\ procs[q].buf = IF signers'[procs[q].signer].born = epoch
                                          THEN signers'[procs[q].signer].public
                                          ELSE Nil
    BY <1>1, <1>9 DEF CallsSound, IsSoftware
  <2>1. IsOpen(q)
    BY <1>9
  <2>2. procs[q].signer \in Signers /\ IsSoftware(procs[q].signer)
    BY <2>1, OpenCallFields DEF SecretInv, CallsSound
  <2>3. signers'[procs[q].signer].kind = "ed25519"
    BY <1>8, <2>2 DEF IsSoftware
  <2>4. QED
    BY <1>8, <2>1, <2>2, <2>3 DEF SecretInv, CallsSound
<1>13. QED
  BY <1>10, <1>11, <1>12 DEF SecretInv

\* Destroy: the enclave goes; what open calls hold stays.
LEMMA DestroyInv ==
  ASSUME SecretInv, NEW x \in Signers, Destroy(x)
  PROVE  SecretInv'
<1> DEFINE busy == \E p \in Procs : IsOpen(p) /\ procs[p].signer = x
           d == IF busy THEN "busy" ELSE "quiet"
<1>1. /\ IsSoftware(x) /\ UNCHANGED <<slices, procs, epoch, keys>>
      /\ signers' = [signers EXCEPT ![x].secret = NoEnclave, ![x].destroyed = d]
  BY DEF Destroy, Gone
<1>2. d \in {"no", "busy", "quiet"} /\ d # "no" /\ (d = "quiet" => ~busy)
  OBVIOUS
<1> HIDE DEF d
<1>3. /\ signers' \in [Signers -> Software \cup Other]
      /\ \A y \in Signers :
           /\ IsSoftware(y)' <=> IsSoftware(y)
           /\ IsSoftware(y) => /\ signers'[y].public = signers[y].public
                               /\ signers'[y].born = signers[y].born
           /\ y # x => signers'[y] = signers[y]
      /\ signers'[x].secret = NoEnclave /\ signers'[x].destroyed = d
  BY <1>1, <1>2, SignerUpdated, NoEnclaveType DEF SecretInv
<1>4. TypeOK'
  BY <1>1, <1>3 DEF SecretInv, TypeOK
<1>5. SignersSound'
  BY <1>1, <1>2, <1>3, ZenonT(40) DEF SecretInv, SignersSound, IsOpen
<1>6. CallsSound'
  <2> SUFFICES ASSUME NEW q \in Procs, IsOpen(q)
               PROVE  /\ signers'[procs[q].signer].kind = "ed25519"
                      /\ procs[q].buf = IF signers'[procs[q].signer].born = epoch
                                          THEN signers'[procs[q].signer].public
                                          ELSE Nil
    BY <1>1 DEF CallsSound, IsSoftware, IsOpen
  <2>1. procs[q].signer \in Signers /\ IsSoftware(procs[q].signer)
    BY OpenCallFields DEF SecretInv, CallsSound
  <2>2. signers'[procs[q].signer].kind = "ed25519"
    BY <1>3, <2>1 DEF IsSoftware
  <2>3. QED
    BY <1>3, <2>1, <2>2 DEF SecretInv, CallsSound
<1>7. QED
  BY <1>4, <1>5, <1>6 DEF SecretInv

\* Purge: every open buffer goes, and no enclave opens any more.
LEMMA PurgeInv ==
  ASSUME SecretInv, Purge
  PROVE  SecretInv'
<1>1. /\ epoch' = epoch + 1 /\ epoch \in Nat /\ UNCHANGED <<slices, signers, keys>>
      /\ procs' = [p \in Procs |->
                     IF IsOpen(p) THEN [procs[p] EXCEPT !.buf = Nil] ELSE Idle]
  BY DEF Purge, SecretInv, TypeOK
<1>2. ASSUME NEW p \in Procs
      PROVE  /\ procs'[p] \in {Idle} \cup OpenCall
             /\ IsOpen(p)' => /\ IsOpen(p) /\ procs'[p].buf = Nil
                              /\ procs'[p].signer = procs[p].signer
  <2>1. CASE IsOpen(p)
    <3>1. procs[p] \in OpenCall /\ procs'[p] = [procs[p] EXCEPT !.buf = Nil]
      BY <1>1, <2>1, OpenCallFields DEF SecretInv
    <3>2. QED
      BY <2>1, <3>1 DEF OpenCall, Key
  <2>2. CASE ~IsOpen(p)
    BY <1>1, <2>2 DEF IsOpen
  <2>3. QED
    BY <2>1, <2>2
<1>3. TypeOK'
  <2>1. procs' \in [Procs -> {Idle} \cup OpenCall]
    BY <1>1, <1>2
  <2>2. QED
    BY <1>1, <2>1 DEF SecretInv, TypeOK
<1>4. \A x \in Signers : IsSoftware(x) =>
        signers[x].born \in Nat /\ signers[x].born < epoch'
  <2>1. \A x \in Signers : IsSoftware(x) => signers[x] \in Software
    BY SoftwareKind DEF SecretInv
  <2>2. \A x \in Signers : IsSoftware(x) =>
          signers[x].born \in Nat /\ signers[x].born <= epoch
    BY <2>1 DEF SecretInv, SignersSound, Software
  <2>3. QED
    BY <1>1, <2>2
<1>5. SignersSound'
  <2> SUFFICES ASSUME NEW x \in Signers, IsSoftware(x)
               PROVE  /\ signers[x].born <= epoch'
                      /\ signers[x].secret # NoEnclave =>
                           signers[x].secret = [key |-> signers[x].public,
                                                epoch |-> signers[x].born]
                      /\ signers[x].born # epoch'
                      /\ signers[x].destroyed = "quiet" =>
                           /\ signers[x].secret = NoEnclave
                           /\ \A p \in Procs : IsOpen(p)' => procs'[p].signer # x
    BY <1>1 DEF SignersSound, IsSoftware
  <2>1. signers[x].born <= epoch' /\ signers[x].born # epoch'
    BY <1>1, <1>4
  <2>2. QED
    BY <1>2, <2>1 DEF SecretInv, SignersSound
<1>6. CallsSound'
  <2> SUFFICES ASSUME NEW p \in Procs, IsOpen(p)'
               PROVE  /\ signers[procs'[p].signer].kind = "ed25519"
                      /\ procs'[p].buf = IF signers[procs'[p].signer].born = epoch'
                                           THEN signers[procs'[p].signer].public
                                           ELSE Nil
    BY <1>1 DEF CallsSound, IsSoftware
  <2>1. /\ IsOpen(p) /\ procs'[p].buf = Nil
        /\ procs'[p].signer = procs[p].signer
    BY <1>2
  <2>2. procs[p].signer \in Signers /\ IsSoftware(procs[p].signer)
    BY <2>1, OpenCallFields DEF SecretInv, CallsSound
  <2>3. signers[procs[p].signer].born # epoch'
    BY <1>1, <1>4, <2>2
  <2>4. QED
    BY <2>1, <2>2, <2>3 DEF IsSoftware
<1>7. QED
  BY <1>3, <1>5, <1>6 DEF SecretInv

\* Everything else leaves signers, calls and epoch alone.
LEMMA OtherInv ==
  ASSUME SecretInv, UNCHANGED <<signers, procs, epoch, keys>>,
         slices' \in [Slices -> Key]
  PROVE  SecretInv'
BY DEF SecretInv, TypeOK, SignersSound, CallsSound, IsSoftware, IsOpen

LEMMA InitSecretInv == Init => SecretInv
<1> SUFFICES ASSUME Init PROVE SecretInv
  OBVIOUS
<1>1. /\ \A x \in Signers : signers[x] = NoSigner
      /\ \A p \in Procs : ~IsOpen(p)
  BY DEF Init, IsOpen
<1>2. TypeOK
  BY AuthenticationAssumptions DEF Init, TypeOK, Slices, Key, Other
<1>3. SignersSound
  BY <1>1 DEF SignersSound, IsSoftware, NoSigner
<1>4. CallsSound
  BY <1>1 DEF CallsSound
<1>5. QED
  BY <1>2, <1>3, <1>4 DEF SecretInv

LEMMA NextSecretInv == SecretInv /\ [Next]_vars => SecretInv'
<1> SUFFICES ASSUME SecretInv, [Next]_vars PROVE SecretInv'
  OBVIOUS
<1>0. /\ slices \in [Slices -> Key] /\ epoch \in Nat /\ keys \in Nat
      /\ signers \in [Signers -> Software \cup Other]
  BY DEF SecretInv, TypeOK
<1>1. ASSUME NEW x \in Signers, NEW c \in Slices, NewEd25519Signer(x, c)
      PROVE  SecretInv'
  <2> DEFINE k == slices[c]
             s == SoftwareSigner(k, k)
  <2>1. /\ signers[x] = NoSigner /\ k # Nil /\ signers' = [signers EXCEPT ![x] = s]
        /\ slices' = [slices EXCEPT ![c] = Zero] /\ UNCHANGED <<procs, epoch, keys>>
    BY <1>1 DEF NewEd25519Signer, Copied
  <2>2. k \in Nat /\ slices' \in [Slices -> Key]
    BY <1>0, <2>1 DEF Key, Zero
  <2>3. /\ s \in Software
        /\ s.public = k /\ s.born = epoch /\ s.destroyed = "no"
        /\ s.secret = [key |-> k, epoch |-> epoch] /\ s.secret # NoEnclave
    BY <1>0, <2>2, SoftwareSignerFields
  <2> HIDE DEF s, k
  <2>4. QED
    BY <1>0, <2>1, <2>2, <2>3, NewSignerInv
<1>2. ASSUME NEW x \in Signers, GenerateEd25519Signer(x)
      PROVE  SecretInv'
  <2> DEFINE k == keys + 1
             s == SoftwareSigner(k, k)
  <2>1. /\ signers[x] = NoSigner /\ signers' = [signers EXCEPT ![x] = s]
        /\ keys' = k /\ UNCHANGED <<slices, procs, epoch>> /\ k \in Nat
    BY <1>0, <1>2 DEF GenerateEd25519Signer, Copied
  <2> HIDE DEF k
  <2>2. /\ s \in Software
        /\ s.public = k /\ s.born = epoch /\ s.destroyed = "no"
        /\ s.secret = [key |-> k, epoch |-> epoch] /\ s.secret # NoEnclave
    BY <1>0, <2>1, SoftwareSignerFields
  <2> HIDE DEF s
  <2>3. QED
    BY <1>0, <2>1, <2>2, NewSignerInv
<1>3. ASSUME NEW x \in Signers, NEW d \in Devices, FromCryptoSigner(x, d)
      PROVE  SecretInv'
  <2> DEFINE s == Adapter(d)
  <2>1. /\ signers[x] = NoSigner /\ signers' = [signers EXCEPT ![x] = s]
        /\ UNCHANGED <<slices, procs, epoch, keys>>
    BY <1>3 DEF FromCryptoSigner
  <2>2. d.key \in Int
    BY AuthenticationAssumptions
  <2>3. s \in Other /\ s.kind = "adapter"
    BY <2>2 DEF Adapter, Other, Nil
  <2>4. s \notin Software
    BY <2>3 DEF Software
  <2> HIDE DEF s
  <2>5. QED
    BY <1>0, <2>1, <2>3, <2>4, NewSignerInv
<1>4. ASSUME NEW p \in Procs, NEW x \in Signers, NEW id \in Ids, NEW m \in Payload,
             SignWithSigner(p, x, id, m)
      PROVE  SecretInv'
  <2>1. [op |-> "sign", id |-> id, payload |-> m] \in Use
    BY DEF Use
  <2>2. QED
    BY <1>4, <2>1, OpenInv DEF SignWithSigner
<1>5. ASSUME NEW p \in Procs, NEW x \in Signers, NEW c \in Slices, PrivateKey(p, x, c)
      PROVE  SecretInv'
  <2>1. [op |-> "export", slice |-> c] \in Use
    BY DEF Use
  <2>2. QED
    BY <1>5, <2>1, OpenInv DEF PrivateKey
<1>6. ASSUME NEW c \in Slices, ZeroBytes(c)
      PROVE  SecretInv'
  <2>1. slices' \in [Slices -> Key] /\ UNCHANGED <<signers, procs, epoch, keys>>
    BY <1>0, <1>6 DEF ZeroBytes, Zero, Key
  <2>2. QED
    BY <2>1, OtherInv
<1>7. ASSUME UNCHANGED <<slices, signers, procs, epoch, keys>>
      PROVE  SecretInv'
  BY <1>0, <1>7, OtherInv
<1>8. CASE \E x \in Signers, id \in Ids, m \in Payload : SignWithDevice(x, id, m)
  BY <1>7, <1>8 DEF SignWithDevice
<1>9. CASE \E c \in Slices, id \in Ids, m \in Payload : SignWithKey(c, id, m)
  BY <1>7, <1>9 DEF SignWithKey
<1>10. CASE \E x \in Signers, id \in Ids : AddSigner(id, x) \/ AddPublicKey(id, x)
  BY <1>7, <1>10 DEF AddSigner, AddPublicKey
<1>11. CASE \/ NewEd25519Authenticator
            \/ \E id \in Ids :
                 \/ RemoveSigner(id) \/ RemovePublicKey(id)
                 \/ \E m \in Payload, proof \in proofs : Authenticate(id, m, proof)
  BY <1>7, <1>11
     DEF NewEd25519Authenticator, RemoveSigner, RemovePublicKey, Authenticate
<1>12. CASE UNCHANGED vars
  BY <1>7, <1>12 DEF vars
<1>13. QED
  BY <1>1, <1>2, <1>3, <1>4, <1>5, <1>6, <1>8, <1>9, <1>10, <1>11, <1>12,
     DestroyInv, ResealInv, PurgeInv DEF Next

\* A signer that was destroyed while no call had its secret open, or that is
\* older than a purge, never opens its secret again, although a Reseal that is
\* under way writes an enclave without looking at what is there.
THEOREM ErasedKeysStayErased == Spec => []ErasedStaysErased
<1>1. SecretInv => ErasedStaysErased
  <2> SUFFICES ASSUME SecretInv, NEW x \in Signers, IsSoftware(x),
                      signers[x].destroyed = "quiet" \/ signers[x].born # epoch
               PROVE  ~Opens(signers[x].secret)
    BY DEF ErasedStaysErased
  <2>1. CASE signers[x].secret = NoEnclave
    BY <2>1 DEF Opens
  <2>2. CASE signers[x].secret # NoEnclave
    <3>1. /\ signers[x].destroyed # "quiet"
          /\ signers[x].secret
               = [key |-> signers[x].public, epoch |-> signers[x].born]
      BY <2>2 DEF SecretInv, SignersSound
    <3>2. signers[x].secret.epoch = signers[x].born
      BY <3>1
    <3>3. QED
      BY <3>1, <3>2 DEF Opens
  <2>3. QED
    BY <2>1, <2>2
<1>2. QED
  BY <1>1, InitSecretInv, NextSecretInv, PTL DEF Spec

\* Calls that share a signer do not disturb each other: unless it was
\* destroyed or purged it can always be opened, and what it signs verifies
\* under its public key.
THEOREM SignersRemainUsable == Spec => []SignersStayUsable
<1>1. SecretInv => SignersStayUsable
  <2> SUFFICES ASSUME SecretInv, NEW x \in Signers, IsSoftware(x),
                      signers[x].destroyed = "no", signers[x].born = epoch
               PROVE  /\ Opens(signers[x].secret)
                      /\ signers[x].public # Zero => \A m \in Payload :
                           Verify(signers[x].public, m,
                                  Signature(signers[x].secret.key, m))
    BY DEF SignersStayUsable
  <2>1. /\ signers[x].secret # NoEnclave
        /\ signers[x].secret = [key |-> signers[x].public, epoch |-> epoch]
    BY DEF SecretInv, SignersSound
  <2>2. signers[x].public # Nil
    BY SoftwareKind DEF SecretInv, Software, Nil
  <2>3. signers[x].secret.key = signers[x].public /\ signers[x].secret.epoch = epoch
    BY <2>1
  <2>4. QED
    BY <2>1, <2>2, <2>3 DEF Opens, Verify
<1>2. QED
  BY <1>1, InitSecretInv, NextSecretInv, PTL DEF Spec

-----------------------------------------------------------------------------
(* What is accepted was signed.                                            *)

\* Every signature was made of the encoding of a statement somebody signed.
ProofsSigned ==
  \A proof \in proofs : \E st \in signed :
    /\ st.payload \in Payload
    /\ proof = Signature(st.key, Serialize(st.id, st.payload))
    /\ st = Statement(st.key, st.id, st.payload)

SignedInv == ProofsSigned /\ AcceptedWasSigned

LEMMA PayloadIsSeq ==
  ASSUME NEW m \in Payload
  PROVE  m \in Seq(Tokens) /\ Len(m) \in {1, 2}
<1>1. CASE m \in [1 .. 2 -> Tokens]
  <2>1. m \in Seq(Tokens)
    <3>1. m = [k \in 1 .. 2 |-> m[k]]
      BY <1>1
    <3>2. [k \in 1 .. 2 |-> m[k]] \in Seq(Tokens)
      BY <1>1
    <3>3. QED
      BY <3>1, <3>2
  <2>2. Len(m) = 2
    BY <1>1, <2>1
  <2>3. QED
    BY <2>1, <2>2
<1>2. CASE m \in [1 .. 1 -> Tokens]
  <2>1. m \in Seq(Tokens)
    <3>1. m = [k \in 1 .. 1 |-> m[k]]
      BY <1>2
    <3>2. [k \in 1 .. 1 |-> m[k]] \in Seq(Tokens)
      BY <1>2
    <3>3. QED
      BY <3>1, <3>2
  <2>2. Len(m) = 1
    BY <1>2, <2>1
  <2>3. QED
    BY <2>1, <2>2
<1>3. QED
  BY <1>1, <1>2 DEF Payload

\* The encoding of identifier and payload can be read in one way only, although
\* commitments and shares differ in length.
LEMMA SerializeInjective ==
  ASSUME NEW i \in Ids, NEW j, NEW m \in Payload, NEW n \in Payload,
         Serialize(i, m) = Serialize(j, n)
  PROVE  i = j /\ m = n
<1>1. /\ m \in Seq(Tokens) /\ n \in Seq(Tokens)
      /\ Len(m) \in {1, 2} /\ Len(n) \in {1, 2}
  BY PayloadIsSeq
<1> DEFINE a == <<i>> \o m
           b == <<j>> \o n
<1>2. a = b
  BY DEF Serialize
<1>3. /\ Len(a) = Len(m) + 1 /\ a[1] = i
      /\ \A k \in 1 .. Len(m) : a[k + 1] = m[k]
  BY <1>1
<1>4. /\ Len(b) = Len(n) + 1 /\ b[1] = j
      /\ \A k \in 1 .. Len(n) : b[k + 1] = n[k]
  BY <1>1
<1> HIDE DEF a, b
<1>5. i = j /\ Len(m) = Len(n)
  BY <1>1, <1>2, <1>3, <1>4
<1>6. \A k \in 1 .. Len(m) : m[k] = n[k]
  BY <1>2, <1>3, <1>4, <1>5
<1>7. m = n
  BY <1>1, <1>5, <1>6
<1>8. QED
  BY <1>5, <1>7

LEMMA PublishInv ==
  ASSUME SignedInv, NEW key, NEW id, NEW m \in Payload, Publish(key, id, m),
         UNCHANGED accepted
  PROVE  SignedInv'
<1> DEFINE st == Statement(key, id, m)
<1>1. /\ proofs' = proofs \cup {Signature(key, Serialize(id, m))}
      /\ signed' = signed \cup {st}
  BY DEF Publish
<1>2. st.key = key /\ st.id = id /\ st.payload = m
  BY DEF Statement
<1>3. ProofsSigned'
  BY <1>1, <1>2 DEF SignedInv, ProofsSigned
<1>4. QED
  BY <1>1, <1>3 DEF SignedInv, AcceptedWasSigned

LEMMA AuthenticateInv ==
  ASSUME SignedInv, NEW id \in Ids, NEW m \in Payload, NEW proof \in proofs,
         Authenticate(id, m, proof)
  PROVE  SignedInv'
<1>1. /\ proof = Signature(auth[id], Serialize(id, m))
      /\ accepted' = accepted \cup {Statement(auth[id], id, m)}
      /\ UNCHANGED <<proofs, signed>>
  BY DEF Authenticate, Verify
<1>2. PICK st \in signed :
        /\ st.payload \in Payload
        /\ proof = Signature(st.key, Serialize(st.id, st.payload))
        /\ st = Statement(st.key, st.id, st.payload)
  BY DEF SignedInv, ProofsSigned
<1>3. auth[id] = st.key /\ Serialize(id, m) = Serialize(st.id, st.payload)
  BY <1>1, <1>2 DEF Signature
<1>4. id = st.id /\ m = st.payload
  BY <1>2, <1>3, SerializeInjective
<1>5. Statement(auth[id], id, m) \in signed
  BY <1>2, <1>3, <1>4
<1>6. QED
  BY <1>1, <1>5 DEF SignedInv, ProofsSigned, AcceptedWasSigned

LEMMA NextSignedInv == SecretInv /\ SignedInv /\ [Next]_vars => SignedInv'
<1> SUFFICES ASSUME SecretInv, SignedInv, [Next]_vars PROVE SignedInv'
  OBVIOUS
<1>1. ASSUME UNCHANGED <<proofs, signed, accepted>>
      PROVE  SignedInv'
  BY <1>1 DEF SignedInv, ProofsSigned, AcceptedWasSigned
<1>2. ASSUME NEW p \in Procs, UseAndReseal(p)
      PROVE  SignedInv'
  <2> DEFINE use == procs[p].use
  <2>1. use \in Use
    BY <1>2, OpenCallFields DEF SecretInv, UseAndReseal
  <2>2. CASE use.op = "sign" /\ Publish(procs[p].buf, use.id, use.payload)
    <3>1. use.payload \in Payload
      BY <2>1, <2>2 DEF Use
    <3>2. QED
      BY <1>2, <2>2, <3>1, PublishInv DEF UseAndReseal
  <2>3. CASE UNCHANGED <<proofs, signed>>
    BY <1>1, <1>2, <2>3 DEF UseAndReseal
  <2>4. QED
    BY <1>2, <2>2, <2>3 DEF UseAndReseal
<1>3. CASE \E x \in Signers, id \in Ids, m \in Payload : SignWithDevice(x, id, m)
  BY <1>3, PublishInv DEF SignWithDevice
<1>4. CASE \E c \in Slices, id \in Ids, m \in Payload : SignWithKey(c, id, m)
  BY <1>4, PublishInv DEF SignWithKey
<1>5. CASE \E x \in Signers :
             \/ \E c \in Slices : NewEd25519Signer(x, c)
             \/ GenerateEd25519Signer(x) \/ Destroy(x)
             \/ \E d \in Devices : FromCryptoSigner(x, d)
             \/ \E id \in Ids : AddSigner(id, x) \/ AddPublicKey(id, x)
  BY <1>1, <1>5 DEF NewEd25519Signer, GenerateEd25519Signer, Destroy,
                    FromCryptoSigner, AddSigner, AddPublicKey
<1>6. CASE \E p \in Procs, x \in Signers :
             \/ \E id \in Ids, m \in Payload : SignWithSigner(p, x, id, m)
             \/ \E c \in Slices : PrivateKey(p, x, c)
  BY <1>1, <1>6 DEF SignWithSigner, PrivateKey, Open
<1>7. CASE \/ \E c \in Slices : ZeroBytes(c)
           \/ Purge \/ NewEd25519Authenticator
           \/ \E id \in Ids : RemoveSigner(id) \/ RemovePublicKey(id)
           \/ UNCHANGED vars
  BY <1>1, <1>7 DEF ZeroBytes, Purge, NewEd25519Authenticator, RemoveSigner,
                    RemovePublicKey, vars
<1>8. QED
  BY <1>2, <1>3, <1>4, <1>5, <1>6, <1>7, AuthenticateInv DEF Next

\* What AuthenticateCommitment and AuthenticateSignatureShare accept from a
\* participant was signed as that, for that participant, with its key:
\* neither a shared key nor a common part of two messages confuses them.
THEOREM AcceptedMessagesWereSigned == Spec => []AcceptedWasSigned
<1>1. Init => SecretInv /\ SignedInv
  BY InitSecretInv DEF Init, SignedInv, ProofsSigned, AcceptedWasSigned
<1>2. SecretInv /\ SignedInv /\ [Next]_vars => (SecretInv /\ SignedInv)'
  BY NextSecretInv, NextSignedInv
<1>3. SignedInv => AcceptedWasSigned
  BY DEF SignedInv
<1>4. QED
  BY <1>1, <1>2, <1>3, PTL DEF Spec
=============================================================================
