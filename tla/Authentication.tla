--------------------------- MODULE Authentication ---------------------------
(***************************************************************************)
(* Authentication of the participants' messages: signers                   *)
(* (pkg/signer/signer.go) that keep their key in protected memory          *)
(* (pkg/secmem/secmem.go), and the authenticator that checks the proofs    *)
(* they make (pkg/frost/security/authenticator.go).  Goroutines share the  *)
(* signers: a call decrypts the key into a buffer of its own, uses it      *)
(* without a lock and seals it again, while other goroutines do the same,  *)
(* destroy the signer, or purge all protected memory.                      *)
(*                                                                         *)
(* Abstractions.                                                           *)
(*  - A key pair is a number, the same for both halves; Zero is the key    *)
(*    made of zero bytes, Nil a slice or a public key that is missing.     *)
(*  - An element or scalar of a message is one token: its encoding has the *)
(*    fixed length of its type.                                            *)
(*  - An Ed25519 signature is the pair of key and message (signing is      *)
(*    deterministic), and nobody else can make it.                         *)
(***************************************************************************)
EXTENDS Integers, FiniteSets, Sequences, Functions

CONSTANTS
  Procs,        \* goroutines
  Signers,      \* objects that implement Signer
  NumSlices,    \* private keys the callers hold in slices of their own
  Devices,      \* crypto.Signer implementations from outside: [key, ed25519]
  Ids,          \* participants
  Tokens,       \* encodings of elements and scalars
  MaxKeys,      \* bound: key pairs generated
  MaxCalls,     \* bound: calls made
  MaxPurges     \* bound: calls of Purge

Zero == 0
Nil == -1

Slices == 1..NumSlices

ASSUME AuthenticationAssumptions ==
  /\ NumSlices \in Nat /\ MaxKeys \in Nat /\ MaxKeys >= NumSlices
  /\ Devices \subseteq [key : Int, ed25519 : BOOLEAN]
  /\ \A d \in Devices : d.key > MaxKeys
  /\ {MaxCalls, MaxPurges} \subseteq Nat

VARIABLES
  slices,    \* the callers' slices
  signers,   \* the Signer objects
  procs,     \* what each goroutine has opened
  epoch,     \* number of purges: an enclave of an earlier one cannot be opened
  multi,     \* MultiSigner.signers
  auth,      \* Ed25519Authenticator.publicKeys
  keys,      \* key pairs generated so far
  proofs,    \* signatures that exist
  calls,     \* calls made
  signed,    \* history: what was signed, with which key, for whom
  accepted   \* history: what was accepted, under which key, from whom

vars == <<slices, signers, procs, epoch, multi, auth, keys, proofs, calls,
          signed, accepted>>

-----------------------------------------------------------------------------
(* Messages and signatures.                                                *)

\* A commitment is its two elements, a share its scalar.
Payload == [1..2 -> Tokens] \cup [1..1 -> Tokens]

\* serializeCommitment and serializeSignatureShare: the identifier in four
\* bytes, then the encodings.  Mutant: the exported SerializeCommitment and
\* SerializeSignatureShare, which leave the identifier out.
WithoutId(id, payload) == payload
Serialize(id, payload) == <<id>> \o payload

\* ed25519.Sign and ed25519.Verify.  The bytes of a wiped key are not a key
\* pair: what is signed with it does not verify under its public half.
Signature(key, message) == [key |-> key, message |-> message]
Verify(public, message, proof) ==
  public \notin {Zero, Nil} /\ proof = Signature(public, message)

Statement(key, id, payload) == [key |-> key, id |-> id, payload |-> payload]

-----------------------------------------------------------------------------
(* Secrets.                                                                *)

\* SecretBytes.enclave: nil, or a key encrypted under the session key of an
\* epoch.
NoEnclave == [key |-> Nil, epoch |-> Nil]
Enclave(key) == [key |-> key, epoch |-> epoch]

\* LockedBuffer.Seal: of a buffer that Purge destroyed it returns nil.
Seal(buf) == IF buf = Nil THEN NoEnclave ELSE Enclave(buf)

\* Open decrypts a copy, or returns ErrDestroyed or the enclave's error.
Opens(secret) == secret # NoEnclave /\ secret.epoch = epoch

NoSigner == [kind |-> "none", public |-> Nil]

\* born, destroyed: history.  "busy" is a Destroy during a call that had the
\* secret open, "quiet" one during no such call.
SoftwareSigner(key, public) ==
  [kind |-> "ed25519", public |-> public, secret |-> Enclave(key),
   born |-> epoch, destroyed |-> "no"]

\* cryptoSignerAdapter: PublicKeyBytes is nil for other kinds of keys.
Adapter(d) ==
  [kind |-> "adapter", device |-> d.key,
   public |-> IF d.ed25519 THEN d.key ELSE Nil]

IsSoftware(x) == signers[x].kind = "ed25519"

Idle == [signer |-> "none"]
IsOpen(p) == procs[p] # Idle

\* Every caller has generated a key pair of its own.
Init ==
  /\ slices = [c \in Slices |-> c]
  /\ keys = NumSlices
  /\ signers = [x \in Signers |-> NoSigner]
  /\ procs = [p \in Procs |-> Idle]
  /\ epoch = 0
  /\ multi = <<>>
  /\ auth = <<>>
  /\ proofs = {}
  /\ calls = 0
  /\ signed = {}
  /\ accepted = {}

Call == calls < MaxCalls /\ calls' = calls + 1

-----------------------------------------------------------------------------
(* Signers.                                                                *)

\* NewSecretBytes copies the key into the enclave and then wipes the slice.
Copied(key) == key

NewEd25519Signer(x, c) ==
  /\ Call
  /\ signers[x] = NoSigner
  /\ slices[c] # Nil
  /\ signers' = [signers EXCEPT
                   ![x] = SoftwareSigner(Copied(slices[c]), slices[c])]
  /\ slices' = [slices EXCEPT ![c] = Zero]
  /\ UNCHANGED <<procs, epoch, multi, auth, keys, proofs, signed, accepted>>

GenerateEd25519Signer(x) ==
  /\ Call
  /\ signers[x] = NoSigner
  /\ keys < MaxKeys
  /\ keys' = keys + 1
  /\ signers' = [signers EXCEPT ![x] = SoftwareSigner(Copied(keys'), keys')]
  /\ UNCHANGED <<slices, procs, epoch, multi, auth, proofs, signed, accepted>>

FromCryptoSigner(x, d) ==
  /\ Call
  /\ signers[x] = NoSigner
  /\ signers' = [signers EXCEPT ![x] = Adapter(d)]
  /\ UNCHANGED <<slices, procs, epoch, multi, auth, keys, proofs, signed,
                 accepted>>

\* The enclave that is left while its secret is open.  Mutant: Open takes
\* the secret out.
Taken(secret) == NoEnclave
Left(secret) == secret

\* WithSecret of Sign and PrivateKey: Open, under the lock of the secret.
\* use says what for; an error ends the call here.
Open(p, x, use) ==
  /\ Call
  /\ ~IsOpen(p)
  /\ IsSoftware(x)
  /\ Opens(signers[x].secret)
  /\ procs' = [procs EXCEPT ![p] = [signer |-> x,
                                    buf |-> signers[x].secret.key, use |-> use]]
  /\ signers' = [signers EXCEPT ![x].secret = Left(@)]
  /\ UNCHANGED <<slices, epoch, multi, auth, keys, proofs, signed, accepted>>

\* A signature is there for everybody to see.
Publish(key, id, payload) ==
  /\ proofs' = proofs \cup {Signature(key, Serialize(id, payload))}
  /\ signed' = signed \cup {Statement(key, id, payload)}

\* What becomes of the enclave when a call seals its buffer: it is replaced,
\* without a look at what is there.
Resealed(secret, buf) == Seal(buf)

\* The call uses its buffer, then Reseal, again under the lock.  On a buffer
\* that was purged ed25519.Sign panics, after which Reseal still runs, and
\* PrivateKey returns an empty key.
UseAndReseal(p) ==
  LET x == procs[p].signer
      buf == procs[p].buf
      use == procs[p].use
  IN  /\ IsOpen(p)
      /\ signers' = [signers EXCEPT ![x].secret = Resealed(@, buf)]
      /\ procs' = [procs EXCEPT ![p] = Idle]
      /\ \/ /\ use.op = "sign" /\ buf # Nil
            /\ Publish(buf, use.id, use.payload)
            /\ UNCHANGED slices
         \/ /\ use.op = "sign" /\ buf = Nil
            /\ UNCHANGED <<slices, proofs, signed>>
         \/ /\ use.op = "export"
            /\ slices' = [slices EXCEPT ![use.slice] = buf]
            /\ UNCHANGED <<proofs, signed>>
      /\ UNCHANGED <<epoch, multi, auth, keys, calls, accepted>>

\* SignCommitmentWithSigner and SignSignatureShareWithSigner.
SignWithSigner(p, x, id, payload) ==
  Open(p, x, [op |-> "sign", id |-> id, payload |-> payload])

PrivateKey(p, x, c) == Open(p, x, [op |-> "export", slice |-> c])

\* The same with a device, which keeps its key.
SignWithDevice(x, id, payload) ==
  /\ Call
  /\ signers[x].kind = "adapter"
  /\ Publish(signers[x].device, id, payload)
  /\ UNCHANGED <<slices, signers, procs, epoch, multi, auth, keys, accepted>>

\* SignCommitment and SignSignatureShare, with a key the caller holds.
SignWithKey(c, id, payload) ==
  /\ Call
  /\ slices[c] # Nil
  /\ Publish(slices[c], id, payload)
  /\ UNCHANGED <<slices, signers, procs, epoch, multi, auth, keys, accepted>>

\* A caller wipes its key.
ZeroBytes(c) ==
  /\ Call
  /\ slices[c] # Nil
  /\ slices' = [slices EXCEPT ![c] = Zero]
  /\ UNCHANGED <<signers, procs, epoch, multi, auth, keys, proofs, signed,
                 accepted>>

\* SecretBytes.Destroy.  Mutant: the buffer is destroyed, the enclave stays.
EnclaveStays(secret) == secret
Gone(secret) == NoEnclave

Destroy(x) ==
  /\ Call
  /\ IsSoftware(x)
  /\ signers' = [signers EXCEPT
       ![x].secret = Gone(@),
       ![x].destroyed = IF \E p \in Procs : IsOpen(p) /\ procs[p].signer = x
                          THEN "busy" ELSE "quiet"]
  /\ UNCHANGED <<slices, procs, epoch, multi, auth, keys, proofs, signed,
                 accepted>>

\* memguard.Purge: a new session key, and every open buffer is destroyed.
Purge ==
  /\ Call
  /\ epoch < MaxPurges
  /\ epoch' = epoch + 1
  /\ procs' = [p \in Procs |->
                 IF IsOpen(p) THEN [procs[p] EXCEPT !.buf = Nil] ELSE Idle]
  /\ UNCHANGED <<slices, signers, multi, auth, keys, proofs, signed, accepted>>

-----------------------------------------------------------------------------
(* MultiSigner and authenticator.                                          *)

AddSigner(id, x) ==
  /\ Call
  /\ signers[x] # NoSigner
  /\ multi' = [i \in DOMAIN multi \cup {id} |-> IF i = id THEN x ELSE multi[i]]
  /\ UNCHANGED <<slices, signers, procs, epoch, auth, keys, proofs, signed,
                 accepted>>

RemoveSigner(id) ==
  /\ Call
  /\ multi' = Restrict(multi, DOMAIN multi \ {id})
  /\ UNCHANGED <<slices, signers, procs, epoch, auth, keys, proofs, signed,
                 accepted>>

\* A map of its own, of the signers that have an Ed25519 key.
Ed25519PublicKeys ==
  [id \in {i \in DOMAIN multi : signers[multi[i]].public # Nil} |->
     signers[multi[id]].public]

NewEd25519Authenticator ==
  /\ Call
  /\ auth' = Ed25519PublicKeys
  /\ UNCHANGED <<slices, signers, procs, epoch, multi, keys, proofs, signed,
                 accepted>>

AddPublicKey(id, x) ==
  /\ Call
  /\ signers[x].public # Nil
  /\ auth' = [i \in DOMAIN auth \cup {id} |->
                IF i = id THEN signers[x].public ELSE auth[i]]
  /\ UNCHANGED <<slices, signers, procs, epoch, multi, keys, proofs, signed,
                 accepted>>

RemovePublicKey(id) ==
  /\ Call
  /\ auth' = Restrict(auth, DOMAIN auth \ {id})
  /\ UNCHANGED <<slices, signers, procs, epoch, multi, keys, proofs, signed,
                 accepted>>

\* AuthenticateCommitment and AuthenticateSignatureShare return nil; where
\* they return an error nothing changes here.
Authenticate(id, payload, proof) ==
  /\ Call
  /\ id \in DOMAIN auth
  /\ Verify(auth[id], Serialize(id, payload), proof)
  /\ accepted' = accepted \cup {Statement(auth[id], id, payload)}
  /\ UNCHANGED <<slices, signers, procs, epoch, multi, auth, keys, proofs,
                 signed>>

-----------------------------------------------------------------------------
Next ==
  \/ \E x \in Signers :
       \/ \E c \in Slices : NewEd25519Signer(x, c)
       \/ GenerateEd25519Signer(x)
       \/ \E d \in Devices : FromCryptoSigner(x, d)
       \/ Destroy(x)
       \/ \E id \in Ids, m \in Payload : SignWithDevice(x, id, m)
       \/ \E id \in Ids : AddSigner(id, x) \/ AddPublicKey(id, x)
  \/ \E p \in Procs :
       \/ \E x \in Signers, id \in Ids, m \in Payload : SignWithSigner(p, x, id, m)
       \/ \E x \in Signers, c \in Slices : PrivateKey(p, x, c)
       \/ UseAndReseal(p)
  \/ \E c \in Slices :
       \/ ZeroBytes(c)
       \/ \E id \in Ids, m \in Payload : SignWithKey(c, id, m)
  \/ Purge
  \/ NewEd25519Authenticator
  \/ \E id \in Ids :
       \/ RemoveSigner(id)
       \/ RemovePublicKey(id)
       \/ \E m \in Payload, proof \in proofs : Authenticate(id, m, proof)

Spec == Init /\ [][Next]_vars

-----------------------------------------------------------------------------
(* Properties.                                                             *)

\* A key that was erased stays erased: a signer that was destroyed while no
\* call had its secret open, or that existed before a purge, never signs
\* again, although a call that is under way puts a key back without looking.
\* (A Destroy during a call is undone when that call seals its buffer.)
ErasedStaysErased ==
  \A x \in Signers :
    /\ IsSoftware(x)
    /\ signers[x].destroyed = "quiet" \/ signers[x].born # epoch
    => ~Opens(signers[x].secret)

\* Calls that share a signer do not disturb each other: a signer nobody
\* destroyed or purged can sign at any time, also while others sign, and
\* what it signs verifies under the public key it was created with, unless
\* its slice had been wiped before, by an earlier signer or by the caller.
SignersStayUsable ==
  \A x \in Signers :
    /\ IsSoftware(x)
    /\ signers[x].destroyed = "no" /\ signers[x].born = epoch
    => /\ Opens(signers[x].secret)
       /\ signers[x].public # Zero => \A m \in Payload :
            Verify(signers[x].public, m, Signature(signers[x].secret.key, m))

\* What is accepted as a participant's commitment or share was signed as
\* that, for that participant, with the key registered for it at that time,
\* also when participants share a key, keys are replaced, and commitments
\* and shares have parts in common.
AcceptedWasSigned == accepted \subseteq signed
=============================================================================
