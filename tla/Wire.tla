-------------------------------- MODULE Wire --------------------------------
(***************************************************************************)
(* What parties of the five ciphersuites (pkg/frost/ciphersuite/...,       *)
(* pkg/frost/group/...) write to each other: encodings of scalars,         *)
(* elements and identifiers in the byte order of the group, the messages   *)
(* of pkg/frost/serialization, signatures as each suite's VerifySignature  *)
(* reads them, and the inputs of the suites' hash functions.               *)
(*                                                                         *)
(* A message is sent, may be cut, extended or altered on the way, and is   *)
(* read by somebody who expects a type of message of a suite, the right    *)
(* one or another.                                                         *)
(*                                                                         *)
(* Abstractions.                                                           *)
(*  - A byte is a digit to the base Base.  32 bytes are NumLen digits, one *)
(*    more stays one more; the four bytes of an identifier are IdLen.      *)
(*  - The order of a base point is Order.  The curves of Ed25519 and Ed448 *)
(*    have Cofactor times as many points (8 and 4 times in the code), all  *)
(*    of them multiples of one.  An element is a point by that multiple, 0 *)
(*    the identity, and so is its encoding; the base point is the cofactor *)
(*    and its multiples are the prime-order subgroup.                      *)
(*  - Numbers from Cofactor * Order up are coordinates of no point, those  *)
(*    from FieldSize up are no coordinates at all.                         *)
(*  - Of the last byte of an Ed448 element there are only the seven bits   *)
(*    that are not read; its sign is part of the number.                   *)
(*  - A field of the header, a context string and a letter of a tag are    *)
(*    one token each; a hash function is known by its input.               *)
(***************************************************************************)
EXTENDS Integers, Sequences, SequencesExt, FiniteSets, TLC

CONSTANTS
  Base,       \* values of a byte
  NumLen,     \* bytes of a number below Order
  IdLen,      \* bytes of an identifier
  Order,      \* order of the base points
  Cofactor,   \* points per point of the subgroup, on the Edwards curves
  FieldSize,  \* size of the field of coordinates
  Alphabet,   \* letters of the data that is hashed
  MaxFaults   \* bound: times a message is damaged on its way

ASSUME WireAssumptions ==
  /\ Base \in Nat /\ Base >= 2
  /\ IdLen \in 1..NumLen
  /\ Order \in Base^IdLen .. Base^NumLen   \* identifiers are scalars
  /\ Cofactor \in Nat \ {0}
  /\ FieldSize \in Cofactor * Order .. Base^NumLen
  /\ MaxFaults \in Nat

VARIABLES
  msg,      \* the message on its way, if there is one
  got,      \* what its reader made of it
  hashed    \* history: hash functions called, with their data

vars == <<msg, got, hashed>>

Byte == 0 .. Base - 1
Scalar == 0 .. Order - 1
Identifier == 0 .. Base^IdLen - 1

Error == -1       \* no number could be read
NoBytes == <<>>   \* nothing could be written, or no value read
Nothing == [none |-> TRUE]

-----------------------------------------------------------------------------
(* The ciphersuites and their groups.                                      *)

Ed25519 ==
  [context |-> "FROST-ED25519-SHA512-v1", hash |-> "SHA512",
   bigEndian |-> FALSE, scalarLen |-> NumLen, elementLen |-> NumLen,
   unread |-> 0, cofactor |-> Cofactor]

\* The last of the 57 bytes of a scalar is not read.
Ed448 ==
  [context |-> "FROST-ED448-SHAKE256-v1", hash |-> "SHAKE256",
   bigEndian |-> FALSE, scalarLen |-> NumLen + 1, elementLen |-> NumLen + 1,
   unread |-> 1, cofactor |-> Cofactor]

Ristretto255 ==
  [context |-> "FROST-RISTRETTO255-SHA512-v1", hash |-> "SHA512",
   bigEndian |-> FALSE, scalarLen |-> NumLen, elementLen |-> NumLen,
   unread |-> 0, cofactor |-> 1]

P256 ==
  [context |-> "FROST-P256-SHA256-v1", hash |-> "SHA256",
   bigEndian |-> TRUE, scalarLen |-> NumLen, elementLen |-> NumLen + 1,
   unread |-> 0, cofactor |-> 1]

Secp256k1 ==
  [context |-> "FROST-secp256k1-SHA256-v1", hash |-> "SHA256",
   bigEndian |-> TRUE, scalarLen |-> NumLen, elementLen |-> NumLen + 1,
   unread |-> 0, cofactor |-> 1]

Suites == {Ed25519, Ed448, Ristretto255, P256, Secp256k1}

Points(s) == s.cofactor * Order
Element(s) == 0 .. Points(s) - 1

Add(s, a, b) == (a + b) % Points(s)
ScalarMult(s, element, scalar) == (element * scalar) % Points(s)
ScalarBaseMult(s, scalar) == ScalarMult(s, s.cofactor, scalar)
IsIdentity(element) == element = 0

InSubgroup(s, element) == IsIdentity(ScalarMult(s, element, Order))

-----------------------------------------------------------------------------
(* Numbers, scalars, elements and identifiers.                             *)

Digits(n, len) == [k \in 1..len |-> (n \div Base^(k - 1)) % Base]

Ordered(bigEndian, digits) == IF bigEndian THEN Reverse(digits) ELSE digits

Number(bigEndian, bytes) ==
  LET d == Ordered(bigEndian, bytes)
  IN  FoldLeft(LAMBDA n, k : n + d[k] * Base^(k - 1), 0,
               [k \in DOMAIN d |-> k])

SerializeScalar(s, x) == Ordered(s.bigEndian, Digits(x, s.scalarLen))

\* Mutant: what exceeds the order is reduced.
ReducedScalar(s, bytes) ==
  IF Len(bytes) = s.scalarLen
    THEN Number(s.bigEndian, SubSeq(bytes, 1, Len(bytes) - s.unread)) % Order
    ELSE Error
DeserializeScalar(s, bytes) ==
  LET x == Number(s.bigEndian, SubSeq(bytes, 1, Len(bytes) - s.unread))
  IN  IF Len(bytes) = s.scalarLen /\ x < Order THEN x ELSE Error

\* Element.Bytes, and what is refused of it.
Bytes(s, element) == Ordered(s.bigEndian, Digits(element, s.elementLen))

SerializeElement(s, element) ==
  IF IsIdentity(element) THEN NoBytes ELSE Bytes(s, element)

\* A number that was read, if it is one of a point other than the identity.
Usable(s, e) == IF e \in Element(s) /\ ~IsIdentity(e) THEN e ELSE Error

\* edwards25519's SetBytes takes coordinates modulo the size of the field and
\* any point of the curve, and nothing is tested after it but the identity.
Ed25519Element(bytes) == Usable(Ed25519, Number(FALSE, bytes) % FieldSize)

\* goldilocks' FromBytes wants coordinates below the size of the field and
\* reads the sign only of the last byte.
Ed448Element(bytes) ==
  LET e == Usable(Ed448, Number(FALSE, Front(bytes)))
  IN  IF e # Error /\ InSubgroup(Ed448, e) THEN e ELSE Error

\* The other groups have one encoding for each of their elements.
PrimeOrderElement(s, bytes) == Usable(s, Number(s.bigEndian, bytes))

DeserializeElement(s, bytes) ==
  CASE Len(bytes) # s.elementLen -> Error
    [] Len(bytes) = s.elementLen /\ s = Ed25519 -> Ed25519Element(bytes)
    [] Len(bytes) = s.elementLen /\ s = Ed448 -> Ed448Element(bytes)
    [] OTHER -> PrimeOrderElement(s, bytes)

\* The bytes of an identifier, in the place where a scalar has its least
\* significant ones; the encoder of commitment lists and the binding factors
\* write the same.  Mutant: the first bytes, whatever the group.
FirstBytes(s, id) ==
  [k \in 1..s.scalarLen |->
     IF k <= IdLen THEN Ordered(s.bigEndian, Digits(id, IdLen))[k] ELSE 0]
IdentifierBytes(s, id) ==
  [k \in 1..s.scalarLen |->
     LET place == IF s.bigEndian THEN s.scalarLen - k + 1 ELSE k
     IN  IF place <= IdLen THEN Digits(id, IdLen)[place] ELSE 0]

IdentifierToScalar(s, id) == DeserializeScalar(s, IdentifierBytes(s, id))

\* The identifier derived from the scalar x that HID returned.
DeriveIdentifier(s, x) ==
  LET b == SerializeScalar(s, x)
      low == IF s.bigEndian THEN SubSeq(b, Len(b) - IdLen + 1, Len(b))
                            ELSE SubSeq(b, 1, IdLen)
      id == Number(s.bigEndian, low)
  IN  IF id = 0 THEN 1 ELSE id

-----------------------------------------------------------------------------
(* Messages.                                                               *)

Types == {"Signature", "SigningCommitments", "SignatureShare", "PublicKey",
          "SecretShare"}

Fields(type) ==
  CASE type = "Signature" -> <<"element", "scalar">>
    [] type = "SigningCommitments" -> <<"id", "element", "element">>
    [] type = "SignatureShare" -> <<"id", "scalar">>
    [] type = "PublicKey" -> <<"element">>
    [] type = "SecretShare" -> <<"scalar">>

\* What is sent: elements are multiples of the base point.
FieldValue(s, f) ==
  CASE f = "id" -> Identifier
    [] f = "element" -> {ScalarBaseMult(s, x) : x \in Scalar}
    [] f = "scalar" -> Scalar

Values(s, type) ==
  {v \in [DOMAIN Fields(type) -> 0 .. Base^NumLen - 1] :
     \A k \in DOMAIN v : v[k] \in FieldValue(s, Fields(type)[k])}

FieldLen(s, f) ==
  CASE f = "id" -> IdLen
    [] f = "element" -> s.elementLen
    [] f = "scalar" -> s.scalarLen

\* Identifiers are big-endian in the messages of every suite.
EncodeField(s, f, x) ==
  CASE f = "id" -> Reverse(Digits(x, IdLen))
    [] f = "element" -> SerializeElement(s, x)
    [] f = "scalar" -> SerializeScalar(s, x)

DecodeField(s, f, bytes) ==
  CASE f = "id" -> Number(TRUE, bytes)
    [] f = "element" -> DeserializeElement(s, bytes)
    [] f = "scalar" -> DeserializeScalar(s, bytes)

\* CiphersuiteIDFromString: what h * 31 + c modulo 2^32 makes of the
\* characters c of the context strings.  Mutant: of the hash function's name.
HashName(s) == s.hash
CiphersuiteID(s) ==
  CASE s = Ed25519 -> "66162aa3"
    [] s = Ed448 -> "6133149e"
    [] s = Ristretto255 -> "908d2d48"
    [] s = P256 -> "027e5cc0"
    [] s = Secp256k1 -> "644414e5"

\* NewHeader, Header.Serialize: version, suite, type, reserved.
HeaderSize == 4
Version == 1
Header(s, type) == <<Version, CiphersuiteID(s), type, 0>>

\* Header.Validate; the reserved field is not looked at.
ValidHeader(h, s, type) ==
  h[1] = Version /\ h[2] = CiphersuiteID(s) /\ h[3] = type

Serialize(s, type, v) ==
  LET f == Fields(type)
      parts == [k \in DOMAIN f |-> EncodeField(s, f[k], v[k])]
  IN  IF \E k \in DOMAIN f : parts[k] = NoBytes THEN NoBytes
      ELSE Header(s, type) \o FlattenSeq(parts)

\* The part of the bytes that belongs to the k-th field.
Offset(s, f, k) ==
  FoldLeft(LAMBDA n, j : n + FieldLen(s, f[j]), HeaderSize,
           [j \in 1 .. k - 1 |-> j])

Part(s, f, k, bytes) ==
  SubSeq(bytes, Offset(s, f, k) + 1, Offset(s, f, k) + FieldLen(s, f[k]))

\* Bytes that follow the message are refused.
RightLength(s, f, bytes) == Len(bytes) = Offset(s, f, Len(f) + 1)

Deserialize(s, type, bytes) ==
  LET f == Fields(type)
      v == [k \in DOMAIN f |-> DecodeField(s, f[k], Part(s, f, k, bytes))]
  IN  IF /\ Len(bytes) >= HeaderSize
         /\ ValidHeader(SubSeq(bytes, 1, HeaderSize), s, type)
         /\ RightLength(s, f, bytes)
         /\ \A k \in DOMAIN f : v[k] # Error
        THEN v ELSE NoBytes

-----------------------------------------------------------------------------
(* Signatures, with the challenge c = H2(R || PK || msg).                  *)

\* Aggregator.Verify, of a signature that has been read.
Verify(s, R, z, pk, c) ==
  /\ ~IsIdentity(R) /\ ~IsIdentity(pk) /\ c # 0
  /\ ScalarBaseMult(s, z) = Add(s, R, ScalarMult(s, pk, c))

\* The suites' VerifySignature, of a signature as bytes: those with a
\* cofactor multiply both sides by it.  Mutant: one side only.
LeftCofactored(s, R, z, pk, c) ==
  ScalarMult(s, ScalarBaseMult(s, z), s.cofactor) =
    Add(s, R, ScalarMult(s, pk, c))
VerifyCofactored(s, R, z, pk, c) ==
  LET left == ScalarMult(s, ScalarBaseMult(s, z), s.cofactor)
      right == ScalarMult(s, Add(s, R, ScalarMult(s, pk, c)), s.cofactor)
  IN  left = right

VerifyPlain(s, R, z, pk, c) ==
  ScalarBaseMult(s, z) = Add(s, R, ScalarMult(s, pk, c))

VerifySignature(s, bytes, pk, c) ==
  LET R == DeserializeElement(s, SubSeq(bytes, 1, s.elementLen))
      z == DeserializeScalar(s, SubSeq(bytes, s.elementLen + 1, Len(bytes)))
  IN  /\ ~IsIdentity(pk)
      /\ Len(bytes) = s.elementLen + s.scalarLen
      /\ R # Error /\ z # Error
      /\ IF s \in {Ed25519, Ed448} THEN VerifyCofactored(s, R, z, pk, c)
                                   ELSE VerifyPlain(s, R, z, pk, c)

-----------------------------------------------------------------------------
(* Hash functions.                                                         *)

Tag ==
  [H1 |-> <<"r", "h", "o">>, H2 |-> <<"c", "h", "a", "l">>,
   H3 |-> <<"n", "o", "n", "c", "e">>, H4 |-> <<"m", "s", "g">>,
   H5 |-> <<"c", "o", "m">>, HDKG |-> <<"d", "k", "g">>, HID |-> <<"i", "d">>,
   HashToCurve |-> <<"h", "2", "c">>]

\* contextString || domain || data.  Mutant: without the context.
TagOnly(s, tag, data) == tag \o data
DomainSeparate(s, tag, data) == <<s.context>> \o tag \o data

\* The first input of expandMessageXMD: padding, data, length, then the tag
\* with its own length.
ExpandMessageXMD(s, tag, data) ==
  <<"pad">> \o data \o <<"48">> \o <<s.context>> \o tag \o <<ToString(1 + Len(tag))>>

\* Ed25519 hashes challenges as they are, Ed448 behind a prefix of its own.
HashInput(s, f, data) ==
  CASE s = Ed25519 /\ f = "H2" -> data
    [] s = Ed448 /\ f = "H2" -> <<"SigEd448", "0", "0">> \o data
    [] s \in {P256, Secp256k1} /\ f \in {"H1", "H2", "H3", "HDKG", "HID"} ->
         ExpandMessageXMD(s, Tag[f], data)
    [] OTHER -> DomainSeparate(s, Tag[f], data)

Data == UNION {[1..n -> Alphabet] : n \in 0..2}

-----------------------------------------------------------------------------
Init ==
  /\ msg = Nothing
  /\ got = Nothing
  /\ hashed = {}

\* faults: how often it was damaged; same: history, it is as it was sent but
\* for the reserved field; whole: history, its length is what it was.
Send(s, type, v) ==
  LET bytes == Serialize(s, type, v)
  IN  /\ bytes # NoBytes
      /\ msg' = [bytes |-> bytes, suite |-> s, type |-> type, value |-> v,
                 faults |-> 0, same |-> TRUE, whole |-> TRUE]
      /\ UNCHANGED <<got, hashed>>

OnItsWay == msg # Nothing /\ got = Nothing

Damage(bytes, same) ==
  /\ OnItsWay
  /\ msg.faults < MaxFaults
  /\ msg' = [msg EXCEPT !.bytes = bytes, !.faults = @ + 1,
                        !.same = @ /\ same,
                        !.whole = @ /\ Len(bytes) = Len(msg.bytes)]
  /\ UNCHANGED <<got, hashed>>

Cut == OnItsWay /\ Damage(Front(msg.bytes), FALSE)
Extend(b) == OnItsWay /\ Damage(Append(msg.bytes, b), FALSE)
SetReserved == OnItsWay /\ Damage([msg.bytes EXCEPT ![HeaderSize] = 1], TRUE)
Alter(k, b) ==
  /\ OnItsWay
  /\ k \in DOMAIN msg.bytes /\ k > HeaderSize /\ msg.bytes[k] # b
  /\ Damage([msg.bytes EXCEPT ![k] = b], FALSE)

\* Somebody of suite s reads the message as one of that type.
Read(s, type) ==
  /\ OnItsWay
  /\ got' = [suite |-> s, type |-> type,
             value |-> Deserialize(s, type, msg.bytes)]
  /\ UNCHANGED <<msg, hashed>>

Discard ==
  /\ got # Nothing
  /\ msg' = Nothing
  /\ got' = Nothing
  /\ UNCHANGED hashed

\* A hash function is called, while there is no message.
Hash(s, f, data) ==
  /\ Cardinality(hashed) < 2
  /\ hashed' = hashed \cup {[suite |-> s, f |-> f, data |-> data]}
  /\ UNCHANGED <<msg, got>>

Next ==
  \/ /\ msg = Nothing /\ hashed = {}
     /\ \E s \in Suites, type \in Types : \E v \in Values(s, type) : Send(s, type, v)
  \/ \E s \in Suites, type \in Types : Read(s, type)
  \/ Cut
  \/ SetReserved
  \/ \E b \in Byte : Extend(b)
  \/ \E b \in Byte, k \in 1 .. 4 * NumLen + HeaderSize : Alter(k, b)
  \/ Discard
  \/ /\ msg = Nothing
     /\ \E s \in Suites, f \in DOMAIN Tag, data \in Data : Hash(s, f, data)

Spec == Init /\ [][Next]_vars

-----------------------------------------------------------------------------
(* Properties.                                                             *)

IsRead == got # Nothing

\* A message that arrives as it was sent is read as what it was by those of
\* its suite who expect its type, and refused by everybody else; one that
\* lost or gained bytes is refused by all, whatever is left of it.
ReadAsSent ==
  IsRead /\ (msg.same \/ ~msg.whole) =>
    got.value = IF msg.same /\ got.suite = msg.suite /\ got.type = msg.type
                  THEN msg.value ELSE NoBytes

\* The bytes from which a message of that type is read with other bytes in
\* them just the same: the reserved field, the last byte of a scalar or an
\* element of Ed448, and elements of Ed25519 with too large a coordinate.
Malleable(s, type, bytes, k) ==
  \/ k = HeaderSize
  \/ \E j \in DOMAIN Fields(type) :
       LET f == Fields(type)
           end == Offset(s, f, j + 1)
       IN  \/ s = Ed448 /\ f[j] # "id" /\ k = end
           \/ /\ s = Ed25519 /\ f[j] = "element"
              /\ k \in Offset(s, f, j) + 1 .. end
              /\ Number(s.bigEndian, Part(s, f, j, bytes)) >= FieldSize

\* Whatever bytes arrive, altered ones too, what is read of them can be
\* passed on: it can be written, those who read that get the same values,
\* and the bytes are those that arrived, but for the malleable ones.
RelayKeepsValue ==
  IsRead /\ got.value # NoBytes =>
    LET again == Serialize(got.suite, got.type, got.value)
    IN  /\ Len(again) = Len(msg.bytes)
        /\ Deserialize(got.suite, got.type, again) = got.value
        /\ \A k \in DOMAIN again :
             again[k] # msg.bytes[k] =>
               Malleable(got.suite, got.type, msg.bytes, k)

\* An identifier that was read is the same number as a scalar of the group,
\* in whichever order its bytes are, so that shares are interpolated at the
\* places they were dealt for, and only 0, which is nobody's, is no share's
\* place.  What is derived from a scalar is its lowest bytes, or 1.
IdentifiersKeepTheirNumber ==
  IsRead /\ got.value # NoBytes =>
    \A k \in DOMAIN got.value :
      LET x == got.value[k]
      IN  CASE Fields(got.type)[k] = "id" ->
                 IdentifierToScalar(got.suite, x) = x
            [] Fields(got.type)[k] = "scalar" ->
                 DeriveIdentifier(got.suite, x) =
                   (IF x % Base^IdLen = 0 THEN 1 ELSE x % Base^IdLen)
            [] OTHER -> TRUE

\* Of every signature that can be read, for every public key, in the
\* prime-order subgroup or not: what the aggregator's Verify accepts, the
\* suite's VerifySignature accepts of its bytes; and of what VerifySignature
\* accepts, Verify refuses exactly what has the challenge 0 or has a
\* component outside the subgroup on the right side, which the cofactor
\* cancels.  Inside the subgroup the two agree.
VerifiersAgree ==
  IsRead /\ got.value # NoBytes /\ got.type = "Signature" =>
    \A pk \in Element(got.suite), c \in Scalar :
      LET s == got.suite
          R == got.value[1]
          bytes == SubSeq(msg.bytes, HeaderSize + 1, Len(msg.bytes))
      IN  Verify(s, R, got.value[2], pk, c) <=>
            /\ VerifySignature(s, bytes, pk, c)
            /\ c # 0
            /\ InSubgroup(s, Add(s, R, ScalarMult(s, pk, c)))

\* Two calls of hash functions, of one suite or of two with the same
\* underlying hash, have the same input only if they are the same call; but
\* for the challenges of Ed25519, which are hashed as standard Ed25519 does.
DomainsSeparated ==
  \A a, b \in hashed :
    /\ a # b /\ a.suite.hash = b.suite.hash
    /\ <<Ed25519, "H2">> \notin {<<a.suite, a.f>>, <<b.suite, b.f>>}
    => HashInput(a.suite, a.f, a.data) # HashInput(b.suite, b.f, b.data)
=============================================================================
