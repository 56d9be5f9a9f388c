# Verification of go-frost

go-frost is a Go library for FROST threshold signatures (RFC 9591): a group of
participants holds shares of one secret key, and any `minSigners` of them make
one Schnorr signature in two rounds.  The modules here model the parts of the
library that keep state, run concurrently or carry the protocol's algebra.  TLC
checks them on small instances; TLAPS proves the most important results for
every value of the constants.  Paths below are relative to the repository;
`PROJECT.json` maps each definition to the source lines it stands for.

```
tlc -workers 2 -config MCCoordinator.cfg MCCoordinator         # a model-checking run
tlapm CoordinatorProofs.tla                                    # the proofs of a module
```

## 1. The system

### Components

| Component | Source | State it keeps | Operations | What makes it correct |
|---|---|---|---|---|
| Signing coordinator | `pkg/frost/signing/coordinator.go` | one map of round-one nonces per coordinator, behind a mutex taken per access | `Sign`, `RequestCommitments`, `RequestSignatureShares`, `AuthenticateCommitment` | no nonce makes two shares; a call that is left alone gets its own nonces back; thresholds hold |
| Signing participant | `signing/participant.go` | a key package (immutable) | `RoundOne`, `RoundTwo`, `VerifySignatureShare` | shares add up; peers accept exactly the honest ones |
| Aggregation | `signing/aggregator.go`, `strategy.go`, `signing.go` | none | `Aggregate`, `AggregateWithVerification`, `Verify`, three cheater-detection strategies | a quorum's signature verifies; nobody honest is blamed; nothing below the threshold |
| Reputation tracker | `security/reputation.go` | counts, exclusion and a time-stamped history per participant | `RecordMisbehavior`, `ExcludeParticipant`, `ReinstateParticipant`, `CleanupOldRecords`, `IsExcluded` | exclusions have a cause; counts survive pardon and cleanup |
| Nonce tracker | `security/commitment_tracker.go`, `frost_nonce_tracker.go` | a map of hashed commitments, an index by session | record or check a pair, `ClearSession`, `ClearExpired` | index and map agree; what is tracked is never accepted again |
| Key generation (DKG) | `keygen/dkg` | secret packages held by the caller between parts | `Part1`, `Part2`, `Part3` | everybody who finishes has the same public key; a quorum holds the secret; only the faulty are named |
| Dealer, VSS, reconstruction | `keygen/dealer.go`, `vss.go`, `reconstruct.go`, `helpers/polynomial.go` | none | share, verify, interpolate | any quorum interpolates to the secret |
| Refresh and repair | `keygen/refresh`, `keygen/repairable` | key packages of the participants | deal and apply a refresh; the three steps of a repair | the secret survives; packages and public data stay consistent |
| Key store | `keystore/keychain_store.go`, `types.go` | none of its own: records in a backend | store, get, delete, list, update metadata (key packages and groups) | nothing overwritten unasked, nothing torn, lists complete but for what cannot be read |
| File backend | `storage/file.go` | files and temporary files behind one lock, a closed flag | `Put` (temporary file and rename), `Get`, `Exists`, `Delete`, `List`, `Close` | a crash leaves the old or the new value |
| Memory backend | `storage/memory.go` | a map of entries with a time to live | same interface | expired entries are gone everywhere at once |
| Preprocessing, batch | `signing/preprocess.go`, `batch.go` | a pool of nonces with a cursor | `Preprocess`, `Next`; batch verification | a nonce leaves the pool once |
| Rerandomized signing | `signing/rerandomized.go` | none | randomize a key package, sign | signatures verify under the randomized key |
| Service, sessions | `service/frost.go`, `session_manager.go` | a map of sessions, each with commitments and shares | create, add, delete, sign | sessions fill up once, thresholds are the key's |
| Protected memory | `secmem/secmem.go` | an enclave per secret, behind a mutex taken per access | open, reseal, destroy, purge | erased stays erased; users do not disturb each other |
| Signer adapter | `signer/signer.go` | a secret and a public key per signer; signers by participant | create, sign, export, destroy, add, remove | what it signs verifies under its public key |
| Authentication | `security/authenticator.go` | registered public keys, without a lock | register, sign, authenticate | what is accepted was signed as that, for that participant |
| Groups, encodings | `group`, `helpers/encoding.go`, `identifier.go` | none | encode, decode, identifier to scalar | both byte orders give the same numbers; nothing is decoded that cannot be used |
| Ciphersuites | `ciphersuite` | none | hash functions, `VerifySignature` | domains do not collide; verifiers agree |
| Serialization | `serialization` | none | five message types with a header | read as sent or refused |
| Command line tool | `cmd/frost/main.go` | files of keys, commitments, nonces, shares, signatures | `keygen`, `sign`, `commit`, `sign-share`, `collect-*`, `aggregate`, `verify` | a round verifies whatever the directory held; the documented workflow uses a nonce once |
| Validation, configuration, C bindings, signing package | `security/validator.go`, `config.go`, `errors.go`, `cmd/libfrost`, `signing/package.go` | none to speak of | | |

### How they interact

`Sign` runs in the caller's goroutine.  It asks the reputation tracker about
every participant, calls `RoundOne` of each and stores the nonces in the
coordinator's map, validates the commitment list, takes the nonces out again
one by one to call `RoundTwo`, and hands the shares to the aggregator.  Errors
of a participant are reported to the tracker.  Applications may run the two
rounds themselves, with `RequestCommitments` and `RequestSignatureShares`, which
use the same map.  Key packages come from the dealer, the DKG, a refresh, a
repair or the key store; the key store turns them into JSON and calls the
backend once or several times per operation.  Nobody holds a lock across two
operations of another component.  The command line tool runs the rounds as
separate processes that exchange files; the authenticator checks messages that
signers, which keep their keys in protected memory, have signed; what travels
between parties is encoded by `serialization` in the byte order of the group.

### What is hard

* The coordinator's map is shared by all calls and reset by each round one.
* The nonce tracker handles a pair of commitments in two critical sections.
* The key store checks, reads and lists in several backend operations.
* A crash can hit between opening, writing and renaming a file.
* DKG, refresh and repair depend on messages that are lost, late, repeated,
  sent to some only, or wrong.
* Shares are checked one by one, so what is missing or doubled needs care.
* Thresholds are switched off by the value 0, which key packages from the store,
  the command line's key file and a repair have.
* A secret is used outside its lock and sealed again afterwards.
* The command line tool keeps commitment and nonces in two files, written one
  after the other, and nothing in them says which belong together.
* Five suites have encodings of equal lengths and different byte orders, two of
  them on curves with points outside the subgroup of prime order.

`PROJECT.json` lists these as hazards, each at its line, with the properties
that would show it going wrong.

## 2. The modules

| Module | Models | Extends or instantiates |
|---|---|---|
| `NonceLedger` | the abstract promise of every keeper of nonces: nonces are generated, and each is then lost or spent on one share | |
| `ReputationRecord` | one entry of the reputation tracker, as functions of an entry | |
| `Coordinator` | the coordinator with its participants, aggregator and tracker, called by several goroutines | extends `ReputationRecord`, implements `NonceLedger` |
| `Reputation` | the whole tracker, with clock, history and cleanup | extends `ReputationRecord` |
| `NonceTracker` | nonce tracker and commitment tracker, called by several goroutines | |
| `FieldMath` | scalars, group elements, polynomials, interpolation, share commitments | |
| `KeySharing` | participants, threshold and polynomials, which `ThresholdSigning`, `Dkg` and `KeyMaintenance` have in common | extends `FieldMath` |
| `SigningSessions` | the service's sessions and their manager, used by several workers, with nonces from the pools of `preprocess.go` | implements `NonceLedger` |
| `ThresholdSigning` | one signing session over a network, aggregation and blame; randomized keys, the service's `Sign`, batch verification | extends `KeySharing` |
| `Dkg` | the three parts of every participant, the packages on their way, faulty participants | extends `KeySharing` |
| `KeyMaintenance` | refresh, repair, loss of a share, reconstruction | extends `KeySharing` |
| `Keystore` | the key store on the file backend and on the memory backend, goroutines, failures, crashes | |
| `Cli` | the commands of the tool as processes on one directory, overlapping and killed | |
| `Authentication` | signers, protected memory and authenticator, used by several goroutines | |
| `Wire` | encodings, messages, signatures and hash inputs of the five suites, with damage on the way | |
| `MC...` | constants for TLC | extend the module they are named after |
| `CoordinatorProofs`, `ReputationProofs`, `NonceTrackerProofs`, `SigningSessionsProofs`, `AuthenticationProofs`, `KeystoreProofs`, `CliProofs` | theorems | extend the module they are named after |
| `FrostProofs` | theorems about signing, key generation and maintenance, and the algebra they share | extends `ThresholdSigning`, `Dkg` and `KeyMaintenance` |

Next to a definition that a plausible bug would change stands a variant of it,
introduced by a comment "Mutant:".  Substituting the variant must make TLC
report the property it is listed with in `PROJECT.json`; this is how we know
that each property can fail.

### Coordinator

A caller is a goroutine with a program counter `pc` and the locals `frame` of
its call.  One action is one critical section together with the local work up
to the next: `BeginRoundOne` / `BeginRoundTwo` (argument checks),
`CheckExcluded` (one `IsExcluded` per identifier), `ResetNonces` (the `make` of
the map), `CollectCommitment` (one `RoundOne` and the store) with its failing
variants, `ValidateCommitments`, `TakeNonces` (look up and delete, one critical
section) and `TakeFails`, `RoundTwo` and `RoundTwoFails` (with the report to the
tracker), `Aggregate`.  `AuthenticationFails` and `Reinstate` are the other
things that change the tracker.  `config` says which constructor made the
coordinator, and carries the two thresholds, which may each be 0.

The two nonces of one `RoundOne` are one number from a counter (the random
generator never repeats), a commitment names the number it commits to, and a
share records from which nonce, message and list it was computed.  What a
signature is worth is then a relation between a share and its list
(`SharesMatch`); that matching shares do add up is `QuorumSigns` of
`ThresholdSigning`.  An application may hand `RequestSignatureShares` a foreign
list, with commitments to nonces of nobody; the map is `NoNonce` where the code
has no entry, and `Intact` compares a commitment only with an entry that is
there.  `issued`, `disturbed`, and the fields `barred` and `clean`
are history: no guard reads them.

### Reputation

Every operation of the tracker holds its lock throughout, so each is one
action.  The counts, the exclusion and its reason are one entry per participant;
`ReputationRecord` has the entry's operations, so that the coordinator uses the
very same ones.  The history keeps the time stamps cleanup compares with the
clock; `NewRecords` is the loop that keeps the records after a cutoff.

### NonceTracker

`RecordSigningCommitments` and `CheckSigningCommitments` handle the hiding and
then the binding commitment: `pc` says which is next.  The lookup key is the
concatenation of session, participant and data, as in the code, without
separators, so that different triples may share one (session `s1` with
participant 2 and session `s` with participant 12).  `ClearSession` and
`ClearExpired` are single critical sections and come in between.

### SigningSessions

Every method of a session and of its manager holds one lock throughout, so each
is one action: `CreateSession`, `GetSession`, `DeleteSession`, `Cancel`,
`AddCommitment`, `GetCommitmentList`, `AddSignatureShare`.  Workers are
goroutines that act for a participant, two of them for the same one, as after a
repeated request: a worker gets a session, takes the next nonces from the
participant's pool, adds the commitment, waits for the list, signs (`RoundTwo`)
and adds the share; it gives up, and zeroizes, when the session refuses.  What a
worker does between these calls is not code of the repository; it follows the
interfaces' comments (nonces are used for one signature, a pool is used by one
goroutine at a time and not after its `Zeroize`).  A session deleted from the
manager is still reachable through the reference a worker holds.

### FieldMath, KeySharing, ThresholdSigning, Dkg, KeyMaintenance

All groups of one prime order are isomorphic, so a group element is an integer
modulo a small prime `Q` and the algebra of the code is carried out as it
stands: Horner evaluation, Lagrange coefficients, commitments to coefficients,
`z = d + e*rho + lambda*s*c`, `z*G = R + c*PK`.  The loops of the code that
accumulate a sum or a product are `SSum`, `SProd` and `ESum` of a family of
values; `Power` is the running power of the identifier.  Hash outputs are
arbitrary values, fixed once the list and the message are; a challenge and a
randomizer are not 0, and neither are nonces, blinds and the secret of a
polynomial, which `RandomScalar` draws from the scalars other than 0.  Hardness
of discrete logarithms is neither modelled nor used.

The three modules extend `KeySharing` and have variables and a specification of
their own each (`Spec`, `DkgSpec`, `MaintenanceSpec`), so that one module can
extend all of them and prove the algebra once.

`ThresholdSigning` lets any subset commit, and then lets shares arrive: honest
or off by an error, several times or never, in any order, until an aggregator
with one of the three strategies is called.  Verification shares come in the three
shapes the repository produces: commitments to coefficients numbered from 0
(`GenerateShares`), one public key per participant (`TrustedDealerKeygen`,
DKG), or none (`RepairShareStep3`, the command line).  `threshold` is the
`MinSigners` of each key package: the group's, or 0 where it was lost, in which
case `RoundTwo` of its owner refuses no list (`LongEnough`).  With a `randomizer` other than 0 the participants sign with randomized
key packages and the re-randomizing aggregator verifies under the randomized
key.  `Aggregate` of `signing.go` takes a map, so each share once, and asks for
no number of them; `ServiceSign` makes all shares itself and takes its threshold
from the verification shares, or, without any, from the number of packages.  `BatchVerify` is an operator: batches change no state.

`Dkg` keeps, for every participant, what its caller has: coefficients, the
package it announces, the packages received in each round, the key package.  A
faulty participant announces a package of any polynomial, another
participant's, or an ill-formed one; it tells different peers different things
unless round one is broadcast, and it deals wrong shares.  A part that fails may
be called again after other packages arrived.  The network and the caller are
not code of the repository.

`KeyMaintenance` starts from a finished key generation.  The dealer of a refresh
publishes the new public package at once; the participants apply their share
now, later, twice or never.  A lost package is repaired through the three steps
of `repairable`, by as many helpers as the threshold or by fewer, with the
commitment check or without, while refreshes go on; the last step refuses an
empty list of sigmas.

### Keystore

Each operation of the key store is a sequence of backend operations, one action
each: `StoreKeyPackage` is `Exists` and `Put`; `UpdateMetadata` is `Get` and
`Put`; `ListKeyPackages` is `List` and one `Get` per key.  `Put` holds the
backend's lock over three actions, opening, writing and renaming the temporary
file; each may fail, and the process may crash before and after each.  On the
file backend every other operation may fail too (`MayFail`: permission denied, a
disk error): `Exists`, `Get`, `Delete`, `List`.  A listing goes on after a `Get`
that failed, and `List` itself leaves out a directory it may not read; the field
`failed` is history and names what a listing lost this way, `present` what was
there, of the group asked for, from its start to its end.  On the
memory backend `Put` is one step.  A crash ends every call and frees the locks;
files and temporary files stay, the memory backend forgets everything.  Storage
keys are computed from identifiers by the sanitizing of the code.  `ToKeyPackage`
gives a package back the way the code does, without its threshold.

### Cli

A command is a process: `Begin...` starts it, `Read` reads its input files one
by one (a file that is absent or torn ends the command), one action per command
computes (`Keygen`, `RoundOne`, `Collect`, `RoundTwo`, `Aggregate`,
`SignLocally`), and `OpenFile` and `WriteData` are the two halves of
`os.WriteFile`, truncating and writing, for each output file.  `Die` kills a
command between any two steps or fails its write.  `verify` changes nothing and is
the operator `Verifies`.  Files have their default names, so that they collide
as much as they can, and `Glob` lists those of a kind in the order of their names
(`GlobOrder`), which need not be the order of the numbers in them.  Keys and nonces are numbered; a share records what it was
computed from, and a signature verifies if its shares are those of its list.
`keygen` leaves no threshold in the key packages, so `RoundTwo` checks none and
`Enough` of the aggregator is all there is.  `status`, `careful` and `alone` are
history: how the last `commit` of a participant went, whether each of its
`sign-share` followed one that went well, whether commands of one participant
overlapped.  A directory starts empty, with keys, or with all that an earlier
round left.

### Authentication

`Open` and `UseAndReseal` are the two critical sections of `WithSecret`: in
between the caller has a copy of the key and no lock.  `Resealed` replaces the
enclave without looking, as the code does.  An enclave belongs to the session
key of its `epoch`; `Purge` begins a new epoch and destroys open buffers.  A
caller's slice is wiped by the signer made from it.  A proof is the pair of key
and serialized message (Ed25519 is deterministic and, by assumption, nobody
else can make one); all proofs ever made may be presented at any time, under
any identifier.

### Wire

A byte is a digit to a small base, numbers have a few digits, identifiers fewer,
and `Ordered` is the one place that knows the byte order, so that encoders and
decoders are compared digit by digit.  The five suites are records of what they
differ in: lengths, byte order, cofactor, the byte that `DeserializeScalar` of
Ed448 never reads.  `Serialize` and `Deserialize` treat the five types of
messages alike, as lists of fields.  A message is sent, may be cut, extended or
altered in a byte, and is read by any suite as any type.

The curves of Ed25519 and Ed448 have `Cofactor` times as many points as the
subgroup of their base point, all multiples of one point (as in reality); an
element is that multiple, and the subgroup is the multiples of the cofactor.
The decoders are those of the code on top of what the libraries, which are not
in the repository, document: edwards25519 takes every point of the curve and
coordinates modulo the size of the field, so that some elements have two
encodings, and `DeserializeElement` tests for the identity only; goldilocks takes
coordinates below the size of the field and of the last byte only the sign, and
the code tests for the subgroup, by a multiplication with the order (that the
library does not reduce the order to 0 first is taken for granted); the encodings
of the other three groups are unique.  A point is encoded as its multiple, which
keeps the number of encodings and loses nothing else: no operation of the code
looks at coordinates.  The suite's number in the header is `CiphersuiteID`, the
values the code's 32-bit hash has for the five context strings.

Hash functions are their inputs.  Tags are spelled letter by letter, because
`DomainsSeparated` is about their concatenation with data.  Where several suites
or types have the same code, one operator stands for all of them, and its map
entry names one of the copies.

## 3. The runs

`-workers 2`, times from a small machine.

| Run | Question | Distinct states | Time |
|---|---|---|---|
| `coordinator` | three calls by two goroutines, every constructor and error path; ledger refinement | 1.6 million | 60 s |
| `reputation` | the tracker | 390 thousand | 10 s |
| `nonce_tracker` | the tracker | 590 thousand | 45 s |
| `signing_sessions` | sessions and pools shared by workers; ledger refinement | 2.25 million | 110 s |
| `threshold_signing` | algebra and blame | 300 thousand | 60 s |
| `dkg` | key generation with one faulty participant | 620 thousand | 100 s |
| `maintenance` | refresh and repair | 217 thousand | 30 s |
| `keystore` | the store on both backends with failures and a crash | 420 thousand | 115 s |
| `cli` | commands on one directory | 2.2 million | 120 s |
| `authentication` | signers, protected memory, authenticator | 460 thousand | 20 s |
| `wire` | messages, encodings, verifiers, hash inputs | 346 thousand | 20 s |
| `coordinator_concurrent_sign` | see "Findings" | | seconds |

**`coordinator`**: `NonceUsedOnce` (no nonce makes two shares);
`CleanCallsKeepNonces` (a call nobody interfered with is never told "nonces not
found", and returns shares that answer its list); `ExcludedStaysOut` (who was
excluded before a call began contributes nothing to it); `ThresholdRespected`
(no signature has fewer signers than the threshold when either check is on);
`ImplementsLedger`.  Two callers and three calls give every
pairwise overlap and a retry after it, on two participants: a nonce of one call
can be overwritten, deleted or used by the other at every point.  All
constructors, requests for both participants and for one of them, empty,
duplicate and unknown participants and foreign commitment lists make every early
return happen; a tracker whose limits are 1 makes exclusion happen within a
call.  Callers are symmetric: no formula names one.

**`reputation`**: `ExclusionJustified` (an excluded participant was excluded by
hand or has a count at its threshold), `PardonIsNarrow` (whoever is over a
threshold and takes part does so with exactly the counts of its last
reinstatement), `CountsNeverForget`, `HistoryComplete` (the history lacks
exactly what a cleanup dropped).  Participants do not influence each other, so
one is enough; four violations cross thresholds of 1, 2 and 3, before and after
a pardon; three clock values put records before, at and after a cutoff.

**`nonce_tracker`**: `IndexConsistent`, `ReuseReported` (a commitment tracked
when a call began, and ever since, is not accepted by it), `PairsForgottenTogether`
(the halves of a pair expire together).  Two sessions and two participants whose
keys overlap, two commitments that pairs share halves of, one time to live of 0
and one of 1.

**`signing_sessions`**: `ListStable` (all who ask a session for its list get the
same one), `SharesFit` (every share is made from the nonces whose commitment the
session holds, also when it is canceled meanwhile), `ImplementsLedger` (pools and workers together
never spend a nonce twice).  Three workers for two participants, so that one
request is repeated; two sessions; two fills of a pool, of two pairs each.

**`threshold_signing`**: `QuorumSigns` (the shares of a quorum, each once, in
any order, aggregate to a signature that verifies, and no verifying strategy
turns one share of each listed signer into a wrong one), `BlameIsExact`
(aggregators name exactly the senders of wrong shares, all of them or the first;
with coefficient commitments, a peer accepts a share exactly when it is the
right one), `NoSignatureBelowThreshold` (a list that is too short yields nothing
where one of the shares, and they are verified, comes from a key package that
kept its threshold, or none came twice; nor from the service, where the packages
have verification shares or one kept its threshold), `BatchAgrees` (a batch
accepts exactly if each of its signatures verifies by itself, wherever it
stands and whatever the blinding factors are).  All of them with the plain and
with a randomized key.  Three participants,
threshold 2, so that lists of two and of three differ in their Lagrange
coefficients; errors 1 and 4, which cancel out modulo 5; binding factors that
differ, agree and vanish; one key, as the theorems are about any.  One key
package has no threshold, so that lists of one
are refused by some and signed by one.  The service refuses fewer than two
packages whatever they hold, so what `NoSignatureBelowThreshold` says of it only
bites above a threshold of 2, which the theorem covers and this instance does not.

**`dkg`**: `KeyPackagesAgree` (under broadcast all that finish have the same
group key and public shares; always the secret share of a key package fits its
public share) and, under broadcast, `QuorumHoldsSecret`;
`ContributionsAreOwn` (every package that entered a key is its sender's own)
and `OnlyFaultyBlamed`, with and without broadcast.  Deadlock is checked: a
participant can always get on.

**`maintenance`**: `PublicSharesCurrent` (a participant's own entry, and the
dealer's entry for whoever has applied each refresh once, fit the secret share;
an entry for a peer does until the peer applies a refresh), `SecretSurvives` (a
quorum with the same refreshes, none with an unbacked repair, interpolates to
the secret).  Threshold 3 of 4: two helpers pass the code's check and are too
few, three are enough.

**`keystore`**: `SharesIntact` (what is on disk is whole and was given to the
store for that key, and a `Get` returns what was stored under its identifier),
`ListComplete` (a listing has everything of its group that was there from its
start to its end, but what it could not read), `WritesMatchChecks` (a store replaces nothing and an
update brings nothing back, unless another call came in between),
`CallsReturn`.  Two identifiers of packages and a group of the same name, packages
of two groups, three calls, one crash and a restart, failures of every operation.

**`cli`**: `RoundVerifies` (if the share files of the listed signers were made
for the list that is still that of the commitment files, each from a `commit`
that was not interrupted, what `aggregate` makes of them verifies or is refused
for being too few) and `WorkflowUsesNonceOnce` (a participant that runs `commit`
before every `sign-share`, one command at a time, never uses a nonce twice).
Two participants, three start directories, a threshold that `keygen` takes and
one it refuses, as it does a number of participants above 65535, signers of `sign` in both orders, two processes, four commands
of which two overlap another, one killed.

**`authentication`**: `ErasedStaysErased` (a signer destroyed while no call had
its secret open, or purged, never signs again), `SignersStayUsable` (a signer
nobody erased can sign at any time, and validly), `AcceptedWasSigned` (what is
accepted was signed as that kind of message, with that content, for that
participant, by the key registered for it).  Two goroutines share two signers,
software and device; two participants may share a key; six calls, one purge.
One token for all elements makes commitments and shares differ in nothing but
their length, so that confusion would show.

**`wire`**: `ReadAsSent`; `RelayKeepsValue` (what is read can be written again, is
then read as the same, and gives the bytes it was read from, up to those that
the decoders of Ed25519 and Ed448 and the header take in several forms,
`Malleable`); `IdentifiersKeepTheirNumber`; `VerifiersAgree` (for every key and
challenge, in the subgroup or not, the aggregator's `Verify` of a signature read
accepts exactly what the suite's `VerifySignature` accepts of its bytes and has
no component outside the subgroup on the right side of the equation; but for the
challenge 0); `DomainsSeparated` (two hash calls of suites with the same hash
function have the same input only if they are the same call, but for the
challenges of Ed25519).  Numbers of four binary digits, order 5, cofactor 2, a
field of size 12, identifiers of two digits: some numbers exceed the order, some
are points outside the subgroup, some no points, some no coordinates, and some
points have two encodings; identifiers are shorter than scalars and neither is a
palindrome; one damage per message.  The data that is hashed has letters of the
tags in it.

### Bounds

All bounds are constants named in their modules: `MaxCalls`, `MaxTime`,
`MaxRecords`, `MaxReceived`, `MaxSessions`, `MaxNonces`, `MaxRefreshes`,
`MaxApplied`, `MaxCrashes`, `MaxRuns`, `MaxOverlaps`, `MaxFaults`, `MaxKeys`,
`MaxPurges`, and the sets of requests, polynomials and data.  They only stop actions that begin
something new, never one that finishes something begun.  Therefore a run may
end in a state where nothing is left to do, and those cfgs say
`CHECK_DEADLOCK FALSE`; in `dkg`, `nonce_tracker` and `reputation` deadlock is
checked.

### Fairness

`Keystore` assumes weak fairness of `Step(c)` for each caller inside a call, and
nothing else: the backend's lock is held for one file operation, the Go
scheduler runs every runnable goroutine, and file operations return, with an
error perhaps.  No call has to begin, no crash has to happen or to stay away.
The other modules state safety only.  In the coordinator a critical section is
one action and no call waits for another, so there is nothing to wait for that
the model could show.

## 4. The proofs

TLAPS checks everything in the eight proof modules, for any sets of callers,
participants, identifiers and messages, for any bounds, and, in `FrostProofs`,
for any prime order, generator, number of participants and threshold.  The assumptions are
those named in the modules; TLC evaluates them in the runs.  Each result has the
same layout: an inductive invariant made of named parts, lemmas that say what an
action does to the state the invariant speaks of, one step per action, and a last
step by temporal logic.  The new invariants were checked with TLC, on the runs'
instances, before they were proved.

| Theorem | Establishes | Inductive invariant |
|---|---|---|
| `CoordinatorProofs!NonceSafety` | `NonceUsedOnce` | `NonceInv` |
| `CoordinatorProofs!LedgerImplemented` | `ImplementsLedger` | `NonceInv` |
| `CoordinatorProofs!TypeCorrect` | `TypeOK` (in no run) | itself |
| `CoordinatorProofs!ExclusionSafety` | `ExcludedStaysOut` | `ExclusionInv` |
| `CoordinatorProofs!ThresholdSafety` | `ThresholdRespected` | `ThresholdInv` |
| `CoordinatorProofs!CleanCallsSafety` | `CleanCallsKeepNonces` | `CleanInv` |
| `ReputationProofs!ExclusionIsJustified`, `!PardonsAreNarrow` | `ExclusionJustified`, `PardonIsNarrow` | `ExclusionInv` (of that module) |
| `ReputationProofs!CountsAreComplete` | `CountsNeverForget` | itself |
| `ReputationProofs!HistoryIsComplete` | `HistoryComplete` | `HistoryInv` |
| `NonceTrackerProofs!IndexIsConsistent` | `IndexConsistent` | with `TrackerInv` |
| `NonceTrackerProofs!ReuseIsReported` | `ReuseReported` | `ReuseInv` |
| `NonceTrackerProofs!PairsStayTogether` | `PairsForgottenTogether` | `PairInv` |
| `SigningSessionsProofs!OneListPerSession`, `!SharesFitCommitments` | `ListStable`, `SharesFit` | `SessionInv` |
| `SigningSessionsProofs!LedgerImplemented` | `ImplementsLedger` | `NonceInv` (of that module) |
| `AuthenticationProofs!ErasedKeysStayErased`, `!SignersRemainUsable` | `ErasedStaysErased`, `SignersStayUsable` | `SecretInv` |
| `AuthenticationProofs!AcceptedMessagesWereSigned` | `AcceptedWasSigned` | `SignedInv` |
| `KeystoreProofs!StoredSharesIntact`, `!ListsAreComplete`, `!ChecksHoldAtWrites` | `SharesIntact`, `ListComplete`, `WritesMatchChecks` | `KeyInv` |
| `CliProofs!CarefulWorkflowIsSafe`, `!OneRoundVerifies` | `WorkflowUsesNonceOnce`, `RoundVerifies` | `CliInv` |
| `FrostProofs!QuorumSignsSafety`, `!BlameSafety`, `!SigningThresholdSafety`, `!BatchSafety` | `QuorumSigns`, `BlameIsExact`, `NoSignatureBelowThreshold`, `BatchAgrees` | `SigningInv` |
| `FrostProofs!AgreementSafety`, `!SharedSecretSafety`, `!ContributionSafety`, `!CulpritSafety` | `KeyPackagesAgree`, `QuorumHoldsSecret`, `ContributionsAreOwn`, `OnlyFaultyBlamed` | `DkgInv` |
| `FrostProofs!SecretSafety`, `!PublicSharesSafety` | `SecretSurvives`, `PublicSharesCurrent` | `MaintenanceInv` |

**`CoordinatorProofs`** (from `CoordinatorAssumptions`: identifiers are numbers,
participants are among them, requests and foreign lists are well-typed, foreign
lists commit to no nonce of this coordinator; and `MaxViolationsAssumption`).
`NonceUsedOnce` alone is not inductive: a second share from a used nonce must be
excluded before it is made.  `NonceInv` says where a nonce can be: every nonce
has been drawn (`NoncesBorn`), an unused one is in one map entry or in one
caller's hands (`NoncesApart`), a caller at round two has one (`RoundTwoHolds`),
and a used one is nowhere (`UsedIsGone`).  `StepsOfNonces` reduces the fifteen
actions to five effects on nonces (dropped, cleared, stored, taken, spent), and
preservation is proved for these.  For `LedgerImplemented` the live nonces are
those in the map or in hand, and each of the five effects is a step of
`NonceLedger` or a stutter.

The second half of `CoordinatorProofs` follows one call while others run.
`ExclusionInv`: whoever was excluded when a call began is excluded as long as the
call may still meet it, because a reinstatement takes it off the call's `barred`,
and the loops over the participants have passed nobody barred (`LoopsInRange`).
`ThresholdInv`: a call of `Sign` never has more shares and open commitments
together than the list has commitments (`Counted`), so enough shares mean a list
long enough, and round two refuses a short one.  `CleanInv`: while nobody
interferes the map holds the nonces of the commitments collected, later those of
the commitments still to do, and each commitment done has its share
(`KeepsNonces`).  The attempt at this proof showed that the model took a foreign
commitment to no nonce for an absent map entry; `Intact` now tells them apart,
and the run has such a list.

**`ReputationProofs`** (from `MaxViolationsAssumption`: thresholds are natural
numbers).  `ExclusionInv` is types and both properties together, because a
pardoned participant stays justified only if its counts are known;
`ExceedsMonotone` carries a crossed threshold over the next violation.  For
`CountsAreComplete` the count of a kind is the number of its entries in the log of
all violations.  For `HistoryIsComplete`, `HistoryInv` adds that every cutoff
used lies before the clock, so that a new record is always one to keep;
filtering twice is filtering with the later cutoff (`NewRecordsTwice`), and the
loop is reasoned about prefix by prefix.

**`NonceTrackerProofs`** (from `NonceTrackerAssumptions`).  The index lists
exactly the tracked entries, by session; this needs the types and the numbering
of calls (`TrackerInv`), as an entry must differ from the zero value.
`ReuseInv` carries a call over the gap between its two critical sections: what is
`known` since it began is tracked (`KnownTracked`), and a call that got to its
binding half had a hiding half that was not known (`HidingWasNew`).  `PairInv`
says that numbers of calls are unique, that an entry has the session and the
time of the call that wrote it, and that an undisturbed call finds its hiding
entry when it records the binding one.

**`SigningSessionsProofs`** (from `SessionAssumptions`: workers act for
identifiers, requests are lists of identifiers).  `SessionInv`: a session has one
commitment for each participant at most (`Keyed`), a list handed out is complete
and is what the session holds (`ListsFull`), and a worker that waits or signs has
its commitment there (`Committed`).  The code compares two numbers; the lemma
`EnoughIsComplete` shows by counting that they can only be equal if nobody is
missing, also when a request names somebody twice.  `NonceInv` says that no
nonce is in two places, pools and hands together; the refinement of the ledger
follows as for the coordinator.

**`AuthenticationProofs`** (from `AuthenticationAssumptions`: the keys of devices
are not those drawn for software signers).  `SecretInv`: an enclave holds its
signer's own key, sealed in the epoch the signer was made in, and is there unless
somebody destroyed or purged it; an open call has its signer's key unless a purge
took it; after a quiet `Destroy` no call has it open.  The last part is what
makes `Reseal`, which looks at nothing, harmless.  `SignedInv`: each proof is
the encoding of a statement somebody signed; `SerializeInjective` shows that the
encodings of different statements differ, which is what keeps a commitment from
passing for a share.

**`KeystoreProofs`** (from `KeystoreAssumptions`).  `KeyInv`: every file is a whole
package that was offered for its key (`FilesGood`), the caller that writes has
the lock (`LockHeld`) and the temporary file is its package when it renames
(`PutsGood`), what a call saw before its write still holds if nobody came between
(`PutsMatch`), and keys present since a listing began are still there, of the
group asked for, and are read, to be read or failed (`ListsGood`).  `StoredSharesIntact` alone assumes `DistinctKeys`, that no two
identifiers are sanitized to one storage key: the code does not ensure it (see
section 5), and the sanitizing itself stays folded in the proofs.

**`CliProofs`** (from `CliAssumptions`: finitely many participants with positive
numbers, a `GlobOrder` that lists them all).  `Shape` says what files hold and how
far a command has come.  For each participant, nonces on the way to their file
are nowhere else (`PendingFresh`); after a good `commit` the nonces are unused
(`CommittedFresh`) and the one `sign-share` of a careful participant has unused
ones (`CarefulFresh`), which gives `WorkflowUsesNonceOnce`.  For `RoundVerifies`,
the two files of a `commit` that went well belong together and every share for a
list with that commitment is made from its nonces (`Settled`); `AboutToSettle`
is the same for a `commit` between its two files, and `AloneApart` says that such
a `commit` shares its files with no other command of its participant.

**`FrostProofs`** (from `FieldAssumptions`: `Q` has no zero divisors, which makes
it prime, and `G` is not the identity; `SharingAssumptions`: fewer participants
than scalars, a threshold from 2 to their number; `SigningAssumptions`,
`DkgAssumptions`, `MaintenanceAssumptions`: what is drawn or hashed is a scalar,
other than 0 where the code draws it so, an ill-formed package of the right
length proves something else, and the polynomials of refreshes vanish at 0).

*The arithmetic.*  The prover has no induction schema to instantiate, but an
induction over a *set* is a first-order statement: the set of numbers (or of
subsets of a finite set) that have a property has a least counterexample
(`LeastNat`, `Induct`, `InductSet`).  With it, what a fold computes is pinned down
once (`TallyExists`, `TallyAny`: a fold over a finite set exists and may take any
element last), and sums and products get the laws one expects: `SumAdd`,
`SumScale`, `SumSwap`, `SumReindex`, `SSumStep`.  Horner's method is the sum of
the terms (`HornerIsSum`), the commitment of a polynomial evaluates to the
commitment of its value (`CommitmentsFit`), inverses exist because multiplication
by a scalar other than 0 is injective on a finite set (`Inverse1`).
`Interpolation` is the heart: weights that change in the right way when a node
is left out (`IsLagrange`) recover every polynomial with no more coefficients
than there are nodes, by induction on the steps of Horner's method with one node
less at each; `DerivedIsLagrange` shows that `DeriveInterpolatingValue` computes
such weights for the point 0, and `CoefficientsAreLagrange` that
`computeLagrangeCoefficient` of the repair does for any point.

*ThresholdSigning.*  `SessionOK` is types; `SharesEarned` says that a share received
as computed by `RoundTwo` answers a list that is long enough for its sender's
key package; `OutcomeOK` that
the outcome is the answer of one of the aggregators to what was received.  The
properties are then facts about one state: the equation of a share holds exactly
for the value `RoundTwo` computes (`ShareEquation`, `AcceptedExact`), because
lambda and challenge multiply a known key; the sum over a quorum is
`d + c * secret` by interpolation (`SharesSign`), for the randomized key because
the coefficients of a quorum sum to 1 (`InterpolateShifted`); and received shares,
one each, are a reordering of the list (`SumReindex`).  For
`NoSignatureBelowThreshold`, one verified share of a package with a threshold
settles it (`SharesEarned`); without one, different verified shares are at most as
many as the signers, by counting.

*Dkg.*  `DkgInv` follows the packages: what was announced is a package
that somebody's Part1 could have made, or ill-formed (`RoundOneOK`), what was received is what was announced if it
came from an honest sender or by broadcast (`ReceivedOK`), a participant past
Part2 has seen a good package of everybody else and they stay (`PeersOK`), shares of
honest dealers are those of their polynomials (`SharesOK`), and a key is computed
from round one (`KeysOK`).  The secret share in a key may differ from what the
shares now in hand add up to, since a peer may send another one later; what stays
is that its public share belongs to it.  By broadcast the summed commitment is
the same for all, and so, through interpolation of a polynomial that nobody
holds, is the secret.

*KeyMaintenance.*  The property of a quorum is not inductive; `MaintenanceInv` says
which polynomial every share lies on.  `Blend` is the key polynomial plus each
refresh as often as the share has it applied, and a proper share is the blend's
value at its owner (`PackagesOK`).  `RepairOK` carries this through the three steps
of a repair: the deltas of a helper sum to its contribution, the sigmas to all
contributions (`SumSwap`: rows and columns), hence to the blend's value at the
target.  With a commitment, step three accepts exactly that value, whoever
helped.  The attempt at this proof found that the model let step three run with
no helpers and no sigmas at all, where the code refuses an empty list
(`repairable.go:213`); `AllSigmas` now has that guard.

Only model-checked:

* `CallsReturn` (liveness): out of the prover's reach;
* the five properties of `Wire`: they rest on what digits, byte orders and
  concatenations of strings and sequences compute.  Their module is about one
  instance in any case: all messages of five given suites, each damaged in one
  place.

## 5. Findings

One run checks a statement of the repository that the code does not keep.

* **`coordinator_concurrent_sign`**.  `Sign` promises "The complete FROST
  signature" (`coordinator.go:43`, `:50`).  Of two overlapping calls, one may
  sign with the other's nonces and return, without error, shares that do not
  answer its list (`coordinator.go:168`); `Aggregate` does not verify.  No nonce
  is used twice even so (`NonceSafety`).

Other disagreements met on the way; the models have the code's behaviour, no
run is devoted to them:

* "ListKeyPackages returns metadata for all stored key packages"
  (`keystore.go:30`), but it leaves out what it cannot read, and the file backend
  a directory it may not read (`keychain_store.go:214`, `file.go:250`), without
  an error; nothing else is left out (`ListComplete`);
* a comment of Ed25519's `DeserializeElement` says "we need to ensure the point is
  in the prime-order subgroup" and "The edwards25519 library already validates
  this during SetBytes" (`ed25519.go:312`); by its documentation `SetBytes` does
  not, and the code tests for the identity only (`VerifiersAgree` therefore
  speaks of such points; the library is not in the repository);
* `AggregateWithVerification` is to prevent "signature failure without
  detection" (`aggregator.go:53`), but it counts shares and checks each by
  itself: with one share missing from the list's signers, or one received twice,
  it returns a signature that does not verify (`QuorumSigns` therefore speaks of
  one share of each);
* `UpdateMetadata` is to return `ErrNotFound` for a package that does not exist
  (`keystore.go:56`); it writes back a package that was deleted after it was read
  (`keychain_store.go:431`; `WritesMatchChecks` excepts this case);
* the nonces file of the command line tool stays after `sign-share`
  (`main.go:786`), so a second `sign-share` with another list or message uses
  the same nonces, although `README.md:249` and `docs/guides/integration.md:309`
  say that nonce reuse is tracked and prevented;
* the command line tool further: `commit` killed between its two files leaves
  a commitment without its nonces; the collecting commands take stale files too,
  and in the order of their names, so that participant 10 comes before 2 and
  the list is refused; `sign` can only parse two signers; key packages carry no
  threshold; no file records the ciphersuite it was made with;
* `Destroy` is to make "all subsequent calls to Open" fail (`secmem.go:122`), but a
  call that has the secret open puts it back when it ends (`secmem.go:111`);
* a second signer made from a slice the first has wiped gets the key of zero
  bytes, without an error (`signer.go:96`);
* the authenticator's keys are a copy made when it was created, kept in a map
  without a lock; a proof has no session in it and stays valid; the
  identifier inside a commitment is not signed, only the one the caller names;
* `DeserializeScalar` of Ed448 ignores the last byte (`ed448.go:420`), its decoder of
  elements seven bits of theirs, that of Ed25519 takes coordinates that are too
  large, and `Header.Validate` ignores the reserved field (`header.go:131`):
  several byte strings are read as one message;
* `VerifySignature` of Ed25519 multiplies by the cofactor
  (`ed25519_sha512/ciphersuite.go:223`), the aggregator's `Verify` does not
  (`aggregator.go:375`): on points outside the subgroup they may disagree
  (`VerifiersAgree` says where);
* any error of `RoundTwo`, even a list that is too short, is recorded as
  `invalid_share` of the participant (`coordinator.go:261`; `reputation.go:22`
  says of it "a participant produced an invalid signature share");
* when the binding half of a pair is refused, the hiding half stays recorded
  although a comment says it is cleaned up: `ClearParticipant` does nothing
  (`frost_nonce_tracker.go:89`);
* `VerifySignatureShare` and `vss.VerifyShare` read `VerificationShares` as
  commitments to coefficients, `AggregateWithVerification` reads them as one key
  per participant (`participant.go:382`, `aggregator.go:187`);
* a refreshed key package keeps its peers' old public shares (`refresh.go:222`);
* after a refresh, a repaired share is still compared with the commitment from
  key generation (`repairable.go:234`), and two helpers pass whatever the
  threshold is;
* two concurrent `StoreKeyPackage` of one key may both succeed
  (`keychain_store.go:98`; `keystore.go:19` promises `ErrAlreadyExists`);
* identifiers that differ in `/`, `..` or `_` may share a storage key
  (`keychain_store.go:451`);
* a package read back from the store has no `MinSigners`
  (`keystore/types.go:158`), which switches the check of `RoundTwo` off; neither
  has one from the command line's key file (`main.go:405`) or from a repair
  (`repairable.go:242`).  An aggregator that verifies shares but is given one twice
  then passes a list that is too short, and so does the service, for packages
  that have no verification shares either (`NoSignatureBelowThreshold` excepts
  these cases);
* the comment at `round3.go:91` says the verifying share is compared with the
  aggregated commitments; it is computed and dropped, and nothing keeps a
  caller from handing a participant's own packages to it in place of a peer's;
* `GetSignature` of a session always returns an error, although its interface
  says that it aggregates the shares and returns the final signature
  (`service/frost.go:248`); the session's `isComplete` is never set;
* `Sign` of the service takes the number of verification shares for the
  threshold (`service/frost.go:118`): with one share per participant it refuses
  every quorum short of all of them;
* `RandomizeKeyPackage` adds the randomizer's element to every verification
  share, which is right for one key per participant and not for commitments to
  coefficients (`rerandomized.go:126`);
* `Next` of a nonce pool takes no lock, and after `Zeroize` still returns the
  entries, now zero (`preprocess.go:20`, `:33`);
* `Aggregate` of `signing.go` returns a "signature" even for no shares at all;
* `Reconstruct` interpolates from however many shares it gets
  (`reconstruct.go:28`).

## 6. What is not modelled

* Curve arithmetic, constant-time limbs and hash functions: the state is
  astronomically large and the questions are not of control.
* Weak Ed25519 keys: the authenticator's `Verify` is an ideal signature, which
  accepts nothing under the key of zero bytes.  The code does not check for that
  key, a point of small order (`authenticator.go:123`).
* A pool after its `Zeroize` is empty in the model; in the code its entries are
  still there, zeroed (see section 5).
* `security/validator.go`, `config.go`, `errors.go`: size limits, default
  configurations and the wording of errors; nothing in the signing code calls
  them.
* C bindings: conversions around calls of the service.  The map of services they
  fill on first use has no lock (`libfrost.go:67`).
* `signing/package.go`: a record of message and commitments that only tests use.
* Formatting and parsing, flags, file names, command-line output.
* Loss of unflushed data in a power failure: the model's crash is the death of
  the process.
* Timing and the memory protection of the operating system.
* Entries of the memory backend with a time to live: the key store never asks
  for one.

## 7. Plan

Done: coordinator and ledger, reputation, nonce tracker, sessions and pools,
signing algebra with randomized keys and batches, DKG, maintenance, key store on
both backends, command line tool, authentication with protected memory,
encodings and messages; the proofs of section 4.

Next, in this order:

1. Key packages of every source (dealer, DKG, refresh, repair, store) in one
   composition with signing, with a shape of verification shares for each package.
2. Proofs: `IdentifiersKeepTheirNumber` and `RelayKeepsValue` of `Wire`, with the
   induction of `FrostProofs` over the number of digits.
