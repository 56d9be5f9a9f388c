------------------------------- MODULE CliProofs -------------------------------
(***************************************************************************)
(* Proofs about the command line tool, for every number of processes,      *)
(* participants, messages, commands and faults: a careful participant uses *)
(* no nonces twice, and the shares of one round verify, however commands   *)
(* overlap and wherever they are killed.                                   *)
(***************************************************************************)
EXTENDS Cli, FiniteSetTheorems, SequenceTheorems, TLAPS

-----------------------------------------------------------------------------
(* What files and processes hold.                                          *)

CommitmentFile(i) == <<"commitment", i>>
NoncesFile(i) == <<"nonces", i>>
ShareFile(i) == <<"share", i>>

\* The commitments of RoundOne calls that have happened.
Born == {c \in [id : Ids, nonce : Nat] : c.nonce <= drawn[c.id]}

\* A share record, whole, of a nonce and a list that exist.
ShareOK(s) ==
  /\ s = ShareOf(s.id, s.nonce, s.key, s.msg, s.list)
  /\ CommitmentOf(s.id, s.nonce) \in Born
  /\ s.list \in Seq(Born)

\* What a file may hold, by its name.
Content(n, x) ==
  /\ n[1] \in {"commitment", "nonces"} => x \in Born /\ x.id = n[2]
  /\ n[1] = "share" => x \in issued /\ x.id = n[2]
  /\ n = Commitments => x \in Seq(Born)

Files ==
  DOMAIN files = Name /\ \A n \in Name : IsWhole(n) => Content(n, files[n].data)

Own == {"commit", "sign-share"}
Others == {"keygen", "collect-commitments", "collect-shares", "aggregate", "sign"}

Fields == {"pc", "cmd", "id", "arg", "reads", "got", "writes", "alone"}

\* How far sign-share has read its three files.
SignerInputs(f) ==
  \/ f.reads = <<Keys, NoncesFile(f.id), Commitments>> /\ f.got = <<>>
  \/ f.reads = <<NoncesFile(f.id), Commitments>> /\ f.got = <<f.got[1]>>
  \/ /\ f.reads = <<Commitments>> /\ f.got = <<f.got[1], f.got[2]>>
     /\ f.got[2] \in Born /\ f.got[2].id = f.id
  \/ /\ f.reads = <<>> /\ f.got = <<f.got[1], f.got[2], f.got[3]>>
     /\ f.got[2] \in Born /\ f.got[2].id = f.id
     /\ f.got[3] \in Seq(Born)

Inputs(f) ==
  /\ f.cmd = "sign-share" => SignerInputs(f)
  /\ f.cmd = "collect-commitments" =>
       f.reads \in Seq({"commitment"} \X Ids) /\ f.got \in Seq(Born)
  /\ f.cmd = "sign" => f.arg \in SignerPairs \X Msgs

\* The nonces a commit has drawn and will write last.
Pending(f) == f.writes[Len(f.writes)].data

OutputName(cmd) ==
  CASE cmd = "keygen" -> Keys
    [] cmd = "collect-commitments" -> Commitments
    [] cmd = "collect-shares" -> Shares
    [] OTHER -> SignatureFile

Outputs(f) ==
  /\ f.cmd = "commit" =>
       /\ Pending(f) \in Born /\ Pending(f).id = f.id
       /\ \/ f.writes = CommitFiles(Pending(f))
          \/ f.writes = <<Write(NoncesFile(f.id), Pending(f))>>
  /\ f.cmd = "sign-share" =>
       \E s \in issued : s.id = f.id /\ f.writes = <<Write(ShareFile(f.id), s)>>
  /\ f.cmd \in Others =>
       f.writes = <<Write(OutputName(f.cmd), Head(f.writes).data)>>
  /\ f.cmd = "collect-commitments" => Head(f.writes).data \in Seq(Born)

Process(f) ==
  \/ f = Idle
  \/ /\ DOMAIN f = Fields
     /\ \/ f.cmd \in Own /\ f.id \in Ids
        \/ f.cmd \in Others /\ f.id = 0
     /\ \/ f.pc = "read" /\ Inputs(f)
        \/ f.pc \in {"write", "open"} /\ Outputs(f)

Shape ==
  /\ drawn \in [Ids -> Nat]
  /\ Files
  /\ \A s \in issued : ShareOK(s)
  /\ DOMAIN procs = Procs
  /\ \A p \in Procs : Process(procs[p])
  /\ status \in [Ids -> {"none", "committed", "signed"}]
  /\ careful \in [Ids -> BOOLEAN]

-----------------------------------------------------------------------------
(* The inductive invariants, by participant.                               *)

Of(p, i) == Running(p) /\ procs[p].id = i

\* A sign-share of i that has not signed yet, and whether it has its nonces.
Signer(p, i) == Of(p, i) /\ procs[p].cmd = "sign-share" /\ procs[p].pc = "read"
HasNonces(p) == procs[p].reads \in {<<Commitments>>, <<>>}
Got(p) == procs[p].got[2]

\* A commit of i that has not written all its files yet.
Committer(p, i) ==
  Of(p, i) /\ procs[p].cmd = "commit" /\ procs[p].pc \in {"write", "open"}

SharesOf(i) == {s \in issued : s.id = i}
Used(i) == {s.nonce : s \in SharesOf(i)}

\* A command that is alone has no other of its participant beside it.
AloneApart(i) ==
  \A p, q \in Procs : p # q /\ Of(p, i) /\ Of(q, i) => ~procs[p].alone

\* Nonces whose file is still to be written are nowhere else.
PendingFresh(i) ==
  \A p \in Procs : Committer(p, i) =>
    /\ Pending(procs[p]).nonce \notin Used(i)
    /\ IsWhole(NoncesFile(i)) => files[NoncesFile(i)].data # Pending(procs[p])
    /\ \A q \in Procs :
         /\ Signer(q, i) /\ HasNonces(q) => Got(q) # Pending(procs[p])
         /\ Committer(q, i) /\ q # p => Pending(procs[q]) # Pending(procs[p])

\* After a commit that went well no command of its participant runs, and the
\* nonces are unused.
CommittedFresh(i) ==
  status[i] = "committed" =>
    /\ \A p \in Procs : ~Of(p, i)
    /\ files[NoncesFile(i)].data.nonce \notin Used(i)

\* The one sign-share of a careful participant has unused nonces, or will
\* find them in the file.
CarefulFresh(i) ==
  careful[i] =>
    /\ \A p, q \in Procs :
         Of(p, i) /\ Of(q, i) /\ procs[p].cmd = "sign-share"
           /\ procs[q].cmd = "sign-share" => p = q
    /\ \A p \in Procs : Signer(p, i) =>
         /\ HasNonces(p) => Got(p).nonce \notin Used(i)
         /\ ~HasNonces(p) /\ IsWhole(NoncesFile(i)) =>
              files[NoncesFile(i)].data.nonce \notin Used(i)
    /\ NonceUsedOnceBy(i)

\* Shares of i for a list with commitment c were made from its nonces.
Answers(i, c) ==
  \A s \in SharesOf(i) :
    (\E k \in DOMAIN s.list : s.list[k] = c) => s.nonce = c.nonce

\* Since the last commit of i went well, its two files belong together, and
\* what has read its nonces has these.
Settled(i) ==
  status[i] # "none" =>
    /\ \A p \in Procs : Of(p, i) => procs[p].cmd = "sign-share"
    /\ IsWhole(NoncesFile(i))
    /\ files[CommitmentFile(i)] = files[NoncesFile(i)]
    /\ \A p \in Procs : Signer(p, i) /\ HasNonces(p) =>
         Got(p) = files[NoncesFile(i)].data
    /\ Answers(i, files[NoncesFile(i)].data)

\* A commit that is alone is about to leave such a state.
AboutToSettle(i) ==
  \A p \in Procs : Committer(p, i) /\ procs[p].alone =>
    /\ Answers(i, Pending(procs[p]))
    /\ Len(procs[p].writes) = 1 =>
         files[CommitmentFile(i)] = Whole(Pending(procs[p]))

RoundsOf(i) ==
  /\ AloneApart(i) /\ PendingFresh(i) /\ CommittedFresh(i) /\ CarefulFresh(i)
  /\ Settled(i) /\ AboutToSettle(i)

CliInv == Shape /\ \A i \in Ids : RoundsOf(i)

-----------------------------------------------------------------------------
(* Steps that do not concern participant i.                                *)

\* A command of i that still runs is where it was, as far as nonces go.
StaysPut(q, i) ==
  Of(q, i)' =>
    /\ Of(q, i) /\ procs'[q].cmd = procs[q].cmd
    /\ procs'[q].alone => procs[q].alone
    /\ Committer(q, i)' => Committer(q, i) /\ procs'[q].writes = procs[q].writes
    /\ Signer(q, i)' =>
         /\ Signer(q, i) /\ (HasNonces(q)' <=> HasNonces(q))
         /\ HasNonces(q) => Got(q)' = Got(q)

QuietFor(i) ==
  /\ SharesOf(i)' = SharesOf(i)
  /\ files'[NoncesFile(i)] = files[NoncesFile(i)]
  /\ files'[CommitmentFile(i)] = files[CommitmentFile(i)]
  /\ status'[i] = status[i] /\ (careful'[i] => careful[i])
  /\ \A q \in Procs : StaysPut(q, i)

\* What a quiet step keeps.
LEMMA QuietKeeps ==
  ASSUME NEW i \in Ids, RoundsOf(i), QuietFor(i)
  PROVE  RoundsOf(i)'
<1> USE DEF QuietFor, StaysPut, NoncesFile, CommitmentFile, Signer, Committer
<1> HIDE DEF Of, HasNonces, Got
<1>u. Used(i)' = Used(i)
  BY DEF Used
<1>w. IsWhole(NoncesFile(i))' <=> IsWhole(NoncesFile(i))
  BY DEF IsWhole
<1>1. AloneApart(i)'
  BY DEF RoundsOf, AloneApart
<1>2. PendingFresh(i)'
  <2>1. \A p \in Procs : Committer(p, i)' =>
          Committer(p, i) /\ Pending(procs[p])' = Pending(procs[p])
    BY DEF Pending
  <2>2. \A p \in Procs : Signer(p, i)' /\ HasNonces(p)' =>
          Signer(p, i) /\ HasNonces(p) /\ Got(p)' = Got(p)
    OBVIOUS
  <2> HIDE DEF Signer, Committer, StaysPut
  <2> QED
    BY <1>u, <1>w, <2>1, <2>2 DEF RoundsOf, PendingFresh
<1>3. CommittedFresh(i)'
  BY <1>u DEF RoundsOf, CommittedFresh
<1>4. CarefulFresh(i)'
  <2>1. careful'[i] => NonceUsedOnceBy(i)'
    BY DEF RoundsOf, CarefulFresh, NonceUsedOnceBy, SharesOf
  <2> QED
    BY <1>u, <1>w, <2>1 DEF RoundsOf, CarefulFresh
<1>5. Settled(i)'
  BY <1>w DEF RoundsOf, Settled, Answers
<1>6. AboutToSettle(i)'
  BY DEF RoundsOf, AboutToSettle, Answers, Pending
<1> QED
  BY <1>1, <1>2, <1>3, <1>4, <1>5, <1>6 DEF RoundsOf

-----------------------------------------------------------------------------
(* What steps do to processes.                                             *)

OthersKeep(p) ==
  DOMAIN procs' = Procs /\ \A q \in Procs : q # p => procs'[q] = procs[q]

Ended(p) == OthersKeep(p) /\ procs'[p] = Idle

\* The program counter, the files read and the files to write change.
Moved(p, pc, reads, got, writes) ==
  /\ OthersKeep(p)
  /\ DOMAIN procs'[p] = Fields
  /\ procs'[p].cmd = procs[p].cmd /\ procs'[p].id = procs[p].id
  /\ procs'[p].arg = procs[p].arg /\ procs'[p].alone = procs[p].alone
  /\ procs'[p].pc = pc /\ procs'[p].reads = reads
  /\ procs'[p].got = got /\ procs'[p].writes = writes

\* At most the mark of being alone is gone.
Unmoved(q) ==
  \/ procs'[q] = procs[q]
  \/ /\ procs[q] # Idle /\ DOMAIN procs'[q] = Fields
     /\ procs'[q].pc = procs[q].pc /\ procs'[q].cmd = procs[q].cmd
     /\ procs'[q].id = procs[q].id /\ procs'[q].arg = procs[q].arg
     /\ procs'[q].reads = procs[q].reads /\ procs'[q].got = procs[q].got
     /\ procs'[q].writes = procs[q].writes /\ ~procs'[q].alone

Begun(p, cmd, id, arg, reads) ==
  /\ ~Running(p)
  /\ DOMAIN procs' = Procs /\ DOMAIN procs'[p] = Fields
  /\ procs'[p].pc = "read" /\ procs'[p].cmd = cmd /\ procs'[p].id = id
  /\ procs'[p].arg = arg /\ procs'[p].reads = reads /\ procs'[p].got = <<>>
  /\ \A q \in Procs : q # p => Unmoved(q)
  /\ id # 0 => \A q \in Procs : q # p /\ Of(q, id) =>
                 ~procs'[q].alone /\ ~procs'[p].alone

\* A process that runs has all the fields.
LEMMA RunningFields ==
  ASSUME Shape, NEW p \in Procs, Running(p)
  PROVE  /\ DOMAIN procs[p] = Fields /\ procs[p] # Idle
         /\ \/ procs[p].cmd \in Own /\ procs[p].id \in Ids
            \/ procs[p].cmd \in Others /\ procs[p].id = 0
         /\ \/ procs[p].pc = "read" /\ Inputs(procs[p])
            \/ procs[p].pc \in {"write", "open"} /\ Outputs(procs[p])
<1>1. Process(procs[p])
  BY DEF Shape
<1>2. procs[p] # Idle
  BY DEF Running, Idle
<1> QED
  BY <1>1, <1>2 DEF Process

LEMMA ExitEnds ==
  ASSUME Shape, NEW p \in Procs, Exit(p)
  PROVE  Ended(p)
BY DEF Shape, Exit, Ended, OthersKeep

LEMMA EmitMoves ==
  ASSUME Shape, NEW p \in Procs, Running(p), NEW w, Emit(p, w)
  PROVE  Moved(p, "write", procs[p].reads, procs[p].got, w)
<1>1. DOMAIN procs[p] = Fields /\ DOMAIN procs = Procs
  BY RunningFields DEF Shape
<1>2. procs' = [procs EXCEPT ![p] = [procs[p] EXCEPT !.pc = "write", !.writes = w]]
  BY <1>1 DEF Emit, Fields
<1> QED
  BY <1>1, <1>2 DEF Moved, OthersKeep, Fields

LEMMA BeginEffect ==
  ASSUME Shape, NEW p \in Procs, NEW cmd, NEW id, NEW arg, NEW reads,
         Begin(p, Start(cmd, id, arg, reads))
  PROVE  Begun(p, cmd, id, arg, reads)
<1> DEFINE f == Start(cmd, id, arg, reads)
<1> DEFINE same == {q \in Procs : Running(q) /\ f.id # 0 /\ procs[q].id = f.id}
<1>1. /\ ~Running(p) /\ DOMAIN procs' = Procs
      /\ procs'[p] = [f EXCEPT !.alone = (same = {})]
      /\ \A q \in Procs : q # p =>
           procs'[q] = IF q \in same THEN [procs[q] EXCEPT !.alone = FALSE]
                                     ELSE procs[q]
  BY DEF Begin
<1>2. /\ DOMAIN f = Fields /\ f.pc = "read" /\ f.cmd = cmd /\ f.id = id
      /\ f.arg = arg /\ f.reads = reads /\ f.got = <<>>
  BY DEF Start, Fields
<1>3. ASSUME NEW q \in Procs, q # p
      PROVE  Unmoved(q) /\ (q \in same => ~procs'[q].alone)
  <2>1. CASE q \in same
    <3>1. DOMAIN procs[q] = Fields /\ procs[q] # Idle
      BY <2>1, RunningFields
    <3>2. procs'[q] = [procs[q] EXCEPT !.alone = FALSE]
      BY <1>1, <1>3, <2>1
    <3> QED
      BY <3>1, <3>2, <1>3 DEF Unmoved, Fields
  <2>2. CASE q \notin same
    BY <1>1, <1>3, <2>2 DEF Unmoved
  <2> QED
    BY <2>1, <2>2
<1>4. same # {} => ~procs'[p].alone
  <2> HIDE DEF f, same
  <2> QED
    BY <1>1, <1>2 DEF Fields
<1>5. /\ DOMAIN procs'[p] = Fields
      /\ procs'[p].pc = "read" /\ procs'[p].cmd = cmd /\ procs'[p].id = id
      /\ procs'[p].arg = arg /\ procs'[p].reads = reads /\ procs'[p].got = <<>>
  <2> HIDE DEF f, same
  <2> QED
    BY <1>1, <1>2 DEF Fields
<1>6. ASSUME id # 0, NEW q \in Procs, q # p, Of(q, id)
      PROVE  ~procs'[q].alone /\ ~procs'[p].alone
  <2>1. q \in same
    BY <1>6, <1>2 DEF Of
  <2> QED
    BY <2>1, <1>3, <1>4, <1>6
<1> QED
  BY <1>1, <1>3, <1>5, <1>6 DEF Begun

-----------------------------------------------------------------------------
(* What files and processes hold stays true while nonces are drawn and     *)
(* shares are made.                                                        *)

Grows == Born \subseteq Born' /\ issued \subseteq issued'

LEMMA StillGrows ==
  ASSUME UNCHANGED <<drawn, issued>>
  PROVE  Grows
BY DEF Grows, Born

LEMMA ListsGrow ==
  ASSUME Grows
  PROVE  Seq(Born) \subseteq Seq(Born')
BY SeqMonotonic DEF Grows

LEMMA ContentGrows ==
  ASSUME Grows, NEW n, NEW x, Content(n, x)
  PROVE  Content(n, x)'
BY ListsGrow DEF Content, Grows, Commitments

LEMMA OutputsGrow ==
  ASSUME Grows, NEW q \in Procs, Outputs(procs[q]), procs'[q].cmd = procs[q].cmd,
         procs'[q].id = procs[q].id, procs'[q].writes = procs[q].writes
  PROVE  Outputs(procs[q])'
<1> DEFINE f == procs[q]
<1> DEFINE g == procs'[q]
<1>1. Pending(g) = Pending(f)
  BY DEF Pending
<1>2. g.cmd = "commit" =>
        /\ Pending(g) \in Born' /\ Pending(g).id = g.id
        /\ \/ g.writes = CommitFiles(Pending(g))
           \/ g.writes = <<Write(NoncesFile(g.id), Pending(g))>>
  BY <1>1 DEF Outputs, Grows
<1>3. g.cmd = "sign-share" =>
        \E s \in issued' : s.id = g.id /\ g.writes = <<Write(ShareFile(g.id), s)>>
  BY DEF Outputs, Grows
<1>4. g.cmd \in Others =>
        g.writes = <<Write(OutputName(g.cmd), Head(g.writes).data)>>
  BY DEF Outputs
<1>5. g.cmd = "collect-commitments" => Head(g.writes).data \in Seq(Born')
  BY ListsGrow DEF Outputs
<1> QED
  BY <1>2, <1>3, <1>4, <1>5
  DEF Outputs, Pending, NoncesFile, CommitFiles, Write, ShareFile, OutputName,
      Keys, Commitments, Shares, SignatureFile

LEMMA UnmovedProcess ==
  ASSUME Grows, NEW q \in Procs, Process(procs[q]), Unmoved(q)
  PROVE  Process(procs[q])'
<1> DEFINE f == procs[q]
<1> DEFINE g == procs'[q]
<1>1. CASE f = Idle
  BY <1>1 DEF Unmoved, Process, Idle
<1>2. CASE f # Idle
  <2>1. /\ DOMAIN g = Fields
        /\ g.pc = f.pc /\ g.cmd = f.cmd /\ g.id = f.id /\ g.arg = f.arg
        /\ g.reads = f.reads /\ g.got = f.got /\ g.writes = f.writes
    BY <1>2 DEF Unmoved, Process
  <2>2. Inputs(f) => Inputs(procs[q])'
    BY <2>1, ListsGrow DEF Inputs, SignerInputs, Grows, NoncesFile, Commitments, Keys
  <2>3. Outputs(f) => Outputs(procs[q])'
    BY <2>1, OutputsGrow
  <2> QED
    BY <1>2, <2>1, <2>2, <2>3 DEF Process
<1> QED
  BY <1>1, <1>2

LEMMA FilesKept ==
  ASSUME Files, Grows, files' = files
  PROVE  Files'
<1>1. ASSUME NEW n \in Name, IsWhole(n)'
      PROVE  Content(n, files[n].data)'
  BY <1>1, ContentGrows DEF Files, IsWhole
<1> QED
  BY <1>1 DEF Files, Name, Keys, Commitments, Shares, SignatureFile

LEMMA FilesWritten ==
  ASSUME Files, Grows, NEW n \in Name, NEW x, files' = [files EXCEPT ![n] = x],
         x.state = "whole" => Content(n, x.data)'
  PROVE  Files'
<1>1. ASSUME NEW m \in Name, IsWhole(m)'
      PROVE  Content(m, files[m].data)'
  <2>1. CASE m = n
    <3>1. files'[m] = x
      BY <2>1 DEF Files
    <3> QED
      BY <1>1, <2>1, <3>1 DEF IsWhole, Content, Commitments
  <2>2. CASE m # n
    <3>1. files'[m] = files[m]
      BY <2>2 DEF Files
    <3> QED
      BY <1>1, <3>1, ContentGrows DEF Files, IsWhole
  <2> QED
    BY <2>1, <2>2
<1>2. DOMAIN files' = Name
  BY DEF Files
<1> QED
  BY <1>1, <1>2 DEF Files, Name, Keys, Commitments, Shares, SignatureFile

\* Of all processes only the one that moves has to be looked at.
LEMMA StepShape ==
  ASSUME Shape, Grows, NEW p \in Procs, drawn' \in [Ids -> Nat], Files',
         \A s \in issued' : s \in issued \/ ShareOK(s)',
         DOMAIN procs' = Procs, Process(procs[p])',
         \A q \in Procs : q # p => Unmoved(q),
         status' \in [Ids -> {"none", "committed", "signed"}],
         careful' \in [Ids -> BOOLEAN]
  PROVE  Shape'
<1>1. ASSUME NEW q \in Procs
      PROVE  Process(procs[q])'
  <2>1. CASE q = p
    BY <2>1
  <2>2. CASE q # p
    BY <2>2, UnmovedProcess DEF Shape
  <2> QED
    BY <2>1, <2>2
<1>2. ASSUME NEW s \in issued'
      PROVE  ShareOK(s)'
  <2>1. CASE s \in issued
    <3>1. ShareOK(s)
      BY <2>1 DEF Shape
    <3> QED
      BY <3>1, ListsGrow DEF ShareOK, Grows, ShareOf, CommitmentOf
  <2> QED
    BY <2>1
<1> QED
  BY <1>1, <1>2 DEF Shape

LEMMA OthersUnmoved ==
  ASSUME NEW p \in Procs, OthersKeep(p)
  PROVE  DOMAIN procs' = Procs /\ \A q \in Procs : q # p => Unmoved(q)
BY DEF OthersKeep, Unmoved

\* A command ends.
LEMMA EndedShape ==
  ASSUME Shape, Grows, NEW p \in Procs, Ended(p), drawn' \in [Ids -> Nat], Files',
         \A s \in issued' : s \in issued \/ ShareOK(s)',
         status' \in [Ids -> {"none", "committed", "signed"}], careful' = careful
  PROVE  Shape'
<1>1. Process(procs[p])'
  BY DEF Ended, Process, Idle
<1>2. careful' \in [Ids -> BOOLEAN]
  BY DEF Shape
<1> QED
  BY <1>1, <1>2, OthersUnmoved, StepShape DEF Ended

\* A command goes on, with the same name, participant and argument.
LEMMA MovedShape ==
  ASSUME Shape, Grows, NEW p \in Procs, Running(p), drawn' \in [Ids -> Nat], Files',
         \A s \in issued' : s \in issued \/ ShareOK(s)',
         status' = status, careful' = careful,
         NEW pc, NEW reads, NEW got, NEW writes, Moved(p, pc, reads, got, writes),
         \/ pc = "read" /\ Inputs(procs[p])'
         \/ pc \in {"write", "open"} /\ Outputs(procs[p])'
  PROVE  Shape'
<1>1. Process(procs[p])'
  <2>1. \/ procs[p].cmd \in Own /\ procs[p].id \in Ids
        \/ procs[p].cmd \in Others /\ procs[p].id = 0
    BY RunningFields
  <2> QED
    BY <2>1 DEF Process, Moved, Own, Others, Fields
<1>2. status' \in [Ids -> {"none", "committed", "signed"}] /\ careful' \in [Ids -> BOOLEAN]
  BY DEF Shape
<1> QED
  BY <1>1, <1>2, OthersUnmoved, StepShape DEF Moved

-----------------------------------------------------------------------------
(* Steps that concern no participant's nonces.                             *)

LEMMA TupleFacts ==
  ASSUME NEW a, NEW b, NEW c
  PROVE  /\ Append(<<>>, a) = <<a>> /\ Append(<<a>>, b) = <<a, b>>
         /\ Head(<<a>>) = a /\ Head(<<a, b>>) = a /\ Head(<<a, b, c>>) = a
         /\ Tail(<<a>>) = <<>> /\ Tail(<<a, b>>) = <<b>>
         /\ Tail(<<a, b, c>>) = <<b, c>>
         /\ Len(<<a>>) = 1 /\ Len(<<a, b>>) = 2
<1>1. Append(<<>>, a) = <<a>>
  OBVIOUS
<1>0. <<a>> \in Seq({a, b, c}) /\ <<a, b>> \in Seq({a, b, c})
  OBVIOUS
<1>2. Append(<<a>>, b) = <<a, b>>
  <2> DEFINE s == Append(<<a>>, b)
  <2>1. s \in Seq({a, b, c}) /\ Len(s) = 2 /\ s[1] = a /\ s[2] = b
    BY <1>0
  <2>2. Len(s) = Len(<<a, b>>) /\ \A k \in 1..Len(s) : s[k] = <<a, b>>[k]
    BY <2>1
  <2> HIDE DEF s
  <2>3. s = <<a, b>>
    BY <2>1, <2>2, <1>0, SeqEqual, Zenon
  <2> QED
    BY <2>3 DEF s
<1>4. Head(<<a>>) = a /\ Head(<<a, b>>) = a /\ Head(<<a, b, c>>) = a
  OBVIOUS
<1>5. Tail(<<a>>) = <<>>
  OBVIOUS
<1>6. Tail(<<a, b>>) = <<b>>
  OBVIOUS
<1>7. Tail(<<a, b, c>>) = <<b, c>>
  OBVIOUS
<1> QED
  BY <1>1, <1>2, <1>4, <1>5, <1>6, <1>7

LEMMA AppendThird == \A a, b, c : Append(<<a, b>>, c) = <<a, b, c>>
<1> TAKE a, b, c
<1> DEFINE s == Append(<<a, b>>, c)
<1>1. <<a, b>> \in Seq({a, b, c}) /\ <<a, b, c>> \in Seq({a, b, c})
  OBVIOUS
<1>2. s \in Seq({a, b, c}) /\ Len(s) = 3 /\ s[1] = a /\ s[2] = b /\ s[3] = c
  BY <1>1
<1>3. Len(s) = Len(<<a, b, c>>) /\ \A k \in 1..Len(s) : s[k] = <<a, b, c>>[k]
  BY <1>2
<1> HIDE DEF s
<1>4. s = <<a, b, c>>
  BY <1>1, <1>2, <1>3, SeqEqual, Zenon
<1> QED
  BY <1>4 DEF s

LEMMA UnmovedStaysPut ==
  ASSUME NEW q \in Procs, NEW i \in Ids, Unmoved(q)
  PROVE  StaysPut(q, i)
BY DEF Unmoved, StaysPut, Of, Running, Committer, Signer, HasNonces, Got, Commitments

LEMMA CoordinatorsStayPut ==
  ASSUME NEW p \in Procs, NEW i \in Ids, procs'[p].id = 0
  PROVE  StaysPut(p, i)
BY CliAssumptions DEF StaysPut, Of

LEMMA QuietStep ==
  ASSUME NEW p \in Procs, NEW i \in Ids, RoundsOf(i),
         \A q \in Procs : q # p => Unmoved(q), StaysPut(p, i),
         SharesOf(i)' = SharesOf(i),
         files'[NoncesFile(i)] = files[NoncesFile(i)],
         files'[CommitmentFile(i)] = files[CommitmentFile(i)],
         status'[i] = status[i], careful'[i] => careful[i]
  PROVE  RoundsOf(i)'
<1>1. \A q \in Procs : StaysPut(q, i)
  BY UnmovedStaysPut
<1> QED
  BY <1>1, QuietKeeps DEF QuietFor

Calm == UNCHANGED <<files, drawn, issued, status, careful>>

LEMMA CalmFacts ==
  ASSUME Shape, Calm
  PROVE  /\ Grows /\ drawn' \in [Ids -> Nat] /\ Files'
         /\ \A s \in issued' : s \in issued
         /\ status' \in [Ids -> {"none", "committed", "signed"}]
         /\ \A i \in Ids : SharesOf(i)' = SharesOf(i)
BY StillGrows, FilesKept DEF Calm, Shape, SharesOf

\* A command ends and leaves the files alone.
LEMMA ExitInv ==
  ASSUME CliInv, NEW p \in Procs, Exit(p), Calm
  PROVE  CliInv'
<1>1. Ended(p)
  BY ExitEnds DEF CliInv
<1>2. Shape'
  BY <1>1, CalmFacts, EndedShape DEF CliInv, Calm
<1>3. ASSUME NEW i \in Ids
      PROVE  RoundsOf(i)'
  <2>1. StaysPut(p, i)
    BY <1>1, CoordinatorsStayPut DEF Ended, Idle
  <2> QED
    BY <1>1, <2>1, OthersUnmoved, CalmFacts, QuietStep DEF CliInv, Calm, Ended
<1> QED
  BY <1>2, <1>3 DEF CliInv

\* A command of the coordinator knows its output.
LEMMA EmitInv ==
  ASSUME CliInv, NEW p \in Procs, Running(p), procs[p].cmd \in Others, Calm, NEW x,
         Emit(p, <<Write(OutputName(procs[p].cmd), x)>>),
         procs[p].cmd = "collect-commitments" => x \in Seq(Born)
  PROVE  CliInv'
<1> DEFINE w == <<Write(OutputName(procs[p].cmd), x)>>
<1>1. Moved(p, "write", procs[p].reads, procs[p].got, w)
  BY EmitMoves DEF CliInv
<1>2. procs[p].id = 0
  BY RunningFields DEF CliInv, Own, Others
<1>3. Head(w).data = x
  BY DEF Write
<1>4. Outputs(procs[p])'
  <2>1. Seq(Born)' = Seq(Born)
    BY DEF Calm, Born
  <2>2. procs'[p].writes = w /\ procs'[p].cmd = procs[p].cmd
    BY <1>1 DEF Moved
  <2> QED
    BY <1>3, <2>1, <2>2
    DEF Outputs, Others, OutputName, Write, Keys, Commitments, Shares, SignatureFile
<1>5. Shape'
  BY <1>1, <1>4, CalmFacts, MovedShape DEF CliInv, Calm
<1>6. ASSUME NEW i \in Ids
      PROVE  RoundsOf(i)'
  <2>1. StaysPut(p, i)
    BY <1>1, <1>2, CoordinatorsStayPut DEF Moved
  <2> QED
    BY <1>1, <2>1, OthersUnmoved, CalmFacts, QuietStep DEF CliInv, Calm, Moved
<1> QED
  BY <1>5, <1>6 DEF CliInv

-----------------------------------------------------------------------------
(* Reading.                                                                *)

LEMMA ReadMoves ==
  ASSUME Shape, NEW p \in Procs, Running(p), NEW x,
         procs' = [procs EXCEPT ![p].reads = Tail(@), ![p].got = Append(@, x)]
  PROVE  Moved(p, procs[p].pc, Tail(procs[p].reads), Append(procs[p].got, x),
               procs[p].writes)
<1>1. DOMAIN procs[p] = Fields /\ DOMAIN procs = Procs
  BY RunningFields DEF Shape
<1>2. procs' = [procs EXCEPT ![p] =
                  [procs[p] EXCEPT !.reads = Tail(procs[p].reads),
                                   !.got = Append(procs[p].got, x)]]
  BY <1>1 DEF Fields
<1> QED
  BY <1>1, <1>2 DEF Moved, OthersKeep, Fields

\* What sign-share has read of its three files, after the next one.
LEMMA SignerReads ==
  ASSUME Shape, NEW f, SignerInputs(f), f.id \in Ids, f.reads # <<>>,
         IsWhole(Head(f.reads))
  PROVE  LET n == Head(f.reads)
             x == files[n].data
             reads == Tail(f.reads)
             got == Append(f.got, x)
         IN  \/ n = Keys /\ reads = <<NoncesFile(f.id), Commitments>> /\ got = <<x>>
             \/ /\ n = NoncesFile(f.id) /\ reads = <<Commitments>>
                /\ f.reads = <<NoncesFile(f.id), Commitments>>
                /\ got = <<got[1], x>> /\ x \in Born /\ x.id = f.id
             \/ /\ n = Commitments /\ reads = <<>> /\ f.reads = <<Commitments>>
                /\ got = <<f.got[1], f.got[2], x>>
                /\ f.got[2] \in Born /\ f.got[2].id = f.id
                /\ x \in Seq(Born)
<1> DEFINE n == Head(f.reads)
<1> DEFINE x == files[n].data
<1>1. CASE f.reads = <<Keys, NoncesFile(f.id), Commitments>> /\ f.got = <<>>
  BY <1>1, TupleFacts
<1>2. CASE f.reads = <<NoncesFile(f.id), Commitments>> /\ f.got = <<f.got[1]>>
  <2>1. n = NoncesFile(f.id) /\ Tail(f.reads) = <<Commitments>>
    BY <1>2, TupleFacts
  <2>2. Append(f.got, x) = <<f.got[1], x>>
    <3> DEFINE a == f.got[1]
    <3>1. f.got = <<a>>
      BY <1>2
    <3> HIDE DEF a, x
    <3>2. Append(<<a>>, x) = <<a, x>>
      BY TupleFacts
    <3> QED
      BY <3>1, <3>2, Zenon DEF a
  <2>3. NoncesFile(f.id) \in Name
    BY DEF Name, NoncesFile
  <2>4. Content(NoncesFile(f.id), x)
    BY <2>1, <2>3 DEF Shape, Files
  <2>5. x \in Born /\ x.id = f.id
    BY <2>4 DEF Content, NoncesFile
  <2>6. <<f.got[1], x>> = <<<<f.got[1], x>>[1], x>>
    OBVIOUS
  <2> QED
    BY <1>2, <2>1, <2>2, <2>5, <2>6
<1>3. CASE /\ f.reads = <<Commitments>> /\ f.got = <<f.got[1], f.got[2]>>
           /\ f.got[2] \in Born /\ f.got[2].id = f.id
  <2>1. n = Commitments /\ Tail(f.reads) = <<>>
    BY <1>3, TupleFacts
  <2>2. Append(f.got, x) = <<f.got[1], f.got[2], x>>
    <3> DEFINE a == f.got[1]
    <3> DEFINE b == f.got[2]
    <3>1. f.got = <<a, b>>
      BY <1>3
    <3> HIDE DEF a, b, x
    <3>2. Append(<<a, b>>, x) = <<a, b, x>>
      BY AppendThird, Zenon
    <3> QED
      BY <3>1, <3>2, Zenon DEF a, b
  <2>3. Commitments \in Name
    BY DEF Name
  <2>4. Content(Commitments, x)
    BY <2>1, <2>3 DEF Shape, Files
  <2>5. x \in Seq(Born)
    BY <2>4 DEF Content
  <2> QED
    BY <1>3, <2>1, <2>2, <2>5
<1> QED
  BY <1>1, <1>2, <1>3 DEF SignerInputs

LEMMA ReadInputs ==
  ASSUME Shape, NEW p \in Procs, Running(p), procs[p].pc = "read",
         procs[p].reads # <<>>, IsWhole(Head(procs[p].reads)), Calm,
         Moved(p, "read", Tail(procs[p].reads),
               Append(procs[p].got, files[Head(procs[p].reads)].data), procs[p].writes)
  PROVE  Inputs(procs[p])'
<1> DEFINE f == procs[p]
<1> DEFINE g == procs'[p]
<1> DEFINE n == Head(f.reads)
<1> DEFINE x == files[n].data
<1>1. Inputs(f) /\ (f.cmd = "sign-share" => f.id \in Ids)
  BY RunningFields DEF Others
<1>2. /\ g.cmd = f.cmd /\ g.id = f.id /\ g.arg = f.arg
      /\ g.reads = Tail(f.reads) /\ g.got = Append(f.got, x)
  BY DEF Moved
<1>3. Born' = Born
  BY DEF Calm, Born
<1>4. g.cmd = "sign-share" => SignerInputs(procs[p])'
  <2> SUFFICES ASSUME g.cmd = "sign-share"
               PROVE  SignerInputs(procs[p])'
    OBVIOUS
  <2>1. SignerInputs(f)
    BY <1>1, <1>2 DEF Inputs
  <2>2. \/ g.reads = <<NoncesFile(f.id), Commitments>> /\ g.got = <<x>>
        \/ /\ g.reads = <<Commitments>>
           /\ g.got = <<g.got[1], x>> /\ x \in Born /\ x.id = f.id
        \/ /\ g.reads = <<>> /\ g.got = <<f.got[1], f.got[2], x>>
           /\ f.got[2] \in Born /\ f.got[2].id = f.id /\ x \in Seq(Born)
    BY <2>1, <1>1, <1>2, SignerReads
  <2>3. \/ g.reads = <<NoncesFile(g.id), Commitments>> /\ g.got = <<g.got[1]>>
        \/ /\ g.reads = <<Commitments>> /\ g.got = <<g.got[1], g.got[2]>>
           /\ g.got[2] \in Born' /\ g.got[2].id = g.id
        \/ /\ g.reads = <<>> /\ g.got = <<g.got[1], g.got[2], g.got[3]>>
           /\ g.got[2] \in Born' /\ g.got[2].id = g.id
           /\ g.got[3] \in Seq(Born')
    <3> HIDE DEF f, g, x
    <3>1. CASE g.reads = <<NoncesFile(f.id), Commitments>> /\ g.got = <<x>>
      BY <3>1, <1>2
    <3>2. CASE /\ g.reads = <<Commitments>>
               /\ g.got = <<g.got[1], x>> /\ x \in Born /\ x.id = f.id
      BY <3>2, <1>2, <1>3
    <3>3. CASE /\ g.reads = <<>> /\ g.got = <<f.got[1], f.got[2], x>>
               /\ f.got[2] \in Born /\ f.got[2].id = f.id /\ x \in Seq(Born)
      BY <3>3, <1>2, <1>3
    <3> QED
      BY <2>2, <3>1, <3>2, <3>3
  <2> QED
    BY <2>3 DEF SignerInputs, NoncesFile, Commitments
<1>5. g.cmd = "collect-commitments" =>
        g.reads \in Seq({"commitment"} \X Ids) /\ g.got \in Seq(Born')
  <2> SUFFICES ASSUME g.cmd = "collect-commitments"
               PROVE  g.reads \in Seq({"commitment"} \X Ids) /\ g.got \in Seq(Born')
    OBVIOUS
  <2>1. f.reads \in Seq({"commitment"} \X Ids) /\ f.got \in Seq(Born)
    BY <1>1, <1>2 DEF Inputs
  <2>2. n \in {"commitment"} \X Ids /\ Tail(f.reads) \in Seq({"commitment"} \X Ids)
    BY <2>1
  <2>3. n \in Name
    BY <2>2 DEF Name
  <2>4. Content(n, x)
    BY <2>3 DEF Shape, Files
  <2>5. x \in Born
    BY <2>2, <2>4 DEF Content
  <2> QED
    BY <2>1, <2>2, <2>5, <1>2, <1>3
<1>6. g.cmd = "sign" => g.arg \in SignerPairs \X Msgs
  BY <1>1, <1>2 DEF Inputs
<1> QED
  BY <1>4, <1>5, <1>6 DEF Inputs

\* sign-share reads its nonces.
LEMMA NoncesRead ==
  ASSUME NEW i \in Ids, RoundsOf(i), NEW p \in Procs, Calm, OthersKeep(p),
         Signer(p, i), ~HasNonces(p), IsWhole(NoncesFile(i)),
         procs'[p].pc = procs[p].pc, procs'[p].cmd = procs[p].cmd,
         procs'[p].id = procs[p].id, procs'[p].alone = procs[p].alone,
         Got(p)' = files[NoncesFile(i)].data
  PROVE  RoundsOf(i)'
<1>1. \A q \in Procs : /\ Of(q, i)' <=> Of(q, i)
                       /\ procs'[q].cmd = procs[q].cmd
                       /\ procs'[q].pc = procs[q].pc
                       /\ procs'[q].alone => procs[q].alone
  BY DEF OthersKeep, Of, Running
<1>2. \A q \in Procs : /\ Signer(q, i)' <=> Signer(q, i)
                       /\ Committer(q, i)' <=> Committer(q, i)
  BY <1>1 DEF Signer, Committer
<1>3. \A q \in Procs : q # p =>
        /\ procs'[q] = procs[q]
        /\ HasNonces(q)' <=> HasNonces(q)
        /\ Got(q)' = Got(q)
  BY DEF OthersKeep, HasNonces, Got, Commitments
<1>4. ~Committer(p, i)
  BY DEF Committer, Signer
<1>5. \A c \in Procs : Committer(c, i) => Pending(procs[c])' = Pending(procs[c])
  BY <1>3, <1>4 DEF Pending
<1>6. /\ Used(i)' = Used(i) /\ (IsWhole(NoncesFile(i)))'
      /\ files'[NoncesFile(i)] = files[NoncesFile(i)]
      /\ files'[CommitmentFile(i)] = files[CommitmentFile(i)]
      /\ SharesOf(i)' = SharesOf(i)
      /\ status' = status /\ careful' = careful
  BY DEF Calm, Used, SharesOf, IsWhole, NoncesFile
<1> USE DEF NoncesFile, CommitmentFile
<1>a. AloneApart(i)'
  BY <1>1 DEF RoundsOf, AloneApart
<1>b. PendingFresh(i)'
  BY <1>2, <1>3, <1>5, <1>6 DEF RoundsOf, PendingFresh
<1>c. CommittedFresh(i)'
  BY <1>1, <1>6 DEF RoundsOf, CommittedFresh
<1>d. CarefulFresh(i)'
  <2>1. careful'[i] => NonceUsedOnceBy(i)'
    BY <1>6 DEF RoundsOf, CarefulFresh, NonceUsedOnceBy, SharesOf
  <2>2. careful'[i] => \A c, q \in Procs :
          Of(c, i)' /\ Of(q, i)' /\ procs'[c].cmd = "sign-share"
            /\ procs'[q].cmd = "sign-share" => c = q
    BY <1>1, <1>6 DEF RoundsOf, CarefulFresh
  <2>3. careful'[i] => \A q \in Procs : Signer(q, i)' =>
          /\ HasNonces(q)' => Got(q)'.nonce \notin Used(i)'
          /\ ~HasNonces(q)' => files'[NoncesFile(i)].data.nonce \notin Used(i)'
    BY <1>2, <1>3, <1>6 DEF RoundsOf, CarefulFresh
  <2> QED
    BY <2>1, <2>2, <2>3 DEF CarefulFresh
<1>e. Settled(i)'
  <2>1. Answers(i, files[NoncesFile(i)].data) => Answers(i, files[NoncesFile(i)].data)'
    BY <1>6 DEF Answers
  <2> QED
    BY <1>1, <1>2, <1>3, <1>6, <2>1 DEF RoundsOf, Settled
<1>f. AboutToSettle(i)'
  <2>1. \A q \in Procs : Committer(q, i) => procs'[q] = procs[q]
    BY <1>3, <1>4
  <2> QED
    BY <1>2, <1>6, <2>1 DEF RoundsOf, AboutToSettle, Answers, Pending, Whole
<1> QED
  BY <1>a, <1>b, <1>c, <1>d, <1>e, <1>f DEF RoundsOf

LEMMA ReadInv ==
  ASSUME CliInv, NEW p \in Procs, Read(p)
  PROVE  CliInv'
<1> DEFINE f == procs[p]
<1> DEFINE n == Head(f.reads)
<1> DEFINE x == files[n].data
<1>1. Calm /\ Running(p) /\ f.pc = "read" /\ f.reads # <<>>
  BY DEF Read, Calm, history
<1>2. CASE ~IsWhole(n) /\ Exit(p)
  BY <1>1, <1>2, ExitInv
<1>3. CASE /\ IsWhole(n)
           /\ procs' = [procs EXCEPT ![p].reads = Tail(@), ![p].got = Append(@, x)]
  <2>1. Moved(p, "read", Tail(f.reads), Append(f.got, x), f.writes)
    BY <1>1, <1>3, ReadMoves DEF CliInv
  <2>2. Inputs(procs[p])'
    BY <1>1, <1>3, <2>1, ReadInputs DEF CliInv
  <2>3. Shape'
    BY <1>1, <2>1, <2>2, CalmFacts, MovedShape DEF CliInv, Calm
  <2>4. ASSUME NEW i \in Ids
        PROVE  RoundsOf(i)'
    <3>1. RoundsOf(i)
      BY DEF CliInv
    <3>2. CASE Signer(p, i) /\ f.reads = <<NoncesFile(i), Commitments>>
      <4>1. SignerInputs(f) /\ f.id = i
        BY <3>2, <1>1, RunningFields DEF CliInv, Inputs, Signer, Of
      <4>2. ~HasNonces(p)
        BY <3>2, TupleFacts DEF HasNonces
      <4>3. n = NoncesFile(i) /\ Got(p)' = x
        <5>1. n = NoncesFile(i)
          BY <3>2, TupleFacts
        <5>2. procs'[p].got = <<procs'[p].got[1], x>>
          <6> DEFINE got == Append(f.got, x)
          <6>1. n = Keys \/ n = Commitments \/ got = <<got[1], x>>
            BY <4>1, <1>1, <1>3, SignerReads DEF CliInv
          <6>2. n # Keys /\ n # Commitments
            BY <5>1 DEF Keys, NoncesFile, Commitments
          <6>3. procs'[p].got = got
            BY <2>1 DEF Moved
          <6> HIDE DEF got
          <6> QED
            BY <6>1, <6>2, <6>3
        <5> QED
          BY <5>1, <5>2 DEF Got
      <4> QED
        BY <3>1, <3>2, <4>2, <4>3, <1>1, <1>3, <2>1, NoncesRead DEF Moved
    <3>3. CASE ~(Signer(p, i) /\ f.reads = <<NoncesFile(i), Commitments>>)
      <4>1. StaysPut(p, i)
        <5>1. /\ procs'[p].pc = f.pc /\ procs'[p].cmd = f.cmd
              /\ procs'[p].id = f.id /\ procs'[p].alone = f.alone
              /\ procs'[p].writes = f.writes
          BY <1>1, <2>1 DEF Moved
        <5>2. Signer(p, i) =>
                (HasNonces(p)' <=> HasNonces(p)) /\ (HasNonces(p) => Got(p)' = Got(p))
          <6> SUFFICES ASSUME Signer(p, i)
                       PROVE  (HasNonces(p)' <=> HasNonces(p))
                                /\ (HasNonces(p) => Got(p)' = Got(p))
            OBVIOUS
          <6>1. SignerInputs(f) /\ f.id = i
            BY <1>1, RunningFields DEF CliInv, Inputs, Signer, Of
          <6>2. \/ /\ n = Keys
                   /\ procs'[p].reads = <<NoncesFile(i), Commitments>>
                \/ /\ n = Commitments /\ procs'[p].reads = <<>>
                   /\ f.reads = <<Commitments>>
                   /\ procs'[p].got = <<f.got[1], f.got[2], x>>
            BY <6>1, <1>1, <1>3, <2>1, <3>3, SignerReads DEF CliInv, Moved
          <6>3. CASE n = Keys /\ procs'[p].reads = <<NoncesFile(i), Commitments>>
            <7>1. f.reads # <<Commitments>>
              BY <6>3, TupleFacts DEF Keys, Commitments
            <7>2. ~HasNonces(p)
              BY <7>1, <1>1 DEF HasNonces
            <7>3. ~HasNonces(p)'
              BY <6>3 DEF HasNonces, Commitments
            <7> QED
              BY <7>2, <7>3
          <6>4. CASE /\ n = Commitments /\ procs'[p].reads = <<>>
                     /\ f.reads = <<Commitments>>
                     /\ procs'[p].got = <<f.got[1], f.got[2], x>>
            BY <6>4 DEF HasNonces, Got, Commitments
          <6> QED
            BY <6>2, <6>3, <6>4
        <5> QED
          BY <5>1, <5>2 DEF StaysPut, Of, Running, Committer, Signer
      <4> QED
        BY <1>1, <2>1, <3>1, <4>1, OthersUnmoved, CalmFacts, QuietStep
        DEF CliInv, Calm, Moved
    <3> QED
      BY <3>2, <3>3
  <2> QED
    BY <2>3, <2>4 DEF CliInv
<1> QED
  BY <1>2, <1>3 DEF Read

-----------------------------------------------------------------------------
(* Computing.                                                              *)

LEMMA KeygenInv ==
  ASSUME CliInv, NEW p \in Procs, Keygen(p)
  PROVE  CliInv'
<1>1. Calm /\ Running(p) /\ procs[p].cmd = "keygen"
  BY DEF Keygen, Ready, Calm, history
<1>2. CASE Exit(p)
  BY <1>1, <1>2, ExitInv
<1>3. ASSUME NEW x, Emit(p, <<Write(Keys, x)>>)
      PROVE  CliInv'
  <2>1. OutputName(procs[p].cmd) = Keys /\ procs[p].cmd \in Others
    BY <1>1 DEF OutputName, Others
  <2> QED
    BY <1>1, <1>3, <2>1, EmitInv
<1> QED
  BY <1>2, <1>3 DEF Keygen

LEMMA CollectInv ==
  ASSUME CliInv, NEW p \in Procs, Collect(p)
  PROVE  CliInv'
<1>1. Calm /\ Running(p) /\ procs[p].pc = "read"
  BY DEF Collect, Ready, Calm, history
<1>2. CASE procs[p].cmd = "collect-commitments" /\ Emit(p, <<Write(Commitments, procs[p].got)>>)
  <2>1. OutputName(procs[p].cmd) = Commitments /\ procs[p].cmd \in Others
    BY <1>2 DEF OutputName, Others
  <2>2. procs[p].got \in Seq(Born)
    BY <1>1, <1>2, RunningFields DEF CliInv, Inputs
  <2> QED
    BY <1>1, <1>2, <2>1, <2>2, EmitInv
<1>3. CASE procs[p].cmd = "collect-shares" /\ Emit(p, <<Write(Shares, procs[p].got)>>)
  <2>1. OutputName(procs[p].cmd) = Shares /\ procs[p].cmd \in Others
    BY <1>3 DEF OutputName, Others
  <2> QED
    BY <1>1, <1>3, <2>1, EmitInv
<1> QED
  BY <1>2, <1>3 DEF Collect, Ready

LEMMA AggregateInv ==
  ASSUME CliInv, NEW p \in Procs, Aggregate(p)
  PROVE  CliInv'
<1>1. Calm /\ Running(p) /\ procs[p].cmd = "aggregate"
  BY DEF Aggregate, Ready, Calm, history
<1>2. CASE Exit(p)
  BY <1>1, <1>2, ExitInv
<1>3. ASSUME NEW x, Emit(p, <<Write(SignatureFile, x)>>)
      PROVE  CliInv'
  <2>1. OutputName(procs[p].cmd) = SignatureFile /\ procs[p].cmd \in Others
    BY <1>1 DEF OutputName, Others
  <2> QED
    BY <1>1, <1>3, <2>1, EmitInv
<1> QED
  BY <1>2, <1>3 DEF Aggregate

\* The two kinds of commands of a participant, where they hold nonces.
LEMMA HolderFacts ==
  ASSUME Shape, NEW i \in Ids, NEW q \in Procs
  PROVE  /\ Committer(q, i) => Pending(procs[q]) \in Born /\ Pending(procs[q]).id = i
         /\ Signer(q, i) /\ HasNonces(q) => Got(q) \in Born /\ Got(q).id = i
<1>1. CASE Committer(q, i)
  <2>1. Outputs(procs[q]) /\ procs[q].cmd = "commit" /\ procs[q].id = i
    BY <1>1, RunningFields DEF Committer, Of
  <2> QED
    BY <1>1, <2>1 DEF Outputs, Committer, Signer
<1>2. CASE Signer(q, i) /\ HasNonces(q)
  <2>1. SignerInputs(procs[q]) /\ procs[q].id = i
    BY <1>2, RunningFields DEF Inputs, Signer, Of
  <2>2. /\ procs[q].reads # <<Keys, NoncesFile(procs[q].id), Commitments>>
        /\ procs[q].reads # <<NoncesFile(procs[q].id), Commitments>>
    <3>1. \A a, b, c : <<a>> # <<b, c>> /\ <<>> # <<b, c>>
      OBVIOUS
    <3>2. \A a, b, c, d : <<a>> # <<b, c, d>> /\ <<>> # <<b, c, d>>
      OBVIOUS
    <3> QED
      BY <1>2, <3>1, <3>2, Zenon DEF HasNonces
  <2> QED
    BY <1>2, <2>1, <2>2 DEF SignerInputs, Got, Committer, Signer
<1> QED
  BY <1>1, <1>2

LEMMA BornNonce ==
  ASSUME NEW c \in Born, Shape
  PROVE  c.nonce \in Nat /\ c.id \in Ids /\ c.nonce <= drawn[c.id]
         /\ c = CommitmentOf(c.id, c.nonce)
BY DEF Born, CommitmentOf, Shape

LEMMA UsedNonces ==
  ASSUME Shape, NEW i \in Ids, NEW s \in SharesOf(i)
  PROVE  s.nonce \in Nat /\ s.nonce <= drawn[i] /\ s.list \in Seq(Born)
<1>1. ShareOK(s) /\ s.id = i
  BY DEF SharesOf, Shape
<1> QED
  BY <1>1 DEF ShareOK, Born, CommitmentOf

LEMMA NonceFileFacts ==
  ASSUME Shape, NEW i \in Ids, IsWhole(NoncesFile(i))
  PROVE  files[NoncesFile(i)].data \in Born /\ files[NoncesFile(i)].data.id = i
<1>1. NoncesFile(i) \in Name
  BY DEF Name, NoncesFile
<1>2. Content(NoncesFile(i), files[NoncesFile(i)].data)
  BY <1>1 DEF Shape, Files
<1> QED
  BY <1>2 DEF Content, NoncesFile

\* A commit of i has drawn nonces c, which nobody has.
LEMMA NoncesDrawn ==
  ASSUME Shape, NEW i \in Ids, RoundsOf(i), NEW p \in Procs, OthersKeep(p),
         UNCHANGED <<files, issued, status, careful>>,
         Of(p, i), procs[p].cmd = "commit", NEW c, c \notin Born, c.id = i,
         c.nonce > drawn[i], procs'[p].cmd = "commit", procs'[p].pc = "write",
         procs'[p].id = i, procs'[p].alone = procs[p].alone,
         Pending(procs[p])' = c, Len(procs'[p].writes) = 2
  PROVE  RoundsOf(i)'
<1>1. \A q \in Procs : q # p => procs'[q] = procs[q]
  BY DEF OthersKeep
<1>2. \A q \in Procs : /\ Of(q, i)' => Of(q, i)
                       /\ procs'[q].cmd = procs[q].cmd
                       /\ procs'[q].alone => procs[q].alone
  BY <1>1 DEF Of, Running
<1>3. \A q \in Procs : Signer(q, i)' =>
        /\ q # p /\ Signer(q, i) /\ (HasNonces(q)' <=> HasNonces(q)) /\ Got(q)' = Got(q)
  BY <1>1 DEF Signer, Of, Running, HasNonces, Got, Commitments
<1>4. \A q \in Procs : q # p /\ Committer(q, i)' =>
        Committer(q, i) /\ Pending(procs[q])' = Pending(procs[q])
  BY <1>1 DEF Committer, Of, Running, Pending
<1>5. /\ Used(i)' = Used(i) /\ SharesOf(i)' = SharesOf(i)
      /\ (IsWhole(NoncesFile(i))' <=> IsWhole(NoncesFile(i)))
      /\ files' = files /\ status' = status /\ careful' = careful
  BY DEF Used, SharesOf, IsWhole, NoncesFile
<1>6. status[i] = "none"
  BY DEF RoundsOf, Settled
<1> USE DEF NoncesFile, CommitmentFile
<1>a. AloneApart(i)'
  BY <1>2 DEF RoundsOf, AloneApart
<1>b. PendingFresh(i)'
  <2>1. c.nonce \notin Used(i)
    <3>1. \A s \in SharesOf(i) : s.nonce <= drawn[i] /\ s.nonce \in Nat
      BY UsedNonces
    <3>2. drawn[i] \in Nat
      BY DEF Shape
    <3> QED
      BY <3>1, <3>2 DEF Used
  <2>2. IsWhole(NoncesFile(i)) => files[NoncesFile(i)].data # c
    BY NonceFileFacts
  <2>3. \A q \in Procs : Signer(q, i)' /\ HasNonces(q)' => Got(q)' # c
    BY <1>3, HolderFacts
  <2>4. \A q \in Procs : q # p /\ Committer(q, i)' => Pending(procs[q])' # c
    BY <1>4, HolderFacts
  <2> QED
    BY <1>3, <1>4, <1>5, <2>1, <2>2, <2>3, <2>4 DEF RoundsOf, PendingFresh
<1>c. CommittedFresh(i)'
  BY <1>5, <1>6 DEF CommittedFresh
<1>d. CarefulFresh(i)'
  <2>1. careful'[i] => NonceUsedOnceBy(i)'
    BY <1>5 DEF RoundsOf, CarefulFresh, NonceUsedOnceBy, SharesOf
  <2> QED
    BY <1>2, <1>3, <1>5, <2>1 DEF RoundsOf, CarefulFresh
<1>e. Settled(i)'
  BY <1>5, <1>6 DEF Settled
<1>f. AboutToSettle(i)'
  <2>1. Answers(i, c)'
    <3>1. ASSUME NEW s \in SharesOf(i), NEW k \in DOMAIN s.list
          PROVE  s.list[k] # c
      <4>1. s.list \in Seq(Born)
        BY UsedNonces
      <4>2. s.list[k] \in Born
        BY <4>1
      <4> QED
        BY <4>2
    <3> QED
      BY <1>5, <3>1 DEF Answers
  <2>2. ASSUME NEW q \in Procs, q # p, Committer(q, i)', procs'[q].alone
        PROVE  FALSE
    BY <1>1, <2>2, <1>4 DEF RoundsOf, AloneApart, Committer
  <2> QED
    BY <2>1, <2>2 DEF AboutToSettle
<1> QED
  BY <1>a, <1>b, <1>c, <1>d, <1>e, <1>f DEF RoundsOf

LEMMA CommitFilesFacts ==
  ASSUME NEW c
  PROVE  /\ Len(CommitFiles(c)) = 2 /\ CommitFiles(c)[2].data = c
         /\ CommitFiles(c)[1] = Write(CommitmentFile(c.id), c)
         /\ CommitFiles(c)[2] = Write(NoncesFile(c.id), c)
BY DEF CommitFiles, Write, CommitmentFile, NoncesFile

LEMMA RoundOneInv ==
  ASSUME CliInv, NEW p \in Procs, RoundOne(p)
  PROVE  CliInv'
<1> DEFINE i == procs[p].id
<1> DEFINE c == CommitmentOf(i, drawn[i] + 1)
<1>1. Running(p) /\ procs[p].cmd = "commit" /\ procs[p].pc = "read"
      /\ UNCHANGED <<files, issued, status, careful>>
  BY DEF RoundOne, Ready, history
<1>2. i \in Ids /\ Shape
  BY <1>1, RunningFields DEF CliInv, Others
<1>3. CASE Exit(p) /\ UNCHANGED drawn
  BY <1>1, <1>3, ExitInv DEF Calm
<1>4. CASE /\ drawn' = [drawn EXCEPT ![i] = @ + 1]
           /\ Emit(p, CommitFiles(c))
  <2>1. Moved(p, "write", procs[p].reads, procs[p].got, CommitFiles(c))
    BY <1>1, <1>4, EmitMoves DEF CliInv
  <2>2. drawn \in [Ids -> Nat] /\ drawn' \in [Ids -> Nat]
    BY <1>2, <1>4 DEF Shape
  <2>3. Grows
    BY <1>1, <1>2, <1>4, <2>2 DEF Grows, Born
  <2>4. /\ c.id = i /\ c.nonce = drawn[i] + 1 /\ c \in Born' /\ c \notin Born
        /\ c.nonce > drawn[i]
    BY <1>2, <1>4, <2>2 DEF Born, CommitmentOf
  <2> HIDE DEF c
  <2>5. Pending(procs[p])' = c /\ procs'[p].writes = CommitFiles(c)
        /\ Len(procs'[p].writes) = 2
    <3>1. procs'[p].writes = CommitFiles(c)
      BY <2>1 DEF Moved
    <3>2. Len(CommitFiles(c)) = 2 /\ CommitFiles(c)[2].data = c
      BY CommitFilesFacts
    <3>3. Pending(procs[p])' = procs'[p].writes[Len(procs'[p].writes)].data
      BY DEF Pending
    <3> QED
      BY <3>1, <3>2, <3>3
  <2>6. Outputs(procs[p])'
    <3>1. procs'[p].cmd = "commit" /\ procs'[p].id = i
      BY <1>1, <2>1 DEF Moved
    <3> HIDE DEF i
    <3>2. /\ Pending(procs[p])' \in Born' /\ Pending(procs[p])'.id = procs'[p].id
          /\ procs'[p].writes = CommitFiles(Pending(procs[p])')
      BY <3>1, <2>4, <2>5
    <3> QED
      BY <3>1, <3>2 DEF Outputs, Others, Pending, CommitFiles, Write
  <2>7. Shape'
    BY <1>1, <1>2, <2>1, <2>2, <2>3, <2>6, FilesKept, MovedShape DEF Shape
  <2>8. ASSUME NEW j \in Ids
        PROVE  RoundsOf(j)'
    <3>1. RoundsOf(j)
      BY DEF CliInv
    <3>2. CASE j = i
      BY <1>1, <1>2, <2>1, <2>4, <2>5, <3>1, <3>2, NoncesDrawn DEF Moved, Of
    <3>3. CASE j # i
      <4>1. StaysPut(p, j)
        BY <2>1, <3>3 DEF Moved, StaysPut, Of
      <4>2. SharesOf(j)' = SharesOf(j)
        BY <1>1 DEF SharesOf
      <4> QED
        BY <1>1, <2>1, <3>1, <4>1, <4>2, OthersUnmoved, QuietStep DEF Moved
    <3> QED
      BY <3>2, <3>3
  <2> QED
    BY <2>7, <2>8 DEF CliInv
<1> QED
  BY <1>3, <1>4 DEF RoundOne

\* A sign-share of i has made a share s from the nonces it has read.
LEMMA ShareMade ==
  ASSUME Shape, NEW i \in Ids, RoundsOf(i), NEW p \in Procs, OthersKeep(p),
         UNCHANGED <<files, status, careful>>,
         Signer(p, i), HasNonces(p), NEW s, s.id = i, s.nonce = Got(p).nonce,
         issued' = issued \cup {s},
         procs'[p].cmd = procs[p].cmd, procs'[p].pc = "write",
         procs'[p].id = i, procs'[p].alone = procs[p].alone
  PROVE  RoundsOf(i)'
<1>0. Of(p, i) /\ procs[p].cmd = "sign-share"
  BY DEF Signer
<1>1. \A q \in Procs : q # p => procs'[q] = procs[q]
  BY DEF OthersKeep
<1>2. \A q \in Procs : /\ Of(q, i)' => Of(q, i)
                       /\ procs'[q].cmd = procs[q].cmd
                       /\ procs'[q].alone => procs[q].alone
  BY <1>0, <1>1 DEF Of, Running
<1>3. \A q \in Procs : Signer(q, i)' =>
        q # p /\ Signer(q, i) /\ (HasNonces(q)' <=> HasNonces(q)) /\ Got(q)' = Got(q)
  BY <1>1 DEF Signer, Of, Running, HasNonces, Got, Commitments
<1>4. \A q \in Procs : Committer(q, i)' =>
        q # p /\ Committer(q, i) /\ Pending(procs[q])' = Pending(procs[q])
  BY <1>0, <1>1 DEF Committer, Of, Running, Pending
<1>5. /\ SharesOf(i)' = SharesOf(i) \cup {s} /\ Used(i)' = Used(i) \cup {s.nonce}
      /\ (IsWhole(NoncesFile(i))' <=> IsWhole(NoncesFile(i)))
      /\ files' = files /\ status' = status /\ careful' = careful
  BY DEF Used, SharesOf, IsWhole, NoncesFile
<1> USE DEF NoncesFile, CommitmentFile
<1>a. AloneApart(i)'
  BY <1>2 DEF RoundsOf, AloneApart
<1>b. PendingFresh(i)'
  <2>1. ASSUME NEW q \in Procs, Committer(q, i)
        PROVE  Pending(procs[q]).nonce # s.nonce
    <3>1. Got(p) # Pending(procs[q])
      BY <2>1 DEF RoundsOf, PendingFresh
    <3>2. /\ Got(p) \in Born /\ Got(p).id = i
          /\ Pending(procs[q]) \in Born /\ Pending(procs[q]).id = i
      BY <2>1, HolderFacts
    <3> QED
      BY <3>1, <3>2, BornNonce
  <2> QED
    BY <1>3, <1>4, <1>5, <2>1 DEF RoundsOf, PendingFresh
<1>c. CommittedFresh(i)'
  BY <1>0, <1>5 DEF RoundsOf, CommittedFresh
<1>d. CarefulFresh(i)'
  <2> SUFFICES ASSUME careful[i]
               PROVE  CarefulFresh(i)'
    BY <1>5 DEF CarefulFresh
  <2>1. \A c, q \in Procs :
          Of(c, i)' /\ Of(q, i)' /\ procs'[c].cmd = "sign-share"
            /\ procs'[q].cmd = "sign-share" => c = q
    BY <1>2 DEF RoundsOf, CarefulFresh
  <2>2. \A q \in Procs : ~Signer(q, i)'
    <3>1. \A q \in Procs : Signer(q, i) => q = p
      BY <1>0 DEF RoundsOf, CarefulFresh, Signer
    <3> QED
      BY <1>3, <3>1
  <2>3. NonceUsedOnceBy(i)'
    <3>1. s.nonce \notin Used(i)
      BY DEF RoundsOf, CarefulFresh
    <3>2. \A t \in issued : t.id = i => t.nonce # s.nonce
      BY <3>1 DEF Used, SharesOf
    <3>3. NonceUsedOnceBy(i)
      BY DEF RoundsOf, CarefulFresh
    <3> QED
      BY <3>2, <3>3 DEF NonceUsedOnceBy
  <2> QED
    BY <2>1, <2>2, <2>3 DEF CarefulFresh
<1>e. Settled(i)'
  <2> SUFFICES ASSUME status[i] # "none"
               PROVE  Settled(i)'
    BY <1>5 DEF Settled
  <2>1. /\ s.nonce = files[NoncesFile(i)].data.nonce
        /\ Answers(i, files[NoncesFile(i)].data)
    BY DEF RoundsOf, Settled
  <2>2. Answers(i, files[NoncesFile(i)].data)'
    BY <1>5, <2>1 DEF Answers
  <2> QED
    BY <1>2, <1>3, <1>5, <2>2 DEF RoundsOf, Settled
<1>f. AboutToSettle(i)'
  <2>1. ASSUME NEW q \in Procs, Committer(q, i)', procs'[q].alone
        PROVE  FALSE
    BY <1>0, <1>1, <2>1, <1>4 DEF RoundsOf, AloneApart, Committer
  <2> QED
    BY <2>1 DEF AboutToSettle
<1> QED
  BY <1>a, <1>b, <1>c, <1>d, <1>e, <1>f DEF RoundsOf

LEMMA RoundTwoInv ==
  ASSUME CliInv, NEW p \in Procs, RoundTwo(p)
  PROVE  CliInv'
<1> DEFINE f == procs[p]
<1> DEFINE i == f.id
<1> DEFINE s == ShareOf(i, f.got[2].nonce, f.got[1], f.arg, f.got[3])
<1>1. Running(p) /\ f.cmd = "sign-share" /\ f.pc = "read" /\ f.reads = <<>>
      /\ UNCHANGED <<files, drawn, status, careful>>
  BY DEF RoundTwo, Ready
<1>2. i \in Ids /\ Shape /\ SignerInputs(f)
  BY <1>1, RunningFields DEF CliInv, Others, Inputs
<1>3. CASE Exit(p) /\ UNCHANGED issued
  BY <1>1, <1>3, ExitInv DEF Calm
<1>4. CASE /\ issued' = issued \cup {s}
           /\ Emit(p, <<Write(<<"share", i>>, s)>>)
  <2>1. Moved(p, "write", f.reads, f.got, <<Write(<<"share", i>>, s)>>)
    BY <1>1, <1>4, EmitMoves DEF CliInv
  <2>2. drawn' \in [Ids -> Nat] /\ Born' = Born
    BY <1>1, <1>2 DEF Shape, Born
  <2>3. Grows
    BY <1>4, <2>2 DEF Grows
  <2>4. f.got[2] \in Born /\ f.got[2].id = i /\ f.got[3] \in Seq(Born)
    <3>1. \A a, b, c : <<>> # <<a>> /\ <<>> # <<a, b>> /\ <<>> # <<a, b, c>>
      OBVIOUS
    <3>2. /\ f.reads # <<Keys, NoncesFile(f.id), Commitments>>
          /\ f.reads # <<NoncesFile(f.id), Commitments>> /\ f.reads # <<Commitments>>
      BY <1>1, <3>1, Zenon
    <3> QED
      BY <1>2, <3>2 DEF SignerInputs
  <2>5. \A t : t = s => ShareOK(t)'
    <3>1. s = ShareOf(s.id, s.nonce, s.key, s.msg, s.list) /\ s.list = f.got[3]
          /\ s.id = i /\ s.nonce = f.got[2].nonce
      BY DEF ShareOf
    <3>2. CommitmentOf(s.id, s.nonce) \in Born
      BY <3>1, <2>4, <1>2, BornNonce
    <3> HIDE DEF s
    <3>3. s.list \in Seq(Born')
      BY <3>1, <2>2, <2>4
    <3> TAKE t
    <3> HAVE t = s
    <3>4. t = ShareOf(t.id, t.nonce, t.key, t.msg, t.list)
      BY <3>1
    <3>5. CommitmentOf(t.id, t.nonce) \in Born' /\ t.list \in Seq(Born')
      BY <3>2, <3>3, <2>2
    <3> QED
      BY <3>4, <3>5 DEF ShareOK, ShareOf, CommitmentOf
  <2>6. s.id = i /\ s.nonce = Got(p).nonce
    BY DEF ShareOf, Got
  <2> HIDE DEF s
  <2>7. Outputs(procs[p])'
    <3>1. procs'[p].cmd = "sign-share" /\ procs'[p].id = i
          /\ procs'[p].writes = <<Write(<<"share", i>>, s)>>
      BY <1>1, <2>1 DEF Moved
    <3>2. s \in issued'
      BY <1>4
    <3> HIDE DEF i
    <3> QED
      BY <3>1, <3>2, <2>6 DEF Outputs, Others, ShareFile, Write
  <2>8. Shape'
    <3>1. \A t \in issued' : t \in issued \/ ShareOK(t)'
      BY <1>4, <2>5
    <3> QED
      BY <1>1, <1>2, <2>1, <2>2, <2>3, <2>7, <3>1, FilesKept, MovedShape DEF Shape
  <2>9. ASSUME NEW j \in Ids
        PROVE  RoundsOf(j)'
    <3>1. RoundsOf(j)
      BY DEF CliInv
    <3>2. CASE j = i
      <4>1. Signer(p, i) /\ HasNonces(p)
        BY <1>1 DEF Signer, Of, HasNonces
      <4> QED
        BY <1>1, <1>2, <1>4, <2>1, <2>6, <3>1, <3>2, <4>1, ShareMade DEF Moved
    <3>3. CASE j # i
      <4>1. StaysPut(p, j)
        BY <2>1, <3>3 DEF Moved, StaysPut, Of
      <4>2. SharesOf(j)' = SharesOf(j)
        BY <1>4, <2>6, <3>3 DEF SharesOf
      <4> QED
        BY <1>1, <2>1, <3>1, <4>1, <4>2, OthersUnmoved, QuietStep DEF Moved
    <3> QED
      BY <3>2, <3>3
  <2> QED
    BY <2>8, <2>9 DEF CliInv
<1> QED
  BY <1>3, <1>4 DEF RoundTwo

\* Shares of i are made from nonces nobody else has, for lists of such.
LEMMA FreshSharesAdded ==
  ASSUME Shape, NEW i \in Ids, RoundsOf(i), NEW S, SharesOf(i)' = SharesOf(i) \cup S,
         \A s, t \in S : s = t,
         \A s \in S : /\ s.nonce \in Nat /\ s.nonce > drawn[i]
                      /\ \A k \in DOMAIN s.list : s.list[k] \notin Born,
         UNCHANGED <<files, status, careful>>, \A q \in Procs : StaysPut(q, i)
  PROVE  RoundsOf(i)'
<1> USE DEF NoncesFile, CommitmentFile
<1>d. drawn[i] \in Nat
  BY DEF Shape
<1>u. \A c \in Born : c.id = i /\ c.nonce \in Used(i)' => c.nonce \in Used(i)
  <2> SUFFICES ASSUME NEW c \in Born, c.id = i, NEW s \in SharesOf(i)', s.nonce = c.nonce
               PROVE  s \in SharesOf(i)
    BY DEF Used
  <2>1. c.nonce <= drawn[i] /\ c.nonce \in Nat
    BY BornNonce
  <2> QED
    BY <1>d, <2>1
<1>w. IsWhole(NoncesFile(i))' <=> IsWhole(NoncesFile(i))
  BY DEF IsWhole
<1>n. \A c \in Born : Answers(i, c) => Answers(i, c)'
  BY DEF Answers
<1>f. IsWhole(NoncesFile(i)) =>
        files[NoncesFile(i)].data \in Born /\ files[NoncesFile(i)].data.id = i
  BY NonceFileFacts
<1>s. \A q \in Procs : Signer(q, i)' =>
        /\ Signer(q, i) /\ (HasNonces(q)' <=> HasNonces(q))
        /\ HasNonces(q) => Got(q)' = Got(q) /\ Got(q) \in Born /\ Got(q).id = i
  BY HolderFacts DEF StaysPut, Signer
<1>c. \A q \in Procs : Committer(q, i)' =>
        /\ Committer(q, i) /\ procs'[q].writes = procs[q].writes
        /\ Pending(procs[q])' = Pending(procs[q])
        /\ Pending(procs[q]) \in Born /\ Pending(procs[q]).id = i
  <2> TAKE q \in Procs
  <2> HAVE Committer(q, i)'
  <2>1. Committer(q, i) /\ procs'[q].writes = procs[q].writes
    BY DEF StaysPut, Committer
  <2> QED
    BY <2>1, HolderFacts DEF Pending
<1>o. \A q \in Procs : Of(q, i)' =>
        /\ Of(q, i) /\ procs'[q].cmd = procs[q].cmd
        /\ procs'[q].alone => procs[q].alone
  BY DEF StaysPut
<1>1. AloneApart(i)'
  BY <1>o DEF RoundsOf, AloneApart
<1>2. PendingFresh(i)'
  BY <1>u, <1>w, <1>s, <1>c DEF RoundsOf, PendingFresh
<1>3. CommittedFresh(i)'
  <2>1. status[i] = "committed" => IsWhole(NoncesFile(i))
    BY DEF RoundsOf, Settled
  <2> QED
    BY <1>u, <1>f, <1>o, <2>1 DEF RoundsOf, CommittedFresh
<1>4. CarefulFresh(i)'
  <2>1. careful[i] => NonceUsedOnceBy(i)'
    <3> SUFFICES ASSUME careful[i], NEW s \in issued', NEW t \in issued',
                        s.id = i, t.id = i, s.nonce = t.nonce
                 PROVE  s = t
      BY DEF NonceUsedOnceBy
    <3>1. s \in SharesOf(i) \cup S /\ t \in SharesOf(i) \cup S
      BY DEF SharesOf
    <3>2. \A x \in SharesOf(i) : x.nonce \in Nat /\ x.nonce <= drawn[i]
      BY UsedNonces
    <3>3. \A x, y \in SharesOf(i) : x.nonce = y.nonce => x = y
      BY DEF RoundsOf, CarefulFresh, NonceUsedOnceBy, SharesOf
    <3> QED
      BY <1>d, <3>1, <3>2, <3>3
  <2> QED
    BY <1>u, <1>w, <1>f, <1>s, <1>o, <2>1 DEF RoundsOf, CarefulFresh
<1>5. Settled(i)'
  <2> SUFFICES ASSUME status[i] # "none"
               PROVE  Settled(i)'
    BY DEF Settled
  <2>1. IsWhole(NoncesFile(i)) /\ Answers(i, files[NoncesFile(i)].data)
    BY DEF RoundsOf, Settled
  <2>2. Answers(i, files[NoncesFile(i)].data)'
    BY <1>f, <2>1 DEF Answers
  <2> QED
    BY <1>w, <1>s, <1>o, <2>1, <2>2 DEF RoundsOf, Settled
<1>6. AboutToSettle(i)'
  <2> SUFFICES ASSUME NEW q \in Procs, Committer(q, i)', procs'[q].alone
               PROVE  /\ Answers(i, Pending(procs[q]))'
                      /\ Len(procs'[q].writes) = 1 =>
                           files'[CommitmentFile(i)] = Whole(Pending(procs[q])')
    BY DEF AboutToSettle, Whole
  <2>1. Committer(q, i) /\ procs[q].alone
    BY <1>c, <1>o DEF Committer
  <2>2. Answers(i, Pending(procs[q]))
        /\ (Len(procs[q].writes) = 1 => files[CommitmentFile(i)] = Whole(Pending(procs[q])))
    BY <2>1 DEF RoundsOf, AboutToSettle
  <2>3. Answers(i, Pending(procs[q]))'
    BY <1>c, <2>2 DEF Answers
  <2> QED
    BY <1>c, <2>2, <2>3
<1> QED
  BY <1>1, <1>2, <1>3, <1>4, <1>5, <1>6 DEF RoundsOf

LEMMA SignLocallyInv ==
  ASSUME CliInv, NEW p \in Procs, SignLocally(p)
  PROVE  CliInv'
<1> DEFINE f == procs[p]
<1> DEFINE pair == f.arg[1]
<1> DEFINE m == f.arg[2]
<1> DEFINE key == f.got[1]
<1> DEFINE n == [i \in ToSet(pair) |-> drawn[i] + 1]
<1> DEFINE list == [k \in 1..2 |-> CommitmentOf(pair[k], n[pair[k]])]
<1> DEFINE shares == [k \in 1..2 |-> ShareOf(pair[k], n[pair[k]], key, m, list)]
<1> DEFINE known == \A k \in 1..2 : HasPackage(key, pair[k])
<1> DEFINE signs == known /\ ValidList(list)
<1>1. /\ Running(p) /\ f.cmd = "sign" /\ f.pc = "read"
      /\ UNCHANGED <<files, status, careful>>
      /\ drawn' = IF known THEN [i \in Ids |-> IF i \in ToSet(pair) THEN n[i] ELSE drawn[i]]
                           ELSE drawn
      /\ issued' = IF signs THEN issued \cup ToSet(shares) ELSE issued
      /\ \/ Exit(p)
         \/ Emit(p, <<Write(SignatureFile, SignatureOf(key, m, list, shares))>>)
  BY DEF SignLocally, Ready
<1>2. Shape /\ f.id = 0 /\ pair \in Ids \X Ids
  <2>1. f.arg \in SignerPairs \X Msgs /\ f.id = 0
    BY <1>1, RunningFields DEF CliInv, Own, Inputs
  <2> QED
    BY <2>1, CliAssumptions DEF CliInv
<1>3. /\ pair[1] \in Ids /\ pair[2] \in Ids /\ ToSet(pair) = {pair[1], pair[2]}
      /\ n[pair[1]] = drawn[pair[1]] + 1 /\ n[pair[2]] = drawn[pair[2]] + 1
  BY <1>2 DEF ToSet
<1>4. drawn \in [Ids -> Nat]
  BY <1>2 DEF Shape
<1>5. /\ drawn' \in [Ids -> Nat] /\ \A i \in Ids : drawn[i] <= drawn'[i]
      /\ known => /\ drawn'[pair[1]] = drawn[pair[1]] + 1
                  /\ drawn'[pair[2]] = drawn[pair[2]] + 1
  <2> HIDE DEF pair, known
  <2> QED
    BY <1>1, <1>3, <1>4
<1>6. Grows
  <2>1. Born \subseteq Born'
    BY <1>4, <1>5 DEF Born
  <2> QED
    BY <1>1, <2>1 DEF Grows
<1>7. \A k \in 1..2 : /\ list[k] = CommitmentOf(pair[k], drawn[pair[k]] + 1)
                      /\ list[k].id = pair[k] /\ list[k].nonce = drawn[pair[k]] + 1
                      /\ list[k] \notin Born
                      /\ known => list[k] \in Born'
  <2> TAKE k \in 1..2
  <2>1. list[k] = CommitmentOf(pair[k], drawn[pair[k]] + 1) /\ pair[k] \in Ids
    BY <1>3
  <2> HIDE DEF pair, n, list, known
  <2>2. known => drawn'[pair[k]] = drawn[pair[k]] + 1
    BY <1>5
  <2> QED
    BY <2>1, <2>2, <1>4, <1>5 DEF CommitmentOf, Born
<1>8. \A k \in 1..2 : /\ shares[k] = ShareOf(pair[k], drawn[pair[k]] + 1, key, m, list)
                      /\ shares[k].id = pair[k] /\ shares[k].nonce = drawn[pair[k]] + 1
                      /\ shares[k].list = list
  <2> TAKE k \in 1..2
  <2>1. shares[k] = ShareOf(pair[k], drawn[pair[k]] + 1, key, m, list)
    <3>1. n[pair[k]] = drawn[pair[k]] + 1
      BY <1>3
    <3> HIDE DEF pair, n, list, key, m
    <3>2. shares[k] = ShareOf(pair[k], n[pair[k]], key, m, list)
      OBVIOUS
    <3> QED
      BY <3>1, <3>2
  <2> HIDE DEF pair, n, list, shares, key, m
  <2> QED
    BY <2>1 DEF ShareOf
<1>9. ToSet(shares) = {shares[1], shares[2]} /\ DOMAIN list = 1..2
  BY DEF ToSet
<1>10. signs => pair[1] # pair[2]
  <2> HIDE DEF pair, list, known
  <2>1. signs => list[1].id < list[2].id
    BY <1>9 DEF ValidList
  <2>2. list[1].id = pair[1] /\ list[2].id = pair[2]
    BY <1>7
  <2>3. pair[1] \in Nat /\ pair[2] \in Nat
    BY <1>3, CliAssumptions
  <2> HIDE DEF signs
  <2> QED
    BY <2>1, <2>2, <2>3
<1>11. signs => list \in Seq(Born')
  <2>1. list = [k \in 1..2 |-> list[k]]
    OBVIOUS
  <2> HIDE DEF pair, list, known
  <2> QED
    BY <1>7, <2>1
<1> HIDE DEF pair, m, key, n, list, shares, known
<1>12. signs => \A k \in 1..2 : \A t : t = shares[k] => ShareOK(t)'
  <2> SUFFICES ASSUME signs, NEW k \in 1..2, NEW t, t = shares[k]
               PROVE  ShareOK(t)'
    OBVIOUS
  <2>1. t = ShareOf(t.id, t.nonce, t.key, t.msg, t.list)
    BY <1>8 DEF ShareOf
  <2>2. CommitmentOf(t.id, t.nonce) \in Born'
    BY <1>7, <1>8
  <2>3. t.list \in Seq(Born')
    BY <1>8, <1>11
  <2> QED
    BY <2>1, <2>2, <2>3 DEF ShareOK, ShareOf, CommitmentOf
<1>13. \A t \in issued' : t \in issued \/ ShareOK(t)'
  BY <1>1, <1>9, <1>12
<1>14. Files'
  BY <1>1, <1>2, <1>6, FilesKept DEF Shape
<1>15. Shape' /\ (\A q \in Procs : q # p => Unmoved(q)) /\ procs'[p].id = 0
  <2>1. CASE Exit(p)
    <3>1. Ended(p)
      BY <1>2, <2>1, ExitEnds
    <3>2. Shape'
      BY <3>1, <1>1, <1>2, <1>5, <1>6, <1>13, <1>14, EndedShape DEF Shape
    <3> QED
      BY <3>1, <3>2, OthersUnmoved DEF Ended, Idle
  <2>2. CASE Emit(p, <<Write(SignatureFile, SignatureOf(key, m, list, shares))>>)
    <3> DEFINE x == SignatureOf(key, m, list, shares)
    <3>1. Moved(p, "write", f.reads, f.got, <<Write(SignatureFile, x)>>)
      BY <1>1, <1>2, <2>2, EmitMoves
    <3> HIDE DEF x
    <3>2. procs'[p].cmd = "sign" /\ procs'[p].writes = <<Write(SignatureFile, x)>>
      BY <1>1, <3>1 DEF Moved
    <3>3. Outputs(procs[p])'
      BY <3>2
      DEF Outputs, OutputName, Write, Keys, Commitments, Shares, SignatureFile
    <3>4. Shape'
      BY <3>1, <3>3, <1>1, <1>2, <1>5, <1>6, <1>13, <1>14, MovedShape
    <3> QED
      BY <3>1, <3>4, <1>2, OthersUnmoved DEF Moved
  <2> QED
    BY <1>1, <2>1, <2>2
<1>16. ASSUME NEW i \in Ids
       PROVE  RoundsOf(i)'
  <2>1. RoundsOf(i)
    BY DEF CliInv
  <2>2. \A q \in Procs : StaysPut(q, i)
    BY <1>15, UnmovedStaysPut, CoordinatorsStayPut
  <2> DEFINE S == IF signs THEN {s \in ToSet(shares) : s.id = i} ELSE {}
  <2>3. SharesOf(i)' = SharesOf(i) \cup S
    BY <1>1 DEF SharesOf
  <2>4. \A s, t \in S : s = t
    BY <1>8, <1>9, <1>10
  <2>5. \A s \in S : /\ s.nonce \in Nat /\ s.nonce > drawn[i]
                     /\ \A k \in DOMAIN s.list : s.list[k] \notin Born
    BY <1>4, <1>7, <1>8, <1>9
  <2> HIDE DEF S
  <2> QED
    BY <1>1, <1>2, FreshSharesAdded, <2>5, <2>1, <2>2, <2>3, <2>4
<1> QED
  BY <1>15, <1>16 DEF CliInv

-----------------------------------------------------------------------------
(* Writing.                                                                *)

\* The next file of a command in its writing phase.
First(p) == Head(procs[p].writes)

LEMMA CommitWrites ==
  ASSUME Shape, NEW p \in Procs, Running(p), procs[p].pc \in {"write", "open"},
         procs[p].cmd = "commit"
  PROVE  LET i == procs[p].id
             c == Pending(procs[p])
         IN  /\ i \in Ids /\ Committer(p, i) /\ c \in Born /\ c.id = i
             /\ \/ /\ First(p).name = CommitmentFile(i) /\ First(p).data = c
                   /\ Len(procs[p].writes) = 2
                   /\ Tail(procs[p].writes) = <<Write(NoncesFile(i), c)>>
                \/ /\ First(p).name = NoncesFile(i) /\ First(p).data = c
                   /\ Len(procs[p].writes) = 1
<1> DEFINE i == procs[p].id
<1> DEFINE c == Pending(procs[p])
<1>1. Outputs(procs[p]) /\ i \in Ids
  BY RunningFields DEF Others
<1>2. Committer(p, i) /\ c \in Born /\ c.id = i
  BY <1>1 DEF Outputs, Committer, Of
<1>3. \/ procs[p].writes = CommitFiles(c)
      \/ procs[p].writes = <<Write(NoncesFile(i), c)>>
  BY <1>1 DEF Outputs
<1> HIDE DEF c
<1>4. CASE procs[p].writes = CommitFiles(c)
  <2>1. procs[p].writes = <<Write(CommitmentFile(i), c), Write(NoncesFile(i), c)>>
    BY <1>2, <1>4 DEF CommitFiles, CommitmentFile, NoncesFile
  <2>2. /\ First(p) = Write(CommitmentFile(i), c) /\ Len(procs[p].writes) = 2
        /\ Tail(procs[p].writes) = <<Write(NoncesFile(i), c)>>
    BY <2>1, TupleFacts DEF First
  <2> QED
    BY <1>1, <1>2, <2>2 DEF Write, c
<1>5. CASE procs[p].writes = <<Write(NoncesFile(i), c)>>
  <2>1. First(p) = Write(NoncesFile(i), c) /\ Len(procs[p].writes) = 1
    BY <1>5, TupleFacts DEF First
  <2> QED
    BY <1>1, <1>2, <2>1 DEF Write, c
<1> QED
  BY <1>3, <1>4, <1>5

LEMMA OtherWrites ==
  ASSUME Shape, NEW p \in Procs, Running(p), procs[p].pc \in {"write", "open"},
         procs[p].cmd # "commit"
  PROVE  /\ Len(procs[p].writes) = 1 /\ First(p).name \in Name
         /\ First(p).name[1] \notin {"commitment", "nonces"}
         /\ Content(First(p).name, First(p).data)
<1>1. /\ Outputs(procs[p])
      /\ \/ procs[p].cmd = "sign-share" /\ procs[p].id \in Ids
         \/ procs[p].cmd \in Others
  BY RunningFields DEF Own
<1>2. CASE procs[p].cmd = "sign-share" /\ procs[p].id \in Ids
  <2>1. PICK s \in issued :
          s.id = procs[p].id /\ procs[p].writes = <<Write(ShareFile(procs[p].id), s)>>
    BY <1>1, <1>2 DEF Outputs
  <2>2. Len(procs[p].writes) = 1 /\ First(p) = Write(ShareFile(procs[p].id), s)
    BY <2>1, TupleFacts DEF First
  <2> QED
    BY <1>2, <2>1, <2>2 DEF Write, ShareFile, Content, Name, Commitments
<1>3. CASE procs[p].cmd \in Others
  <2> DEFINE x == Head(procs[p].writes).data
  <2>1. /\ procs[p].writes = <<Write(OutputName(procs[p].cmd), x)>>
        /\ procs[p].cmd = "collect-commitments" => x \in Seq(Born)
    BY <1>1, <1>3 DEF Outputs
  <2> HIDE DEF x
  <2>2. Len(procs[p].writes) = 1 /\ First(p) = Write(OutputName(procs[p].cmd), x)
    BY <2>1, TupleFacts DEF First
  <2> QED
    BY <1>3, <2>1, <2>2
    DEF Write, OutputName, Others, Content, Name, Keys, Commitments, Shares, SignatureFile
<1> QED
  BY <1>1, <1>2, <1>3

\* A commit of i writes or truncates its commitment file or truncates its
\* nonces file.
LEMMA CommitFileChanged ==
  ASSUME Shape, NEW i \in Ids, RoundsOf(i), NEW p \in Procs, OthersKeep(p),
         UNCHANGED <<issued, status, careful>>, Committer(p, i),
         procs'[p].cmd = "commit", procs'[p].pc \in {"write", "open"},
         procs'[p].id = i, procs'[p].alone = procs[p].alone,
         Pending(procs[p])' = Pending(procs[p]),
         (IsWhole(NoncesFile(i)))' => files'[NoncesFile(i)] = files[NoncesFile(i)],
         Len(procs'[p].writes) = 1 =>
           \/ files'[CommitmentFile(i)] = Whole(Pending(procs[p]))
           \/ /\ Len(procs[p].writes) = 1
              /\ files'[CommitmentFile(i)] = files[CommitmentFile(i)]
  PROVE  RoundsOf(i)'
<1>0. Of(p, i) /\ procs[p].cmd = "commit"
  BY DEF Committer
<1>1. \A q \in Procs : q # p => procs'[q] = procs[q]
  BY DEF OthersKeep
<1>2. \A q \in Procs : /\ Of(q, i)' => Of(q, i)
                       /\ procs'[q].cmd = procs[q].cmd
                       /\ procs'[q].alone => procs[q].alone
  BY <1>0, <1>1 DEF Of, Running
<1>3. \A q \in Procs : Signer(q, i)' =>
        q # p /\ Signer(q, i) /\ (HasNonces(q)' <=> HasNonces(q)) /\ Got(q)' = Got(q)
  BY <1>1 DEF Signer, Of, Running, HasNonces, Got, Commitments
<1>4. \A q \in Procs : Committer(q, i)' =>
        Committer(q, i) /\ Pending(procs[q])' = Pending(procs[q])
  BY <1>0, <1>1 DEF Committer, Of, Running, Pending
<1>5. /\ SharesOf(i)' = SharesOf(i) /\ Used(i)' = Used(i)
      /\ (IsWhole(NoncesFile(i))' => IsWhole(NoncesFile(i)))
      /\ status' = status /\ careful' = careful
  BY DEF Used, SharesOf, IsWhole, NoncesFile
<1>6. status[i] = "none"
  BY <1>0 DEF RoundsOf, Settled
<1> USE DEF NoncesFile, CommitmentFile
<1>a. AloneApart(i)'
  BY <1>2 DEF RoundsOf, AloneApart
<1>b. PendingFresh(i)'
  BY <1>3, <1>4, <1>5 DEF RoundsOf, PendingFresh
<1>c. CommittedFresh(i)'
  BY <1>5, <1>6 DEF CommittedFresh
<1>d. CarefulFresh(i)'
  <2>1. careful'[i] => NonceUsedOnceBy(i)'
    BY DEF RoundsOf, CarefulFresh, NonceUsedOnceBy
  <2> QED
    BY <1>2, <1>3, <1>5, <2>1 DEF RoundsOf, CarefulFresh
<1>e. Settled(i)'
  BY <1>5, <1>6 DEF Settled
<1>f. AboutToSettle(i)'
  <2>1. ASSUME NEW q \in Procs, q # p, Committer(q, i)', procs'[q].alone
        PROVE  FALSE
    BY <1>0, <1>1, <2>1, <1>4 DEF RoundsOf, AloneApart, Committer
  <2>2. ASSUME procs[p].alone
        PROVE  /\ Answers(i, Pending(procs[p]))'
               /\ Len(procs'[p].writes) = 1 =>
                    files'[CommitmentFile(i)] = Whole(Pending(procs[p])')
    <3>1. /\ Answers(i, Pending(procs[p]))
          /\ Len(procs[p].writes) = 1 =>
               files[CommitmentFile(i)] = Whole(Pending(procs[p]))
      BY <2>2 DEF RoundsOf, AboutToSettle
    <3>2. Answers(i, Pending(procs[p]))'
      BY <1>5, <3>1 DEF Answers
    <3> QED
      BY <3>1, <3>2
  <2> QED
    BY <2>1, <2>2 DEF AboutToSettle, Whole
<1> QED
  BY <1>a, <1>b, <1>c, <1>d, <1>e, <1>f DEF RoundsOf

\* A commit of i has written its nonces and ends.
LEMMA NoncesWritten ==
  ASSUME Shape, NEW i \in Ids, RoundsOf(i), NEW p \in Procs, Ended(p),
         UNCHANGED <<issued, careful>>, Committer(p, i), Len(procs[p].writes) = 1,
         files'[NoncesFile(i)] = Whole(Pending(procs[p])),
         files'[CommitmentFile(i)] = files[CommitmentFile(i)],
         status'[i] = IF procs[p].alone THEN "committed" ELSE status[i]
  PROVE  RoundsOf(i)'
<1> DEFINE c == Pending(procs[p])
<1>0. Of(p, i) /\ procs[p].cmd = "commit"
  BY DEF Committer
<1>1. (\A q \in Procs : q # p => procs'[q] = procs[q]) /\ procs'[p] = Idle
  BY DEF Ended, OthersKeep
<1>2. \A q \in Procs : Of(q, i)' =>
        /\ q # p /\ Of(q, i) /\ procs'[q].cmd = procs[q].cmd
        /\ procs'[q].alone => procs[q].alone
  BY <1>1 DEF Of, Running, Idle
<1>3. \A q \in Procs : Signer(q, i)' =>
        q # p /\ Signer(q, i) /\ (HasNonces(q)' <=> HasNonces(q)) /\ Got(q)' = Got(q)
  BY <1>1, <1>2 DEF Signer, HasNonces, Got, Commitments
<1>4. \A q \in Procs : Committer(q, i)' =>
        q # p /\ Committer(q, i) /\ Pending(procs[q])' = Pending(procs[q])
  BY <1>1, <1>2 DEF Committer, Pending
<1>5. /\ SharesOf(i)' = SharesOf(i) /\ Used(i)' = Used(i) /\ careful' = careful
      /\ files'[NoncesFile(i)].data = c /\ (IsWhole(NoncesFile(i)))'
  BY DEF Used, SharesOf, IsWhole, NoncesFile, Whole
<1>6. status[i] = "none"
  BY <1>0 DEF RoundsOf, Settled
<1>7. c.nonce \notin Used(i)
  BY DEF RoundsOf, PendingFresh
<1>8. procs[p].alone => \A q \in Procs : ~Of(q, i)'
  BY <1>0, <1>2 DEF RoundsOf, AloneApart
<1> HIDE DEF c
<1> USE DEF NoncesFile, CommitmentFile
<1>a. AloneApart(i)'
  BY <1>2 DEF RoundsOf, AloneApart
<1>b. PendingFresh(i)'
  <2>1. \A q \in Procs : Committer(q, i)' => Pending(procs[q])' # c
    BY <1>4 DEF RoundsOf, PendingFresh, c
  <2> QED
    BY <1>3, <1>4, <1>5, <2>1 DEF RoundsOf, PendingFresh
<1>c. CommittedFresh(i)'
  BY <1>5, <1>6, <1>7, <1>8 DEF CommittedFresh
<1>d. CarefulFresh(i)'
  <2>1. careful'[i] => NonceUsedOnceBy(i)'
    BY DEF RoundsOf, CarefulFresh, NonceUsedOnceBy
  <2> QED
    BY <1>2, <1>3, <1>5, <1>7, <2>1 DEF RoundsOf, CarefulFresh
<1>e. Settled(i)'
  <2> SUFFICES ASSUME procs[p].alone
               PROVE  Settled(i)'
    BY <1>6 DEF Settled
  <2>1. Answers(i, c) /\ files[CommitmentFile(i)] = Whole(c)
    BY DEF RoundsOf, AboutToSettle, c
  <2>2. Answers(i, files[NoncesFile(i)].data)'
    BY <1>5, <2>1 DEF Answers
  <2>3. files'[CommitmentFile(i)] = files'[NoncesFile(i)]
    BY <2>1 DEF c
  <2> QED
    BY <1>5, <1>8, <2>2, <2>3 DEF Settled, Signer
<1>f. AboutToSettle(i)'
  <2>1. ASSUME NEW q \in Procs, Committer(q, i)', procs'[q].alone
        PROVE  FALSE
    BY <1>0, <1>1, <2>1, <1>4 DEF RoundsOf, AloneApart, Committer
  <2> QED
    BY <2>1 DEF AboutToSettle
<1> QED
  BY <1>a, <1>b, <1>c, <1>d, <1>e, <1>f DEF RoundsOf

\* A process in its writing phase goes on with some of its files.
LEMMA PhaseMoves ==
  ASSUME Shape, NEW p \in Procs, Running(p), NEW pc, NEW w,
         procs' = [procs EXCEPT ![p].pc = pc, ![p].writes = w]
  PROVE  Moved(p, pc, procs[p].reads, procs[p].got, w)
<1>1. DOMAIN procs[p] = Fields /\ DOMAIN procs = Procs
  BY RunningFields DEF Shape
<1>2. procs' = [procs EXCEPT ![p] = [procs[p] EXCEPT !.pc = pc, !.writes = w]]
  BY <1>1 DEF Fields
<1> QED
  BY <1>1, <1>2 DEF Moved, OthersKeep, Fields

LEMMA OpenMoves ==
  ASSUME Shape, NEW p \in Procs, Running(p), procs' = [procs EXCEPT ![p].pc = "open"]
  PROVE  Moved(p, "open", procs[p].reads, procs[p].got, procs[p].writes)
<1>1. DOMAIN procs[p] = Fields /\ DOMAIN procs = Procs
  BY RunningFields DEF Shape
<1>2. procs' = [procs EXCEPT ![p] = [procs[p] EXCEPT !.pc = "open"]]
  BY <1>1 DEF Fields
<1> QED
  BY <1>1, <1>2 DEF Moved, OthersKeep, Fields

LEMMA TornState == Torn.state # "whole"
BY DEF Torn

LEMMA WholeData == \A x : Whole(x).state = "whole" /\ Whole(x).data = x
BY DEF Whole

\* The names of the files of one participant.
LEMMA NamesApart ==
  ASSUME NEW i \in Ids, NEW j \in Ids
  PROVE  /\ CommitmentFile(i) \in Name /\ NoncesFile(i) \in Name
         /\ CommitmentFile(i) # NoncesFile(j)
         /\ CommitmentFile(i) = CommitmentFile(j) => i = j
         /\ NoncesFile(i) = NoncesFile(j) => i = j
         /\ CommitmentFile(i)[1] = "commitment" /\ NoncesFile(i)[1] = "nonces"
BY DEF CommitmentFile, NoncesFile, Name

LEMMA OpenFileInv ==
  ASSUME CliInv, NEW p \in Procs, OpenFile(p)
  PROVE  CliInv'
<1> DEFINE f == procs[p]
<1>1. /\ Running(p) /\ f.pc = "write" /\ Shape
      /\ files' = [files EXCEPT ![First(p).name] = Torn]
      /\ procs' = [procs EXCEPT ![p].pc = "open"]
      /\ UNCHANGED <<drawn, issued, status, careful>>
  BY DEF OpenFile, First, history, CliInv
<1>2. Moved(p, "open", f.reads, f.got, f.writes)
  BY <1>1, OpenMoves
<1>3. Outputs(procs[p])'
  BY <1>1, <1>2, RunningFields, StillGrows, OutputsGrow DEF Moved
<1>4. First(p).name \in Name
  BY <1>1, CommitWrites, OtherWrites, NamesApart
<1>5. Grows
  BY <1>1, StillGrows
<1>6. Files'
  BY <1>1, <1>4, <1>5, TornState, FilesWritten DEF Shape
<1>7. Shape'
  BY <1>1, <1>2, <1>3, <1>5, <1>6, MovedShape DEF Shape
<1>8. ASSUME NEW i \in Ids
      PROVE  RoundsOf(i)'
  <2>1. RoundsOf(i) /\ SharesOf(i)' = SharesOf(i) /\ DOMAIN files = Name
    BY <1>1 DEF CliInv, SharesOf, Shape, Files
  <2>2. CASE f.cmd = "commit" /\ f.id = i
    <3>1. /\ Committer(p, i)
          /\ \/ First(p).name = CommitmentFile(i) /\ Len(f.writes) = 2
             \/ First(p).name = NoncesFile(i) /\ Len(f.writes) = 1
      BY <1>1, <2>2, CommitWrites
    <3>2. /\ (IsWhole(NoncesFile(i)))' => files'[NoncesFile(i)] = files[NoncesFile(i)]
          /\ First(p).name = NoncesFile(i) =>
               files'[CommitmentFile(i)] = files[CommitmentFile(i)]
      BY <1>1, <1>4, <2>1, TornState, NamesApart DEF IsWhole, NoncesFile
    <3>3. Pending(procs[p])' = Pending(procs[p])
      BY <1>2 DEF Moved, Pending
    <3>4. procs'[p].writes = f.writes /\ (Len(f.writes) = 1 => Len(f.writes) # 2)
      BY <1>2 DEF Moved
    <3>5. Len(procs'[p].writes) = 1 =>
            Len(f.writes) = 1 /\ files'[CommitmentFile(i)] = files[CommitmentFile(i)]
      BY <3>1, <3>2, <3>4
    <3> QED
      BY <1>1, <1>2, <2>1, <2>2, <3>1, <3>2, <3>3, <3>5, CommitFileChanged DEF Moved
  <2>3. CASE ~(f.cmd = "commit" /\ f.id = i)
    <3>1. First(p).name # NoncesFile(i) /\ First(p).name # CommitmentFile(i)
      <4>1. CASE f.cmd = "commit"
        BY <1>1, <2>3, <4>1, CommitWrites, NamesApart
      <4>2. CASE f.cmd # "commit"
        BY <1>1, <4>2, OtherWrites, NamesApart
      <4> QED
        BY <4>1, <4>2
    <3>2. /\ files'[NoncesFile(i)] = files[NoncesFile(i)]
          /\ files'[CommitmentFile(i)] = files[CommitmentFile(i)]
      BY <1>1, <2>1, <3>1, NamesApart
    <3>3. StaysPut(p, i)
      BY <1>1, <1>2, <2>3 DEF Moved, StaysPut, Of, Running, Committer, Signer
    <3> QED
      BY <1>1, <1>2, <2>1, <3>2, <3>3, OthersUnmoved, QuietStep DEF Moved
  <2> QED
    BY <2>2, <2>3
<1> QED
  BY <1>7, <1>8 DEF CliInv

\* What a command writes is what its file may hold.
LEMMA WritesFit ==
  ASSUME Shape, NEW p \in Procs, Running(p), procs[p].pc \in {"write", "open"}
  PROVE  First(p).name \in Name /\ Content(First(p).name, First(p).data)
<1>1. CASE procs[p].cmd = "commit"
  <2> DEFINE i == procs[p].id
  <2> DEFINE c == Pending(procs[p])
  <2>1. /\ i \in Ids /\ c \in Born /\ c.id = i /\ First(p).data = c
        /\ First(p).name = CommitmentFile(i) \/ First(p).name = NoncesFile(i)
    BY <1>1, CommitWrites
  <2> HIDE DEF i, c
  <2>2. Content(CommitmentFile(i), c) /\ Content(NoncesFile(i), c)
    BY <2>1 DEF Content, CommitmentFile, NoncesFile, Commitments
  <2> QED
    BY <2>1, <2>2, NamesApart
<1>2. CASE procs[p].cmd # "commit"
  BY <1>2, OtherWrites
<1> QED
  BY <1>1, <1>2

LEMMA WriteDataInv ==
  ASSUME CliInv, NEW p \in Procs, WriteData(p)
  PROVE  CliInv'
<1> DEFINE f == procs[p]
<1> DEFINE i == f.id
<1> DEFINE w == First(p)
<1> DEFINE last == Len(f.writes) = 1
<1>1. /\ Running(p) /\ f.pc = "open" /\ Shape
      /\ files' = [files EXCEPT ![w.name] = Whole(w.data)]
      /\ \/ last /\ Exit(p)
         \/ /\ ~last
            /\ procs' = [procs EXCEPT ![p].pc = "write", ![p].writes = Tail(@)]
      /\ status' = IF last /\ f.cmd = "commit" /\ f.alone
                     THEN [status EXCEPT ![i] = "committed"] ELSE status
      /\ UNCHANGED <<drawn, issued, careful>>
  BY DEF WriteData, First, CliInv
<1>2. w.name \in Name /\ Content(w.name, w.data)
  BY <1>1, WritesFit
<1>3. Grows
  BY <1>1, StillGrows
<1>4. Files'
  <2>1. \A n, x : Content(n, x) => Content(n, x)'
    BY <1>3, ContentGrows
  <2> DEFINE x == Whole(w.data)
  <2>2. x.state = "whole" /\ x.data = w.data
    BY WholeData
  <2>3. PICK n, y : n = w.name /\ y = x
    OBVIOUS
  <2>4. Content(n, y.data)'
    BY <1>2, <2>1, <2>2, <2>3
  <2> QED
    BY <1>1, <1>2, <1>3, <2>3, <2>4, FilesWritten DEF Shape
<1>5. DOMAIN files = Name /\ \A j \in Ids : SharesOf(j)' = SharesOf(j)
  BY <1>1 DEF Shape, Files, SharesOf
<1>6. ASSUME NEW j \in Ids, ~(f.cmd = "commit" /\ i = j)
      PROVE  /\ files'[NoncesFile(j)] = files[NoncesFile(j)]
             /\ files'[CommitmentFile(j)] = files[CommitmentFile(j)]
             /\ status'[j] = status[j]
  <2>1. w.name # NoncesFile(j) /\ w.name # CommitmentFile(j)
    <3>1. CASE f.cmd = "commit"
      BY <1>1, <1>6, <3>1, CommitWrites, NamesApart
    <3>2. CASE f.cmd # "commit"
      BY <1>1, <3>2, OtherWrites, NamesApart
    <3> QED
      BY <3>1, <3>2
  <2>2. /\ files'[NoncesFile(j)] = files[NoncesFile(j)]
        /\ files'[CommitmentFile(j)] = files[CommitmentFile(j)]
    BY <1>1, <1>5, <2>1, NamesApart
  <2>3. status'[j] = status[j]
    BY <1>1, <1>6 DEF Shape
  <2> QED
    BY <2>2, <2>3
<1>7. CASE last /\ Exit(p)
  <2>1. Ended(p)
    BY <1>1, <1>7, ExitEnds
  <2>2. status' \in [Ids -> {"none", "committed", "signed"}]
    BY <1>1 DEF Shape
  <2>3. Shape'
    BY <1>1, <1>3, <1>4, <2>1, <2>2, EndedShape DEF Shape
  <2>4. ASSUME NEW j \in Ids
        PROVE  RoundsOf(j)'
    <3>1. RoundsOf(j)
      BY DEF CliInv
    <3>2. CASE f.cmd = "commit" /\ i = j
      <4>1. /\ Committer(p, j) /\ w.name = NoncesFile(j) /\ w.data = Pending(f)
        BY <1>1, <1>7, <3>2, CommitWrites
      <4>2. /\ files'[NoncesFile(j)] = Whole(Pending(f))
            /\ files'[CommitmentFile(j)] = files[CommitmentFile(j)]
        BY <1>1, <1>5, <4>1, NamesApart
      <4>3. status'[j] = IF f.alone THEN "committed" ELSE status[j]
        BY <1>1, <1>7, <3>2 DEF Shape
      <4> QED
        BY <1>1, <1>7, <2>1, <3>1, <4>1, <4>2, <4>3, NoncesWritten
    <3>3. CASE ~(f.cmd = "commit" /\ i = j)
      <4>1. StaysPut(p, j)
        BY <2>1, CoordinatorsStayPut DEF Ended, Idle
      <4> QED
        BY <1>1, <1>5, <1>6, <2>1, <3>1, <3>3, <4>1, OthersUnmoved, QuietStep DEF Ended
    <3> QED
      BY <3>2, <3>3
  <2> QED
    BY <2>3, <2>4 DEF CliInv
<1>8. CASE ~last /\ procs' = [procs EXCEPT ![p].pc = "write", ![p].writes = Tail(@)]
  <2> DEFINE c == Pending(f)
  <2>1. /\ f.cmd = "commit" /\ i \in Ids /\ Committer(p, i) /\ c \in Born /\ c.id = i
        /\ w.name = CommitmentFile(i) /\ w.data = c
        /\ Tail(f.writes) = <<Write(NoncesFile(i), c)>>
    BY <1>1, <1>8, CommitWrites, OtherWrites
  <2>2. Moved(p, "write", f.reads, f.got, Tail(f.writes))
    <3>1. DOMAIN procs = Procs /\ DOMAIN f = Fields
      BY <1>1, RunningFields DEF Shape
    <3>2. procs' = [procs EXCEPT ![p].pc = "write", ![p].writes = Tail(f.writes)]
      BY <1>8, <3>1 DEF Fields
    <3> QED
      BY <1>1, <3>2, PhaseMoves
  <2> HIDE DEF c
  <2>3. Pending(procs[p])' = c /\ Len(procs'[p].writes) = 1
    <3>1. procs'[p].writes = <<Write(NoncesFile(i), c)>>
      BY <2>1, <2>2 DEF Moved
    <3> QED
      BY <3>1 DEF Pending, Write
  <2>4. Outputs(procs[p])'
    <3>1. /\ procs'[p].cmd = "commit" /\ procs'[p].id = i
          /\ procs'[p].writes = <<Write(NoncesFile(i), c)>>
      BY <2>1, <2>2 DEF Moved
    <3>2. c \in Born'
      BY <1>3, <2>1 DEF Grows
    <3> HIDE DEF i
    <3>3. /\ Pending(procs'[p]) \in Born' /\ Pending(procs'[p]).id = procs'[p].id
          /\ procs'[p].writes = <<Write(NoncesFile(procs'[p].id), Pending(procs'[p]))>>
      BY <2>1, <2>3, <3>1, <3>2 DEF Pending
    <3> QED
      BY <3>1, <3>3 DEF Outputs, Others, Pending, Write, NoncesFile
  <2>5. status' = status
    BY <1>1, <1>8
  <2>6. Shape'
    BY <1>1, <1>3, <1>4, <2>2, <2>4, <2>5, MovedShape DEF Shape
  <2>7. ASSUME NEW j \in Ids
        PROVE  RoundsOf(j)'
    <3>1. RoundsOf(j)
      BY DEF CliInv
    <3>2. CASE i = j
      <4>1. /\ files'[NoncesFile(j)] = files[NoncesFile(j)]
            /\ files'[CommitmentFile(j)] = Whole(Pending(procs[p]))
        BY <1>1, <1>5, <2>1, <3>2, NamesApart DEF c
      <4>2. Pending(procs[p])' = Pending(procs[p])
        BY <2>3 DEF c
      <4> QED
        BY <1>1, <2>1, <2>2, <2>5, <3>1, <3>2, <4>1, <4>2, CommitFileChanged DEF Moved
    <3>3. CASE i # j
      <4>1. StaysPut(p, j)
        BY <2>2, <3>3 DEF Moved, StaysPut, Of
      <4> QED
        BY <1>1, <1>5, <1>6, <2>2, <3>1, <3>3, <4>1, OthersUnmoved, QuietStep DEF Moved
    <3> QED
      BY <3>2, <3>3
  <2> QED
    BY <2>6, <2>7 DEF CliInv
<1> QED
  BY <1>1, <1>7, <1>8

-----------------------------------------------------------------------------
(* Starting.                                                               *)

LEMMA BegunShape ==
  ASSUME Shape, NEW p \in Procs, NEW cmd, NEW id, NEW arg, NEW reads,
         Begun(p, cmd, id, arg, reads), UNCHANGED <<files, drawn, issued>>,
         (cmd \in Own /\ id \in Ids) \/ (cmd \in Others /\ id = 0),
         cmd = "sign-share" => reads = <<Keys, NoncesFile(id), Commitments>>,
         cmd = "collect-commitments" => reads \in Seq({"commitment"} \X Ids),
         cmd = "sign" => arg \in SignerPairs \X Msgs,
         status' \in [Ids -> {"none", "committed", "signed"}],
         careful' \in [Ids -> BOOLEAN]
  PROVE  Shape'
<1>1. Grows
  BY StillGrows
<1>2. Files' /\ drawn' \in [Ids -> Nat] /\ \A s \in issued' : s \in issued
  BY <1>1, FilesKept DEF Shape
<1>3. /\ DOMAIN procs'[p] = Fields /\ procs'[p].pc = "read" /\ procs'[p].cmd = cmd
      /\ procs'[p].id = id /\ procs'[p].arg = arg /\ procs'[p].reads = reads
      /\ procs'[p].got = <<>>
  BY DEF Begun
<1>4. Inputs(procs[p])'
  <2>1. cmd = "sign-share" => SignerInputs(procs[p])'
    BY <1>3 DEF SignerInputs, Keys, NoncesFile, Commitments
  <2>2. <<>> \in Seq(Born')
    OBVIOUS
  <2> QED
    BY <1>3, <2>1, <2>2 DEF Inputs
<1>5. Process(procs[p])'
  BY <1>3, <1>4 DEF Process, Fields, Own, Others
<1> QED
  BY <1>1, <1>2, <1>5, StepShape DEF Begun

\* A command of somebody else starts.
LEMMA BegunQuiet ==
  ASSUME NEW i \in Ids, RoundsOf(i), NEW p \in Procs, NEW cmd, NEW id, NEW arg,
         NEW reads, Begun(p, cmd, id, arg, reads), id # i,
         UNCHANGED <<files, issued>>, status'[i] = status[i],
         careful'[i] => careful[i]
  PROVE  RoundsOf(i)'
<1>1. StaysPut(p, i)
  BY DEF Begun, StaysPut, Of
<1>2. SharesOf(i)' = SharesOf(i)
  BY DEF SharesOf
<1> QED
  BY <1>1, <1>2, QuietStep DEF Begun

\* A command of i starts.
LEMMA BegunOwn ==
  ASSUME NEW i \in Ids, RoundsOf(i), NEW p \in Procs, NEW cmd \in Own, NEW arg,
         NEW reads, Begun(p, cmd, i, arg, reads), UNCHANGED <<files, issued>>,
         cmd = "commit" => status'[i] = "none" /\ careful' = careful,
         cmd = "sign-share" =>
           /\ reads = <<Keys, NoncesFile(i), Commitments>>
           /\ status'[i] = IF status[i] = "none" THEN "none" ELSE "signed"
           /\ careful'[i] => careful[i] /\ status[i] = "committed"
  PROVE  RoundsOf(i)'
<1>0. i # 0
  BY CliAssumptions
<1>1. \A q \in Procs : q # p => StaysPut(q, i)
  BY UnmovedStaysPut DEF Begun
<1>2. /\ procs'[p].cmd = cmd /\ procs'[p].pc = "read" /\ procs'[p].reads = reads
      /\ ~Of(p, i)
  BY DEF Begun, Of
<1>3. ~Committer(p, i)'
  BY <1>2 DEF Committer
<1>4. Signer(p, i)' => cmd = "sign-share" /\ ~HasNonces(p)'
  <2>1. \A a, b, c, d : <<a, b, c>> # <<d>> /\ <<a, b, c>> # <<>>
    OBVIOUS
  <2>2. cmd = "sign-share" => reads \notin {<<Commitments>>, <<>>}
    BY <2>1, Zenon
  <2> QED
    BY <1>2, <2>2 DEF Signer, HasNonces, Commitments
<1>5. \A q \in Procs : q # p /\ Of(q, i)' => ~procs'[q].alone /\ ~procs'[p].alone
  BY <1>0, <1>1 DEF Begun, StaysPut
<1>6. \A q \in Procs : q # p /\ Of(q, i)' => Of(q, i) /\ procs'[q].cmd = procs[q].cmd
  BY <1>1 DEF StaysPut
<1>7. \A q \in Procs : q # p /\ Signer(q, i)' =>
        /\ Signer(q, i) /\ (HasNonces(q)' <=> HasNonces(q))
        /\ HasNonces(q) => Got(q)' = Got(q)
  BY <1>1 DEF StaysPut, Signer
<1>8. \A q \in Procs : Committer(q, i)' =>
        q # p /\ Committer(q, i) /\ Pending(procs[q])' = Pending(procs[q])
  <2> TAKE q \in Procs
  <2> HAVE Committer(q, i)'
  <2>1. q # p /\ Of(q, i)'
    BY <1>3 DEF Committer
  <2>2. Committer(q, i) /\ procs'[q].writes = procs[q].writes
    BY <1>1, <2>1 DEF StaysPut
  <2> QED
    BY <2>1, <2>2 DEF Pending
<1>9. /\ SharesOf(i)' = SharesOf(i) /\ Used(i)' = Used(i) /\ files' = files
      /\ (IsWhole(NoncesFile(i))' <=> IsWhole(NoncesFile(i)))
  BY DEF Used, SharesOf, IsWhole, NoncesFile
<1>10. cmd = "commit" \/ cmd = "sign-share"
  BY DEF Own
<1> USE DEF NoncesFile, CommitmentFile
<1>a. AloneApart(i)'
  BY <1>5 DEF AloneApart
<1>b. PendingFresh(i)'
  BY <1>4, <1>7, <1>8, <1>9 DEF RoundsOf, PendingFresh
<1>c. CommittedFresh(i)'
  BY <1>10 DEF CommittedFresh
<1>d. CarefulFresh(i)'
  <2>1. careful'[i] => NonceUsedOnceBy(i)'
    BY <1>10 DEF RoundsOf, CarefulFresh, NonceUsedOnceBy
  <2>2. CASE cmd = "commit"
    <3>1. procs'[p].cmd # "sign-share" /\ ~Signer(p, i)'
      BY <1>2, <1>4, <2>2
    <3> QED
      BY <1>6, <1>7, <1>9, <2>1, <2>2, <3>1 DEF RoundsOf, CarefulFresh
  <2>3. CASE cmd = "sign-share"
    <3> SUFFICES ASSUME careful'[i]
                 PROVE  CarefulFresh(i)'
      BY DEF CarefulFresh
    <3>1. \A q \in Procs : Of(q, i)' => q = p
      BY <1>6, <2>3 DEF RoundsOf, CommittedFresh
    <3>2. files[NoncesFile(i)].data.nonce \notin Used(i)
      BY <2>3 DEF RoundsOf, CommittedFresh
    <3>3. \A q \in Procs : Signer(q, i)' => q = p
      BY <3>1 DEF Signer
    <3> QED
      BY <1>4, <1>9, <2>1, <3>1, <3>2, <3>3 DEF CarefulFresh
  <2> QED
    BY <1>10, <2>2, <2>3
<1>e. Settled(i)'
  <2> SUFFICES ASSUME cmd = "sign-share", status[i] # "none"
               PROVE  Settled(i)'
    BY <1>10 DEF Settled
  <2>1. Answers(i, files[NoncesFile(i)].data)'
    BY <1>9 DEF RoundsOf, Settled, Answers
  <2> QED
    BY <1>2, <1>4, <1>6, <1>7, <1>9, <2>1 DEF RoundsOf, Settled
<1>f. AboutToSettle(i)'
  BY <1>5, <1>8 DEF AboutToSettle, Committer
<1> QED
  BY <1>a, <1>b, <1>c, <1>d, <1>e, <1>f DEF RoundsOf

\* A command of the coordinator starts.
LEMMA BeginOtherInv ==
  ASSUME CliInv, NEW p \in Procs, NEW cmd \in Others, NEW arg, NEW reads,
         Begin(p, Start(cmd, 0, arg, reads)), UNCHANGED <<status, careful>>,
         cmd = "collect-commitments" => reads \in Seq({"commitment"} \X Ids),
         cmd = "sign" => arg \in SignerPairs \X Msgs
  PROVE  CliInv'
<1>1. Begun(p, cmd, 0, arg, reads) /\ UNCHANGED <<files, drawn, issued>>
  BY BeginEffect DEF CliInv, Begin
<1>2. cmd # "sign-share"
  BY DEF Others
<1>3. Shape'
  BY <1>1, <1>2, BegunShape DEF CliInv, Shape
<1>4. ASSUME NEW i \in Ids
      PROVE  RoundsOf(i)'
  BY <1>1, BegunQuiet, CliAssumptions DEF CliInv
<1> QED
  BY <1>3, <1>4 DEF CliInv

\* A command of participant i starts.
LEMMA BeginOwnInv ==
  ASSUME CliInv, NEW p \in Procs, NEW cmd \in Own, NEW i \in Ids, NEW arg, NEW reads,
         Begin(p, Start(cmd, i, arg, reads)),
         cmd = "commit" => status' = [status EXCEPT ![i] = "none"] /\ careful' = careful,
         cmd = "sign-share" =>
           /\ reads = <<Keys, NoncesFile(i), Commitments>>
           /\ careful' = [careful EXCEPT ![i] = @ /\ status[i] = "committed"]
           /\ status' = [status EXCEPT ![i] = IF @ = "none" THEN @ ELSE "signed"]
  PROVE  CliInv'
<1>1. Begun(p, cmd, i, arg, reads) /\ UNCHANGED <<files, drawn, issued>>
  BY BeginEffect DEF CliInv, Begin
<1>2. cmd = "commit" \/ cmd = "sign-share"
  BY DEF Own
<1>3. /\ cmd # "collect-commitments" /\ cmd # "sign"
  BY <1>2
<1>4. status' \in [Ids -> {"none", "committed", "signed"}]
  BY <1>2 DEF CliInv, Shape
<1>5. careful' \in [Ids -> BOOLEAN]
  BY <1>2 DEF CliInv, Shape
<1>6. Shape'
  <2>1. Shape /\ ((cmd \in Own /\ i \in Ids) \/ (cmd \in Others /\ i = 0))
    BY DEF CliInv
  <2>2. /\ cmd = "sign-share" => reads = <<Keys, NoncesFile(i), Commitments>>
        /\ cmd = "collect-commitments" => reads \in Seq({"commitment"} \X Ids)
        /\ cmd = "sign" => arg \in SignerPairs \X Msgs
    BY <1>3
  <2> QED
    BY <1>1, <1>4, <1>5, <2>1, <2>2, BegunShape, Zenon
<1>7. ASSUME NEW j \in Ids
      PROVE  RoundsOf(j)'
  <2>1. CASE j = i
    <3>1. cmd = "sign-share" => (careful'[i] => careful[i] /\ status[i] = "committed")
      BY DEF CliInv, Shape
    <3>2. /\ cmd = "commit" => status'[i] = "none"
          /\ cmd = "sign-share" =>
               status'[i] = IF status[i] = "none" THEN "none" ELSE "signed"
      BY DEF CliInv, Shape
    <3> QED
      BY <1>1, <2>1, <3>1, <3>2, BegunOwn DEF CliInv
  <2>2. CASE j # i
    <3>1. status'[j] = status[j] /\ (careful'[j] => careful[j])
      BY <1>2, <2>2 DEF CliInv, Shape
    <3> QED
      BY <1>1, <2>2, <3>1, BegunQuiet DEF CliInv
  <2> QED
    BY <2>1, <2>2
<1> QED
  BY <1>6, <1>7 DEF CliInv

LEMMA GlobType ==
  ASSUME NEW kind, NEW found \in Glob(kind)
  PROVE  found \in Seq({kind} \X Ids)
<1> DEFINE K == {k \in DOMAIN GlobOrder : files[<<kind, GlobOrder[k]>>] # Absent}
<1>1. PICK s \in Ascending(K) : found = [j \in DOMAIN s |-> <<kind, GlobOrder[s[j]]>>]
  BY DEF Glob
<1>2. GlobOrder \in Seq(Ids)
  BY CliAssumptions
<1>3. IsFiniteSet(K)
  <2>1. DOMAIN GlobOrder = 1..Len(GlobOrder) /\ Len(GlobOrder) \in Nat
    BY <1>2
  <2>2. IsFiniteSet(1..Len(GlobOrder))
    BY <2>1, FS_Interval
  <2> QED
    BY <2>1, <2>2, FS_Subset
<1>4. Cardinality(K) \in Nat
  BY <1>3, FS_CardinalityType
<1>5. s \in [1..Cardinality(K) -> K]
  BY DEF Ascending
<1>6. \A j \in 1..Cardinality(K) : GlobOrder[s[j]] \in Ids
  <2> TAKE j \in 1..Cardinality(K)
  <2>1. \A k \in K : k \in DOMAIN GlobOrder
    OBVIOUS
  <2> HIDE DEF K
  <2>2. s[j] \in DOMAIN GlobOrder
    BY <1>5, <2>1
  <2> QED
    BY <1>2, <2>2
<1> HIDE DEF K
<1> QED
  BY <1>1, <1>4, <1>5, <1>6

LEMMA RunInv ==
  ASSUME CliInv, NEW p \in Procs, Run(p)
  PROVE  CliInv'
<1>1. ASSUME NEW a \in KeygenArgs, BeginKeygen(p, a)
      PROVE  CliInv'
  BY <1>1, BeginOtherInv DEF BeginKeygen, Others
<1>2. ASSUME NEW i \in Ids, BeginCommit(p, i)
      PROVE  CliInv'
  <2>1. "commit" \in Own
    BY DEF Own
  <2> QED
    BY <1>2, <2>1, BeginOwnInv DEF BeginCommit
<1>3. CASE BeginCollect(p, "collect-commitments", "commitment")
  <2>1. PICK found \in Glob("commitment") :
          Begin(p, Start("collect-commitments", 0, "commitment", found))
    BY <1>3 DEF BeginCollect
  <2>2. found \in Seq({"commitment"} \X Ids)
    BY GlobType
  <2>3. UNCHANGED <<status, careful>> /\ "collect-commitments" \in Others
    BY <1>3 DEF BeginCollect, Others
  <2> QED
    BY <2>1, <2>2, <2>3, BeginOtherInv
<1>4. CASE BeginCollect(p, "collect-shares", "share")
  <2>1. PICK found \in Glob("share") :
          Begin(p, Start("collect-shares", 0, "share", found))
    BY <1>4 DEF BeginCollect
  <2>2. UNCHANGED <<status, careful>> /\ "collect-shares" \in Others
    BY <1>4 DEF BeginCollect, Others
  <2> QED
    BY <2>1, <2>2, BeginOtherInv
<1>5. ASSUME NEW i \in Ids, NEW m \in Msgs, BeginSignShare(p, i, m)
      PROVE  CliInv'
  <2>1. "sign-share" \in Own
    BY DEF Own
  <2>2. <<Keys, <<"nonces", i>>, Commitments>> = <<Keys, NoncesFile(i), Commitments>>
    BY DEF NoncesFile
  <2> QED
    BY <1>5, <2>1, <2>2, BeginOwnInv DEF BeginSignShare
<1>6. ASSUME NEW m \in Msgs, BeginAggregate(p, m)
      PROVE  CliInv'
  BY <1>6, BeginOtherInv DEF BeginAggregate, Others
<1>7. ASSUME NEW pair \in SignerPairs, NEW m \in Msgs, BeginSign(p, pair, m)
      PROVE  CliInv'
  BY <1>7, BeginOtherInv DEF BeginSign, Others
<1> QED
  BY <1>1, <1>2, <1>3, <1>4, <1>5, <1>6, <1>7 DEF Run

LEMMA NextCliInv == CliInv /\ [Next]_vars => CliInv'
<1> SUFFICES ASSUME CliInv, [Next]_vars
             PROVE  CliInv'
  OBVIOUS
<1>1. CASE UNCHANGED vars
  <2>1. Calm /\ procs' = procs
    BY <1>1 DEF vars, Calm
  <2>2. Shape'
    <3>1. ASSUME NEW q \in Procs
          PROVE  Process(procs[q])'
      BY <2>1, StillGrows, UnmovedProcess DEF CliInv, Shape, Calm, Unmoved
    <3>2. \A s \in issued' : ShareOK(s)'
      BY <2>1 DEF CliInv, Shape, Calm, ShareOK, Born, ShareOf, CommitmentOf
    <3> QED
      BY <2>1, <3>1, <3>2, CalmFacts DEF CliInv, Shape, Calm
  <2>3. ASSUME NEW i \in Ids
        PROVE  RoundsOf(i)'
    <3>1. \A q \in Procs : StaysPut(q, i)
      BY <2>1, UnmovedStaysPut DEF Unmoved
    <3> QED
      BY <2>1, <3>1, CalmFacts, QuietKeeps DEF CliInv, Calm, QuietFor
  <2> QED
    BY <2>2, <2>3 DEF CliInv
<1>2. ASSUME NEW p \in Procs, Die(p)
      PROVE  CliInv'
  BY <1>2, ExitInv DEF Die, Calm, history
<1>3. ASSUME NEW p \in Procs, Step(p)
      PROVE  CliInv'
  BY <1>3, ReadInv, KeygenInv, RoundOneInv, CollectInv, RoundTwoInv, AggregateInv,
     SignLocallyInv, OpenFileInv, WriteDataInv DEF Step
<1> QED
  BY <1>1, <1>2, <1>3, RunInv DEF Next

-----------------------------------------------------------------------------
(* The initial directories.                                                *)

LEMMA FirstRoundFiles ==
  ASSUME NEW ids, NEW key, NEW m, NEW i \in Ids, NEW list,
         list = [k \in DOMAIN ids |-> CommitmentOf(ids[k], 1)]
  PROVE  /\ FirstRound(ids, key, m)[CommitmentFile(i)] = Whole(CommitmentOf(i, 1))
         /\ FirstRound(ids, key, m)[NoncesFile(i)] = Whole(CommitmentOf(i, 1))
         /\ FirstRound(ids, key, m)[ShareFile(i)] = Whole(ShareOf(i, 1, key, m, list))
BY DEF FirstRound, Name, CommitmentFile, NoncesFile, ShareFile, Keys, Commitments,
       Shares, SignatureFile

\* No command runs yet, and nobody has just committed.
LEMMA InitRounds ==
  ASSUME NEW i \in Ids, \A p \in Procs : procs[p] = Idle, status[i] # "committed",
         NonceUsedOnceBy(i),
         status[i] # "none" =>
           /\ IsWhole(NoncesFile(i))
           /\ files[CommitmentFile(i)] = files[NoncesFile(i)]
           /\ Answers(i, files[NoncesFile(i)].data)
  PROVE  RoundsOf(i)
<1>1. \A p \in Procs : ~Of(p, i)
  BY DEF Of, Running, Idle
<1> QED
  BY <1>1
  DEF RoundsOf, AloneApart, PendingFresh, CommittedFresh, CarefulFresh, Settled,
      AboutToSettle, Signer, Committer

LEMMA InitCliInv == Init => CliInv
<1> SUFFICES ASSUME Init
             PROVE  CliInv
  OBVIOUS
<1>1. /\ procs = [p \in Procs |-> Idle] /\ careful = [i \in Ids |-> TRUE]
  BY DEF Init
<1>2. ASSUME issued = {}, status = [i \in Ids |-> "none"], drawn = [i \in Ids |-> 0],
             DOMAIN files = Name, \A n \in Name : n # Keys => ~IsWhole(n)
      PROVE  CliInv
  <2>1. Files
    BY <1>2 DEF Files, Content, Keys, Commitments
  <2>2. Shape
    BY <1>1, <1>2, <2>1 DEF Shape, Process
  <2>3. ASSUME NEW i \in Ids
        PROVE  RoundsOf(i)
    BY <1>1, <1>2, InitRounds DEF NonceUsedOnceBy
  <2> QED
    BY <2>2, <2>3 DEF CliInv
<1>3. ASSUME NEW key, NEW m, NEW ids \in Ascending(Ids),
             files = FirstRound(ids, key, m), drawn = [i \in Ids |-> 1],
             status = [i \in Ids |-> "signed"],
             issued = {files[<<"share", i>>].data : i \in Ids}
      PROVE  CliInv
  <2> DEFINE list == [k \in DOMAIN ids |-> CommitmentOf(ids[k], 1)]
  <2>1. \A i \in Ids : CommitmentOf(i, 1) \in Born
    BY <1>3 DEF Born, CommitmentOf
  <2>2. list \in Seq(Born)
    <3>1. Cardinality(Ids) \in Nat
      BY FS_CardinalityType, CliAssumptions
    <3>2. ids \in [1..Cardinality(Ids) -> Ids]
      BY DEF Ascending
    <3> QED
      BY <2>1, <3>1, <3>2
  <2> HIDE DEF list
  <2>3. \A i \in Ids : /\ files[CommitmentFile(i)] = Whole(CommitmentOf(i, 1))
                       /\ files[NoncesFile(i)] = Whole(CommitmentOf(i, 1))
                       /\ files[ShareFile(i)] = Whole(ShareOf(i, 1, key, m, list))
    BY <1>3, FirstRoundFiles DEF list
  <2>4. files[Commitments] = Whole(list) /\ DOMAIN files = Name
    BY <1>3 DEF FirstRound, list, Name, Keys, Commitments, Shares, SignatureFile
  <2>5. issued = {ShareOf(i, 1, key, m, list) : i \in Ids}
    <3>1. \A i \in Ids : files[<<"share", i>>].data = ShareOf(i, 1, key, m, list)
      BY <2>3, WholeData DEF ShareFile
    <3> QED
      BY <1>3, <3>1
  <2>6. \A s \in issued : /\ s.id \in Ids /\ s.nonce = 1 /\ ShareOK(s)
                          /\ s = ShareOf(s.id, 1, key, m, list)
    <3> TAKE s \in issued
    <3>1. PICK i \in Ids : s = ShareOf(i, 1, key, m, list)
      BY <2>5
    <3>2. s.id = i /\ s.nonce = 1 /\ s.key = key /\ s.msg = m /\ s.list = list
      BY <3>1 DEF ShareOf
    <3>3. ShareOK(s)
      BY <2>1, <2>2, <3>1, <3>2 DEF ShareOK
    <3> QED
      BY <3>1, <3>2, <3>3
  <2>7. Files
    <3> SUFFICES ASSUME NEW n \in Name
                 PROVE  Content(n, files[n].data)
      BY <2>4 DEF Files
    <3>1. CASE n = Commitments
      BY <2>2, <2>4, <3>1, WholeData DEF Content, Commitments
    <3>2. ASSUME NEW i \in Ids, n = CommitmentFile(i) \/ n = NoncesFile(i)
          PROVE  Content(n, files[n].data)
      <4>1. files[n].data = CommitmentOf(i, 1)
        BY <2>3, <3>2, WholeData
      <4>2. CommitmentOf(i, 1).id = i
        BY DEF CommitmentOf
      <4> QED
        BY <2>1, <3>2, <4>1, <4>2 DEF Content, CommitmentFile, NoncesFile, Commitments
    <3>3. ASSUME NEW i \in Ids, n = ShareFile(i)
          PROVE  Content(n, files[n].data)
      <4>1. files[n].data = ShareOf(i, 1, key, m, list)
        BY <2>3, <3>3, WholeData
      <4>2. ShareOf(i, 1, key, m, list).id = i
        BY DEF ShareOf
      <4> QED
        BY <2>5, <3>3, <4>1, <4>2 DEF Content, ShareFile, Commitments
    <3>4. CASE n \in {Keys, Shares, SignatureFile}
      BY <3>4 DEF Content, Keys, Shares, SignatureFile, Commitments
    <3> QED
      BY <3>1, <3>2, <3>3, <3>4 DEF Name, CommitmentFile, NoncesFile, ShareFile
  <2>8. Shape
    BY <1>1, <1>3, <2>6, <2>7 DEF Shape, Process
  <2>9. ASSUME NEW i \in Ids
        PROVE  RoundsOf(i)
    <3>1. NonceUsedOnceBy(i)
      BY <2>6 DEF NonceUsedOnceBy
    <3>2. Answers(i, files[NoncesFile(i)].data)
      <4>1. files[NoncesFile(i)].data = CommitmentOf(i, 1)
        BY <2>3, WholeData
      <4>2. CommitmentOf(i, 1).nonce = 1
        BY DEF CommitmentOf
      <4> QED
        BY <2>6, <4>1, <4>2 DEF Answers, SharesOf
    <3>3. IsWhole(NoncesFile(i)) /\ files[CommitmentFile(i)] = files[NoncesFile(i)]
      BY <2>3, WholeData DEF IsWhole
    <3> QED
      BY <1>1, <1>3, <3>1, <3>2, <3>3, InitRounds
  <2> QED
    BY <2>8, <2>9 DEF CliInv
<1>4. PICK a \in KeygenArgs, m \in Msgs, ids \in Ascending(Ids) :
        \/ /\ files = [n \in Name |-> Absent]
           /\ drawn = [i \in Ids |-> 0]
           /\ status = [i \in Ids |-> "none"]
           /\ issued = {}
        \/ /\ files = [n \in Name |-> IF n = Keys
                                     THEN FirstRound(ids, FirstKey(a), m)[n]
                                     ELSE Absent]
           /\ drawn = [i \in Ids |-> 0]
           /\ status = [i \in Ids |-> "none"]
           /\ issued = {}
        \/ /\ files = FirstRound(ids, FirstKey(a), m)
           /\ drawn = [i \in Ids |-> 1]
           /\ status = [i \in Ids |-> "signed"]
           /\ issued = {FirstRound(ids, FirstKey(a), m)[<<"share", i>>].data : i \in Ids}
  BY DEF Init
<1>5. ASSUME \/ files = [n \in Name |-> Absent]
             \/ files = [n \in Name |-> IF n = Keys
                                       THEN FirstRound(ids, FirstKey(a), m)[n]
                                       ELSE Absent],
             drawn = [i \in Ids |-> 0], status = [i \in Ids |-> "none"],
             issued = {}
      PROVE  CliInv
  <2>1. DOMAIN files = Name /\ \A n \in Name : n # Keys => files[n] = Absent
    BY <1>5
  <2>2. \A n \in Name : n # Keys => ~IsWhole(n)
    BY <2>1 DEF IsWhole, Absent
  <2> QED
    BY <1>2, <1>5, <2>1, <2>2
<1>6. ASSUME files = FirstRound(ids, FirstKey(a), m), drawn = [i \in Ids |-> 1],
             status = [i \in Ids |-> "signed"],
             issued = {FirstRound(ids, FirstKey(a), m)[<<"share", i>>].data : i \in Ids}
      PROVE  CliInv
  <2>1. issued = {files[<<"share", i>>].data : i \in Ids}
    BY <1>6
  <2> QED
    BY <1>3, <1>6, <2>1
<1> QED
  BY <1>4, <1>5, <1>6, Zenon

LEMMA CliInvHolds == Spec => []CliInv
BY InitCliInv, NextCliInv, PTL DEF Spec

\* For any number of processes, participants and commands, however they
\* overlap and wherever they are killed: a participant that starts each
\* sign-share after a commit of its own that ended well never uses a nonce
\* for two shares, although the nonces file stays.
THEOREM CarefulWorkflowIsSafe == Spec => []WorkflowUsesNonceOnce
<1>1. CliInv => WorkflowUsesNonceOnce
  BY DEF CliInv, RoundsOf, CarefulFresh, WorkflowUsesNonceOnce
<1> QED
  BY <1>1, CliInvHolds, PTL

\* A share file made for the list that is still that of the commitment files
\* is the answer to the commitment its signer has in the list.
LEMMA RoundAnswer ==
  ASSUME CliInv, NEW list \in Seq(Born), NEW key, NEW m, OneRound(list, key, m),
         NEW k \in DOMAIN list
  PROVE  files[ShareFile(list[k].id)].data
           = ShareOf(list[k].id, list[k].nonce, key, m, list)
<1> DEFINE c == list[k]
<1> DEFINE i == c.id
<1> DEFINE s == files[ShareFile(i)].data
<1>1. c \in Born
  OBVIOUS
<1>2. i \in Ids
  BY <1>1 DEF Born
<1>3. /\ files[CommitmentFile(i)] = Whole(c) /\ status[i] # "none"
      /\ IsWhole(ShareFile(i)) /\ s.list = list /\ s.key = key /\ s.msg = m
  BY DEF OneRound, CommitmentFile, ShareFile, IsWhole
<1>4. list[k] = c
  OBVIOUS
<1> HIDE DEF c
<1>5. ShareFile(i) \in Name
  BY <1>2 DEF Name, ShareFile
<1>6. RoundsOf(i) /\ Shape
  BY <1>2 DEF CliInv
<1> HIDE DEF i
<1>7. Content(ShareFile(i), s)
  BY <1>3, <1>5, <1>6 DEF Shape, Files
<1>8. s \in issued /\ s.id = i
  BY <1>7 DEF Content, ShareFile
<1> HIDE DEF s
<1>9. s = ShareOf(s.id, s.nonce, s.key, s.msg, s.list)
  BY <1>6, <1>8 DEF Shape, ShareOK
<1>10. files[NoncesFile(i)].data = c /\ Answers(i, files[NoncesFile(i)].data)
  BY <1>3, <1>6, WholeData DEF RoundsOf, Settled
<1>11. s.nonce = c.nonce
  <2>1. s \in SharesOf(i)
    BY <1>8 DEF SharesOf
  <2>2. \E j \in DOMAIN s.list : s.list[j] = c
    BY <1>3, <1>4
  <2> QED
    BY <1>10, <2>1, <2>2 DEF Answers
<1>12. s = ShareOf(i, c.nonce, key, m, list)
  BY <1>3, <1>8, <1>9, <1>11
<1> QED
  BY <1>12 DEF s, i, c

\* If the share files of the listed signers were made for the list that is
\* still that of the commitment files, each from a commit that was not
\* interrupted, what aggregate makes of them verifies or is refused for
\* being too few.
THEOREM OneRoundVerifies == Spec => []RoundVerifies
<1>1. CliInv => RoundVerifies
  <2> SUFFICES ASSUME CliInv, IsWhole(Commitments)
               PROVE  RoundVerifies
    BY DEF RoundVerifies
  <2> DEFINE list == files[Commitments].data
  <2> DEFINE shares == [k \in DOMAIN list |-> files[<<"share", list[k].id>>].data]
  <2> SUFFICES ASSUME NEW key, NEW m, OneRound(list, key, m), Enough(key, shares)
               PROVE  Verifies(SignatureOf(key, m, list, shares))
    BY DEF RoundVerifies
  <2>1. list \in Seq(Born)
    <3>1. Commitments \in Name
      BY DEF Name
    <3>2. Content(Commitments, list)
      BY <3>1 DEF CliInv, Shape, Files
    <3> QED
      BY <3>2 DEF Content
  <2>2. Len(shares) = Len(list) /\ Len(list) >= key.min
    BY <2>1 DEF Enough
  <2>3. ASSUME NEW k \in DOMAIN list
        PROVE  shares[k] = ShareOf(list[k].id, list[k].nonce, key, m, list)
    <3> HIDE DEF list
    <3>1. shares[k] = files[ShareFile(list[k].id)].data
      BY DEF ShareFile
    <3> HIDE DEF shares
    <3> QED
      BY <2>1, <3>1, RoundAnswer
  <2> HIDE DEF list, shares
  <2>4. DOMAIN shares = DOMAIN list
    BY DEF shares
  <2> DEFINE sig == SignatureOf(key, m, list, shares)
  <2>5. sig.key = key /\ sig.msg = m /\ sig.list = list /\ sig.shares = shares
    BY DEF SignatureOf
  <2> HIDE DEF sig
  <2>6. \A k \in DOMAIN list : shares[k] \in ToSet(shares)
    BY <2>4 DEF ToSet
  <2>7. Verifies(sig)
    BY <2>2, <2>3, <2>5, <2>6 DEF Verifies
  <2> QED
    BY <2>7 DEF sig
<1> QED
  BY <1>1, CliInvHolds, PTL
=============================================================================
