--------------------------------- MODULE Cli ---------------------------------
(***************************************************************************)
(* The command line tool (cmd/frost/main.go): distributed signing through  *)
(* files in one directory.  Every command is a process of its own that     *)
(* reads some files, computes, and writes its output files one by one with *)
(* os.WriteFile, which first truncates and then writes.  Commands of       *)
(* several participants and of the coordinator overlap as their operators  *)
(* start them, and any of them may be killed between two steps.            *)
(*                                                                         *)
(* Abstractions.                                                           *)
(*  - All files have their default names; all commands name one            *)
(*    ciphersuite.  Hex and JSON carry a value over unless the file is     *)
(*    torn, and then json.Unmarshal refuses it.                            *)
(*  - A key is what one keygen wrote; a nonce (with its commitment) is the *)
(*    number of the RoundOne of its participant that drew it.              *)
(*  - A share records what RoundTwo computed it from.                      *)
(***************************************************************************)
EXTENDS Integers, FiniteSets, Sequences, SequencesExt

CONSTANTS
  Procs,        \* processes that may run at the same time
  Ids,          \* participants that take part
  GlobOrder,    \* Ids as filepath.Glob orders their file names
  Msgs,         \* messages
  KeygenArgs,   \* --min and --max of keygen
  SignerPairs,  \* --signers of the local sign command
  MaxRuns,      \* bound: commands started
  MaxOverlaps,  \* bound: commands started while another one runs
  MaxFaults     \* bound: commands killed, or failing to write

ASSUME CliAssumptions ==
  /\ Ids \subseteq Nat \ {0} /\ IsFiniteSet(Ids)
  /\ GlobOrder \in Seq(Ids) /\ ToSet(GlobOrder) = Ids
  /\ \A a \in KeygenArgs : a \in [min : Nat, max : Nat]
  /\ SignerPairs \subseteq Ids \X Ids
  /\ Msgs # {} /\ {MaxRuns, MaxOverlaps, MaxFaults} \subseteq Nat

VARIABLES
  files,    \* the directory
  procs,    \* the commands that run
  keygens,  \* keys generated so far
  drawn,    \* RoundOne calls per participant
  runs,     \* commands started so far
  overlaps, \* commands started while another one ran
  faults,   \* commands killed or failed so far
  issued,   \* history: every share any RoundTwo computed
  status,   \* history: how the participant's last commit and sign-share went
  careful   \* history: each sign-share followed a commit that went well

vars == <<files, procs, keygens, drawn, runs, overlaps, faults, issued, status,
          careful>>
history == <<issued, status, careful>>

-----------------------------------------------------------------------------
(* Files.                                                                  *)

Keys == <<"keys", 0>>
Commitments == <<"commitments", 0>>
Shares == <<"shares", 0>>
SignatureFile == <<"signature", 0>>
Name ==
  {Keys, Commitments, Shares, SignatureFile}
    \cup ({"commitment", "nonces", "share"} \X Ids)

Absent == [state |-> "absent"]
Torn == [state |-> "torn"]
Whole(x) == [state |-> "whole", data |-> x]

IsWhole(n) == files[n].state = "whole"

\* A key file has the number of its key, min and max; a commitment file and
\* a nonces file have the number of the nonces; a share file and a signature
\* file have what they were computed from.
CommitmentOf(i, nonce) == [id |-> i, nonce |-> nonce]

ShareOf(i, nonce, key, m, l) ==
  [id |-> i, nonce |-> nonce, key |-> key, msg |-> m, list |-> l]

SignatureOf(key, m, l, shares) ==
  [key |-> key, msg |-> m, list |-> l, shares |-> shares]

\* The set of the one sequence that lists S in ascending order.
Ascending(S) ==
  {s \in [1..Cardinality(S) -> S] : \A j, k \in DOMAIN s : j < k => s[j] < s[k]}

\* The set of the one list of the files of a kind, in the order of
\* filepath.Glob.
Glob(kind) ==
  {[j \in DOMAIN s |-> <<kind, GlobOrder[s[j]]>>] :
     s \in Ascending({k \in DOMAIN GlobOrder :
                        files[<<kind, GlobOrder[k]>>] # Absent})}

-----------------------------------------------------------------------------
(* Commands.                                                               *)

\* reads, got: the files still to be read, and what was in the others;
\* pc: "read" until there is an output, then "write" or, between the two
\* halves of os.WriteFile, "open"; writes: the files still to be written;
\* id: whose command this is, 0 for the coordinator's; alone: history, no
\* other command of the same participant ran at the same time.
Idle == [pc |-> "idle", id |-> 0]

Running(p) == procs[p].pc # "idle"

Start(cmd, id, arg, reads) ==
  [pc |-> "read", cmd |-> cmd, id |-> id, arg |-> arg, reads |-> reads,
   got |-> <<>>, writes |-> <<>>, alone |-> TRUE]

Write(n, x) == [name |-> n, data |-> x]

\* keygen refuses a threshold below two or above the number of participants,
\* and more participants than MinSigners and MaxSigners can hold.
MaxUint16 == 65535
ValidArgs(a) == a.min >= 2 /\ a.min <= a.max /\ a.max <= MaxUint16

\* What a first keygen, and a first round of all participants, leave behind.
FirstKey(a) == [key |-> 1, min |-> a.min, max |-> a.max]
FirstRound(ids, key, m) ==
  LET list == [k \in DOMAIN ids |-> CommitmentOf(ids[k], 1)]
      shares == [k \in DOMAIN ids |-> ShareOf(ids[k], 1, key, m, list)]
  IN  [n \in Name |-> Whole(
        CASE n = Keys -> key
          [] n[1] \in {"commitment", "nonces"} -> CommitmentOf(n[2], 1)
          [] n = Commitments -> list
          [] n[1] = "share" -> ShareOf(n[2], 1, key, m, list)
          [] n = Shares -> shares
          [] n = SignatureFile -> SignatureOf(key, m, list, shares))]

\* The directory is empty, or has keys, or what a round left.
Init ==
  /\ \E a \in KeygenArgs, m \in Msgs, ids \in Ascending(Ids) :
       /\ ValidArgs(a)
       /\ LET round == FirstRound(ids, FirstKey(a), m)
          IN  \/ /\ files = [n \in Name |-> Absent]
                 /\ keygens = 0
                 /\ drawn = [i \in Ids |-> 0]
                 /\ status = [i \in Ids |-> "none"]
                 /\ issued = {}
              \/ /\ files = [n \in Name |->
                              IF n = Keys THEN round[n] ELSE Absent]
                 /\ keygens = 1
                 /\ drawn = [i \in Ids |-> 0]
                 /\ status = [i \in Ids |-> "none"]
                 /\ issued = {}
              \/ /\ files = round
                 /\ keygens = 1
                 /\ drawn = [i \in Ids |-> 1]
                 /\ status = [i \in Ids |-> "signed"]
                 /\ issued = {round[<<"share", i>>].data : i \in Ids}
  /\ procs = [p \in Procs |-> Idle]
  /\ runs = 0
  /\ overlaps = 0
  /\ faults = 0
  /\ careful = [i \in Ids |-> TRUE]

\* A command starts; so that what happens to commands of one participant
\* that overlap is told apart, both are marked.
Begin(p, f) ==
  LET same == {q \in Procs : Running(q) /\ f.id # 0 /\ procs[q].id = f.id}
  IN  /\ ~Running(p)
      /\ runs < MaxRuns
      /\ runs' = runs + 1
      /\ \/ (\A q \in Procs : ~Running(q)) /\ UNCHANGED overlaps
         \/ /\ \E q \in Procs : Running(q)
            /\ overlaps < MaxOverlaps
            /\ overlaps' = overlaps + 1
      /\ procs' = [q \in Procs |->
           IF q = p THEN [f EXCEPT !.alone = (same = {})]
           ELSE IF q \in same THEN [procs[q] EXCEPT !.alone = FALSE]
           ELSE procs[q]]
      /\ UNCHANGED <<files, keygens, drawn, faults, issued>>

BeginKeygen(p, a) ==
  /\ Begin(p, Start("keygen", 0, a, <<>>))
  /\ UNCHANGED <<status, careful>>

BeginCommit(p, i) ==
  /\ Begin(p, Start("commit", i, i, <<Keys>>))
  /\ status' = [status EXCEPT ![i] = "none"]
  /\ UNCHANGED careful

\* Glob; without a match the command ends here.
BeginCollect(p, cmd, kind) ==
  /\ \E found \in Glob(kind) :
       found # <<>> /\ Begin(p, Start(cmd, 0, kind, found))
  /\ UNCHANGED <<status, careful>>

BeginSignShare(p, i, m) ==
  /\ Begin(p, Start("sign-share", i, m, <<Keys, <<"nonces", i>>, Commitments>>))
  /\ careful' = [careful EXCEPT ![i] = @ /\ status[i] = "committed"]
  /\ status' = [status EXCEPT ![i] = IF @ = "none" THEN @ ELSE "signed"]

BeginAggregate(p, m) ==
  /\ Begin(p, Start("aggregate", 0, m, <<Keys, Commitments, Shares>>))
  /\ UNCHANGED <<status, careful>>

\* fmt.Sscanf never fills the slice: the fallback takes two signers, in the
\* order given.
BeginSign(p, pair, m) ==
  /\ Begin(p, Start("sign", 0, <<pair, m>>, <<Keys>>))
  /\ UNCHANGED <<status, careful>>

\* os.Exit(1), or the end of the command.
Exit(p) == procs' = [procs EXCEPT ![p] = Idle]

\* os.ReadFile and json.Unmarshal of the next input.
Read(p) ==
  /\ Running(p) /\ procs[p].pc = "read" /\ procs[p].reads # <<>>
  /\ LET n == Head(procs[p].reads)
     IN  \/ /\ IsWhole(n)
            /\ procs' = [procs EXCEPT ![p].reads = Tail(@),
                                      ![p].got = Append(@, files[n].data)]
         \/ ~IsWhole(n) /\ Exit(p)
  /\ UNCHANGED <<files, keygens, drawn, runs, overlaps, faults, history>>

\* All inputs of a cmd command are there.
Ready(p, cmd) ==
  /\ Running(p) /\ procs[p].pc = "read"
  /\ procs[p].cmd = cmd /\ procs[p].reads = <<>>

\* The output files of p are known.
Emit(p, writes) ==
  procs' = [procs EXCEPT ![p].pc = "write", ![p].writes = writes]

-----------------------------------------------------------------------------
(* What the commands compute.                                              *)

Keygen(p) ==
  LET a == procs[p].arg
  IN  /\ Ready(p, "keygen")
      /\ \/ ~ValidArgs(a) /\ Exit(p) /\ UNCHANGED keygens
         \/ /\ ValidArgs(a)
            /\ keygens' = keygens + 1
            /\ Emit(p, <<Write(Keys, [key |-> keygens + 1, min |-> a.min,
                                      max |-> a.max])>>)
      /\ UNCHANGED <<files, drawn, runs, overlaps, faults, history>>

\* keyFile has a package for id.
HasPackage(keyFile, id) == id \in 1..keyFile.max

\* What commit writes, in this order: the commitment, then the nonces.
\* Mutant: nonces that exist are kept.
KeepOldNonces(c) ==
  IF files[<<"nonces", c.id>>] = Absent
    THEN <<Write(<<"commitment", c.id>>, c), Write(<<"nonces", c.id>>, c)>>
    ELSE <<Write(<<"commitment", c.id>>, c)>>
CommitFiles(c) ==
  <<Write(<<"commitment", c.id>>, c), Write(<<"nonces", c.id>>, c)>>

RoundOne(p) ==
  LET i == procs[p].id
  IN  /\ Ready(p, "commit")
      /\ \/ ~HasPackage(procs[p].got[1], i) /\ Exit(p) /\ UNCHANGED drawn
         \/ /\ HasPackage(procs[p].got[1], i)
            /\ drawn' = [drawn EXCEPT ![i] = @ + 1]
            /\ Emit(p, CommitFiles(CommitmentOf(i, drawn[i] + 1)))
      /\ UNCHANGED <<files, keygens, runs, overlaps, faults, history>>

\* collect-commitments and collect-shares put what they read in one file.
Collect(p) ==
  /\ \/ /\ Ready(p, "collect-commitments")
        /\ Emit(p, <<Write(Commitments, procs[p].got)>>)
     \/ /\ Ready(p, "collect-shares")
        /\ Emit(p, <<Write(Shares, procs[p].got)>>)
  /\ UNCHANGED <<files, keygens, drawn, runs, overlaps, faults, history>>

\* ValidateCommitmentList.
ValidList(l) ==
  l # <<>> /\ \A j, k \in DOMAIN l : j < k => l[j].id < l[k].id

\* RoundTwo refuses a list that is not valid or does not name its signer;
\* the key packages of a key file carry no MinSigners for it to compare with.
MaySign(i, l) == ValidList(l) /\ \E k \in DOMAIN l : l[k].id = i

\* sign-share zeroizes its copy of the nonces and leaves their file alone.
RoundTwo(p) ==
  LET i == procs[p].id
      key == procs[p].got[1]
      list == procs[p].got[3]
      s == ShareOf(i, procs[p].got[2].nonce, key, procs[p].arg, list)
      ok == HasPackage(key, i) /\ MaySign(i, list)
  IN  /\ Ready(p, "sign-share")
      /\ \/ ~ok /\ Exit(p) /\ UNCHANGED issued
         \/ /\ ok
            /\ issued' = issued \cup {s}
            /\ Emit(p, <<Write(<<"share", i>>, s)>>)
      /\ UNCHANGED <<files, keygens, drawn, runs, overlaps, faults, status,
                     careful>>

\* Aggregate counts the shares against the key file's threshold, and
\* verifies none.  Mutant: it does not count.
Uncounted(key, shares) == TRUE
Enough(key, shares) == Len(shares) >= key.min

Aggregate(p) ==
  LET key == procs[p].got[1]
      list == procs[p].got[2]
      shares == procs[p].got[3]
  IN  /\ Ready(p, "aggregate")
      /\ \/ ~(ValidList(list) /\ Enough(key, shares)) /\ Exit(p)
         \/ /\ ValidList(list) /\ Enough(key, shares)
            /\ Emit(p, <<Write(SignatureFile,
                          SignatureOf(key, procs[p].arg, list, shares))>>)
      /\ UNCHANGED <<files, keygens, drawn, runs, overlaps, faults, history>>

\* The local sign command runs both rounds of its two signers and aggregates.
SignLocally(p) ==
  LET pair == procs[p].arg[1]
      m == procs[p].arg[2]
      key == procs[p].got[1]
      n == [i \in ToSet(pair) |-> drawn[i] + 1]
      list == [k \in 1..2 |-> CommitmentOf(pair[k], n[pair[k]])]
      shares == [k \in 1..2 |-> ShareOf(pair[k], n[pair[k]], key, m, list)]
      known == \A k \in 1..2 : HasPackage(key, pair[k])
      signs == known /\ ValidList(list)
  IN  /\ Ready(p, "sign")
      /\ drawn' = IF known THEN [i \in Ids |-> IF i \in ToSet(pair)
                                                 THEN n[i] ELSE drawn[i]]
                           ELSE drawn
      /\ issued' = IF signs THEN issued \cup ToSet(shares) ELSE issued
      /\ \/ ~(signs /\ Enough(key, shares)) /\ Exit(p)
         \/ /\ signs /\ Enough(key, shares)
            /\ Emit(p, <<Write(SignatureFile, SignatureOf(key, m, list, shares))>>)
      /\ UNCHANGED <<files, keygens, runs, overlaps, faults, status, careful>>

-----------------------------------------------------------------------------
(* os.WriteFile.                                                           *)

\* The file is opened with O_TRUNC.
OpenFile(p) ==
  /\ Running(p) /\ procs[p].pc = "write"
  /\ files' = [files EXCEPT ![Head(procs[p].writes).name] = Torn]
  /\ procs' = [procs EXCEPT ![p].pc = "open"]
  /\ UNCHANGED <<keygens, drawn, runs, overlaps, faults, history>>

\* The data is written; after the last file the command ends.
WriteData(p) ==
  LET w == Head(procs[p].writes)
      last == Len(procs[p].writes) = 1
  IN  /\ Running(p) /\ procs[p].pc = "open"
      /\ files' = [files EXCEPT ![w.name] = Whole(w.data)]
      /\ \/ last /\ Exit(p)
         \/ /\ ~last
            /\ procs' = [procs EXCEPT ![p].pc = "write", ![p].writes = Tail(@)]
      /\ status' = IF last /\ procs[p].cmd = "commit" /\ procs[p].alone
                     THEN [status EXCEPT ![procs[p].id] = "committed"]
                     ELSE status
      /\ UNCHANGED <<keygens, drawn, runs, overlaps, faults, issued, careful>>

\* The command is killed, or cannot open or write its file.
Die(p) ==
  /\ Running(p)
  /\ faults < MaxFaults
  /\ faults' = faults + 1
  /\ Exit(p)
  /\ UNCHANGED <<files, keygens, drawn, runs, overlaps, history>>

-----------------------------------------------------------------------------
Run(p) ==
  \/ \E a \in KeygenArgs : BeginKeygen(p, a)
  \/ \E i \in Ids : BeginCommit(p, i)
  \/ BeginCollect(p, "collect-commitments", "commitment")
  \/ BeginCollect(p, "collect-shares", "share")
  \/ \E i \in Ids, m \in Msgs : BeginSignShare(p, i, m)
  \/ \E m \in Msgs : BeginAggregate(p, m)
  \/ \E pair \in SignerPairs, m \in Msgs : BeginSign(p, pair, m)

Step(p) ==
  \/ Read(p)
  \/ Keygen(p) \/ RoundOne(p) \/ Collect(p) \/ RoundTwo(p) \/ Aggregate(p)
  \/ SignLocally(p)
  \/ OpenFile(p) \/ WriteData(p)

Next == \E p \in Procs : Run(p) \/ Step(p) \/ Die(p)

Spec == Init /\ [][Next]_vars

-----------------------------------------------------------------------------
(* Properties.                                                             *)

\* The verify command: the shares are those of the list, each made from the
\* nonces the list commits to, for this list, message and key, and there are
\* enough of them to interpolate the group secret.
Verifies(sig) ==
  /\ Len(sig.list) >= sig.key.min
  /\ Len(sig.shares) = Len(sig.list)
  /\ \A k \in DOMAIN sig.list :
       ShareOf(sig.list[k].id, sig.list[k].nonce, sig.key, sig.msg, sig.list)
         \in ToSet(sig.shares)

\* The directory holds one round: the share files of the listed signers were
\* all made for the list in commitments.json, for one message and one key,
\* and the list is still that of the commitment files, each from a commit
\* that was not interrupted and during which no other command of its
\* participant ran.
OneRound(list, key, m) ==
  \A k \in DOMAIN list :
    LET i == list[k].id
        share == files[<<"share", i>>]
    IN  /\ files[<<"commitment", i>>] = Whole(list[k])
        /\ status[i] # "none"
        /\ share.state = "whole"
        /\ share.data.list = list /\ share.data.key = key /\ share.data.msg = m

\* What aggregate makes of the shares of one round verifies, or it refuses
\* them for being too few, whatever happened in the directory before,
\* whatever the commands of the coordinator and of other participants
\* overlapped with, and wherever commands were killed and started again:
\* commitment and nonces are two files, written one after the other and read
\* at different times, and nothing in them says which belong together.
RoundVerifies ==
  IsWhole(Commitments) =>
    LET list == files[Commitments].data
        shares == [k \in DOMAIN list |-> files[<<"share", list[k].id>>].data]
    IN  \A key \in {s.key : s \in issued}, m \in Msgs :
          OneRound(list, key, m) /\ Enough(key, shares) =>
            Verifies(SignatureOf(key, m, list, shares))

NonceUsedOnceBy(i) ==
  \A s, t \in issued : s.id = i /\ t.id = i /\ s.nonce = t.nonce => s = t

\* A participant that starts each sign-share after a commit of its own that
\* ended well, with no other command of its own in between, never uses a
\* nonce for two shares, although the file with its nonces stays.
WorkflowUsesNonceOnce == \A i \in Ids : careful[i] => NonceUsedOnceBy(i)
=============================================================================
