----------------------------- MODULE NonceLedger -----------------------------
(***************************************************************************)
(* The abstract specification of a keeper of FROST signing nonces: what    *)
(* RFC 9591 and docs/api/reference.md ("Secret nonces generated by a       *)
(* participant during round one. Must never be reused.") ask of every      *)
(* component that stores nonces between round one and round two.           *)
(*                                                                         *)
(* A nonce (the hiding/binding pair of one RoundOne) is numbered by its    *)
(* birth.  It is live from its generation until it is either spent on      *)
(* exactly one signature share or lost unused.                             *)
(***************************************************************************)
EXTENDS Naturals

VARIABLES
  born,     \* how many nonces have been generated
  live,     \* nonces a later round two may still use
  shares    \* every signature share computed, each with the field nonce

ledgerVars == <<born, live, shares>>

LedgerInit == born = 0 /\ live = {} /\ shares = {}

\* Round one, once or several times in advance: new nonces enter, and may
\* push older ones out.
Generate ==
  \E lost \in SUBSET live :
    /\ born' \in Nat /\ born' > born
    /\ live' = (live \ lost) \cup (born + 1 .. born')
    /\ UNCHANGED shares

\* Nonces are dropped unused (a reset, an overwritten entry, a failed round).
Lose ==
  \E lost \in SUBSET live :
    /\ live' = live \ lost
    /\ UNCHANGED <<born, shares>>

\* Round two: one share is computed and its nonce is gone in the same step.
Spend ==
  \E n \in live :
    /\ live' = live \ {n}
    /\ shares \subseteq shares'
    /\ \A s, t \in shares' \ shares : s = t /\ s.nonce = n
    /\ UNCHANGED born

LedgerNext == Generate \/ Lose \/ Spend

LedgerSpec == LedgerInit /\ [][LedgerNext]_ledgerVars
=============================================================================
