----------------------------- MODULE HandleLedger -----------------------------
(***************************************************************************)
(* What a space promises to the owners of its handles (README.md, "How it  *)
(* works"): a list of roots, each binding every handle the root before it  *)
(* binds, to the same script pubkey, and at least one handle more.  The    *)
(* last root may be withdrawn until it is sealed by its transaction; what  *)
(* is sealed stays.                                                        *)
(***************************************************************************)
EXTENDS Naturals, SequencesExt

CONSTANTS Handles, Spks, NoSpk

VARIABLE ledger

LedgerTree == [Handles -> Spks \cup {NoSpk}]

\* new binds what old binds, and more.
Grows(old, new) ==
    /\ \A h \in Handles : old[h] # NoSpk => new[h] = old[h]
    /\ new # old

LedgerInit == ledger = <<>>

Extend ==
    \E tree \in LedgerTree :
        /\ ledger # <<>> => Grows(Last(ledger).root, tree)
        /\ ledger' = Append(ledger, [root |-> tree, sealed |-> FALSE])

Withdraw ==
    /\ ledger # <<>>
    /\ ~Last(ledger).sealed
    /\ ledger' = Front(ledger)

Seal ==
    /\ ledger # <<>>
    /\ ledger' = [ledger EXCEPT ![Len(ledger)].sealed = TRUE]

LedgerNext == Extend \/ Withdraw \/ Seal

LedgerSpec == LedgerInit /\ [][LedgerNext]_ledger
=============================================================================
