------------------------------ MODULE ProofChain ------------------------------
(***************************************************************************)
(* What the proving pipeline promises a space (get_next_proving_request in *)
(* core.rs): each commitment after the first gets a step proof, and each   *)
(* after the second one fold that carries the proof of all before it.      *)
(* LocalSpace knows the handlers that make and withdraw commitments and    *)
(* takes a receipt for one step; Proving knows how a receipt comes about   *)
(* and takes those handlers for one or two.  Both are this chain of proofs.*)
(***************************************************************************)
EXTENDS Naturals, SequencesExt

VARIABLE chain   \* per commitment, in idx order: its proofs, and its broadcast

Entry == [step: BOOLEAN, agg: BOOLEAN, sent: BOOLEAN]
New == [step |-> FALSE, agg |-> FALSE, sent |-> FALSE]

\* Everything before the i-th is proved.
StepsBefore(i) == \A k \in 2..(i - 1) : chain[k].step
FoldsBefore(i) == \A k \in 3..(i - 1) : chain[k].agg

ChainInit == chain = <<>>

Commit == chain' = Append(chain, New)

\* Only the newest goes, with its proofs, and never once it was sent.
Withdraw ==
    /\ chain # <<>> /\ ~Last(chain).sent
    /\ chain' = Front(chain)

ProveStep(i) ==
    /\ i >= 2 /\ ~chain[i].step
    /\ StepsBefore(i)
    /\ chain' = [chain EXCEPT ![i].step = TRUE]

ProveFold(i) ==
    /\ i >= 3 /\ ~chain[i].agg
    /\ StepsBefore(i) /\ chain[i].step /\ FoldsBefore(i)
    /\ chain' = [chain EXCEPT ![i].agg = TRUE]

Send(i) == ~chain[i].sent /\ chain' = [chain EXCEPT ![i].sent = TRUE]

ChainNext ==
    \/ Commit \/ Withdraw
    \/ \E i \in DOMAIN chain : ProveStep(i) \/ ProveFold(i) \/ Send(i)

ChainSpec == ChainInit /\ [][ChainNext]_chain
=============================================================================
