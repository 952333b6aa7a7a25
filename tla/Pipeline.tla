------------------------------- MODULE Pipeline -------------------------------
(***************************************************************************)
(* The pipeline view of core/src/app.rs and subs/src/routes/commits.rs:    *)
(* what the operator's pages offer to do next, computed from the last      *)
(* commitment, the proofs and the chain.  The handlers it leads to decide  *)
(* again, by rules written a second time (LocalSpace).                     *)
(*                                                                         *)
(* published_at is not kept by LocalSpace: it is the parameter marked.     *)
(***************************************************************************)
EXTENDS LocalSpace

Steps == {"local", "proving", "broadcast", "confirmed", "finalized", "published"}

\* get_next_proving_request: a step for every commitment but the first, a
\* fold for every one after the second.
StepsMissing == {i \in DOMAIN commitments : i >= 2 /\ ~commitments[i].step}
FoldsMissing == {i \in DOMAIN commitments : i >= 3 /\ ~commitments[i].agg}
NextProof == IF StepsMissing # {} THEN "step"
             ELSE IF FoldsMissing # {} THEN "fold" ELSE "none"

\* count_pending_proofs
PendingProofs == Cardinality(StepsMissing) + Cardinality(FoldsMissing)

\* SpaceStatus, its counts taken at one moment (the code takes the lock for
\* each of them).
StagedCount    == Cardinality({h \in Handles : Eligible(h)})
ParkedCount    == Cardinality({h \in Handles : IsStaged(h) /\ handles[h].parked})
CommittedCount == Cardinality({h \in Handles : Exists(h) /\ handles[h].root # NoRoot})
TotalHandles   == StagedCount + CommittedCount + ParkedCount

\* Mutant: only the last commitment's step is asked for.
ProvenStepOnly == Len(commitments) < 2 \/ Last(commitments).step

\* has_proof; the first commitment skips proving.
Proven == Len(commitments) < 2 \/ NextProof = "none"

OnChain == commitments # <<>> /\ onchain = Last(commitments).root

\* current_step
Current(marked) ==
    IF commitments = <<>> THEN "none"
    ELSE IF ~Last(commitments).txid THEN (IF Proven THEN "broadcast" ELSE "proving")
    ELSE IF ~OnChain THEN "confirmed"
    ELSE IF ~final THEN "finalized"
    ELSE IF ~marked THEN "published" ELSE "none"

\* get_commit_status
CommitStatus ==
    IF commitments = <<>> \/ ~Last(commitments).txid THEN "none"
    ELSE IF ~OnChain THEN "pending"
    ELSE IF final THEN "finalized" ELSE "confirmed"

\* The steps before the current one are complete; a missing fold leaves
\* proving in progress whatever the current step is.
Order == <<"local", "proving", "broadcast", "confirmed", "finalized", "published">>
Place(step) == CHOOSE k \in DOMAIN Order : Order[k] = step

StepState(marked, step) ==
    IF commitments = <<>> THEN "pending"
    ELSE IF step = "proving"
         THEN IF Len(commitments) = 1 THEN "skipped"
              ELSE IF Proven THEN "complete" ELSE "in_progress"
    ELSE IF Current(marked) = "none" THEN "complete"
    ELSE IF Place(step) < Place(Current(marked)) THEN "complete"
    ELSE IF step = Current(marked) THEN "in_progress" ELSE "pending"

\* Publishing does not block the next commitment.
HasPending(marked) ==
    commitments # <<>> /\ Current(marked) \notin {"none", "published"}

\* "Proof 1 of 2": the route's proof_index and proof_total.
ProofTotal == IF Len(commitments) >= 3 THEN 2 ELSE 1
ProofIndex == IF NextProof = "fold" THEN 2 ELSE 1
=============================================================================
