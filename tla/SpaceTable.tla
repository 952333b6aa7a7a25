------------------------------ MODULE SpaceTable ------------------------------
(***************************************************************************)
(* One space as the registry loop and the publishing code meet it: rows of *)
(* handles, commitments and the on-chain tip, with the operator's handlers *)
(* (app.rs) taken whole.  LocalSpace has their inner steps; a request here *)
(* is one that ran to its end, so a handle is in the tree of a commitment  *)
(* exactly when its row names that commitment or an earlier one.           *)
(*                                                                         *)
(* Commitments are numbered from 1 here, 0 is SQL NULL: row.idx is         *)
(* commitment_idx + 1, and the tip is the number of the commitment whose   *)
(* root the chain shows, 0 when it shows none.                             *)
(***************************************************************************)
EXTENDS Naturals, SequencesExt

CONSTANTS
    Handles,   \* subspace labels
    BadNames,  \* strings that users register and that are no name@space
    Spks,      \* script pubkeys
    NoSpk,     \* "no row", not a script pubkey
    Loop,      \* the registry loop of subs/src/background.rs
    Users,     \* requests of the operator that take several steps
    Budgets    \* bounds, see left: a behaviour has one of these

Tasks == Users \cup {Loop}

Names == Handles \cup BadNames

\* Commitments that may be made, multi-step requests of the operator,
\* registrations, faults; the names and keys that are asked for; and whether
\* a relay client (fabric) is configured.
Budget == [commits: Nat, requests: Nat, regs: Nat, faults: Nat,
           names: SUBSET Names, spks: SUBSET Spks, relay: BOOLEAN]

ASSUME TableAssumption ==
    /\ IsFiniteSet(Handles) /\ BadNames \cap Handles = {}
    /\ NoSpk \notin Spks /\ Loop \notin Users
    /\ Budgets \subseteq Budget

VARIABLES
    rows, commits, nextId,   \* the two tables, the next commitments.id
    tip,                     \* rpc.get_commitment(space, None)
    left                     \* what is left of the budget, and the configuration

table == <<rows, commits, nextId>>
-----------------------------------------------------------------------------
\* pub is publish_status, at is published_temp_at_tip.
Row == [spk: Spks \cup {NoSpk}, idx: Nat, pub: {"no", "temp", "final"}, at: Nat]
NoRow == [spk |-> NoSpk, idx |-> 0, pub |-> "no", at |-> 0]
Staged(s) == [NoRow EXCEPT !.spk = s]

\* proofs: how many of step_receipt_id and aggregate_receipt_id are set, in
\* this order; sent, marked: commit_txid and published_at are not NULL.
Commit == [id: Nat, proofs: 0..2, sent: BOOLEAN, marked: BOOLEAN]

TableType ==
    /\ rows \in [Handles -> Row]
    /\ commits \in Seq(Commit)
    /\ nextId \in Nat
    /\ tip \in 0..Len(commits)
    /\ left \in Budget

TableInit ==
    /\ rows = [h \in Handles |-> NoRow]
    /\ commits = <<>>
    /\ nextId = 1
    /\ tip = 0
    /\ left \in Budgets

Spend(what) == left[what] > 0 /\ left' = [left EXCEPT ![what] = @ - 1]

Exists(h)    == rows[h].spk # NoSpk
IsStaged(h)  == Exists(h) /\ rows[h].idx = 0
Newest       == Len(commits)
\* lookup_handle_in_tree: the handle is in the tree of commitment t.
InTree(h, t) == rows[h].idx \in 1..t

Stage(h, s) == rows' = [rows EXCEPT ![h] = Staged(s)]

\* The first commitment needs no proof, the second a step, others a fold too.
Needs(i) == IF i = 1 THEN 0 ELSE IF i = 2 THEN 1 ELSE 2
-----------------------------------------------------------------------------
\* Mutant: the name tree is not asked.
AddRequestOver ==
    /\ \E h \in Handles \cap left.names, s \in left.spks : ~IsStaged(h) /\ Stage(h, s)
    /\ UNCHANGED <<commits, nextId, tip, left>>

\* POST /requests for one handle; a handle in the tree or staged is skipped.
AddRequest ==
    /\ \E h \in Handles \cap left.names, s \in left.spks : ~Exists(h) /\ Stage(h, s)
    /\ UNCHANGED <<commits, nextId, tip, left>>

\* By name list, or all of them.
RemoveStaged ==
    /\ \E S \in (SUBSET {h \in Handles : IsStaged(h)}) \ {{}} :
         rows' = [h \in Handles |-> IF h \in S THEN NoRow ELSE rows[h]]
    /\ UNCHANGED <<commits, nextId, tip, left>>

\* The newest commitment is proved, and either 150 blocks deep (how deep the
\* tip is, the chain decides) or the first one and never broadcast.
CanCommitLocal ==
    Newest > 0 =>
        /\ commits[Newest].proofs = Needs(Newest)
        /\ IF commits[Newest].sent THEN tip = Newest ELSE Newest = 1

\* The rows that are not parked become the next commitment.
CommitLocal ==
    /\ Spend("commits")
    /\ CanCommitLocal
    /\ \E S \in (SUBSET {h \in Handles : IsStaged(h)}) \ {{}} :
         rows' = [h \in Handles |-> IF h \in S THEN [rows[h] EXCEPT !.idx = Newest + 1]
                                               ELSE rows[h]]
    /\ commits' = Append(commits, [id |-> nextId, proofs |-> 0,
                                   sent |-> FALSE, marked |-> FALSE])
    /\ nextId' = nextId + 1
    /\ UNCHANGED tip

\* Mutant: a broadcast commitment is rolled back too.
RollbackAny ==
    /\ Newest > 0
    /\ rows' = [h \in Handles |-> IF rows[h].idx = Newest
                                  THEN [rows[h] EXCEPT !.idx = 0] ELSE rows[h]]
    /\ commits' = Front(commits)
    /\ UNCHANGED <<nextId, tip, left>>

\* The rows are staged again and keep their publish status.
RollbackLocal ==
    /\ Newest > 0 /\ ~commits[Newest].sent
    /\ rows' = [h \in Handles |-> IF rows[h].idx = Newest
                                  THEN [rows[h] EXCEPT !.idx = 0] ELSE rows[h]]
    /\ commits' = Front(commits)
    /\ UNCHANGED <<nextId, tip, left>>

\* fulfill_request: steps first, folds when every step is there.
SaveReceipt ==
    /\ \E i \in DOMAIN commits :
         /\ commits[i].proofs < Needs(i)
         /\ commits[i].proofs = 1 => \A j \in 2..i : commits[j].proofs >= 1
         /\ commits' = [commits EXCEPT ![i].proofs = @ + 1]
    /\ UNCHANGED <<rows, nextId, tip, left>>

\* Operator::commit asks for the step proof only, not for the fold.
Broadcast ==
    /\ Newest > 0 /\ ~commits[Newest].sent
    /\ Newest > 1 => commits[Newest].proofs >= 1
    /\ commits' = [commits EXCEPT ![Newest].sent = TRUE]
    /\ UNCHANGED <<rows, nextId, tip, left>>

\* The chain (external): the broadcast root becomes the current one.
Confirm ==
    /\ Newest > 0 /\ commits[Newest].sent /\ tip # Newest
    /\ tip' = Newest
    /\ UNCHANGED <<table, left>>

TableNext ==
    \/ AddRequest \/ RemoveStaged \/ CommitLocal \/ RollbackLocal
    \/ SaveReceipt \/ Broadcast \/ Confirm
=============================================================================
