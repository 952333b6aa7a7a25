---------------------------- MODULE LocalSpaceProps ----------------------------
(***************************************************************************)
(* What LocalSpace must keep, and how it implements HandleLedger.  Which   *)
(* of these hold depends on how much runs at once and on what may fail:    *)
(* the runs say under which discipline each one is checked.                *)
(***************************************************************************)
EXTENDS Pipeline

\* Every variable has its type; the chain only shows roots the wallet sent.
TypeOK ==
    /\ loaded \in BOOLEAN
    /\ handles \in [Handles -> Row]
    /\ commitments \in Seq(Commitment)
    /\ nextId \in Nat
    /\ snaps \in Seq(Tree)
    /\ sent \subseteq Tree /\ confirmed \subseteq sent
    /\ onchain \in confirmed \cup {NoRoot}
    /\ final \in BOOLEAN
    /\ pc \in [Procs -> PCs]
    /\ req \in [Procs -> Request]
    /\ crashes \in 0..MaxCrashes /\ aborts \in 0..MaxAborts
-----------------------------------------------------------------------------
\* The commitments, seen as the promised list of roots.
Ledger == INSTANCE HandleLedger WITH
    ledger <- [i \in DOMAIN commitments |->
                 [root |-> commitments[i].root, sealed |-> commitments[i].txid]]

\* The space is served and no operator request is in the middle of its steps.
Quiet == loaded /\ \A p \in Operators : pc[p] = "idle"

\* Between requests the newest commitment names the tree on disk: what is
\* proved and broadcast next is what certificates will be cut from.
TreeIsLastRoot ==
    Quiet /\ commitments # <<>> => Last(commitments).root = CurrentTree

\* What was broadcast is served: between requests the tree on disk, from which
\* a certificate is cut, binds each handle as every broadcast root does, so an
\* owner is never shown a key other than the one on chain.
BroadcastIsServed ==
    Quiet => \A i \in DOMAIN commitments, h \in Handles :
        commitments[i].txid /\ commitments[i].root[h] # NoSpk =>
            CurrentTree[h] = commitments[i].root[h]

\* Each commitment continues the one before it, so the step and fold proofs
\* of get_next_proving_request compose (commit, rollback_local).
PrevRootChain ==
    \A i \in DOMAIN commitments :
        commitments[i].prev = IF i = 1 THEN NoRoot ELSE commitments[i - 1].root

\* A handle shown as committed is provable: its row names an existing
\* commitment, and that commitment's tree binds the handle to the row's key
\* (commit_staged_handles against the batch that went into the tree).
CommittedRowsProvable ==
    \A h \in Handles : handles[h].root # NoRoot =>
        \E i \in DOMAIN commitments :
            /\ i = handles[h].idx + 1
            /\ commitments[i].root = handles[h].root
            /\ commitments[i].root[h] = handles[h].spk

\* While nothing has failed, table and tree agree between requests: a handle
\* is in the tree exactly when its row is committed, and with the row's key.
\* In particular every staged handle can still be committed (guest::run
\* refuses a batch that holds a handle of the tree).
TreeMatchesTable ==
    Quiet /\ crashes = 0 /\ aborts = 0 =>
        \A h \in Handles :
            CurrentTree[h] = IF handles[h].root # NoRoot THEN handles[h].spk ELSE NoSpk

\* Whatever runs at once, the root of a later commitment adds handles to the
\* root it was validated against and changes none (CommitValidate's exclusion
\* check against the row inserted two awaits later).
ExtendsPrev ==
    \A i \in DOMAIN commitments :
        commitments[i].prev # NoRoot =>
            Ledger!Grows(commitments[i].prev, commitments[i].root)

\* A recorded txid is the txid of this root: nothing is marked broadcast that
\* the wallet never sent (commit, bump_commit).
TxidWasSent ==
    \A i \in DOMAIN commitments : commitments[i].txid => commitments[i].root \in sent

\* What the pipeline view offers is what the handlers accept, and the other
\* way round, though each side has its own rules: "broadcast" is offered when
\* commit takes it; a new commitment is offered, proofs permitting, exactly
\* when commit_local takes it (the first one, not broadcast yet, may have a
\* successor that is not offered); the count of missing proofs is zero when
\* there is none to run, the proof named is one of the total, and the chain
\* is waited for exactly while the commitment's status says so; no row is
\* counted as committed while there is no commitment.
PipelineAgrees ==
    /\ (PendingProofs = 0) = (NextProof = "none")
    /\ ProofIndex <= ProofTotal
    /\ commitments = <<>> =>
         CommittedCount = 0 /\ TotalHandles = Cardinality({h \in Handles : Exists(h)})
    /\ \A marked \in BOOLEAN :
         LET current == Current(marked)
         IN /\ current = "broadcast" => MayBroadcast
            /\ (current \in {"confirmed", "finalized"}) =
                 (CommitStatus \in {"pending", "confirmed"})
            /\ IF HasPending(marked)
               THEN Len(commitments) > 1 => ~CanCommitLocal
               ELSE ~StagedCount0 /\ StepState(marked, "proving") # "in_progress"
                      => CanCommitLocal

\* A commitment with a txid is never deleted, moved or rewritten, by a
\* rollback that started before the broadcast, by a cleanup, or by a fault.
BroadcastKeptStep ==
    \A i \in DOMAIN commitments : commitments[i].txid =>
        /\ i \in DOMAIN commitments'
        /\ commitments'[i].id = commitments[i].id
        /\ commitments'[i].prev = commitments[i].prev
        /\ commitments'[i].root = commitments[i].root
        /\ commitments'[i].txid
BroadcastKept == [][BroadcastKeptStep]_vars

\* The commitments, seen as what is proved of them.
Link(c) == [step |-> c.step, agg |-> c.agg, sent |-> c.txid]
Links   == [i \in DOMAIN commitments |-> Link(commitments[i])]
Chain   == INSTANCE ProofChain WITH chain <- Links

\* Whatever commits, rollbacks, broadcasts, bumps, crashes and clean-ups do to
\* the table, proofs stay where they were put and come in order, and only the
\* newest commitment goes, unsent (rollback_last_commitment).
ImplementsChain == Chain!ChainSpec

\* The commitments are the ledger the README promises: append-only, growing,
\* first script pubkey wins, withdrawn only while unsealed.
ImplementsLedger == Ledger!LedgerSpec
-----------------------------------------------------------------------------
(* What the repository says of the program, and the runs refute.           *)

\* core.rs on rollback_local: "startup consistency check will finish cleanup
\* if we crash between spacedb rollback and SQLite cleanup".
CrashedRollbackIsFinished == Quiet => ~Orphaned

\* storage.rs on rollback_last_commitment: "Fails if the commitment has
\* already been broadcast."  What was sent is still a local commitment.
SentIsKnown == \A r \in sent : Known(r)

\* storage.rs on set_parked: "Park or unpark staged handles. [...] Otherwise
\* uses search/filter to match handles in bulk."  A request that parks one
\* handle does not unpark another.
ParkNeverUnparks ==
    [][\A g, h \in Handles :
         ~ /\ ~handles[g].parked /\ handles'[g].parked
           /\ handles[h].parked /\ Exists(h)' /\ ~handles'[h].parked]_vars
=============================================================================
