------------------------------ MODULE LocalSpace ------------------------------
(***************************************************************************)
(* One space of the operator: the SQLite file (handles, commitments) and   *)
(* the spacedb name tree of core/src/core.rs and core/src/storage.rs, as   *)
(* the handlers of core/src/app.rs drive them.                             *)
(*                                                                         *)
(* Every storage method takes the one SQLite connection's mutex and every  *)
(* tree access the one Database mutex, so a step of this module is one     *)
(* critical section; between two of them a handler awaits, and any other   *)
(* handler may run, the process may die, or the handler's own future may   *)
(* be dropped (client gone, I/O error).  No lock spans a whole handler.    *)
(*                                                                         *)
(* A Merkle root stands for the content it hashes: roots ARE trees here,   *)
(* so two roots are equal exactly when the name trees are.                 *)
(***************************************************************************)
EXTENDS Naturals, SequencesExt

CONSTANTS
    Handles,       \* subspace labels
    Spks,          \* script pubkeys
    NoSpk,         \* "no entry", not a script pubkey
    NoRoot,        \* SQL NULL in a root column, not a tree
    Operators,     \* concurrent requests of the operator (UI, API)
    Parkers,       \* those of them that park and unpark
    Stagers,       \* concurrent requests that only stage (registry loop)
    BootLoadsAll,  \* subs/src/main.rs boots through load_all_spaces
    MaxId,         \* bound: commitment rows ever inserted
    MaxCrashes,    \* bound: process deaths
    MaxAborts      \* bound: handlers cut short while the process lives

ASSUME SentinelsAreFresh ==
    /\ NoSpk \notin Spks
    /\ NoRoot \notin [Handles -> Spks \cup {NoSpk}]

ASSUME ParkersOperate == Parkers \subseteq Operators

ASSUME BoundsAreNatural ==
    /\ MaxId \in Nat /\ MaxCrashes \in Nat /\ MaxAborts \in Nat
    /\ BootLoadsAll \in BOOLEAN

VARIABLES
    loaded,       \* the space is in Operator.spaces
    handles,      \* table handles; spk = NoSpk is "no row"
    commitments,  \* table commitments in idx order: idx = position - 1
    nextId,       \* AUTOINCREMENT of commitments.id
    snaps,        \* spacedb snapshots, oldest first
    sent,         \* roots the wallet has put in a transaction
    confirmed,    \* those of them that reached the chain
    onchain,      \* rpc.get_commitment(space, None): the current root
    final,        \* ... with at least 150 confirmations
    pc, req,      \* per request: where it is, and its locals
    crashes, aborts

tables  == <<handles, commitments, nextId>>
chain   == <<sent, confirmed, onchain, final>>
faults  == <<crashes, aborts>>
vars    == <<loaded, tables, snaps, chain, pc, req, faults>>
-----------------------------------------------------------------------------
Procs == Operators \cup Stagers
Tree  == [Handles -> Spks \cup {NoSpk}]
EmptyTree == [h \in Handles |-> NoSpk]

Row == [spk: Spks \cup {NoSpk}, root: Tree \cup {NoRoot}, idx: Nat,
        parked: BOOLEAN]
NoRow == [spk |-> NoSpk, root |-> NoRoot, idx |-> 0, parked |-> FALSE]

\* step, agg, txid: the column is not NULL.
Commitment == [id: Nat, prev: Tree \cup {NoRoot}, root: Tree,
               step: BOOLEAN, agg: BOOLEAN, txid: BOOLEAN]

PCs == {"idle",
        "add_tree", "add_staged", "add_insert",
        "cm_check", "cm_list", "cm_input", "cm_validate", "cm_row", "cm_tree",
        "cm_tree0", "cm_row0", "cm_mark",
        "rb_tree", "rb_unstage", "rb_delete",
        "bc_last", "bc_send", "bc_txid", "bp_store"}

Request == [h: Handles \cup {NoRoot}, spk: Spks \cup {NoSpk}, batch: Tree,
            base: Tree \cup {NoRoot}, root: Tree \cup {NoRoot}, idx: Nat,
            id: Nat]
NoRequest == [h |-> NoRoot, spk |-> NoSpk, batch |-> EmptyTree,
              base |-> NoRoot, root |-> NoRoot, idx |-> 0, id |-> 0]

\* The tree with a batch inserted over it (tx.insert is an upsert).
Overlay(tree, batch) ==
    [h \in Handles |-> IF batch[h] # NoSpk THEN batch[h] ELSE tree[h]]

\* guest::run accepts the exclusion proof: no handle of the batch is in tree.
Excludes(tree, batch) ==
    \A h \in Handles : batch[h] # NoSpk => tree[h] = NoSpk

\* begin_read(): the newest snapshot, the empty tree before the first.
CurrentTree == IF snaps = <<>> THEN EmptyTree ELSE Last(snaps)

Exists(h)    == handles[h].spk # NoSpk
IsStaged(h)  == Exists(h) /\ handles[h].root = NoRoot
Eligible(h)  == IsStaged(h) /\ ~handles[h].parked
StagedBatch  == [h \in Handles |-> IF Eligible(h) THEN handles[h].spk ELSE NoSpk]
StagedCount0 == \A h \in Handles : ~Eligible(h)

Known(root) == \E i \in DOMAIN commitments : commitments[i].root = root

\* check_commitment_health / require_healthy.
Healthy == onchain = NoRoot \/ Known(onchain)

\* rollback_last_commitment runs two statements under one lock: between them
\* nobody else reaches SQLite.
SqliteFree == \A p \in Procs : pc[p] # "rb_delete"

Goto(p, label)        == pc' = [pc EXCEPT ![p] = label]
With(p, label, local) == Goto(p, label) /\ req' = [req EXCEPT ![p] = local]
Done(p)               == With(p, "idle", NoRequest)
Starts(p)             == loaded /\ pc[p] = "idle"
-----------------------------------------------------------------------------
(***************************************************************************)
(* add_requests -> add_request: look in the tree, look in the table, then  *)
(* INSERT OR REPLACE, each in a critical section of its own.               *)
(***************************************************************************)
AddBegin(p) ==
    /\ Starts(p)
    /\ Healthy
    /\ \E h \in Handles, s \in Spks :
         With(p, "add_tree", [NoRequest EXCEPT !.h = h, !.spk = s])
    /\ UNCHANGED <<loaded, tables, snaps, chain, faults>>

\* Mutant: the name tree is not asked.
AddSkipTree(p) ==
    /\ pc[p] = "add_tree"
    /\ With(p, "add_staged", req[p])
    /\ UNCHANGED <<loaded, tables, snaps, chain, faults>>

AddCheckTree(p) ==
    /\ pc[p] = "add_tree"
    /\ \/ CurrentTree[req[p].h] # NoSpk /\ Done(p)
       \/ CurrentTree[req[p].h] = NoSpk /\ With(p, "add_staged", req[p])
    /\ UNCHANGED <<loaded, tables, snaps, chain, faults>>

AddCheckStaged(p) ==
    /\ pc[p] = "add_staged"
    /\ SqliteFree
    /\ \/ IsStaged(req[p].h) /\ Done(p)
       \/ ~IsStaged(req[p].h) /\ With(p, "add_insert", req[p])
    /\ UNCHANGED <<loaded, tables, snaps, chain, faults>>

AddInsert(p) ==
    /\ pc[p] = "add_insert"
    /\ SqliteFree
    /\ handles' = [handles EXCEPT ![req[p].h] = [NoRow EXCEPT !.spk = req[p].spk]]
    /\ Done(p)
    /\ UNCHANGED <<loaded, commitments, nextId, snaps, chain, faults>>
-----------------------------------------------------------------------------
(***************************************************************************)
(* set_parked and remove_staged_handles: one critical section each.        *)
(***************************************************************************)
\* By name list, or all staged rows when names, search and filter are empty.
SetParked(p) ==
    /\ Starts(p)
    /\ SqliteFree
    /\ \E S \in (SUBSET Handles) \ {{}}, b \in BOOLEAN :
         handles' = [h \in Handles |-> IF h \in S /\ IsStaged(h)
                                       THEN [handles[h] EXCEPT !.parked = b]
                                       ELSE handles[h]]
    /\ UNCHANGED <<loaded, commitments, nextId, snaps, chain, pc, req, faults>>

\* By search/filter: the statement becomes
\*   UPDATE handles SET parked = ? AND <filter> AND commitment_root IS NULL
\* with no WHERE, which writes a truth value into EVERY row.
SetParkedFiltered(p) ==
    /\ Starts(p)
    /\ SqliteFree
    /\ \E S \in SUBSET Handles, b \in BOOLEAN :
         handles' = [h \in Handles |->
                       IF Exists(h)
                       THEN [handles[h] EXCEPT !.parked = b /\ h \in S /\ IsStaged(h)]
                       ELSE handles[h]]
    /\ UNCHANGED <<loaded, commitments, nextId, snaps, chain, pc, req, faults>>

\* By name list or all staged; with a search/filter the statement does not
\* parse and the handler fails without a change.
RemoveStaged(p) ==
    /\ Starts(p)
    /\ SqliteFree
    /\ \E S \in (SUBSET Handles) \ {{}} :
         handles' = [h \in Handles |-> IF h \in S /\ IsStaged(h)
                                       THEN NoRow ELSE handles[h]]
    /\ UNCHANGED <<loaded, commitments, nextId, snaps, chain, pc, req, faults>>
-----------------------------------------------------------------------------
(***************************************************************************)
(* commit_local -> LocalSpace::commit.                                     *)
(***************************************************************************)
CommitBegin(p) ==
    /\ Starts(p)
    /\ nextId <= MaxId
    /\ Healthy
    /\ With(p, "cm_check", NoRequest)
    /\ UNCHANGED <<loaded, tables, snaps, chain, faults>>

HasProof(i) ==
    /\ commitments[i].step
    /\ commitments[i].agg \/ i = 2

\* can_commit_local: something is staged; the last commitment is proved, and
\* either broadcast and final, or the first one and never broadcast.
CanCommitLocal ==
    /\ ~StagedCount0
    /\ commitments # <<>> =>
         LET n == Len(commitments)
             c == commitments[n]
         IN /\ c.prev # NoRoot => HasProof(n)
            /\ IF c.txid THEN onchain = c.root /\ final ELSE n = 1

CommitCheck(p) ==
    /\ pc[p] = "cm_check"
    /\ SqliteFree
    /\ \/ CanCommitLocal /\ With(p, "cm_list", NoRequest)
       \/ ~CanCommitLocal /\ Done(p)
    /\ UNCHANGED <<loaded, tables, snaps, chain, faults>>

CommitList(p) ==
    /\ pc[p] = "cm_list"
    /\ SqliteFree
    /\ \/ StagedCount0 /\ Done(p)
       \/ /\ ~StagedCount0
          /\ With(p, "cm_input", [NoRequest EXCEPT !.batch = StagedBatch])
    /\ UNCHANGED <<loaded, tables, snaps, chain, faults>>

CommitInput(p) ==
    /\ pc[p] = "cm_input"
    /\ SqliteFree
    /\ With(p, IF commitments = <<>> THEN "cm_tree0" ELSE "cm_validate", req[p])
    /\ UNCHANGED <<loaded, tables, snaps, chain, faults>>

\* Mutant: the exclusion proof is made and not checked.
CommitUnchecked(p) ==
    /\ pc[p] = "cm_validate"
    /\ With(p, "cm_row", [req[p] EXCEPT !.base = CurrentTree,
                                        !.root = Overlay(CurrentTree, req[p].batch)])
    /\ UNCHANGED <<loaded, tables, snaps, chain, faults>>

\* Exclusion proof over the tree of this moment, checked by guest::run.
CommitValidate(p) ==
    /\ pc[p] = "cm_validate"
    /\ \/ /\ Excludes(CurrentTree, req[p].batch)
          /\ With(p, "cm_row", [req[p] EXCEPT
                 !.base = CurrentTree,
                 !.root = Overlay(CurrentTree, req[p].batch)])
       \/ ~Excludes(CurrentTree, req[p].batch) /\ Done(p)
    /\ UNCHANGED <<loaded, tables, snaps, chain, faults>>

\* add_commitment: idx is COUNT(*), the row starts unproved and unsent.
InsertCommitment(prev, root) ==
    /\ commitments' = Append(commitments,
                             [id |-> nextId, prev |-> prev, root |-> root,
                              step |-> FALSE, agg |-> FALSE, txid |-> FALSE])
    /\ nextId' = nextId + 1

\* Not the first commitment: the row goes in BEFORE the tree is written.
CommitRow(p) ==
    /\ pc[p] = "cm_row"
    /\ SqliteFree
    /\ InsertCommitment(req[p].base, req[p].root)
    /\ With(p, "cm_tree", [req[p] EXCEPT !.base = NoRoot, !.idx = Len(commitments)])
    /\ UNCHANGED <<loaded, handles, snaps, chain, faults>>

CommitTree(p) ==
    /\ pc[p] = "cm_tree"
    /\ snaps' = Append(snaps, Overlay(CurrentTree, req[p].batch))
    /\ With(p, "cm_mark", [req[p] EXCEPT !.batch = EmptyTree])
    /\ UNCHANGED <<loaded, tables, chain, faults>>

\* The first commitment: the tree is written BEFORE the row, unchecked.
CommitTree0(p) ==
    /\ pc[p] = "cm_tree0"
    /\ LET tree == Overlay(CurrentTree, req[p].batch)
       IN /\ snaps' = Append(snaps, tree)
          /\ With(p, "cm_row0", [NoRequest EXCEPT !.root = tree])
    /\ UNCHANGED <<loaded, tables, chain, faults>>

\* Mutant: the index is COUNT(*) - 1, counted before the insert.
CommitRow0Early(p) ==
    /\ pc[p] = "cm_row0"
    /\ SqliteFree
    /\ InsertCommitment(NoRoot, req[p].root)
    /\ With(p, "cm_mark", [req[p] EXCEPT !.idx = Len(commitments) - 1])
    /\ UNCHANGED <<loaded, handles, snaps, chain, faults>>

CommitRow0(p) ==
    /\ pc[p] = "cm_row0"
    /\ SqliteFree
    /\ InsertCommitment(NoRoot, req[p].root)
    /\ With(p, "cm_mark", [req[p] EXCEPT !.idx = Len(commitments)])
    /\ UNCHANGED <<loaded, handles, snaps, chain, faults>>

\* Mutant: the UPDATE forgets "AND parked = 0".
CommitMarkAll(p) ==
    /\ pc[p] = "cm_mark"
    /\ SqliteFree
    /\ handles' = [h \in Handles |->
                     IF IsStaged(h)
                     THEN [handles[h] EXCEPT !.root = req[p].root,
                                             !.idx = req[p].idx]
                     ELSE handles[h]]
    /\ Done(p)
    /\ UNCHANGED <<loaded, commitments, nextId, snaps, chain, faults>>

\* commit_staged_handles: whatever is staged and unparked NOW.
CommitMark(p) ==
    /\ pc[p] = "cm_mark"
    /\ SqliteFree
    /\ handles' = [h \in Handles |->
                     IF Eligible(h)
                     THEN [handles[h] EXCEPT !.root = req[p].root,
                                             !.idx = req[p].idx]
                     ELSE handles[h]]
    /\ Done(p)
    /\ UNCHANGED <<loaded, commitments, nextId, snaps, chain, faults>>
-----------------------------------------------------------------------------
(***************************************************************************)
(* rollback_local: the tree first, then the table.                         *)
(***************************************************************************)
MayRollback == commitments # <<>> /\ ~Last(commitments).txid

RollbackBegin(p) ==
    /\ Starts(p)
    /\ SqliteFree
    /\ MayRollback
    /\ With(p, "rb_tree", [NoRequest EXCEPT !.root = Last(commitments).root])
    /\ UNCHANGED <<loaded, tables, snaps, chain, faults>>

\* The newest snapshot with this root.
IsNewest(i, root) ==
    /\ i \in DOMAIN snaps
    /\ snaps[i] = root
    /\ \A j \in DOMAIN snaps : j > i => snaps[j] # root

\* Mutant: the tree is reset although an older snapshot is left.
RollbackReset(p) ==
    /\ pc[p] = "rb_tree"
    /\ snaps' = <<>>
    /\ With(p, "rb_unstage", NoRequest)
    /\ UNCHANGED <<loaded, tables, chain, faults>>

\* rollback_local_commitment: back to the snapshot before the newest one with
\* the root (reset when it is the oldest), or an error when there is none.
RollbackTree(p) ==
    /\ pc[p] = "rb_tree"
    /\ \/ \E i \in DOMAIN snaps :
            /\ IsNewest(i, req[p].root)
            /\ snaps' = SubSeq(snaps, 1, i - 1)
            /\ With(p, "rb_unstage", NoRequest)
       \/ /\ \A i \in DOMAIN snaps : snaps[i] # req[p].root
          /\ Done(p)
          /\ UNCHANGED snaps
    /\ UNCHANGED <<loaded, tables, chain, faults>>

Unstage(root) ==
    handles' = [h \in Handles |-> IF handles[h].root = root
                                  THEN [handles[h] EXCEPT !.root = NoRoot, !.idx = 0]
                                  ELSE handles[h]]

\* Mutant: the txid seen when the request began is trusted.
RollbackUnstageStale(p) ==
    /\ pc[p] = "rb_unstage"
    /\ SqliteFree
    /\ commitments # <<>>
    /\ Unstage(Last(commitments).root)
    /\ With(p, "rb_delete", NoRequest)
    /\ UNCHANGED <<loaded, commitments, nextId, snaps, chain, faults>>

\* rollback_last_commitment: the last row is read again under the lock.
RollbackUnstage(p) ==
    /\ pc[p] = "rb_unstage"
    /\ SqliteFree
    /\ \/ /\ MayRollback
          /\ Unstage(Last(commitments).root)
          /\ With(p, "rb_delete", NoRequest)
       \/ /\ ~MayRollback
          /\ Done(p)
          /\ UNCHANGED handles
    /\ UNCHANGED <<loaded, commitments, nextId, snaps, chain, faults>>

\* DELETE by the id just read: under the same lock it is still the last row.
RollbackDelete(p) ==
    /\ pc[p] = "rb_delete"
    /\ commitments' = Front(commitments)
    /\ Done(p)
    /\ UNCHANGED <<loaded, handles, nextId, snaps, chain, faults>>
-----------------------------------------------------------------------------
(***************************************************************************)
(* Receipts.  The prover returns them for the request subs handed out: the *)
(* first commitment after genesis without a step, then, once every step    *)
(* was there, the first after idx 1 without a fold.  Commitments may have  *)
(* come since, not proved yet; Proving has what lies between.              *)
(***************************************************************************)
Proved(i, field) ==
    commitments' = [commitments EXCEPT ![i] =
        IF field = "step" THEN [@ EXCEPT !.step = TRUE] ELSE [@ EXCEPT !.agg = TRUE]]

SaveStepReceipt ==
    /\ loaded /\ SqliteFree
    /\ \E i \in DOMAIN commitments :
         /\ i >= 2 /\ ~commitments[i].step
         /\ \A j \in 2..(i - 1) : commitments[j].step
         /\ commitments[i].prev # NoRoot  \* else: missing exclusion_merkle_proof
         /\ Proved(i, "step")
    /\ UNCHANGED <<loaded, handles, nextId, snaps, chain, pc, req, faults>>

\* Mutant: a fold is taken before the step it folds.
SaveFoldEarly ==
    /\ loaded /\ SqliteFree
    /\ \E i \in DOMAIN commitments :
         /\ i >= 3 /\ ~commitments[i].agg
         /\ \A j \in 2..(i - 1) : commitments[j].step
         /\ \A j \in 3..(i - 1) : commitments[j].agg
         /\ Proved(i, "agg")
    /\ UNCHANGED <<loaded, handles, nextId, snaps, chain, pc, req, faults>>

SaveFoldReceipt ==
    /\ loaded /\ SqliteFree
    /\ \E i \in DOMAIN commitments :
         /\ i >= 3 /\ ~commitments[i].agg
         /\ \A j \in 2..i : commitments[j].step
         /\ \A j \in 3..(i - 1) : commitments[j].agg
         /\ Proved(i, "agg")
    /\ UNCHANGED <<loaded, handles, nextId, snaps, chain, pc, req, faults>>
-----------------------------------------------------------------------------
(***************************************************************************)
(* Operator::commit, the broadcast: the wallet sends the transaction, and  *)
(* only the next critical section records its txid.                        *)
(***************************************************************************)
BroadcastBegin(p) ==
    /\ Starts(p)
    /\ Healthy
    /\ With(p, "bc_last", NoRequest)
    /\ UNCHANGED <<loaded, tables, snaps, chain, faults>>

\* Mutant: the step proof is not asked for.
MayBroadcastUnproved == commitments # <<>> /\ ~Last(commitments).txid

MayBroadcast ==
    /\ commitments # <<>>
    /\ ~Last(commitments).txid
    /\ Last(commitments).prev # NoRoot => Last(commitments).step

BroadcastLast(p) ==
    /\ pc[p] = "bc_last"
    /\ SqliteFree
    /\ \/ /\ MayBroadcast
          /\ With(p, "bc_send", [NoRequest EXCEPT !.root = Last(commitments).root,
                                                  !.id = Last(commitments).id])
       \/ ~MayBroadcast /\ Done(p)
    /\ UNCHANGED <<loaded, tables, snaps, chain, faults>>

BroadcastSend(p) ==
    /\ pc[p] = "bc_send"
    /\ \/ sent' = sent \cup {req[p].root} /\ With(p, "bc_txid", [NoRequest EXCEPT !.id = req[p].id])
       \/ Done(p) /\ UNCHANGED sent             \* the wallet refuses
    /\ UNCHANGED <<loaded, tables, snaps, confirmed, onchain, final, faults>>

\* Mutant: the rollback's two statements are not under one lock.
BroadcastStoreAtOnce(p) ==
    /\ pc[p] = "bc_txid"
    /\ commitments' = [i \in DOMAIN commitments |->
                         IF commitments[i].id = req[p].id
                         THEN [commitments[i] EXCEPT !.txid = TRUE]
                         ELSE commitments[i]]
    /\ Done(p)
    /\ UNCHANGED <<loaded, handles, nextId, snaps, chain, faults>>

\* update_commitment_txid by row id: nothing happens when the row is gone.
BroadcastStore(p) ==
    /\ pc[p] = "bc_txid"
    /\ SqliteFree
    /\ commitments' = [i \in DOMAIN commitments |->
                         IF commitments[i].id = req[p].id
                         THEN [commitments[i] EXCEPT !.txid = TRUE]
                         ELSE commitments[i]]
    /\ Done(p)
    /\ UNCHANGED <<loaded, handles, nextId, snaps, chain, faults>>

\* Mutant: a commitment that was never broadcast is bumped.
BumpUnsent(p) ==
    /\ Starts(p)
    /\ SqliteFree
    /\ commitments # <<>>
    /\ onchain # Last(commitments).root
    /\ With(p, "bp_store", NoRequest)
    /\ UNCHANGED <<loaded, tables, snaps, chain, faults>>

\* bump_commit: the pending transaction is replaced, then its new txid is
\* written to whatever commitment is last by then.
BumpBegin(p) ==
    /\ Starts(p)
    /\ SqliteFree
    /\ commitments # <<>>
    /\ Last(commitments).txid
    /\ onchain # Last(commitments).root
    /\ With(p, "bp_store", NoRequest)
    /\ UNCHANGED <<loaded, tables, snaps, chain, faults>>

BumpStore(p) ==
    /\ pc[p] = "bp_store"
    /\ SqliteFree
    /\ commitments' = IF commitments = <<>> THEN commitments
                      ELSE [commitments EXCEPT ![Len(commitments)].txid = TRUE]
    /\ Done(p)
    /\ UNCHANGED <<loaded, handles, nextId, snaps, chain, faults>>
-----------------------------------------------------------------------------
(***************************************************************************)
(* spaced and the chain (external): a sent root confirms once, in any      *)
(* order, and becomes the current commitment; later it is 150 deep.        *)
(***************************************************************************)
Confirm ==
    /\ \E r \in sent \ confirmed :
         /\ confirmed' = confirmed \cup {r}
         /\ onchain' = r
    /\ final' = FALSE
    /\ UNCHANGED <<loaded, tables, snaps, sent, pc, req, faults>>

Finalize ==
    /\ onchain # NoRoot
    /\ ~final
    /\ final' = TRUE
    /\ UNCHANGED <<loaded, tables, snaps, sent, confirmed, onchain, pc, req, faults>>
-----------------------------------------------------------------------------
(***************************************************************************)
(* Failures and starting up.                                               *)
(***************************************************************************)
Crash ==
    /\ crashes < MaxCrashes
    /\ loaded
    /\ crashes' = crashes + 1
    /\ loaded' = FALSE
    /\ pc' = [p \in Procs |-> "idle"]
    /\ req' = [p \in Procs |-> NoRequest]
    /\ UNCHANGED <<tables, snaps, chain, aborts>>

\* A handler ends between two critical sections: an I/O error, or its future
\* is dropped at an await because the client went away.
Abort(p) ==
    /\ aborts < MaxAborts
    /\ pc[p] \notin {"idle", "rb_delete"}
    /\ aborts' = aborts + 1
    /\ Done(p)
    /\ UNCHANGED <<loaded, tables, snaps, chain, crashes>>

\* load_all_spaces -> load_space_unchecked: every space an earlier process
\* left on disk, without check_consistency.
LoadAllSpaces ==
    /\ BootLoadsAll
    /\ crashes > 0
    /\ ~loaded
    /\ loaded' = TRUE
    /\ UNCHANGED <<tables, snaps, chain, pc, req, faults>>

\* The last commitment is unsent and its root is not the tree's.
Orphaned ==
    /\ MayRollback
    /\ Last(commitments).root # CurrentTree

\* Mutant: the space is opened without the consistency check.
LoadUnchecked ==
    /\ ~loaded
    /\ loaded' = TRUE
    /\ UNCHANGED <<tables, snaps, chain, pc, req, faults>>

\* load_or_create_space -> check_consistency -> cleanup_orphaned_commitment.
LoadOrCreateSpace ==
    /\ ~loaded
    /\ loaded' = TRUE
    /\ IF Orphaned
       THEN Unstage(Last(commitments).root) /\ commitments' = Front(commitments)
       ELSE UNCHANGED <<handles, commitments>>
    /\ UNCHANGED <<nextId, snaps, chain, pc, req, faults>>

\* The process dies between the cleanup's two statements.
LoadOrCreateCrash ==
    /\ ~loaded
    /\ crashes < MaxCrashes
    /\ Orphaned
    /\ Unstage(Last(commitments).root)
    /\ crashes' = crashes + 1
    /\ UNCHANGED <<loaded, commitments, nextId, snaps, chain, pc, req, aborts>>
-----------------------------------------------------------------------------
Init ==
    /\ loaded = FALSE
    /\ handles = [h \in Handles |-> NoRow]
    /\ commitments = <<>>
    /\ nextId = 1
    /\ snaps = <<>>
    /\ sent = {} /\ confirmed = {} /\ onchain = NoRoot /\ final = FALSE
    /\ pc = [p \in Procs |-> "idle"]
    /\ req = [p \in Procs |-> NoRequest]
    /\ crashes = 0 /\ aborts = 0

AddRequests(p) ==
    AddBegin(p) \/ AddCheckTree(p) \/ AddCheckStaged(p) \/ AddInsert(p)
CommitLocal(p) ==
    \/ CommitBegin(p) \/ CommitCheck(p) \/ CommitList(p) \/ CommitInput(p)
    \/ CommitValidate(p) \/ CommitRow(p) \/ CommitTree(p)
    \/ CommitTree0(p) \/ CommitRow0(p) \/ CommitMark(p)
RollbackLocal(p) ==
    RollbackBegin(p) \/ RollbackTree(p) \/ RollbackUnstage(p) \/ RollbackDelete(p)
Broadcast(p) ==
    \/ BroadcastBegin(p) \/ BroadcastLast(p) \/ BroadcastSend(p) \/ BroadcastStore(p)
    \/ BumpBegin(p) \/ BumpStore(p)

Next ==
    \/ \E p \in Procs : AddRequests(p) \/ Abort(p)
    \/ \E p \in Parkers : SetParked(p) \/ SetParkedFiltered(p)
    \/ \E p \in Operators :
         RemoveStaged(p) \/ CommitLocal(p) \/ RollbackLocal(p) \/ Broadcast(p)
    \/ SaveStepReceipt \/ SaveFoldReceipt
    \/ Confirm \/ Finalize
    \/ Crash \/ LoadAllSpaces \/ LoadOrCreateSpace \/ LoadOrCreateCrash

Spec == Init /\ [][Next]_vars
=============================================================================
