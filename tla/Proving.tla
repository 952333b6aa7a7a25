-------------------------------- MODULE Proving --------------------------------
(***************************************************************************)
(* How receipts reach the commitments of one space: the requests computed  *)
(* by core/src/core.rs, the job keys kept by subs/src/config.rs, the       *)
(* handlers of subs/src/routes/proving.rs and the loop of background.rs,   *)
(* against the server of ProverServer.                                     *)
(*                                                                         *)
(* A receipt is the set of commitments whose transition it proves; the     *)
(* empty set is SQL NULL.  A step of this module is one critical section   *)
(* of SQLite, one access to the settings, or one exchange with the server; *)
(* between two of them any other handler may run, or this one be dropped.  *)
(* What commits, rollbacks and broadcasts do to trees and handles is the   *)
(* subject of LocalSpace: here they are what they do to rows.              *)
(***************************************************************************)
EXTENDS ProverServer, SequencesExt

CONSTANTS
    Loop,       \* the one of Pollers that is proving_loop; the others serve HTTP
    MaxId,      \* bound: commitment rows ever inserted
    MaxLosses   \* bound: dropped handlers, lost answers, deaths of subs

ASSUME LoopPolls == Loop \in Pollers
ASSUME ProvingBounds == MaxId \in Nat /\ MaxLosses \in Nat

VARIABLES
    rows,           \* table commitments in idx order: idx = position - 1
    nextId,         \* AUTOINCREMENT of commitments.id
    tip, tipSnark,  \* chain.tip_receipt_id, chain.tip_receipt_groth16_id
    keys,           \* settings "job:space:id:kind"
    work,           \* the request each job of the server was submitted with
    pc, my,         \* per handler: where it is, and its locals
    losses

table == <<rows, nextId>>
tips  == <<tip, tipSnark>>
subs  == <<table, tips, keys, work, pc, my, losses>>
allvars == <<pvars, subs>>
-----------------------------------------------------------------------------
Clients == Pollers \ {Loop}
Ids     == 1..MaxId
Slots   == Ids \X BOOLEAN
Row     == [id: Ids, step: SUBSET Ids, agg: SUBSET Ids, snark: SUBSET Ids,
            sent: BOOLEAN]

\* covers: what the receipt for the request will prove.
Request == [id: {0} \cup Ids, fold: BOOLEAN, covers: SUBSET Ids]
NoReq   == [id |-> 0, fold |-> FALSE, covers |-> {}]
Local   == [req: Request, job: Jobs \cup {NoJob}]
Nothing == [req |-> NoReq, job |-> NoJob]

\* Where a handler holds a job, and where it holds a request.
WithJob == {"status", "drop", "receipt", "pulling", "clear", "wait", "cancel"}
WithReq == WithJob \cup {"find", "stop", "submit", "save", "tip"}
PCs == WithReq \cup {"idle", "insert", "send", "unroll", "forget",
                     "compress", "last", "snark", "seal"}

Slot(r) == <<r.id, r.fold>>

\* Commitments 2..i: those a proof of the chain up to the i-th covers.
Upto(i) == {rows[k].id : k \in 2..i}

StepsDue == {i \in DOMAIN rows : i >= 2 /\ rows[i].step = {}}
FoldsDue == {i \in DOMAIN rows : i >= 3 /\ rows[i].agg = {}}
Acc(i)   == IF i = 2 THEN rows[i].step ELSE rows[i].agg

StepOf(i) == [id |-> rows[i].id, fold |-> FALSE, covers |-> {rows[i].id}]
FoldOf(i) == [id |-> rows[i].id, fold |-> TRUE, covers |-> Acc(i - 1) \cup rows[i].step]

First(S) == {i \in S : \A k \in S : i <= k}

\* Mutant: a fold is asked for as soon as it is due.
NextReqFoldsFirst ==
    IF FoldsDue # {} THEN {FoldOf(i) : i \in First(FoldsDue)}
                     ELSE {StepOf(i) : i \in First(StepsDue)}

\* get_next_proving_request, an Option: the steps in order, then the folds.
NextReq ==
    IF StepsDue # {} THEN {StepOf(i) : i \in First(StepsDue)}
                     ELSE {FoldOf(i) : i \in First(FoldsDue)}

Goto(p, label)        == pc' = [pc EXCEPT ![p] = label]
With(p, label, r, j)  == Goto(p, label) /\ my' = [my EXCEPT ![p] = [req |-> r, job |-> j]]
On(p, label)          == With(p, label, my[p].req, my[p].job)
Done(p)               == With(p, "idle", NoReq, NoJob)
SetKey(r, j)          == keys' = [keys EXCEPT ![Slot(r)] = j]
-----------------------------------------------------------------------------
(***************************************************************************)
(* Polling, cancelling, pushing, and fetching a request for a prover run   *)
(* by hand all start from the next request.  The loop only polls.          *)
(***************************************************************************)
Begin(p) ==
    /\ pc[p] = "idle"
    /\ \E r \in NextReq :
         \/ With(p, "find", r, NoJob)
         \/ p # Loop /\ \E label \in {"stop", "submit", "save"} : With(p, label, r, NoJob)
    /\ UNCHANGED <<pvars, table, tips, keys, work, losses>>

\* Mutant: the key is not checked to be there.
FindAnyKey(p) ==
    /\ pc[p] \in {"find", "stop"}
    /\ With(p, IF pc[p] = "find" THEN "status" ELSE "cancel", my[p].req,
            keys[Slot(my[p].req)])
    /\ UNCHANGED <<pvars, table, tips, keys, work, losses>>

\* poll_prover, poll_job and cancel_proving look the job's key up.
FindKey(p) ==
    /\ pc[p] \in {"find", "stop"}
    /\ LET j == keys[Slot(my[p].req)]
       IN \/ j = NoJob /\ Done(p)
          \/ /\ j # NoJob
             /\ With(p, IF pc[p] = "find" THEN "status" ELSE "cancel", my[p].req, j)
    /\ UNCHANGED <<pvars, table, tips, keys, work, losses>>
-----------------------------------------------------------------------------
(***************************************************************************)
(* push_to_prover: no look at the key before the request is submitted; the *)
(* key is stored after the answer.                                         *)
(***************************************************************************)
Push(p) ==
    /\ pc[p] = "submit"
    /\ \E j \in Jobs :
         /\ Submit(j)
         /\ work' = [work EXCEPT ![j] = my[p].req]
         /\ With(p, "wait", my[p].req, j)
    /\ UNCHANGED <<table, tips, keys, losses>>

\* Mutant: the key is built from what is to be proved when the answer comes.
PushStoreNext(p) ==
    /\ pc[p] = "wait"
    /\ my[p].job \in acked
    /\ \/ NextReq = {} /\ UNCHANGED keys
       \/ \E r \in NextReq : SetKey(r, my[p].job)
    /\ Done(p)
    /\ UNCHANGED <<pvars, table, tips, work, losses>>

PushStore(p) ==
    /\ pc[p] = "wait"
    /\ my[p].job \in acked
    /\ SetKey(my[p].req, my[p].job)
    /\ Done(p)
    /\ UNCHANGED <<pvars, table, tips, work, losses>>

\* The server gave the submission up before it answered.
PushFails(p) ==
    /\ pc[p] = "wait"
    /\ my[p].job \notin sending \cup acked
    /\ Done(p)
    /\ UNCHANGED <<pvars, table, tips, keys, work, losses>>

\* cancel_proving: the key goes whatever the server said, if it was heard at
\* all, and whatever the key holds by then.
CancelSend(p) ==
    /\ pc[p] = "cancel"
    /\ \/ Cancel(my[p].job) /\ UNCHANGED losses
       \/ /\ Status(my[p].job) \notin {"pending", "processing"}
          /\ UNCHANGED <<pvars, losses>>
       \/ losses < MaxLosses /\ losses' = losses + 1 /\ UNCHANGED pvars
    /\ On(p, "drop")
    /\ UNCHANGED <<table, tips, keys, work>>
-----------------------------------------------------------------------------
(***************************************************************************)
(* The status of the job.  A job that is gone is an error; only the loop   *)
(* then drops its key.                                                     *)
(***************************************************************************)
\* Mutant: the loop takes a vanished job for one that is not done yet.
AskStatusGone(p) ==
    /\ pc[p] = "status"
    /\ CASE Status(my[p].job) = "complete" -> On(p, "receipt")
         [] Status(my[p].job) = "failed" -> On(p, "drop")
         [] OTHER -> Done(p)
    /\ UNCHANGED <<pvars, table, tips, keys, work, losses>>

AskStatus(p) ==
    /\ pc[p] = "status"
    /\ CASE Status(my[p].job) = "complete" -> On(p, "receipt")
         [] Status(my[p].job) = "failed" -> On(p, "drop")
         [] Status(my[p].job) = "absent" /\ p = Loop -> On(p, "drop")
         [] OTHER -> Done(p)
    /\ UNCHANGED <<pvars, table, tips, keys, work, losses>>

DropKey(p) ==
    /\ pc[p] \in {"drop", "clear"}
    /\ SetKey(my[p].req, NoJob)
    /\ Done(p)
    /\ UNCHANGED <<pvars, table, tips, work, losses>>

\* GET /jobs/:id/receipt, in the two sections it has on the server.
AskReceipt(p) ==
    /\ pc[p] = "receipt"
    /\ \/ ReceiptCheck(p) /\ pulling'[p] = my[p].job /\ On(p, "pulling")
       \/ Status(my[p].job) # "complete" /\ Done(p) /\ UNCHANGED pvars
    /\ UNCHANGED <<table, tips, keys, work, losses>>

TakeReceipt(p) ==
    /\ pc[p] = "pulling"
    /\ \/ ReceiptPull(p) /\ IF jobs[pulling[p]].receipt THEN On(p, "save") ELSE Done(p)
       \/ pulling[p] = NoJob /\ Done(p) /\ UNCHANGED pvars   \* the server died
    /\ UNCHANGED <<table, tips, keys, work, losses>>
-----------------------------------------------------------------------------
(***************************************************************************)
(* fulfill_request_by_id: verify, store, then UPDATE ... WHERE id = ?.     *)
(* The receipt is that of the job, or one proved by hand.                  *)
(***************************************************************************)
Proved(p) == IF my[p].job = NoJob THEN my[p].req ELSE work[my[p].job]

\* The handler's last act is to drop the key, if it came by one.
Saved(p) == IF my[p].job = NoJob THEN Done(p) ELSE On(p, "clear")

StoredIn(row, r) ==
    IF r.fold THEN [row EXCEPT !.agg = r.covers] ELSE [row EXCEPT !.step = r.covers]

\* Mutant: the receipt goes to the last commitment, as a SNARK does.
SaveOnLast(p) ==
    /\ pc[p] = "save"
    /\ IF rows = <<>> \/ Proved(p).fold # my[p].req.fold
       THEN Done(p) /\ UNCHANGED rows
       ELSE /\ rows' = [rows EXCEPT ![Len(rows)] = StoredIn(@, Proved(p))]
            /\ IF my[p].req.fold THEN On(p, "tip") ELSE Saved(p)
    /\ UNCHANGED <<pvars, nextId, tips, keys, work, losses>>

\* A receipt of the other kind fails verification.
SaveReceipt(p) ==
    /\ pc[p] = "save"
    /\ IF Proved(p).fold # my[p].req.fold
       THEN Done(p) /\ UNCHANGED rows
       ELSE /\ rows' = [i \in DOMAIN rows |->
                          IF rows[i].id = my[p].req.id
                          THEN StoredIn(rows[i], Proved(p)) ELSE rows[i]]
            /\ IF my[p].req.fold THEN On(p, "tip") ELSE Saved(p)
    /\ UNCHANGED <<pvars, nextId, tips, keys, work, losses>>

\* save_fold_receipt sets the tip whether or not the row was still there.
SaveTip(p) ==
    /\ pc[p] = "tip"
    /\ tip' = Proved(p).covers
    /\ Saved(p)
    /\ UNCHANGED <<pvars, table, tipSnark, keys, work, losses>>
-----------------------------------------------------------------------------
(***************************************************************************)
(* Compression: get_compress_input, a SNARK made elsewhere from what it    *)
(* gave, and save_groth16_receipt.                                         *)
(***************************************************************************)
AskTip(p) ==
    /\ pc[p] = "idle" /\ p # Loop
    /\ tip # {}
    /\ With(p, "compress", [NoReq EXCEPT !.covers = tip], NoJob)
    /\ UNCHANGED <<pvars, table, tips, keys, work, losses>>

Compress(p) ==
    /\ pc[p] = "compress"
    /\ IF tipSnark = {} THEN On(p, "last") ELSE Done(p)
    /\ UNCHANGED <<pvars, table, tips, keys, work, losses>>

\* Whatever commitment is last when the SNARK comes back.
SnarkLast(p) ==
    /\ pc[p] = "last"
    /\ IF rows = <<>> THEN On(p, "seal")
       ELSE With(p, "snark", [my[p].req EXCEPT !.id = Last(rows).id], NoJob)
    /\ UNCHANGED <<pvars, table, tips, keys, work, losses>>

SnarkRow(p) ==
    /\ pc[p] = "snark"
    /\ rows' = [i \in DOMAIN rows |->
                  IF rows[i].id = my[p].req.id
                  THEN [rows[i] EXCEPT !.snark = my[p].req.covers] ELSE rows[i]]
    /\ On(p, "seal")
    /\ UNCHANGED <<pvars, nextId, tips, keys, work, losses>>

SnarkTip(p) ==
    /\ pc[p] = "seal"
    /\ tipSnark' = my[p].req.covers
    /\ Done(p)
    /\ UNCHANGED <<pvars, table, tip, keys, work, losses>>
-----------------------------------------------------------------------------
(***************************************************************************)
(* What LocalSpace does to rows: commit_local, the broadcast, and the      *)
(* rollback handler, which drops the keys of the request it read first.    *)
(***************************************************************************)
\* can_commit_local, on a chain that has made the last broadcast final.
CommitCheck(p) ==
    /\ pc[p] = "idle" /\ p # Loop
    /\ rows # <<>> =>
         LET n == Len(rows)
         IN /\ n >= 2 => rows[n].step # {} /\ (n > 2 => rows[n].agg # {})
            /\ rows[n].sent \/ n = 1
    /\ On(p, "insert")
    /\ UNCHANGED <<pvars, table, tips, keys, work, losses>>

CommitRow(p) ==
    /\ pc[p] = "insert"
    /\ nextId <= MaxId
    /\ rows' = Append(rows, [id |-> nextId, step |-> {}, agg |-> {}, snark |-> {},
                             sent |-> FALSE])
    /\ nextId' = nextId + 1
    /\ Done(p)
    /\ UNCHANGED <<pvars, tips, keys, work, losses>>

\* Operator::commit asks for the step proof only.
BroadcastCheck(p) ==
    /\ pc[p] = "idle" /\ p # Loop
    /\ rows # <<>> /\ ~Last(rows).sent
    /\ Len(rows) >= 2 => Last(rows).step # {}
    /\ With(p, "send", [NoReq EXCEPT !.id = Last(rows).id], NoJob)
    /\ UNCHANGED <<pvars, table, tips, keys, work, losses>>

BroadcastStore(p) ==
    /\ pc[p] = "send"
    /\ rows' = [i \in DOMAIN rows |->
                  IF rows[i].id = my[p].req.id
                  THEN [rows[i] EXCEPT !.sent = TRUE] ELSE rows[i]]
    /\ Done(p)
    /\ UNCHANGED <<pvars, nextId, tips, keys, work, losses>>

RollbackBegin(p) ==
    /\ pc[p] = "idle" /\ p # Loop
    /\ rows # <<>>
    /\ \E r \in IF NextReq = {} THEN {NoReq} ELSE NextReq : With(p, "unroll", r, NoJob)
    /\ UNCHANGED <<pvars, table, tips, keys, work, losses>>

\* Mutant: whether it was sent is not looked at again.
RollbackRowStale(p) ==
    /\ pc[p] = "unroll"
    /\ IF rows = <<>>
       THEN Done(p) /\ UNCHANGED rows
       ELSE /\ rows' = SubSeq(rows, 1, Len(rows) - 1)
            /\ IF my[p].req = NoReq THEN Done(p) ELSE On(p, "forget")
    /\ UNCHANGED <<pvars, nextId, tips, keys, work, losses>>

RollbackRow(p) ==
    /\ pc[p] = "unroll"
    /\ IF rows = <<>> \/ Last(rows).sent
       THEN Done(p) /\ UNCHANGED rows
       ELSE /\ rows' = SubSeq(rows, 1, Len(rows) - 1)
            /\ IF my[p].req = NoReq THEN Done(p) ELSE On(p, "forget")
    /\ UNCHANGED <<pvars, nextId, tips, keys, work, losses>>

RollbackForget(p) ==
    /\ pc[p] = "forget"
    /\ keys' = [keys EXCEPT ![<<my[p].req.id, FALSE>>] = NoJob,
                            ![<<my[p].req.id, TRUE>>] = NoJob]
    /\ Done(p)
    /\ UNCHANGED <<pvars, table, tips, work, losses>>
-----------------------------------------------------------------------------
(***************************************************************************)
(* The handler is dropped, its connection breaks, or subs dies; an open    *)
(* receipt request may still be served.                                    *)
(***************************************************************************)
Lose(p) ==
    /\ losses < MaxLosses
    /\ losses' = losses + 1
    /\ pc[p] # "idle"
    /\ Done(p)
    /\ IF pulling[p] = NoJob THEN UNCHANGED pvars
       ELSE ReceiptPull(p) \/ ReceiptAbandon(p)
    /\ UNCHANGED <<table, tips, keys, work>>

\* What the server does by itself.
Serve ==
    /\ \/ \E j \in Jobs : Enqueue(j) \/ Abandon(j)
       \/ WorkerStep \/ WorkerPanic \/ Restart
    /\ UNCHANGED subs

ProvingInit ==
    /\ ServerInit
    /\ rows = <<>> /\ nextId = 1
    /\ tip = {} /\ tipSnark = {}
    /\ keys = [s \in Slots |-> NoJob]
    /\ work = [j \in Jobs |-> NoReq]
    /\ pc = [p \in Pollers |-> "idle"]
    /\ my = [p \in Pollers |-> Nothing]
    /\ losses = 0

Poll(p) ==
    \/ Begin(p) \/ FindKey(p) \/ AskStatus(p) \/ DropKey(p)
    \/ AskReceipt(p) \/ TakeReceipt(p) \/ SaveReceipt(p) \/ SaveTip(p)

Handle(p) ==
    \/ Poll(p)
    \/ Push(p) \/ PushStore(p) \/ PushFails(p) \/ CancelSend(p)
    \/ AskTip(p) \/ Compress(p) \/ SnarkLast(p) \/ SnarkRow(p) \/ SnarkTip(p)
    \/ CommitCheck(p) \/ CommitRow(p) \/ BroadcastCheck(p) \/ BroadcastStore(p)
    \/ RollbackBegin(p) \/ RollbackRow(p) \/ RollbackForget(p)

ProvingNext == (\E p \in Pollers : Handle(p) \/ Lose(p)) \/ Serve

\* proving_loop comes round for ever, and the worker's task is scheduled.
ProvingSpec ==
    /\ ProvingInit /\ [][ProvingNext]_allvars
    /\ WF_allvars(Poll(Loop))
    /\ WF_allvars(WorkerStep /\ UNCHANGED subs)
-----------------------------------------------------------------------------
\* Every variable has its type, and a handler that needs a job or a request
\* has one.
ProvingTypeOK ==
    /\ rows \in Seq(Row) /\ nextId \in 1..(MaxId + 1)
    /\ tip \subseteq Ids /\ tipSnark \subseteq Ids
    /\ keys \in [Slots -> Jobs \cup {NoJob}]
    /\ work \in [Jobs -> Request]
    /\ pc \in [Pollers -> PCs] /\ my \in [Pollers -> Local]
    /\ \A p \in Pollers :
         /\ pc[p] \in WithJob => my[p].job \in Jobs
         /\ pc[p] \in WithReq => my[p].req.id \in Ids
    /\ losses \in 0..MaxLosses

\* A commitment's step receipt proves that commitment, and its aggregate the
\* chain up to it, whatever was rolled back, pushed twice, polled by two or
\* proved by hand meanwhile (update_commitment_*_receipt go by row id).
ReceiptsFit ==
    \A i \in DOMAIN rows :
        /\ rows[i].step \in {{}, {rows[i].id}}
        /\ rows[i].agg \in {{}, Upto(i)}

\* Proofs leave no gap: a commitment is proved only after every one before it,
\* and folded only over steps and folds that are all there, though a receipt is
\* stored long after its request was computed and rows came and went meanwhile.
\* can_commit_local and the pipeline view look at the newest commitment only.
ProofsInOrder ==
    \A i \in DOMAIN rows :
        /\ rows[i].step # {} => i >= 2 /\ \A k \in 2..i : rows[k].step # {}
        /\ rows[i].agg # {} => /\ i >= 3
                               /\ \A k \in 2..i : rows[k].step # {}
                               /\ \A k \in 3..i : rows[k].agg # {}

\* The job under a key was submitted for the very proof the key names, and
\* the server accepted it (push_to_prover).
KeyNamesItsJob ==
    \A s \in Slots : keys[s] # NoJob =>
        keys[s] \in acked /\ Slot(work[keys[s]]) = s

\* The commitments, seen as what is proved of them: a receipt counts if it
\* proves what its column is for.
Link(i) == [step |-> rows[i].step = {rows[i].id},
            agg  |-> i >= 2 /\ rows[i].agg = Upto(i),
            sent |-> rows[i].sent]
Links   == [i \in DOMAIN rows |-> Link(i)]
Chain   == INSTANCE ProofChain WITH chain <- Links

\* Whatever is pushed, polled, cancelled, lost and rolled back meanwhile, a
\* receipt does to the chain of proofs what LocalSpace takes it to do in one
\* step, and no proof is lost while its commitment stands.
ImplementsChain == Chain!ChainSpec

Wanted(s) == \E r \in NextReq : Slot(r) = s

\* A pushed proof is collected, or its key freed for another push, unless the
\* prover died or was told to stop: whatever is lost on the way, receipts
\* that were pulled and never saved included (poll_job drops a dead key).
PushedIsCollected ==
    \A s \in Slots, j \in Jobs :
        keys[s] = j /\ Wanted(s) ~> keys[s] # j \/ ~Wanted(s) \/ ~Alive \/ j \in stopped

\* The receipt of the root certificate (get_receipt, prefer_compressed) proves
\* the chain up to its commitment.
RootReceipt(i) ==
    IF rows[i].snark # {} THEN rows[i].snark ELSE Acc(i)
RootCertFits ==
    \A i \in DOMAIN rows : i >= 2 => RootReceipt(i) \in {{}, Upto(i)}
=============================================================================
