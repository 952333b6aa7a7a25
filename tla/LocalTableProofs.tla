--------------------------- MODULE LocalTableProofs ---------------------------
(***************************************************************************)
(* LocalSpace implements SpaceTable: with one request at a time and until  *)
(* a fault cuts one short, what the handlers do step by step is, seen      *)
(* through LocalTable, what SpaceTable takes for one step each.            *)
(***************************************************************************)
EXTENDS LocalTable, OneRequestProofs

-----------------------------------------------------------------------------
(***************************************************************************)
(* What the step that changes the tables still relies on, of what an       *)
(* earlier step of the same request found out; and how the chain follows   *)
(* the commitments.                                                        *)
(***************************************************************************)

\* What can_commit_local found of the last commitment.
Ready ==
    commitments # <<>> =>
        /\ Len(commitments) # 1 => HasProof(Len(commitments))
        /\ IF Last(commitments).txid THEN onchain = Last(commitments).root
                                     ELSE Len(commitments) = 1

\* Only the last root may be on its way, and what was sent has its txid,
\* unless that is just being recorded.
SentFits ==
    /\ \A r \in sent : Known(r)
    /\ \A r \in sent : r \in confirmed \/ (commitments # <<>> /\ r = Last(commitments).root)
    /\ \A i \in DOMAIN commitments : commitments[i].root \in sent =>
         commitments[i].txid \/ (at = "bc_txid" /\ i = Len(commitments))

\* Steps from the second commitment on, folds from the third, steps first.
ProofsFit ==
    \A i \in DOMAIN commitments :
        /\ commitments[i].step => i >= 2
        /\ commitments[i].agg => i >= 3 /\ commitments[i].step

CheckedPCs == {"cm_list", "cm_input", "cm_validate", "cm_row", "cm_tree0", "cm_row0"}

FoundLocals(label, l) ==
    /\ label \in {"add_tree", "add_staged", "add_insert"} => l.h \in Handles /\ l.spk \in Spks
    /\ label = "add_insert" => ~Exists(l.h)
    /\ label \in CheckedPCs \cup {"cm_check"} => nextId <= MaxId
    /\ label \in CheckedPCs => Ready /\ ~StagedCount0
    /\ label = "bc_send" => MayBroadcast

Found ==
    /\ SentFits /\ ProofsFit
    /\ \A label \in PCs, l \in Request : at = label /\ my = l => FoundLocals(label, l)

FoundInv == NoFault => Found

LEMMA FoundCarried ==
    ASSUME BaseInv, OneAtATime, Found, NEW p \in Procs
    PROVE  FoundLocals(pc[p], req[p]) /\ pc[p] = at
<1>1. p = Op
  BY OneProc
<1> QED
  BY <1>1, HereTypes DEF Found, at, my

\* What is said of the request depends on the tables and the chain only.
LEMMA FoundSame ==
    ASSUME UNCHANGED <<handles, commitments, nextId, onchain>>
    PROVE  \A label, l : FoundLocals(label, l)' = FoundLocals(label, l)
<1>1. Ready' = Ready /\ MayBroadcast' = MayBroadcast
  BY DEF Ready, HasProof, MayBroadcast
<1>2. StagedCount0' = StagedCount0 /\ \A h : Exists(h)' = Exists(h)
  BY DEF StagedCount0, Eligible, IsStaged, Exists
<1> QED
  BY <1>1, <1>2 DEF FoundLocals

\* A record of receipts and txids.
LEMMA RecordedSent ==
    ASSUME TypeOK, SentFits, Recorded(commitments, commitments'),
           UNCHANGED <<sent, confirmed>>, at = "bc_txid" => at' = "bc_txid"
    PROVE  SentFits'
  BY RecordedKeeps DEF SentFits, Known

LEMMA FoundMove ==
    ASSUME BaseInv, OneAtATime, Found, NEW p \in Procs, NEW label, NEW local,
           With(p, label, local), pc[p] # "bc_txid",
           UNCHANGED <<handles, commitments, nextId, chain>>,
           FoundLocals(label, local)
    PROVE  Found'
<1> USE DEF chain
<1>1. at' = label /\ my' = local /\ at # "bc_txid"
  BY MoveTo, FoundCarried
<1>2. SentFits'
  BY <1>1, RecordedSent, SameRecorded DEF Found, BaseInv
<1>3. ProofsFit'
  BY DEF Found, ProofsFit
<1> QED
  BY <1>1, <1>2, <1>3, FoundSame DEF Found

\* ... to a label at which nothing was found out yet.
OpenPCs == {"idle", "cm_tree", "cm_mark", "rb_tree", "rb_unstage",
            "rb_delete", "bc_last", "bc_txid", "bp_store"}

LEMMA FoundLeave ==
    ASSUME BaseInv, OneAtATime, Found, NEW p \in Procs, NEW label \in OpenPCs, NEW local,
           With(p, label, local), pc[p] # "bc_txid",
           UNCHANGED <<handles, commitments, nextId, chain>>
    PROVE  Found'
<1>1. FoundLocals(label, local)
  BY DEF FoundLocals, OpenPCs, CheckedPCs
<1> QED
  BY <1>1, FoundMove

\* The rows of the handles change, and no request relies on them.
LEMMA FoundRows ==
    ASSUME BaseInv, OneAtATime, Found, at' \in OpenPCs, at # "bc_txid",
           UNCHANGED <<commitments, nextId, chain>>
    PROVE  Found'
<1> USE DEF chain
<1>1. \A l : FoundLocals(at, l)'
  BY DEF FoundLocals, OpenPCs, CheckedPCs
<1>2. SentFits'
  BY RecordedSent, SameRecorded DEF Found, BaseInv
<1>3. ProofsFit'
  BY DEF Found, ProofsFit
<1> QED
  BY <1>1, <1>2, <1>3 DEF Found

LEMMA AddKeepsFound ==
    ASSUME BaseInv, OneAtATime, RowInv, Chained, Tabled, Found, NEW p \in Procs, AddRequests(p)
    PROVE  Found'
<1> USE DEF tables, chain, faults, Done
<1>c. FoundLocals(pc[p], req[p])
  BY FoundCarried
<1>1. CASE AddBegin(p)
  <2>1. PICK h \in Handles, s \in Spks :
               With(p, "add_tree", [NoRequest EXCEPT !.h = h, !.spk = s])
    BY <1>1 DEF AddBegin
  <2> DEFINE local == [NoRequest EXCEPT !.h = h, !.spk = s]
  <2>2. local.h \in Handles /\ local.spk \in Spks
    BY DEF NoRequest
  <2> HIDE DEF local
  <2>3. FoundLocals("add_tree", local)
    BY <2>2 DEF FoundLocals, CheckedPCs
  <2>4. pc[p] # "bc_txid" /\ UNCHANGED <<handles, commitments, nextId, chain>>
    BY <1>1 DEF AddBegin, Starts
  <2> QED
    BY <2>1, <2>3, <2>4, FoundMove DEF local
<1>2. CASE AddCheckTree(p)
  <2>1. FoundLocals("add_staged", req[p])
    BY <1>2, <1>c DEF AddCheckTree, FoundLocals, CheckedPCs
  <2> QED
    BY <1>2, <2>1, FoundLeave, FoundMove DEF AddCheckTree, OpenPCs
<1>3. CASE AddCheckStaged(p)
  <2>1. CASE IsStaged(req[p].h)
    BY <1>3, <2>1, FoundLeave DEF AddCheckStaged, OpenPCs
  <2>2. CASE ~IsStaged(req[p].h)
    <3> DEFINE h == req[p].h
    <3>1. h \in Handles /\ req[p].spk \in Spks /\ CurrentTree[h] = NoSpk
      BY <1>3, <1>c, TableCarried DEF AddCheckStaged, FoundLocals, TableLocals
    <3>2. ~Exists(h)
      <4> SUFFICES ASSUME handles[h].root # NoRoot, handles[h].spk # NoSpk
                   PROVE  FALSE
        BY <2>2 DEF IsStaged, Exists
      <4>1. Len(commitments) \in Nat /\ InRoot(h, Len(commitments)) /\ commitments # <<>>
        BY <3>1, CommittedIdx, EmptySeq DEF BaseInv, TypeOK
      <4>2. Binds(Len(commitments)) /\ InStep
        BY <1>3, <4>1, TableCarried, TreeCarried
           DEF AddCheckStaged, TableLocals, AheadPCs
      <4>3. Last(commitments).root[h] = NoSpk /\ Last(commitments) = commitments[Len(commitments)]
        BY <3>1, <4>1, <4>2, TipIsTree, LastRoot DEF BaseInv
      <4> QED
        BY <3>1, <4>1, <4>2, <4>3 DEF Binds
    <3>3. FoundLocals("add_insert", req[p])
      BY <3>1, <3>2 DEF FoundLocals, CheckedPCs
    <3> QED
      BY <1>3, <2>2, <3>3, FoundMove DEF AddCheckStaged
  <2> QED
    BY <2>1, <2>2
<1>4. CASE AddInsert(p)
  BY <1>4, MoveTo, FoundRows, FoundCarried DEF AddInsert, OpenPCs
<1> QED
  BY <1>1, <1>2, <1>3, <1>4 DEF AddRequests

LEMMA ParkKeepsFound ==
    ASSUME BaseInv, OneAtATime, Found, NEW p \in Procs,
           SetParked(p) \/ SetParkedFiltered(p) \/ RemoveStaged(p)
    PROVE  Found'
<1>1. at = "idle" /\ at' = "idle" /\ UNCHANGED <<commitments, nextId, chain>>
  BY FoundCarried DEF SetParked, SetParkedFiltered, RemoveStaged, Starts, at
<1> QED
  BY <1>1, FoundRows DEF OpenPCs

\* A new row's root was never sent.
LEMMA NewRoot ==
    ASSUME TypeOK, SentFits, NEW prev \in Tree \cup {NoRoot}, NEW root \in Tree,
           InsertCommitment(prev, root), Nested'
    PROVE  root \notin sent
<1> DEFINE n == Len(commitments)
<1>1. /\ n \in Nat /\ DOMAIN commitments = 1..n /\ DOMAIN commitments' = 1..(n + 1)
      /\ \A i \in DOMAIN commitments : commitments'[i] = commitments[i]
      /\ commitments'[n + 1].root = root
  BY InsertKeeps
<1> HIDE DEF n
<1>2. \A i \in 1..n : commitments[i].root # root
  <2> SUFFICES ASSUME NEW i \in 1..n
               PROVE  commitments[i].root # root
    OBVIOUS
  <2>1. i \in 1..(n + 1) /\ n + 1 \in 1..(n + 1) /\ i < n + 1
    BY <1>1
  <2>2. Ledger!Grows(commitments'[i].root, commitments'[n + 1].root)
    BY <1>1, <2>1 DEF Nested
  <2> QED
    BY <1>1, <2>2 DEF Ledger!Grows
<1> QED
  BY <1>1, <1>2 DEF SentFits, Known

\* The new row is unsent and unproved, and nothing is on its way.
LEMMA InsertKeepsFound ==
    ASSUME BaseInv, RowInv, Found, NEW prev \in Tree \cup {NoRoot}, NEW root \in Tree,
           InsertCommitment(prev, root), UNCHANGED chain, Ready, at # "bc_txid",
           at' \in {"cm_tree", "cm_mark"}, Nested'
    PROVE  Found'
<1> USE DEF chain
<1> DEFINE n == Len(commitments)
<1>1. /\ n \in Nat /\ DOMAIN commitments = 1..n /\ DOMAIN commitments' = 1..(n + 1)
      /\ \A i \in DOMAIN commitments : commitments'[i] = commitments[i]
      /\ commitments'[n + 1].root = root /\ ~commitments'[n + 1].step
      /\ ~commitments'[n + 1].agg
  <2> DEFINE row == [id |-> nextId, prev |-> prev, root |-> root,
                     step |-> FALSE, agg |-> FALSE, txid |-> FALSE]
  <2>1. row \in Commitment /\ commitments' = Append(commitments, row)
    BY DEF BaseInv, TypeOK, InsertCommitment, Commitment
  <2>2. row.root = root /\ ~row.step /\ ~row.agg
    OBVIOUS
  <2> HIDE DEF row
  <2>3. commitments'[n + 1] = row
    BY <2>1, LenProperties DEF BaseInv, TypeOK
  <2> QED
    BY <2>2, <2>3, InsertKeeps DEF BaseInv
<1>n. root \notin sent
  BY NewRoot DEF BaseInv, Found
<1>2. \A r \in sent : r \in confirmed
  <2> SUFFICES ASSUME NEW r \in sent, r \notin confirmed
               PROVE  FALSE
    OBVIOUS
  <2>1. commitments # <<>> /\ r = Last(commitments).root
    BY DEF Found, SentFits
  <2>2. Last(commitments).txid
    BY <2>1, LastRoot DEF Found, SentFits, BaseInv
  <2> QED
    BY <2>1, <2>2, LastRoot DEF Ready, BaseInv, TypeOK
<1>3. SentFits'
  <2>1. \A r \in sent : Known(r)'
    BY <1>1 DEF Found, SentFits, Known
  <2>3. \A i \in DOMAIN commitments : commitments[i].root \in sent => commitments[i].txid
    BY DEF Found, SentFits
  <2>4. \A i \in DOMAIN commitments' : commitments'[i].root \in sent => commitments'[i].txid
    BY <1>1, <1>n, <2>3
  <2> QED
    BY <1>2, <2>1, <2>4 DEF SentFits
<1>4. ProofsFit'
  BY <1>1 DEF Found, ProofsFit
<1>5. \A label \in {"cm_tree", "cm_mark"} : \A l : FoundLocals(label, l)'
  BY DEF FoundLocals, CheckedPCs
<1> QED
  BY <1>3, <1>4, <1>5 DEF Found

LEMMA CommitKeepsFound ==
    ASSUME BaseInv, OneAtATime, RowInv, Found, Nested', NEW p \in Procs, CommitLocal(p)
    PROVE  Found'
<1> USE DEF tables, chain, faults, Done
<1>c. FoundLocals(pc[p], req[p]) /\ pc[p] = at
  BY FoundCarried
<1>1. CASE CommitBegin(p)
  <2>1. FoundLocals("cm_check", NoRequest)
    BY <1>1 DEF CommitBegin, FoundLocals, CheckedPCs
  <2> QED
    BY <1>1, <2>1, FoundMove DEF CommitBegin, Starts
<1>2. CASE CommitCheck(p)
  <2>1. CASE CanCommitLocal
    <3>1. ~StagedCount0
      BY <2>1 DEF CanCommitLocal
    <3>2. ASSUME commitments # <<>>
          PROVE  /\ Len(commitments) # 1 => HasProof(Len(commitments))
                 /\ IF Last(commitments).txid THEN onchain = Last(commitments).root
                                              ELSE Len(commitments) = 1
      <4>1. /\ Len(commitments) \in DOMAIN commitments
            /\ Last(commitments) = commitments[Len(commitments)]
        BY <3>2, LastRoot DEF BaseInv
      <4>2. Len(commitments) # 1 => commitments[Len(commitments)].prev # NoRoot
        BY <4>1 DEF RowInv, Numbered
      <4> QED
        BY <2>1, <3>2, <4>1, <4>2 DEF CanCommitLocal
    <3>3. Ready
      BY <3>2 DEF Ready
    <3>4. FoundLocals("cm_list", NoRequest)
      BY <1>2, <1>c, <3>1, <3>3 DEF CommitCheck, FoundLocals, CheckedPCs
    <3> QED
      BY <1>2, <2>1, <3>4, FoundMove DEF CommitCheck
  <2>2. CASE ~CanCommitLocal
    BY <1>2, <2>2, FoundLeave DEF CommitCheck, OpenPCs
  <2> QED
    BY <2>1, <2>2
<1>3. CASE CommitList(p) \/ CommitInput(p) \/ CommitValidate(p) \/ CommitTree0(p)
  <2>1. /\ \E label \in CheckedPCs \cup {"idle"} : \E local : With(p, label, local)
        /\ pc[p] \in CheckedPCs
        /\ UNCHANGED <<handles, commitments, nextId, chain>>
    BY <1>3 DEF CommitList, CommitInput, CommitValidate, CommitTree0, CheckedPCs
  <2>2. \A label \in CheckedPCs \cup {"idle"} : \A local : FoundLocals(label, local)
    BY <1>c, <2>1 DEF FoundLocals, CheckedPCs
  <2>3. pc[p] # "bc_txid"
    BY <2>1 DEF CheckedPCs
  <2> QED
    BY <2>1, <2>2, <2>3, FoundMove
<1>4. CASE CommitTree(p)
  BY <1>4, FoundLeave DEF CommitTree, OpenPCs
<1>5. CASE CommitMark(p)
  BY <1>5, <1>c, MoveTo, FoundRows DEF CommitMark, OpenPCs
<1>6. CASE CommitRow(p)
  <2>1. Ready /\ at # "bc_txid"
    BY <1>6, <1>c DEF CommitRow, FoundLocals, CheckedPCs
  <2>2. /\ req[p].base \in Tree \cup {NoRoot} /\ req[p].root \in Tree
        /\ InsertCommitment(req[p].base, req[p].root) /\ UNCHANGED chain
    BY <1>6, RowCarried DEF CommitRow, Request, BaseInv, CarriesRoot
  <2>3. at' = "cm_tree"
    BY <1>6, MoveTo DEF CommitRow
  <2> QED
    BY <2>1, <2>2, <2>3, InsertKeepsFound
<1>7. CASE CommitRow0(p)
  <2>1. Ready /\ at # "bc_txid"
    BY <1>7, <1>c DEF CommitRow0, FoundLocals, CheckedPCs
  <2>2. /\ req[p].root \in Tree
        /\ InsertCommitment(NoRoot, req[p].root) /\ UNCHANGED chain
    BY <1>7, RowCarried DEF CommitRow0, BaseInv, CarriesRoot
  <2>3. at' = "cm_mark"
    BY <1>7, MoveTo DEF CommitRow0
  <2> QED
    BY <2>1, <2>2, <2>3, InsertKeepsFound
<1> QED
  BY <1>1, <1>2, <1>3, <1>4, <1>5, <1>6, <1>7 DEF CommitLocal

\* What is deleted was not sent.
LEMMA RollbackKeepsFound ==
    ASSUME BaseInv, OneAtATime, Found, NEW p \in Procs, RollbackLocal(p)
    PROVE  Found'
<1> USE DEF tables, chain, faults, Done
<1>c. pc[p] = at
  BY FoundCarried
<1>1. CASE RollbackBegin(p) \/ RollbackTree(p)
  <2>1. /\ \E label \in OpenPCs : \E local : With(p, label, local)
        /\ pc[p] # "bc_txid" /\ UNCHANGED <<handles, commitments, nextId, chain>>
    BY <1>1 DEF RollbackBegin, RollbackTree, Starts, OpenPCs
  <2> QED
    BY <2>1, FoundLeave
<1>2. CASE RollbackUnstage(p)
  <2>1. /\ \E label \in OpenPCs : \E local : With(p, label, local)
        /\ at # "bc_txid" /\ UNCHANGED <<commitments, nextId, chain>>
    BY <1>2, <1>c DEF RollbackUnstage, OpenPCs
  <2> QED
    BY <2>1, MoveTo, FoundRows
<1>3. CASE RollbackDelete(p)
  <2> DEFINE n == Len(commitments)
  <2>1. MayRollback /\ at = "rb_delete" /\ at' = "idle"
    BY <1>3, <1>c, MoveTo DEF RollbackDelete, BaseInv, DeleteHoldsLock
  <2>2. /\ n \in Nat \ {0} /\ DOMAIN commitments = 1..n /\ DOMAIN commitments' = 1..(n - 1)
        /\ \A i \in 1..(n - 1) : commitments'[i] = commitments[i]
        /\ Last(commitments) = commitments[n]
    <3>1. /\ commitments' \in Seq(Commitment) /\ Len(commitments') = n - 1
          /\ \A i \in 1..(n - 1) : commitments'[i] = commitments[i]
      BY <1>3, <2>1, FrontKeeps DEF RollbackDelete, MayRollback, BaseInv, TypeOK
    <3> QED
      BY <2>1, <3>1, LenProperties, LastRoot DEF MayRollback, BaseInv
  <2>3. ~Last(commitments).txid /\ Last(commitments).root \notin sent
    BY <2>1, <2>2 DEF MayRollback, Found, SentFits
  <2> HIDE DEF n
  <2>4. \A i \in 1..n : i \in 1..(n - 1) \/ i = n
    BY <2>2
  <2>5. SentFits'
    <3>1. \A r \in sent : Known(r)'
      BY <2>2, <2>3, <2>4 DEF Found, SentFits, Known
    <3>2. \A r \in sent : r \in confirmed
      BY <2>3 DEF Found, SentFits
    <3>3. \A i \in DOMAIN commitments' : commitments'[i].root \in sent => commitments'[i].txid
      <4>1. \A i \in 1..(n - 1) : commitments[i].root \in sent => commitments[i].txid
        BY <2>1, <2>2 DEF Found, SentFits
      <4> QED
        BY <2>2, <4>1
    <3> QED
      BY <1>3, <3>1, <3>2, <3>3 DEF SentFits, RollbackDelete
  <2>6. ProofsFit'
    BY <2>2 DEF Found, ProofsFit
  <2>7. \A l : FoundLocals("idle", l)'
    BY DEF FoundLocals, CheckedPCs
  <2> QED
    BY <2>1, <2>5, <2>6, <2>7 DEF Found
<1> QED
  BY <1>1, <1>2, <1>3 DEF RollbackLocal

\* A recorded txid changes neither proofs nor roots.
LEMMA TxidKeepsProofs ==
    ASSUME TypeOK, NEW p \in Procs, BroadcastStore(p) \/ BumpStore(p)
    PROVE  \A i \in DOMAIN commitments :
             /\ commitments'[i].step = commitments[i].step
             /\ commitments'[i].agg = commitments[i].agg
<1>1. \A i \in DOMAIN commitments : commitments[i] \in Commitment
  BY ElementOfSeq, LenProperties DEF TypeOK
<1>2. \A i \in DOMAIN commitments :
        /\ [commitments[i] EXCEPT !.txid = TRUE].step = commitments[i].step
        /\ [commitments[i] EXCEPT !.txid = TRUE].agg = commitments[i].agg
  BY <1>1 DEF Commitment
<1>3. commitments # <<>> => Len(commitments) \in DOMAIN commitments
  BY LastOfSeq DEF TypeOK
<1> QED
  BY <1>2, <1>3 DEF BroadcastStore, BumpStore

LEMMA RootsDiffer ==
    ASSUME TypeOK, Nested, NEW i \in DOMAIN commitments, NEW j \in DOMAIN commitments,
           commitments[i].root = commitments[j].root
    PROVE  i = j
<1>1. i \in Nat /\ j \in Nat
  BY LenProperties DEF TypeOK
<1>2. ~(i < j) /\ ~(j < i)
  BY DEF Nested, Ledger!Grows
<1> QED
  BY <1>1, <1>2

LEMMA BroadcastKeepsFound ==
    ASSUME BaseInv, OneAtATime, RowInv, Nested, Found, NEW p \in Procs, Broadcast(p)
    PROVE  Found'
<1> USE DEF tables, chain, faults, Done
<1>c. FoundLocals(pc[p], req[p]) /\ RowLocals(pc[p], req[p]) /\ pc[p] = at
  BY FoundCarried, RowCarried
<1>1. CASE BroadcastBegin(p) \/ BumpBegin(p)
  BY <1>1, FoundLeave DEF BroadcastBegin, BumpBegin, Starts, OpenPCs
<1>2. CASE BroadcastLast(p)
  <2>1. CASE MayBroadcast
    <3>1. \A local : FoundLocals("bc_send", local)
      BY <2>1 DEF FoundLocals, CheckedPCs
    <3> QED
      BY <1>2, <2>1, <3>1, FoundMove DEF BroadcastLast
  <2>2. CASE ~MayBroadcast
    BY <1>2, <2>2, FoundLeave DEF BroadcastLast, OpenPCs
  <2> QED
    BY <2>1, <2>2
<1>3. CASE BroadcastSend(p)
  <2>1. CASE With(p, "idle", NoRequest) /\ UNCHANGED sent
    BY <1>3, <2>1, FoundLeave DEF BroadcastSend, OpenPCs
  <2>2. CASE /\ sent' = sent \cup {req[p].root}
             /\ With(p, "bc_txid", [NoRequest EXCEPT !.id = req[p].id])
    <3>1. /\ at = "bc_send" /\ at' = "bc_txid" /\ UNCHANGED <<commitments, confirmed>>
          /\ req[p].root = Last(commitments).root /\ MayBroadcast
      BY <1>3, <1>c, <2>2, MoveTo DEF BroadcastSend, RowLocals, FoundLocals
    <3>2. /\ Len(commitments) \in DOMAIN commitments
          /\ Last(commitments) = commitments[Len(commitments)]
      BY <3>1, LastRoot DEF MayBroadcast, BaseInv
    <3>3. SentFits'
      <4>1. \A r \in sent' : r \in sent \/ r = Last(commitments).root
        BY <2>2, <3>1
      <4>2. \A r \in sent' : Known(r)'
        BY <3>1, <3>2, <4>1 DEF Found, SentFits, Known
      <4>3. \A r \in sent' : r \in confirmed' \/ (commitments' # <<>> /\ r = Last(commitments').root)
        BY <3>1, <4>1 DEF Found, SentFits, MayBroadcast
      <4>4. \A i \in DOMAIN commitments : commitments[i].root = Last(commitments).root =>
              i = Len(commitments)
        BY <3>2, RootsDiffer DEF BaseInv
      <4>5. \A i \in DOMAIN commitments : commitments[i].root \in sent' =>
              commitments[i].txid \/ i = Len(commitments)
        BY <4>1, <4>4 DEF Found, SentFits
      <4> QED
        BY <3>1, <4>2, <4>3, <4>5 DEF SentFits
    <3>4. ProofsFit'
      BY <3>1 DEF Found, ProofsFit
    <3>5. \A l : FoundLocals("bc_txid", l)'
      BY DEF FoundLocals, CheckedPCs
    <3> QED
      BY <3>1, <3>3, <3>4, <3>5 DEF Found
  <2> QED
    BY <1>3, <2>1, <2>2 DEF BroadcastSend
<1>4. CASE BroadcastStore(p) \/ BumpStore(p)
  <2>1. Recorded(commitments, commitments') /\ UNCHANGED <<handles, nextId, chain>>
    BY <1>4, TxidRecorded DEF BaseInv, BroadcastStore, BumpStore
  <2>2. at' = "idle"
    BY <1>4, MoveTo DEF BroadcastStore, BumpStore
  <2>3. SentFits'
    <3>1. \A i \in DOMAIN commitments : commitments[i].root \in sent => commitments'[i].txid
      <4>1. CASE BroadcastStore(p)
        <5>1. at = "bc_txid" /\ IsLast(req[p])
          BY <1>c, <4>1 DEF BroadcastStore, RowLocals
        <5>2. /\ Len(commitments) \in DOMAIN commitments
              /\ commitments[Len(commitments)].id = req[p].id
          BY <5>1, LastRoot DEF IsLast, BaseInv
        <5>3. commitments'[Len(commitments)].txid
          <6>1. commitments[Len(commitments)] \in Commitment
            BY <5>1, LastRoot DEF IsLast, BaseInv
          <6>2. commitments'[Len(commitments)] = [commitments[Len(commitments)] EXCEPT !.txid = TRUE]
            BY <4>1, <5>2 DEF BroadcastStore
          <6> QED
            BY <6>1, <6>2 DEF Commitment
        <5> QED
          BY <2>1, <5>3, RecordedKeeps DEF Found, SentFits, BaseInv
      <4>2. CASE BumpStore(p)
        <5>1. at # "bc_txid"
          BY <1>c, <4>2 DEF BumpStore
        <5> QED
          BY <2>1, <5>1, RecordedKeeps DEF Found, SentFits, BaseInv
      <4> QED
        BY <1>4, <4>1, <4>2
    <3>2. \A r \in sent : Known(r)'
      BY <2>1, RecordedKeeps DEF Found, SentFits, Known, BaseInv
    <3>3. \A r \in sent : r \in confirmed \/ (commitments' # <<>> /\ r = Last(commitments').root)
      BY <2>1, RecordedKeeps DEF Found, SentFits, BaseInv
    <3>4. DOMAIN commitments' = DOMAIN commitments
          /\ \A i \in DOMAIN commitments : commitments'[i].root = commitments[i].root
      BY <2>1, RecordedKeeps DEF BaseInv
    <3> QED
      BY <2>1, <3>1, <3>2, <3>3, <3>4 DEF SentFits
  <2>4. ProofsFit'
    BY <1>4, <2>1, TxidKeepsProofs, RecordedKeeps DEF Found, ProofsFit, BaseInv
  <2>5. \A l : FoundLocals("idle", l)'
    BY DEF FoundLocals, CheckedPCs
  <2> QED
    BY <2>2, <2>3, <2>4, <2>5 DEF Found
<1> QED
  BY <1>1, <1>2, <1>3, <1>4 DEF Broadcast

\* Which receipt column a row gained.
LEMMA ReceiptProofs ==
    ASSUME TypeOK, NEW i \in DOMAIN commitments, NEW field \in {"step", "agg"}, Proved(i, field)
    PROVE  /\ \A j \in DOMAIN commitments : j # i => commitments'[j] = commitments[j]
           /\ field = "step" => commitments'[i].step /\ commitments'[i].agg = commitments[i].agg
           /\ field = "agg" => commitments'[i].agg /\ commitments'[i].step = commitments[i].step
<1>1. commitments[i] \in Commitment
  BY ElementOfSeq, LenProperties DEF TypeOK
<1>2. /\ [commitments[i] EXCEPT !.step = TRUE].step
      /\ [commitments[i] EXCEPT !.step = TRUE].agg = commitments[i].agg
      /\ [commitments[i] EXCEPT !.agg = TRUE].agg
      /\ [commitments[i] EXCEPT !.agg = TRUE].step = commitments[i].step
  BY <1>1 DEF Commitment
<1> QED
  BY <1>2 DEF Proved

LEMMA ReceiptKeepsFound ==
    ASSUME BaseInv, OneAtATime, Found, SaveStepReceipt \/ SaveFoldReceipt
    PROVE  Found'
<1> USE DEF tables, chain, faults
<1>1. Recorded(commitments, commitments') /\ UNCHANGED <<handles, nextId, sent, confirmed, onchain>>
  BY ReceiptRecorded DEF BaseInv, SaveStepReceipt, SaveFoldReceipt
<1>2. at' = at /\ my' = my
  BY DEF at, my, SaveStepReceipt, SaveFoldReceipt
<1>3. PICK i \in DOMAIN commitments, field \in {"step", "agg"} :
             /\ Proved(i, field)
             /\ field = "step" => i >= 2
             /\ field = "agg" => i >= 3 /\ commitments[i].step
  <2>1. ASSUME SaveFoldReceipt
        PROVE  \E i \in DOMAIN commitments : Proved(i, "agg") /\ i >= 3 /\ commitments[i].step
    <3>1. DOMAIN commitments \subseteq Nat
      BY LenProperties DEF BaseInv, TypeOK
    <3> QED
      BY <2>1, <3>1 DEF SaveFoldReceipt
  <2>2. ASSUME SaveStepReceipt
        PROVE  \E i \in DOMAIN commitments : Proved(i, "step") /\ i >= 2
    BY <2>2 DEF SaveStepReceipt
  <2> QED
    BY <2>1, <2>2
<1>4. \A j \in DOMAIN commitments :
        /\ commitments[j].step => commitments'[j].step
        /\ commitments[j].agg => commitments'[j].agg
        /\ commitments'[j].step => j >= 2
        /\ commitments'[j].agg => j >= 3 /\ commitments'[j].step
  BY <1>3, ReceiptProofs DEF Found, ProofsFit, BaseInv
<1>5. ProofsFit'
  BY <1>1, <1>4, RecordedKeeps DEF ProofsFit, BaseInv
<1>6. SentFits'
  BY <1>1, <1>2, RecordedSent DEF Found, BaseInv
<1>7. \A label, l : FoundLocals(label, l) => FoundLocals(label, l)'
  <2>1. commitments # <<>> => /\ Len(commitments) \in DOMAIN commitments
                              /\ Last(commitments) = commitments[Len(commitments)]
                              /\ Last(commitments') = commitments'[Len(commitments)]
    BY <1>1, LastRoot, RecordedKeeps DEF BaseInv, Last
  <2>2. \A j \in DOMAIN commitments : commitments'[j].txid = commitments[j].txid
    BY ReceiptKeepsTxids DEF BaseInv
  <2>3. Ready => Ready'
    BY <1>1, <1>4, <2>1, <2>2, RecordedKeeps DEF Ready, HasProof, BaseInv
  <2>4. MayBroadcast => MayBroadcast'
    BY <1>1, <1>4, <2>1, <2>2, RecordedKeeps DEF MayBroadcast, BaseInv
  <2>5. StagedCount0' = StagedCount0 /\ \A h : Exists(h)' = Exists(h)
    BY <1>1 DEF StagedCount0, Eligible, IsStaged, Exists
  <2> QED
    BY <1>1, <2>3, <2>4, <2>5 DEF FoundLocals
<1> QED
  BY <1>2, <1>5, <1>6, <1>7 DEF Found

\* While a commit goes on nothing is on its way.
LEMMA NothingPending ==
    ASSUME TypeOK, Found, Ready, at # "bc_txid"
    PROVE  sent \subseteq confirmed
<1> SUFFICES ASSUME NEW r \in sent, r \notin confirmed
             PROVE  FALSE
  OBVIOUS
<1>1. commitments # <<>> /\ r = Last(commitments).root
  BY DEF Found, SentFits
<1>2. Last(commitments).txid
  BY <1>1, LastRoot DEF Found, SentFits
<1> QED
  BY <1>1, <1>2, LastRoot DEF Ready, TypeOK

LEMMA ChainKeepsFound ==
    ASSUME BaseInv, OneAtATime, Found, Confirm \/ Finalize
    PROVE  Found'
<1> USE DEF tables, chain, faults
<1>1. UNCHANGED <<handles, commitments, nextId, sent>> /\ at' = at /\ my' = my
      /\ confirmed \subseteq confirmed'
  BY DEF Confirm, Finalize, at, my
<1>2. SentFits' /\ ProofsFit'
  BY <1>1 DEF Found, SentFits, ProofsFit, Known
<1>3. \A label \in PCs, l \in Request :
        at = label /\ FoundLocals(label, l) => FoundLocals(label, l)'
  <2>1. CASE onchain' = onchain
    BY <1>1, <2>1, FoundSame
  <2>2. CASE onchain' # onchain
    <3>1. ~(sent \subseteq confirmed)
      BY <2>2 DEF Confirm, Finalize
    <3>2. at \in CheckedPCs => ~Ready
      BY <3>1, NothingPending DEF CheckedPCs, BaseInv
    <3>3. MayBroadcast' = MayBroadcast /\ \A h : Exists(h)' = Exists(h)
      BY <1>1 DEF MayBroadcast, Exists
    <3> QED
      BY <1>1, <3>2, <3>3 DEF FoundLocals, CheckedPCs
  <2> QED
    BY <2>1, <2>2
<1> QED
  BY <1>1, <1>2, <1>3 DEF Found

\* Without a fault the space is loaded once, empty.
LEMMA FaultsKeepFound ==
    ASSUME BaseInv, Tabled, Found, NoFault',
           \/ Crash \/ LoadAllSpaces \/ LoadOrCreateSpace \/ LoadOrCreateCrash
           \/ \E p \in Procs : Abort(p)
    PROVE  Found' /\ UNCHANGED <<handles, commitments, nextId, chain, pc, req>>
<1> USE DEF tables, chain, faults
<1>1. LoadOrCreateSpace
  BY BoundsAreNatural DEF Crash, LoadAllSpaces, LoadOrCreateCrash, Abort, NoFault,
                          BaseInv, TypeOK
<1>2. UNCHANGED <<handles, commitments, nextId, chain, pc, req>>
  BY <1>1 DEF LoadOrCreateSpace, Orphaned, MayRollback, Tabled
<1>3. at' = at /\ my' = my
  BY <1>2 DEF at, my
<1>4. SentFits' /\ ProofsFit'
  BY <1>2, <1>3 DEF Found, SentFits, ProofsFit, Known
<1> QED
  BY <1>2, <1>3, <1>4, FoundSame DEF Found

LEMMA NextKeepsFound ==
    ASSUME OneAtATime, BaseInv, RowInv, TreeInv, TableInv, FoundInv, TreeInv', [Next]_vars
    PROVE  FoundInv'
<1> SUFFICES ASSUME NoFault'
             PROVE  Found'
  BY DEF FoundInv
<1>1. NoFault
  BY FaultsGrow, BoundsAreNatural DEF NoFault, BaseInv, TypeOK
<1>2. Tabled /\ Chained /\ Found /\ Nested /\ Nested'
  BY <1>1 DEF FoundInv, TableInv, TreeInv, NoFault, Sound, Chained
<1>3. CASE UNCHANGED vars
  <2>1. /\ at' = at /\ my' = my
        /\ UNCHANGED <<handles, commitments, nextId, sent, confirmed, onchain>>
    BY <1>3 DEF vars, tables, chain, at, my
  <2>2. SentFits' /\ ProofsFit'
    BY <1>2, <2>1 DEF Found, SentFits, ProofsFit, Known
  <2> QED
    BY <1>2, <2>1, <2>2, FoundSame DEF Found
<1>4. CASE Next
  BY <1>2, <1>4, AddKeepsFound, ParkKeepsFound, CommitKeepsFound, RollbackKeepsFound,
     BroadcastKeepsFound, ReceiptKeepsFound, ChainKeepsFound, FaultsKeepFound, ParkersOperate
     DEF Next, Procs
<1> QED
  BY <1>3, <1>4

LEMMA InitFound ==
    ASSUME OneAtATime, Init
    PROVE  FoundInv
<1>1. at = "idle" /\ \A l : FoundLocals("idle", l)
  BY OneProc DEF Init, at, FoundLocals, CheckedPCs
<1>2. SentFits /\ ProofsFit
  BY DEF Init, SentFits, ProofsFit
<1> QED
  BY <1>1, <1>2 DEF FoundInv, Found

-----------------------------------------------------------------------------
(***************************************************************************)
(* What SpaceTable is shown, and the steps it does not see.                *)
(***************************************************************************)
Shown == <<TableRows, TableCommits, nextId, TableTip>>

\* A commitment as SpaceTable has it; s are the roots that were sent.
Cell(c, s) == [id |-> c.id, proofs |-> Proofs(c), sent |-> c.root \in s, marked |-> FALSE]
Cells(table, s) == [i \in DOMAIN table |-> Cell(table[i], s)]

TipOf(table, r) == IF \E i \in DOMAIN table : table[i].root = r
                   THEN CHOOSE i \in DOMAIN table : table[i].root = r ELSE 0

CommitPCs == {"cm_tree", "cm_mark"}

LEMMA ShownAs ==
    ASSUME OneAtATime
    PROVE  /\ TableCommits = Cells(Present, sent) /\ TableCommits' = Cells(Present', sent')
           /\ TableTip = TipOf(commitments, onchain)
           /\ TableTip' = TipOf(commitments', onchain')
           /\ (Committing <=> at \in CommitPCs) /\ (Committing' <=> at' \in CommitPCs)
           /\ (Deleting <=> at = "rb_delete") /\ (Deleting' <=> at' = "rb_delete")
<1>1. Op \in Operators /\ \A p \in Operators : p = Op
  BY OneProc DEF OneAtATime, Procs
<1>2. /\ (Committing <=> at \in CommitPCs) /\ (Committing' <=> at' \in CommitPCs)
      /\ (Deleting <=> at = "rb_delete") /\ (Deleting' <=> at' = "rb_delete")
  BY <1>1 DEF Committing, Deleting, at, CommitPCs
<1>3. TableTip = TipOf(commitments, onchain) /\ TableTip' = TipOf(commitments', onchain')
  BY DEF TableTip, TipOf, Known
<1>4. TableCommits = Cells(Present, sent) /\ TableCommits' = Cells(Present', sent')
  BY DEF TableCommits, Cells, Cell
<1> QED
  BY <1>2, <1>3, <1>4

LEMMA TipIs ==
    ASSUME NEW table, NEW r, NEW i \in DOMAIN table, table[i].root = r,
           \A j \in DOMAIN table : table[j].root = r => j = i
    PROVE  TipOf(table, r) = i
  BY DEF TipOf

LEMMA TipIsNone ==
    ASSUME NEW table, NEW r, \A j \in DOMAIN table : table[j].root # r
    PROVE  TipOf(table, r) = 0
  BY DEF TipOf

LEMMA TipSame ==
    ASSUME TypeOK, Nested, NEW table, NEW r, DOMAIN table \subseteq DOMAIN commitments,
           \A i \in DOMAIN table : table[i].root = commitments[i].root,
           \A i \in DOMAIN commitments : commitments[i].root = r => i \in DOMAIN table
    PROVE  TipOf(table, r) = TipOf(commitments, r)
<1>1. CASE \E i \in DOMAIN commitments : commitments[i].root = r
  <2>1. PICK i \in DOMAIN commitments : commitments[i].root = r
    BY <1>1
  <2>2. \A j \in DOMAIN commitments : commitments[j].root = r => j = i
    BY <2>1, RootsDiffer
  <2>3. TipOf(commitments, r) = i
    BY <2>1, <2>2, TipIs
  <2>4. TipOf(table, r) = i
    BY <2>1, <2>2, TipIs
  <2> QED
    BY <2>3, <2>4
<1>2. CASE \A i \in DOMAIN commitments : commitments[i].root # r
  BY <1>2, TipIsNone
<1> QED
  BY <1>1, <1>2

\* Only rows change.
LEMMA CellsSame ==
    ASSUME OneAtATime, UNCHANGED <<commitments, sent, onchain>>,
           at # "rb_delete", at' # "rb_delete"
    PROVE  UNCHANGED <<TableCommits, TableTip>>
<1>1. Present' = commitments' /\ Present = commitments
  BY ShownAs DEF Present
<1> QED
  BY <1>1, ShownAs

LEMMA RowsSame ==
    ASSUME OneAtATime, UNCHANGED handles,
           \/ at \in CommitPCs /\ at' \in CommitPCs /\ Len(commitments') = Len(commitments)
           \/ at \notin CommitPCs /\ at' \notin CommitPCs
    PROVE  UNCHANGED TableRows
<1>1. \A h : TableIdx(h)' = TableIdx(h)
  BY ShownAs DEF TableIdx, Eligible, IsStaged, Exists
<1> QED
  BY <1>1 DEF TableRows

LEMMA QuietMove ==
    ASSUME BaseInv, OneAtATime, NEW p \in Procs, NEW label, NEW local,
           With(p, label, local), pc[p] # "rb_delete", label # "rb_delete",
           pc[p] \in CommitPCs <=> label \in CommitPCs,
           UNCHANGED <<handles, commitments, nextId, sent, onchain>>
    PROVE  UNCHANGED Shown
<1>1. at' = label /\ p = Op /\ at = pc[p]
  BY MoveTo DEF at
<1> QED
  BY <1>1, CellsSame, RowsSame DEF Shown

\* A row outside of a commit.
LEMMA PlainRow ==
    ASSUME OneAtATime
    PROVE  /\ at \notin CommitPCs => \A h \in Handles :
                TableRows[h] = [spk |-> handles[h].spk,
                                idx |-> IF handles[h].root # NoRoot THEN handles[h].idx + 1 ELSE 0,
                                pub |-> "no", at |-> 0]
           /\ at' \notin CommitPCs => \A h \in Handles :
                TableRows'[h] = [spk |-> handles'[h].spk,
                                 idx |-> IF handles'[h].root # NoRoot THEN handles'[h].idx + 1 ELSE 0,
                                 pub |-> "no", at |-> 0]
           /\ TableRows = [h \in Handles |-> TableRows[h]]
           /\ TableRows' = [h \in Handles |-> TableRows'[h]]
  BY ShownAs DEF TableRows, TableIdx

\* Parking is not shown.
LEMMA ParkIsQuiet ==
    ASSUME BaseInv, OneAtATime, NEW p \in Procs, SetParked(p) \/ SetParkedFiltered(p)
    PROVE  UNCHANGED Shown
<1>1. at = "idle" /\ at' = "idle" /\ UNCHANGED <<commitments, nextId, sent, onchain>>
  BY OneProc DEF SetParked, SetParkedFiltered, Starts, at, chain
<1>2. \A h \in Handles : handles[h] \in Row
  BY DEF BaseInv, TypeOK
<1>3. \A h \in Handles, b \in BOOLEAN :
        /\ [handles[h] EXCEPT !.parked = b].spk = handles[h].spk
        /\ [handles[h] EXCEPT !.parked = b].root = handles[h].root
        /\ [handles[h] EXCEPT !.parked = b].idx = handles[h].idx
  BY <1>2 DEF Row
<1>4. \A h \in Handles : /\ handles'[h].spk = handles[h].spk
                         /\ handles'[h].root = handles[h].root
                         /\ handles'[h].idx = handles[h].idx
  <2>1. CASE SetParked(p)
    BY <1>3, <2>1 DEF SetParked
  <2>2. CASE SetParkedFiltered(p)
    <3>1. PICK S \in SUBSET Handles, b \in BOOLEAN :
            handles' = [h \in Handles |->
                          IF Exists(h)
                          THEN [handles[h] EXCEPT !.parked = b /\ h \in S /\ IsStaged(h)]
                          ELSE handles[h]]
      BY <2>2 DEF SetParkedFiltered
    <3>2. \A h \in Handles : (b /\ h \in S /\ IsStaged(h)) \in BOOLEAN
      OBVIOUS
    <3> QED
      BY <1>3, <3>1, <3>2
  <2> QED
    BY <2>1, <2>2
<1>5. UNCHANGED TableRows
  BY <1>1, <1>4, PlainRow DEF CommitPCs
<1> QED
  BY <1>1, <1>5, CellsSame DEF Shown

\* The marking is not shown: the rows were the commitment's since its row.
LEMMA MarkIsQuiet ==
    ASSUME BaseInv, OneAtATime, RowInv, NEW p \in Procs, CommitMark(p)
    PROVE  UNCHANGED Shown
<1>1. /\ at = "cm_mark" /\ at' = "idle" /\ UNCHANGED <<commitments, nextId, sent, onchain>>
  BY MoveTo DEF CommitMark, Done, at, chain
<1>2. /\ req[p].idx + 1 = Len(commitments) /\ req[p].root = Last(commitments).root
      /\ commitments # <<>>
  BY RowCarried DEF CommitMark, RowLocals
<1>3. req[p].root # NoRoot
  BY <1>2, LastRoot DEF BaseInv
<1>4. \A h \in Handles : /\ handles[h] \in Row
                         /\ handles'[h] = IF Eligible(h)
                                          THEN [handles[h] EXCEPT !.root = req[p].root,
                                                                  !.idx = req[p].idx]
                                          ELSE handles[h]
  BY DEF CommitMark, BaseInv, TypeOK
<1>5. \A h \in Handles :
        /\ handles'[h].spk = handles[h].spk
        /\ Eligible(h) => handles'[h].root = req[p].root /\ handles'[h].idx = req[p].idx
        /\ Eligible(h) => handles[h].root = NoRoot
        /\ ~Eligible(h) => handles'[h] = handles[h]
  BY <1>4 DEF Row, Eligible, IsStaged
<1>6. \A h \in Handles : TableIdx(h)' = TableIdx(h)
  <2>1. Committing /\ ~Committing' /\ (commitments' = commitments)
    BY <1>1, ShownAs DEF CommitPCs
  <2>2. \A h \in Handles : Eligible(h) => TableIdx(h)' = Len(commitments)
    BY <1>2, <1>3, <1>5 DEF TableIdx
  <2>3. \A h \in Handles : ~Eligible(h) => TableIdx(h)' = TableIdx(h)
    BY <1>5, <2>1 DEF TableIdx
  <2>4. \A h \in Handles : Eligible(h) => TableIdx(h) = Len(commitments)
    BY <1>5, <2>1 DEF TableIdx
  <2> QED
    BY <2>2, <2>3, <2>4
<1>7. UNCHANGED TableRows
  BY <1>5, <1>6 DEF TableRows
<1> QED
  BY <1>1, <1>7, CellsSame DEF Shown

\* Recording a txid is not shown: the commitment was sent before.
LEMMA StoreIsQuiet ==
    ASSUME BaseInv, OneAtATime, Nested, NEW p \in Procs, BroadcastStore(p) \/ BumpStore(p)
    PROVE  UNCHANGED Shown
<1>1. /\ at \notin CommitPCs \cup {"rb_delete"} /\ at' = "idle"
      /\ UNCHANGED <<handles, nextId, sent, onchain>>
  BY MoveTo DEF BroadcastStore, BumpStore, Done, at, chain, CommitPCs
<1>2. /\ DOMAIN commitments' = DOMAIN commitments
      /\ \A i \in DOMAIN commitments :
           commitments'[i].id = commitments[i].id /\ commitments'[i].root = commitments[i].root
  BY TxidRecorded, RecordedKeeps DEF BaseInv
<1>3. \A i \in DOMAIN commitments : Cell(commitments'[i], sent) = Cell(commitments[i], sent)
  BY <1>2, TxidKeepsProofs DEF Cell, Proofs, BaseInv
<1>4. Present = commitments /\ Present' = commitments'
  BY <1>1, ShownAs DEF Present
<1>5. TableCommits' = TableCommits
  BY <1>1, <1>2, <1>3, <1>4, ShownAs DEF Cells
<1>6. TableTip' = TableTip
  BY <1>1, <1>2, ShownAs, TipSame DEF BaseInv
<1>7. UNCHANGED TableRows
  BY <1>1, RowsSame DEF CommitPCs
<1> QED
  BY <1>1, <1>5, <1>6, <1>7 DEF Shown

\* The deletion is not shown: the commitment was gone with the unstaging.
LEMMA DeleteIsQuiet ==
    ASSUME BaseInv, OneAtATime, Nested, Found, NEW p \in Procs, RollbackDelete(p)
    PROVE  UNCHANGED Shown
<1> DEFINE n == Len(commitments)
<1>1. /\ MayRollback /\ at = "rb_delete" /\ at' = "idle"
      /\ UNCHANGED <<handles, nextId, sent, onchain>> /\ commitments' = Front(commitments)
  BY FoundCarried, MoveTo DEF RollbackDelete, Done, BaseInv, DeleteHoldsLock, chain
<1>2. Present = Front(commitments) /\ Present' = Front(commitments)
  BY <1>1, ShownAs DEF Present
<1>3. TableCommits' = TableCommits
  BY <1>1, <1>2, ShownAs
<1>4. /\ n \in Nat \ {0} /\ DOMAIN commitments = 1..n /\ DOMAIN commitments' = 1..(n - 1)
      /\ \A i \in 1..(n - 1) : commitments'[i] = commitments[i]
      /\ Last(commitments) = commitments[n]
  <2>1. /\ commitments' \in Seq(Commitment) /\ Len(commitments') = n - 1
        /\ \A i \in 1..(n - 1) : commitments'[i] = commitments[i]
    BY <1>1, FrontKeeps DEF MayRollback, BaseInv, TypeOK
  <2> QED
    BY <1>1, <2>1, LenProperties, LastRoot DEF MayRollback, BaseInv
<1>5. Last(commitments).root # onchain
  <2>1. Last(commitments).root \notin sent
    BY <1>1, <1>4 DEF MayRollback, Found, SentFits
  <2> QED
    BY <1>1, <2>1, LastRoot DEF BaseInv, TypeOK, MayRollback
<1> HIDE DEF n
<1>6. TableTip' = TableTip
  <2>1. /\ DOMAIN commitments' \subseteq DOMAIN commitments
        /\ \A i \in DOMAIN commitments' : commitments'[i].root = commitments[i].root
        /\ \A i \in DOMAIN commitments : commitments[i].root = onchain => i \in DOMAIN commitments'
    BY <1>4, <1>5
  <2> QED
    BY <1>1, <2>1, ShownAs, TipSame DEF BaseInv
<1>7. UNCHANGED TableRows
  BY <1>1, RowsSame DEF CommitPCs
<1> QED
  BY <1>1, <1>3, <1>6, <1>7 DEF Shown

-----------------------------------------------------------------------------
(* The steps that SpaceTable takes: staging and removing.                  *)

LEMMA RowsOnly ==
    ASSUME OneAtATime, UNCHANGED <<commitments, nextId, sent, onchain>>,
           at # "rb_delete", at' # "rb_delete"
    PROVE  UNCHANGED <<TableCommits, nextId, TableTip, TableLeft>>
<1>1. UNCHANGED TableLeft
  BY DEF TableLeft, Budget
<1> QED
  BY <1>1, CellsSame

\* SpaceTable's words for a row outside of a commit.
LEMMA PlainWords ==
    ASSUME TypeOK, OneAtATime, at \notin CommitPCs, NEW h \in Handles
    PROVE  (Table!Exists(h) <=> Exists(h)) /\ (Table!IsStaged(h) <=> IsStaged(h))
<1>1. handles[h].idx \in Nat
  BY DEF TypeOK, Row
<1>2. TableRows[h].spk = handles[h].spk
  BY PlainRow
<1>3. TableRows[h].idx = 0 <=> handles[h].root = NoRoot
  BY <1>1, PlainRow
<1> QED
  BY <1>2, <1>3 DEF Table!Exists, Table!IsStaged, Exists, IsStaged

LEMMA AddInsertAdds ==
    ASSUME BaseInv, OneAtATime, Found, NEW p \in Procs, AddInsert(p)
    PROVE  Table!AddRequest
<1> DEFINE h == req[p].h
           s == req[p].spk
<1>1. /\ at = "add_insert" /\ at' = "idle" /\ UNCHANGED <<commitments, nextId, sent, onchain>>
      /\ h \in Handles /\ s \in Spks /\ ~Exists(h)
  BY MoveTo, FoundCarried DEF AddInsert, Done, at, chain, FoundLocals
<1>2. handles' = [handles EXCEPT ![h] = [NoRow EXCEPT !.spk = s]]
      /\ handles \in [Handles -> Row]
  BY DEF AddInsert, BaseInv, TypeOK
<1> HIDE DEF h, s
<1>3. /\ handles'[h] = [NoRow EXCEPT !.spk = s]
      /\ \A g \in Handles : g # h => handles'[g] = handles[g]
  BY <1>1, <1>2
<1>4. handles'[h].spk = s /\ handles'[h].root = NoRoot
  BY <1>3 DEF NoRow
<1>5. TableRows'[h] = Table!Staged(s)
  BY <1>1, <1>4, PlainRow DEF Table!Staged, Table!NoRow, CommitPCs
<1>6. \A g \in Handles : g # h => TableRows'[g] = TableRows[g]
  BY <1>1, <1>3, PlainRow DEF CommitPCs
<1>7. Table!Stage(h, s)
  BY <1>1, <1>5, <1>6, PlainRow DEF Table!Stage
<1>8. ~Table!Exists(h)
  BY <1>1, PlainWords DEF CommitPCs, BaseInv
<1>9. h \in Handles \cap TableLeft.names /\ s \in TableLeft.spks
  BY <1>1 DEF TableLeft, Budget
<1>10. UNCHANGED <<TableCommits, nextId, TableTip, TableLeft>>
  BY <1>1, RowsOnly
<1> QED
  BY <1>7, <1>8, <1>9, <1>10 DEF Table!AddRequest

LEMMA RemoveRemoves ==
    ASSUME BaseInv, OneAtATime, NEW p \in Procs, RemoveStaged(p)
    PROVE  Table!RemoveStaged \/ UNCHANGED Shown
<1>1. at = "idle" /\ at' = "idle" /\ UNCHANGED <<commitments, nextId, sent, onchain>>
  BY OneProc DEF RemoveStaged, Starts, at, chain
<1>2. PICK S \in (SUBSET Handles) \ {{}} :
             handles' = [h \in Handles |-> IF h \in S /\ IsStaged(h) THEN NoRow ELSE handles[h]]
  BY DEF RemoveStaged
<1> DEFINE T == {h \in S : IsStaged(h)}
<1>3. \A h \in Handles : Table!IsStaged(h) <=> IsStaged(h)
  BY <1>1, PlainWords DEF CommitPCs, BaseInv
<1>4. T \in SUBSET {h \in Handles : Table!IsStaged(h)}
  BY <1>2, <1>3
<1>5. /\ \A h \in T : handles'[h] = NoRow
      /\ \A h \in Handles : h \notin T => handles'[h] = handles[h]
  BY <1>2
<1> HIDE DEF T
<1>6. /\ \A h \in T : TableRows'[h] = Table!NoRow
      /\ \A h \in Handles : h \notin T => TableRows'[h] = TableRows[h]
  <2>1. \A h \in T : h \in Handles /\ handles'[h].spk = NoSpk /\ handles'[h].root = NoRoot
    BY <1>4, <1>5 DEF NoRow
  <2>2. \A h \in T : TableRows'[h] = Table!NoRow
    BY <1>1, <2>1, PlainRow DEF Table!NoRow, CommitPCs
  <2>3. \A h \in Handles : h \notin T => TableRows'[h] = TableRows[h]
    BY <1>1, <1>5, PlainRow DEF CommitPCs
  <2> QED
    BY <2>2, <2>3
<1>7. TableRows' = [h \in Handles |-> IF h \in T THEN Table!NoRow ELSE TableRows[h]]
  BY <1>6, PlainRow
<1>8. UNCHANGED <<TableCommits, nextId, TableTip, TableLeft>>
  BY <1>1, RowsOnly
<1>9. CASE T = {}
  <2>1. TableRows' = TableRows
    BY <1>6, <1>9, PlainRow
  <2> QED
    BY <1>8, <2>1 DEF Shown
<1>10. CASE T # {}
  BY <1>4, <1>7, <1>8, <1>10 DEF Table!RemoveStaged
<1> QED
  BY <1>9, <1>10

-----------------------------------------------------------------------------
(* The steps that SpaceTable takes: the commitments' receipts and fate.    *)

LEMMA CellParts ==
    ASSUME NEW c, NEW s
    PROVE  Cell(c, s).id = c.id /\ Cell(c, s).proofs = Proofs(c)
  BY Zenon DEF Cell

LEMMA CellFate ==
    ASSUME NEW c, NEW s
    PROVE  Cell(c, s).sent <=> c.root \in s
<1>1. Cell(c, s).sent = (c.root \in s)
  BY Zenon DEF Cell
<1> QED
  BY <1>1, Zenon

LEMMA CellSame ==
    ASSUME NEW c, NEW s, NEW t, c.root \in t <=> c.root \in s
    PROVE  Cell(c, t) = Cell(c, s)
<1>1. (c.root \in t) = (c.root \in s)
  OBVIOUS
<1> QED
  BY <1>1, Zenon DEF Cell

\* A cell whose root is sent, and one that takes a receipt.
LEMMA CellSent ==
    ASSUME NEW c, NEW s, NEW t, c.root \in t
    PROVE  Cell(c, t) = [Cell(c, s) EXCEPT !.sent = TRUE]
<1> DEFINE x == c.root \in s
           yes == TRUE
           no == FALSE
<1>1. (c.root \in t) = TRUE
  OBVIOUS
<1>2. Cell(c, t) = [id |-> c.id, proofs |-> Proofs(c), sent |-> yes, marked |-> no]
  BY <1>1, Zenon DEF Cell
<1>3. Cell(c, s) = [id |-> c.id, proofs |-> Proofs(c), sent |-> x, marked |-> no]
  BY Zenon DEF Cell
<1> HIDE DEF x, yes, no
<1>4. Cell(c, t) = [Cell(c, s) EXCEPT !.sent = yes]
  BY <1>2, <1>3
<1> QED
  BY <1>4, Zenon DEF yes

LEMMA CellProved ==
    ASSUME NEW c, NEW d, NEW s, c.id = d.id, c.root = d.root
    PROVE  Cell(c, s) = [Cell(d, s) EXCEPT !.proofs = Proofs(c)]
<1> DEFINE x == d.root \in s
           no == FALSE
<1>1. Cell(c, s) = [id |-> d.id, proofs |-> Proofs(c), sent |-> x, marked |-> no]
  BY Zenon DEF Cell
<1>2. Cell(d, s) = [id |-> d.id, proofs |-> Proofs(d), sent |-> x, marked |-> no]
  BY Zenon DEF Cell
<1> HIDE DEF x, no
<1> QED
  BY <1>1, <1>2

LEMMA CellsAre ==
    ASSUME NEW table \in Seq(Commitment), NEW s
    PROVE  /\ Cells(table, s) \in Seq(Table!Commit) /\ Len(Cells(table, s)) = Len(table)
           /\ Len(table) \in Nat /\ DOMAIN table = 1..Len(table)
           /\ DOMAIN Cells(table, s) = 1..Len(table)
           /\ \A i \in 1..Len(table) : Cells(table, s)[i] = Cell(table[i], s)
<1>1. Len(table) \in Nat /\ DOMAIN table = 1..Len(table)
  BY LenProperties
<1>2. \A i \in 1..Len(table) : Cell(table[i], s) \in Table!Commit
  <2> SUFFICES ASSUME NEW i \in 1..Len(table)
               PROVE  Cell(table[i], s) \in Table!Commit
    OBVIOUS
  <2>1. table[i].id \in Nat
    <3>1. table[i] \in Commitment
      BY ElementOfSeq
    <3> QED
      BY <3>1 DEF Commitment
  <2>2. Proofs(table[i]) \in 0..2
    BY DEF Proofs
  <2>3. (table[i].root \in s) \in BOOLEAN
    OBVIOUS
  <2> QED
    BY <2>1, <2>2, <2>3 DEF Cell, Table!Commit
<1>3. Cells(table, s) \in [1..Len(table) -> Table!Commit]
  BY <1>1, <1>2 DEF Cells
<1>4. Cells(table, s) \in Seq(Table!Commit) /\ Len(Cells(table, s)) = Len(table)
  BY <1>1, <1>3, FunctionIsSeq
<1> QED
  BY <1>1, <1>4 DEF Cells

LEMMA ShownCells ==
    ASSUME TypeOK, OneAtATime, at # "rb_delete"
    PROVE  /\ TableCommits = Cells(commitments, sent)
           /\ Table!Newest = Len(commitments) /\ Len(commitments) \in Nat
           /\ DOMAIN TableCommits = 1..Len(commitments)
           /\ DOMAIN commitments = 1..Len(commitments)
           /\ \A i \in 1..Len(commitments) : TableCommits[i] = Cell(commitments[i], sent)
<1>1. TableCommits = Cells(commitments, sent)
  BY ShownAs DEF Present
<1> QED
  BY <1>1, CellsAre DEF Table!Newest, TypeOK

LEMMA SendBroadcasts ==
    ASSUME BaseInv, OneAtATime, RowInv, Nested, Found, NEW p \in Procs, BroadcastSend(p)
    PROVE  Table!Broadcast \/ UNCHANGED Shown
<1> DEFINE n == Len(commitments)
<1>1. CASE With(p, "idle", NoRequest) /\ UNCHANGED sent
  <2>1. UNCHANGED <<handles, commitments, nextId, sent, onchain>> /\ pc[p] = "bc_send"
    BY <1>1 DEF BroadcastSend, tables
  <2> QED
    BY <1>1, <2>1, QuietMove DEF CommitPCs
<1>2. CASE /\ sent' = sent \cup {req[p].root}
           /\ With(p, "bc_txid", [NoRequest EXCEPT !.id = req[p].id])
  <2>1. /\ at = "bc_send" /\ at' = "bc_txid"
        /\ UNCHANGED <<handles, commitments, nextId, onchain>>
        /\ req[p].root = Last(commitments).root /\ MayBroadcast
    BY <1>2, MoveTo, FoundCarried, RowCarried
       DEF BroadcastSend, RowLocals, FoundLocals, at, tables
  <2>2. /\ n \in Nat \ {0} /\ DOMAIN commitments = 1..n /\ Last(commitments) = commitments[n]
    BY <2>1, LastRoot DEF MayBroadcast, BaseInv
  <2>3. /\ TableCommits = Cells(commitments, sent) /\ TableCommits' = Cells(commitments, sent')
        /\ Table!Newest = n /\ DOMAIN TableCommits = 1..n
        /\ \A i \in 1..n : TableCommits[i] = Cell(commitments[i], sent)
    BY <2>1, ShownCells, ShownAs DEF BaseInv, Present
  <2> HIDE DEF n
  <2>4. commitments[n].root \notin sent
    BY <2>1, <2>2 DEF MayBroadcast, Found, SentFits
  <2>5. n # 1 => commitments[n].step
    BY <2>1, <2>2 DEF MayBroadcast, RowInv, Numbered
  <2>6. n > 1 => TableCommits[n].proofs >= 1
    <3>1. n > 1 => TableCommits[n].proofs = Proofs(commitments[n])
      BY <2>2, <2>3, CellParts
    <3> QED
      BY <2>2, <2>5, <3>1 DEF Proofs
  <2>7. ~TableCommits[n].sent
    <3>1. TableCommits[n] = Cell(commitments[n], sent)
      BY <2>2, <2>3
    <3> QED
      BY <2>4, <3>1, CellFate, Zenon
  <2>8. TableCommits' = [TableCommits EXCEPT ![n].sent = TRUE]
    <3>1. Cell(commitments[n], sent') = [TableCommits[n] EXCEPT !.sent = TRUE]
      <4>1. commitments[n].root \in sent'
        BY <1>2, <2>1, <2>2
      <4>2. Cell(commitments[n], sent') = [Cell(commitments[n], sent) EXCEPT !.sent = TRUE]
        BY <4>1, CellSent, Zenon
      <4>3. TableCommits[n] = Cell(commitments[n], sent)
        BY <2>2, <2>3
      <4> QED
        BY <4>2, <4>3, Zenon
    <3>2. \A i \in 1..n : i # n => Cell(commitments[i], sent') = TableCommits[i]
      <4>1. \A i \in 1..n : i # n => commitments[i].root # commitments[n].root
        BY <2>2, RootsDiffer DEF BaseInv
      <4> QED
        BY <1>2, <2>1, <2>2, <2>3, <4>1, CellSame
    <3>3. TableCommits' = [i \in 1..n |-> Cell(commitments[i], sent')]
      BY <2>2, <2>3 DEF Cells
    <3>4. TableCommits = [i \in 1..n |-> TableCommits[i]]
      BY <2>2, <2>3 DEF Cells
    <3> QED
      BY <3>1, <3>2, <3>3, <3>4
  <2>9. UNCHANGED <<TableRows, nextId, TableTip, TableLeft>>
    BY <2>1, RowsSame, ShownAs DEF CommitPCs, TableLeft, Budget
  <2> QED
    BY <2>2, <2>3, <2>6, <2>7, <2>8, <2>9 DEF Table!Broadcast
<1> QED
  BY <1>1, <1>2 DEF BroadcastSend, Done

LEMMA ReceiptSaves ==
    ASSUME BaseInv, OneAtATime, RowInv, Nested, Found, SaveStepReceipt \/ SaveFoldReceipt
    PROVE  Table!SaveReceipt
<1> DEFINE n == Len(commitments)
<1>1. Recorded(commitments, commitments') /\ UNCHANGED <<handles, nextId, sent, onchain>>
  BY ReceiptRecorded DEF BaseInv, SaveStepReceipt, SaveFoldReceipt, chain
<1>2. at' = at /\ at # "rb_delete"
  BY OneProc DEF at, SaveStepReceipt, SaveFoldReceipt, SqliteFree
<1>3. /\ n \in Nat /\ DOMAIN commitments = 1..n /\ DOMAIN commitments' = 1..n
      /\ \A i \in 1..n : commitments'[i].id = commitments[i].id
                         /\ commitments'[i].root = commitments[i].root
      /\ Len(commitments') = n
  BY <1>1, RecordedKeeps DEF BaseInv
<1>4. /\ TableCommits = Cells(commitments, sent) /\ TableCommits' = Cells(commitments', sent)
      /\ Table!Newest = n /\ DOMAIN TableCommits = 1..n
      /\ \A i \in 1..n : TableCommits[i] = Cell(commitments[i], sent)
  BY <1>1, <1>2, ShownCells, ShownAs DEF BaseInv, Present
<1>5. UNCHANGED <<TableRows, nextId, TableTip, TableLeft>>
  <2>1. UNCHANGED TableRows
    BY <1>1, <1>2, <1>3, RowsSame
  <2>2. UNCHANGED TableTip
    BY <1>1, <1>3, TipSame, ShownAs DEF BaseInv
  <2> QED
    BY <1>1, <2>1, <2>2 DEF TableLeft, Budget
<1>6. PICK i \in 1..n, field \in {"step", "agg"} :
             /\ Proved(i, field)
             /\ field = "step" => i >= 2 /\ ~commitments[i].step
             /\ field = "agg" => /\ i >= 3 /\ ~commitments[i].agg
                                 /\ \A j \in 2..i : commitments[j].step
  <2>1. ASSUME SaveFoldReceipt
        PROVE  \E i \in 1..n : /\ Proved(i, "agg") /\ i >= 3 /\ ~commitments[i].agg
                               /\ \A j \in 2..i : commitments[j].step
    BY <1>3, <2>1 DEF SaveFoldReceipt
  <2>2. ASSUME SaveStepReceipt
        PROVE  \E i \in 1..n : Proved(i, "step") /\ i >= 2 /\ ~commitments[i].step
    BY <1>3, <2>2 DEF SaveStepReceipt
  <2> QED
    BY <2>1, <2>2
<1>7. /\ \A j \in 1..n : j # i => commitments'[j] = commitments[j]
      /\ field = "step" => commitments'[i].step /\ commitments'[i].agg = commitments[i].agg
      /\ field = "agg" => commitments'[i].agg /\ commitments'[i].step = commitments[i].step
  BY <1>3, <1>6, ReceiptProofs DEF BaseInv
<1> HIDE DEF n
<1>8. /\ Proofs(commitments[i]) = IF field = "step" THEN 0 ELSE 1
      /\ Proofs(commitments'[i]) = IF field = "step" THEN 1 ELSE 2
  BY <1>3, <1>6, <1>7 DEF Proofs, Found, ProofsFit
<1>9. TableCommits[i].proofs = IF field = "step" THEN 0 ELSE 1
  BY <1>4, <1>8, CellParts
<1>10. TableCommits[i].proofs < Table!Needs(i)
  BY <1>3, <1>6, <1>9 DEF Table!Needs
<1>11. TableCommits[i].proofs = 1 => \A j \in 2..i : TableCommits[j].proofs >= 1
  <2>1. \A j \in 1..n : commitments[j].step => TableCommits[j].proofs >= 1
    BY <1>4, CellParts DEF Proofs
  <2> QED
    BY <1>3, <1>4, <1>6, <1>9, <2>1
<1>12. TableCommits' = [TableCommits EXCEPT ![i].proofs = @ + 1]
  <2>1. Cell(commitments'[i], sent) = [TableCommits[i] EXCEPT !.proofs = TableCommits[i].proofs + 1]
    <3>1. Cell(commitments'[i], sent) = [TableCommits[i] EXCEPT !.proofs = Proofs(commitments'[i])]
      BY <1>3, <1>4, CellProved
    <3>2. Proofs(commitments'[i]) = TableCommits[i].proofs + 1
      BY <1>8, <1>9
    <3> QED
      BY <3>1, <3>2, Zenon
  <2>2. \A j \in 1..n : j # i => Cell(commitments'[j], sent) = TableCommits[j]
    BY <1>4, <1>7
  <2>3. TableCommits' = [j \in 1..n |-> Cell(commitments'[j], sent)]
    BY <1>3, <1>4 DEF Cells
  <2>4. TableCommits = [j \in 1..n |-> TableCommits[j]]
    BY <1>3, <1>4 DEF Cells
  <2> QED
    BY <1>6, <2>1, <2>2, <2>3, <2>4
<1> QED
  BY <1>4, <1>5, <1>6, <1>10, <1>11, <1>12 DEF Table!SaveReceipt

LEMMA ConfirmConfirms ==
    ASSUME BaseInv, OneAtATime, Nested, Found, Confirm
    PROVE  Table!Confirm
<1> DEFINE n == Len(commitments)
<1>1. PICK r \in sent \ confirmed : onchain' = r
  BY DEF Confirm
<1>2. UNCHANGED <<handles, commitments, nextId, sent>> /\ at' = at
  BY DEF Confirm, tables, at
<1>3. commitments # <<>> /\ r = Last(commitments).root /\ r # NoRoot
  BY <1>1, LastRoot DEF Found, SentFits, BaseInv
<1>4. n \in Nat \ {0} /\ DOMAIN commitments = 1..n /\ commitments[n].root = r
  BY <1>3, LastRoot DEF BaseInv
<1>5. at # "rb_delete"
  <2>1. at = "rb_delete" => MayRollback
    BY OneProc DEF at, BaseInv, DeleteHoldsLock
  <2> QED
    BY <1>1, <1>3, <1>4, <2>1, LastRoot DEF MayRollback, Found, SentFits, BaseInv
<1>6. /\ Table!Newest = n /\ DOMAIN TableCommits = 1..n
      /\ TableCommits[n] = Cell(commitments[n], sent)
  BY <1>4, <1>5, ShownCells DEF BaseInv
<1> HIDE DEF n
<1>7. TableCommits[n].sent
  BY <1>1, <1>4, <1>6, CellFate, Zenon
<1>8. TableTip # n
  <2>1. TipOf(commitments, onchain) = n => commitments[n].root = onchain
    BY <1>4 DEF TipOf
  <2>2. onchain # r
    BY <1>1, <1>3 DEF BaseInv, TypeOK
  <2> QED
    BY <1>4, <2>1, <2>2, ShownAs
<1>9. TableTip' = n
  <2>1. \A j \in DOMAIN commitments : commitments[j].root = r => j = n
    BY <1>4, RootsDiffer DEF BaseInv
  <2> QED
    BY <1>1, <1>2, <1>4, <2>1, TipIs, ShownAs
<1>10. UNCHANGED <<TableRows, TableCommits, nextId, TableLeft>>
  <2>1. UNCHANGED TableRows
    BY <1>2, RowsSame
  <2>2. UNCHANGED TableCommits
    BY <1>2, <1>5, ShownAs DEF Present
  <2> QED
    BY <1>2, <2>1, <2>2 DEF TableLeft, Budget
<1> QED
  BY <1>4, <1>6, <1>7, <1>8, <1>9, <1>10 DEF Table!Confirm, Table!table

-----------------------------------------------------------------------------
(* The steps that SpaceTable takes: committing and rolling back.           *)

\* The row to be deleted takes its cell with it.
LEMMA CellsFront ==
    ASSUME TypeOK, commitments # <<>>
    PROVE  Cells(Front(commitments), sent) = Front(Cells(commitments, sent))
<1> DEFINE n == Len(commitments)
           cells == Cells(commitments, sent)
           front == Cells(Front(commitments), sent)
<1>1. /\ Front(commitments) \in Seq(Commitment) /\ Len(Front(commitments)) = n - 1
      /\ \A i \in 1..(n - 1) : Front(commitments)[i] = commitments[i]
      /\ n \in Nat \ {0}
  BY FrontKeeps, LastRoot DEF TypeOK
<1>2. /\ cells \in Seq(Table!Commit) /\ Len(cells) = n /\ cells # <<>>
      /\ \A i \in 1..n : cells[i] = Cell(commitments[i], sent)
  <2>1. /\ cells \in Seq(Table!Commit) /\ Len(cells) = n
        /\ \A i \in 1..n : cells[i] = Cell(commitments[i], sent)
    BY CellsAre DEF TypeOK
  <2> QED
    BY <1>1, <2>1, EmptySeq
<1>3. /\ front \in Seq(Table!Commit) /\ Len(front) = n - 1
      /\ \A i \in 1..(n - 1) : front[i] = Cell(Front(commitments)[i], sent)
  BY <1>1, CellsAre
<1>4. /\ Front(cells) \in Seq(Table!Commit) /\ Len(Front(cells)) = n - 1
      /\ \A i \in 1..(n - 1) : Front(cells)[i] = cells[i]
  BY <1>2, FrontKeeps
<1> HIDE DEF n, cells, front
<1>5. \A i \in 1..(n - 1) : front[i] = Front(cells)[i]
  BY <1>1, <1>2, <1>3, <1>4
<1>6. front = Front(cells)
  BY <1>3, <1>4, <1>5, SeqEqual
<1> QED
  BY <1>6 DEF cells, front

LEMMA UnstageRollsBack ==
    ASSUME BaseInv, OneAtATime, RowInv, Nested, Found, NEW p \in Procs, RollbackUnstage(p)
    PROVE  Table!RollbackLocal \/ UNCHANGED Shown
<1> DEFINE n == Len(commitments)
<1>1. CASE ~MayRollback
  <2>1. UNCHANGED <<handles, commitments, nextId, sent, onchain>> /\ pc[p] = "rb_unstage"
        /\ With(p, "idle", NoRequest)
    BY <1>1 DEF RollbackUnstage, Done, chain
  <2> QED
    BY <2>1, QuietMove DEF CommitPCs
<1>2. CASE MayRollback
  <2>1. /\ at = "rb_unstage" /\ at' = "rb_delete" /\ commitments # <<>>
        /\ UNCHANGED <<commitments, nextId, sent, onchain>>
        /\ Unstage(Last(commitments).root)
    BY <1>2, MoveTo DEF RollbackUnstage, MayRollback, at, chain
  <2>2. /\ n \in Nat \ {0} /\ DOMAIN commitments = 1..n
        /\ Last(commitments) = commitments[n] /\ commitments[n].root # NoRoot
    BY <2>1, LastRoot DEF BaseInv
  <2>3. /\ TableCommits = Cells(commitments, sent) /\ Table!Newest = n
        /\ TableCommits[n] = Cell(commitments[n], sent)
    BY <2>1, <2>2, ShownCells DEF BaseInv
  <2>4. TableCommits' = Front(TableCommits)
    BY <2>1, <2>3, ShownAs, CellsFront DEF Present, BaseInv
  <2>5. /\ \A h \in Handles : handles[h].idx \in Nat
        /\ \A h \in Handles : handles[h].root # NoRoot =>
             /\ handles[h].idx + 1 \in 1..n
             /\ commitments[handles[h].idx + 1].root = handles[h].root
    BY CommittedIdx DEF BaseInv
  <2>6. \A h \in Handles : handles[h] \in Row
    BY DEF BaseInv, TypeOK
  <2> HIDE DEF n
  <2>7. ~TableCommits[n].sent
    <3>1. commitments[n].root \notin sent
      BY <1>2, <2>1, <2>2 DEF MayRollback, Found, SentFits
    <3> QED
      BY <2>3, <3>1, CellFate, Zenon
  <2>8. \A h \in Handles : TableRows[h].idx = n <=> handles[h].root = commitments[n].root
    <3> SUFFICES ASSUME NEW h \in Handles
                 PROVE  TableRows[h].idx = n <=> handles[h].root = commitments[n].root
      OBVIOUS
    <3>1. TableRows[h].idx = IF handles[h].root # NoRoot THEN handles[h].idx + 1 ELSE 0
      BY <2>1, PlainRow DEF CommitPCs
    <3>2. CASE handles[h].root = NoRoot
      BY <2>2, <3>1, <3>2
    <3>3. CASE handles[h].root # NoRoot
      <4>1. \A i \in 1..n : commitments[i].root = commitments[n].root => i = n
        BY <2>2, RootsDiffer DEF BaseInv
      <4> QED
        BY <2>2, <2>5, <3>1, <3>3, <4>1
    <3> QED
      BY <3>2, <3>3
  <2>9. \A h \in Handles : TableRows'[h] = IF TableRows[h].idx = n
                                           THEN [TableRows[h] EXCEPT !.idx = 0] ELSE TableRows[h]
    <3> SUFFICES ASSUME NEW h \in Handles
                 PROVE  TableRows'[h] = IF TableRows[h].idx = n
                                        THEN [TableRows[h] EXCEPT !.idx = 0] ELSE TableRows[h]
      OBVIOUS
    <3>1. CASE handles[h].root = commitments[n].root
      <4>1. handles'[h] = [handles[h] EXCEPT !.root = NoRoot, !.idx = 0]
        BY <2>1, <2>2, <3>1 DEF Unstage
      <4>2. handles'[h].root = NoRoot /\ handles'[h].spk = handles[h].spk
        BY <2>6, <4>1 DEF Row
      <4> QED
        BY <2>1, <2>8, <3>1, <4>2, PlainRow DEF CommitPCs
    <3>2. CASE handles[h].root # commitments[n].root
      <4>1. handles'[h] = handles[h]
        BY <2>1, <2>2, <3>2 DEF Unstage
      <4> QED
        BY <2>1, <2>8, <3>2, <4>1, PlainRow DEF CommitPCs
    <3> QED
      BY <3>1, <3>2
  <2>10. UNCHANGED <<nextId, TableTip, TableLeft>>
    BY <2>1, ShownAs DEF TableLeft, Budget
  <2> QED
    <3>1. Table!Newest = n /\ Table!Newest > 0
      BY <2>2, <2>3
    <3>2. TableRows' = [h \in Handles |-> IF TableRows[h].idx = Table!Newest
                                          THEN [TableRows[h] EXCEPT !.idx = 0] ELSE TableRows[h]]
      BY <2>9, <3>1, PlainRow
    <3>3. ~TableCommits[Table!Newest].sent
      BY <2>7, <3>1, Zenon
    <3>4. TableCommits' = Table!Front(TableCommits)
      BY <2>4, Zenon DEF Front, Table!Front
    <3> QED
      BY <2>10, <3>1, <3>2, <3>3, <3>4, Zenon DEF Table!RollbackLocal
<1> QED
  BY <1>1, <1>2

\* can_commit_local, in SpaceTable's words.
LEMMA ReadyCommits ==
    ASSUME TypeOK, OneAtATime, RowInv, Nested, Found, Ready,
           at \notin {"rb_delete", "bc_txid"}
    PROVE  Table!CanCommitLocal
<1> DEFINE n == Len(commitments)
<1>1. /\ n \in Nat /\ Table!Newest = n /\ DOMAIN commitments = 1..n
      /\ \A i \in 1..n : TableCommits[i] = Cell(commitments[i], sent)
  BY ShownCells
<1> SUFFICES ASSUME n > 0
             PROVE  /\ TableCommits[n].proofs = Table!Needs(n)
                    /\ IF TableCommits[n].sent THEN TableTip = n ELSE n = 1
  BY <1>1 DEF Table!CanCommitLocal
<1>2. commitments # <<>> /\ Last(commitments) = commitments[n] /\ n \in 1..n
  BY <1>1, EmptySeq, LastRoot DEF TypeOK
<1>3. /\ n # 1 => commitments[n].step /\ (commitments[n].agg \/ n = 2)
      /\ IF commitments[n].txid THEN onchain = commitments[n].root ELSE n = 1
  BY <1>2 DEF Ready, HasProof
<1> HIDE DEF n
<1>4. TableCommits[n].proofs = Table!Needs(n)
  <2>1. TableCommits[n].proofs = Proofs(commitments[n])
    BY <1>1, <1>2, CellParts
  <2>2. /\ commitments[n].step => n >= 2
        /\ commitments[n].agg => n >= 3 /\ commitments[n].step
    BY <1>1, <1>2 DEF Found, ProofsFit
  <2>3. Proofs(commitments[n]) = IF n = 1 THEN 0 ELSE IF n = 2 THEN 1 ELSE 2
    BY <1>1, <1>2, <1>3, <2>2 DEF Proofs
  <2> QED
    BY <2>1, <2>3 DEF Table!Needs
<1>5. TableCommits[n].sent <=> commitments[n].root \in sent
  <2>1. TableCommits[n] = Cell(commitments[n], sent)
    BY <1>1, <1>2
  <2> QED
    BY <2>1, CellFate, Zenon
<1>6. commitments[n].txid <=> commitments[n].root \in sent
  BY <1>1, <1>2 DEF RowInv, TxidWasSent, Found, SentFits
<1>7. onchain = commitments[n].root => TableTip = n
  <2>1. \A j \in DOMAIN commitments : commitments[j].root = commitments[n].root => j = n
    BY <1>1, <1>2, RootsDiffer
  <2> QED
    BY <1>1, <1>2, <2>1, TipIs, ShownAs
<1>8. CASE commitments[n].root \in sent
  <2>1. TableTip = n
    BY <1>3, <1>6, <1>7, <1>8
  <2> QED
    BY <1>4, <1>5, <1>8, <2>1, Zenon
<1>9. CASE commitments[n].root \notin sent
  <2>1. n = 1
    BY <1>3, <1>6, <1>9
  <2> QED
    BY <1>4, <1>5, <1>9, <2>1, Zenon
<1> QED
  BY <1>8, <1>9

\* What a commit's row is to SpaceTable: its cell, and the tip it leaves.
LEMMA RowAppends ==
    ASSUME BaseInv, OneAtATime, RowInv, Nested, Nested', Found, at # "rb_delete",
           commitments' \in Seq(Commitment),
           NEW prev \in Tree \cup {NoRoot}, NEW root \in Tree,
           InsertCommitment(prev, root), UNCHANGED <<sent, onchain>>, at' # "rb_delete"
    PROVE  /\ TableCommits' = Append(TableCommits, [id |-> nextId, proofs |-> 0,
                                                    sent |-> FALSE, marked |-> FALSE])
           /\ UNCHANGED TableTip
<1> DEFINE n == Len(commitments)
           cell == [id |-> nextId, proofs |-> 0, sent |-> FALSE, marked |-> FALSE]
<1>1. /\ n \in Nat /\ Len(commitments') = n + 1 /\ n + 1 \in 1..(n + 1)
      /\ DOMAIN commitments = 1..n /\ DOMAIN commitments' = 1..(n + 1)
      /\ \A i \in 1..n : commitments'[i] = commitments[i]
      /\ commitments'[n + 1].root = root /\ commitments'[n + 1].id = nextId
      /\ ~commitments'[n + 1].step /\ ~commitments'[n + 1].agg
  <2> DEFINE row == [id |-> nextId, prev |-> prev, root |-> root,
                     step |-> FALSE, agg |-> FALSE, txid |-> FALSE]
  <2>1. row \in Commitment /\ commitments' = Append(commitments, row)
    BY DEF BaseInv, TypeOK, InsertCommitment, Commitment
  <2>2. row.root = root /\ ~row.step /\ ~row.agg /\ row.id = nextId
    OBVIOUS
  <2> HIDE DEF row
  <2>3. commitments'[n + 1] = row
    BY <2>1, LenProperties DEF BaseInv, TypeOK
  <2>4. /\ commitments'[n + 1].root = root /\ commitments'[n + 1].id = nextId
        /\ ~commitments'[n + 1].step /\ ~commitments'[n + 1].agg
    BY <2>2, <2>3
  <2>5. /\ n \in Nat /\ Len(commitments') = n + 1 /\ DOMAIN commitments = 1..n
        /\ DOMAIN commitments' = 1..(n + 1)
        /\ \A i \in 1..n : commitments'[i] = commitments[i]
    BY InsertKeeps DEF BaseInv
  <2>6. n + 1 \in 1..(n + 1)
    BY <2>5
  <2> QED
    BY <2>4, <2>5, <2>6
<1>2. root \notin sent
  BY NewRoot DEF BaseInv, Found
<1>3. root # onchain
  <2>1. onchain \in sent \cup {NoRoot}
    BY DEF BaseInv, TypeOK
  <2>2. root # NoRoot
    BY SentinelsAreFresh DEF Tree
  <2> QED
    BY <1>2, <2>1, <2>2
<1>4. /\ TableCommits \in Seq(Table!Commit) /\ Len(TableCommits) = n
      /\ \A i \in 1..n : TableCommits[i] = Cell(commitments[i], sent)
  BY ShownAs, CellsAre DEF Present, BaseInv, TypeOK
<1>5. /\ TableCommits' \in Seq(Table!Commit) /\ Len(TableCommits') = n + 1
      /\ \A i \in 1..(n + 1) : TableCommits'[i] = Cell(commitments'[i], sent)
  <2>1. TableCommits' = Cells(commitments', sent)
    BY ShownAs DEF Present
  <2> QED
    BY <1>1, <2>1, CellsAre
<1> HIDE DEF n
<1>6. TableCommits'[n + 1] = cell
  <2>1. TableCommits'[n + 1] = Cell(commitments'[n + 1], sent)
    BY <1>1, <1>5
  <2>2. Proofs(commitments'[n + 1]) = 0
    BY <1>1 DEF Proofs
  <2>3. (commitments'[n + 1].root \in sent) = FALSE
    BY <1>1, <1>2
  <2>4. commitments'[n + 1].id = nextId
    BY <1>1
  <2> QED
    BY <2>1, <2>2, <2>3, <2>4, Zenon DEF Cell
<1>7. cell \in Table!Commit
  BY DEF BaseInv, TypeOK, Table!Commit
<1> HIDE DEF cell
<1>8. /\ Append(TableCommits, cell) \in Seq(Table!Commit)
      /\ Len(Append(TableCommits, cell)) = n + 1
      /\ \A i \in 1..n : Append(TableCommits, cell)[i] = TableCommits[i]
      /\ Append(TableCommits, cell)[n + 1] = cell
  BY <1>4, <1>7, AppendProperties
<1>9. \A i \in 1..(n + 1) : TableCommits'[i] = Append(TableCommits, cell)[i]
  <2>1. \A i \in 1..n : TableCommits'[i] = TableCommits[i]
    BY <1>1, <1>4, <1>5
  <2>2. \A i \in 1..(n + 1) : i \in 1..n \/ i = n + 1
    BY <1>1
  <2> QED
    BY <1>6, <1>8, <2>1, <2>2
<1>10. TableCommits' = Append(TableCommits, cell)
  BY <1>5, <1>8, <1>9, SeqEqual
<1>11. UNCHANGED TableTip
  <2>1. CASE \E i \in DOMAIN commitments : commitments[i].root = onchain
    <3>1. PICK i \in DOMAIN commitments : commitments[i].root = onchain
      BY <2>1
    <3>2. \A j \in DOMAIN commitments : commitments[j].root = onchain => j = i
      BY <3>1, RootsDiffer DEF BaseInv
    <3>3. TipOf(commitments, onchain) = i
      BY <3>1, <3>2, TipIs
    <3>4. /\ i \in DOMAIN commitments' /\ commitments'[i].root = onchain
          /\ \A j \in DOMAIN commitments' : commitments'[j].root = onchain => j = i
      BY <1>1, <1>3, <3>1, <3>2
    <3>5. TipOf(commitments', onchain) = i
      BY <3>4, TipIs
    <3> QED
      BY <3>3, <3>5, ShownAs
  <2>2. CASE \A i \in DOMAIN commitments : commitments[i].root # onchain
    <3>1. \A i \in DOMAIN commitments' : commitments'[i].root # onchain
      BY <1>1, <1>3, <2>2
    <3> QED
      BY <2>2, <3>1, TipIsNone, ShownAs
  <2> QED
    BY <2>1, <2>2
<1> QED
  BY <1>10, <1>11 DEF cell

LEMMA BudgetSpent ==
    ASSUME NEW k
    PROVE  Budget(k - 1) = [Budget(k) EXCEPT !.commits = @ - 1]
<1> DEFINE no == FALSE
           B(c) == [commits |-> c, requests |-> 0, regs |-> 0, faults |-> 0,
                    names |-> Handles, spks |-> Spks, relay |-> no]
<1>1. \A c : Budget(c) = B(c)
  BY Zenon DEF Budget
<1> HIDE DEF no
<1>2. B(k - 1) = [B(k) EXCEPT !.commits = @ - 1]
  OBVIOUS
<1> HIDE DEF B
<1> QED
  BY <1>1, <1>2

LEMMA RowCommits ==
    ASSUME BaseInv, BaseInv', OneAtATime, RowInv, Nested, Nested', Found, NEW p \in Procs,
           CommitRow(p) \/ CommitRow0(p)
    PROVE  Table!CommitLocal
<1> DEFINE prev == IF pc[p] = "cm_row" THEN req[p].base ELSE NoRoot
           root == req[p].root
           n == Len(commitments)
           S == {h \in Handles : Eligible(h)}
<1>1. InsertCommitment(prev, root) /\ prev \in Tree \cup {NoRoot} /\ root \in Tree
  BY RowCarried DEF CommitRow, CommitRow0, BaseInv, CarriesRoot, Request
<1>2. /\ at \in {"cm_row", "cm_row0"} /\ at' \in CommitPCs
      /\ UNCHANGED <<handles, sent, onchain>>
      /\ nextId <= MaxId /\ Ready /\ ~StagedCount0
  BY MoveTo, FoundCarried DEF CommitRow, CommitRow0, chain, FoundLocals, CheckedPCs, CommitPCs
<1> HIDE DEF prev, root
<1>3. /\ TableCommits' = Append(TableCommits, [id |-> nextId, proofs |-> 0,
                                              sent |-> FALSE, marked |-> FALSE])
      /\ UNCHANGED TableTip
  BY <1>1, <1>2, RowAppends DEF CommitPCs, BaseInv, TypeOK
<1>4. /\ n \in Nat /\ Len(commitments') = n + 1 /\ Table!Newest = n
      /\ nextId \in Nat /\ nextId' = nextId + 1
  BY <1>1, <1>2, InsertKeeps, ShownCells DEF BaseInv
<1> HIDE DEF n
<1>5. Table!CanCommitLocal
  BY <1>2, ReadyCommits DEF BaseInv
<1>6. Table!Spend("commits")
  <2>1. TableLeft.commits = (MaxId + 1) - nextId /\ TableLeft.commits > 0
    BY <1>2, <1>4, BoundsAreNatural DEF TableLeft, Budget
  <2>2. TableLeft' = [TableLeft EXCEPT !.commits = @ - 1]
    <3>1. (MaxId + 1) - nextId' = ((MaxId + 1) - nextId) - 1
      BY <1>4, BoundsAreNatural
    <3>2. TableLeft' = Budget(((MaxId + 1) - nextId) - 1)
      BY <3>1, Zenon DEF TableLeft
    <3> QED
      BY <3>2, BudgetSpent DEF TableLeft
  <2> QED
    BY <2>1, <2>2 DEF Table!Spend
<1>7. S \in (SUBSET {h \in Handles : Table!IsStaged(h)}) \ {{}}
  <2>1. \A h \in S : Table!IsStaged(h)
    BY <1>2, PlainWords DEF CommitPCs, BaseInv, Eligible
  <2>2. S # {}
    BY <1>2 DEF StagedCount0
  <2> QED
    BY <2>1, <2>2
<1> HIDE DEF S
<1>8. \A h \in Handles : TableRows'[h] = IF h \in S THEN [TableRows[h] EXCEPT !.idx = n + 1]
                                                   ELSE TableRows[h]
  <2> SUFFICES ASSUME NEW h \in Handles
               PROVE  TableRows'[h] = IF h \in S THEN [TableRows[h] EXCEPT !.idx = n + 1]
                                                 ELSE TableRows[h]
    OBVIOUS
  <2>1. Eligible(h)' <=> Eligible(h)
    BY <1>2 DEF Eligible, IsStaged, Exists
  <2>2. TableRows'[h] = [spk |-> handles[h].spk, idx |-> TableIdx(h)', pub |-> "no", at |-> 0]
    BY <1>2 DEF TableRows
  <2>3. TableRows[h] = [spk |-> handles[h].spk,
                        idx |-> IF handles[h].root # NoRoot THEN handles[h].idx + 1 ELSE 0,
                        pub |-> "no", at |-> 0]
    BY <1>2, PlainRow DEF CommitPCs
  <2>4. h \in S <=> Eligible(h)
    BY DEF S
  <2>5. CASE Eligible(h)
    <3>1. TableIdx(h)' = n + 1
      BY <1>2, <1>4, <2>1, <2>5, ShownAs DEF TableIdx, Eligible, IsStaged
    <3> QED
      BY <2>2, <2>3, <2>4, <2>5, <3>1
  <2>6. CASE ~Eligible(h)
    <3>1. TableIdx(h)' = IF handles[h].root # NoRoot THEN handles[h].idx + 1 ELSE 0
      BY <1>2, <2>1, <2>6 DEF TableIdx
    <3> QED
      BY <2>2, <2>3, <2>4, <2>6, <3>1
  <2> QED
    BY <2>5, <2>6
<1>9. TableRows' = [h \in Handles |-> IF h \in S THEN [TableRows[h] EXCEPT !.idx = n + 1]
                                               ELSE TableRows[h]]
  BY <1>8, PlainRow
<1>10. \E T \in (SUBSET {h \in Handles : Table!IsStaged(h)}) \ {{}} :
         TableRows' = [h \in Handles |-> IF h \in T
                                         THEN [TableRows[h] EXCEPT !.idx = Table!Newest + 1]
                                         ELSE TableRows[h]]
  BY <1>4, <1>7, <1>9
<1> QED
  BY <1>3, <1>4, <1>5, <1>6, <1>10, Zenon DEF Table!CommitLocal

-----------------------------------------------------------------------------
(* Every step of LocalSpace is SpaceTable's, or none of it.                *)

\* Steps of a request that look, or write what is not shown.
LEMMA QuietSteps ==
    ASSUME BaseInv, OneAtATime, NEW p \in Procs,
           \/ AddBegin(p) \/ AddCheckTree(p) \/ AddCheckStaged(p)
           \/ CommitBegin(p) \/ CommitCheck(p) \/ CommitList(p) \/ CommitInput(p)
           \/ CommitValidate(p) \/ CommitTree(p) \/ CommitTree0(p)
           \/ RollbackBegin(p) \/ RollbackTree(p)
           \/ BroadcastBegin(p) \/ BroadcastLast(p) \/ BumpBegin(p)
    PROVE  UNCHANGED Shown
<1> DEFINE Moves == \E label, local :
              /\ With(p, label, local) /\ label # "rb_delete" /\ pc[p] # "rb_delete"
              /\ pc[p] \in CommitPCs <=> label \in CommitPCs
<1> USE DEF Done, CommitPCs
<1>1. UNCHANGED <<handles, commitments, nextId, sent, onchain>>
  BY DEF AddBegin, AddCheckTree, AddCheckStaged, CommitBegin, CommitCheck, CommitList,
         CommitInput, CommitValidate, CommitTree, CommitTree0, RollbackBegin, RollbackTree,
         BroadcastBegin, BroadcastLast, BumpBegin, tables, chain
<1>2. CASE AddBegin(p) \/ AddCheckTree(p) \/ AddCheckStaged(p)
  <2>1. Moves
    <3>1. CASE AddBegin(p)
      <4>1. \E local : With(p, "add_tree", local)
        BY <3>1 DEF AddBegin
      <4>2. pc[p] = "idle"
        BY <3>1 DEF AddBegin, Starts
      <4> QED
        BY <4>1, <4>2
    <3>2. CASE AddCheckTree(p) \/ AddCheckStaged(p)
      BY <3>2 DEF AddCheckTree, AddCheckStaged
    <3> QED
      BY <1>2, <3>1, <3>2
  <2> QED
    BY <1>1, <2>1, QuietMove
<1>3. CASE CommitBegin(p) \/ CommitCheck(p) \/ CommitList(p) \/ CommitInput(p)
  <2>1. Moves
    BY <1>3 DEF CommitBegin, CommitCheck, CommitList, CommitInput, Starts
  <2> QED
    BY <1>1, <2>1, QuietMove
<1>4. CASE CommitValidate(p) \/ CommitTree(p) \/ CommitTree0(p)
  <2>1. Moves
    BY <1>4 DEF CommitValidate, CommitTree, CommitTree0
  <2> QED
    BY <1>1, <2>1, QuietMove
<1>5. CASE RollbackBegin(p) \/ RollbackTree(p)
  <2>1. Moves
    BY <1>5 DEF RollbackBegin, RollbackTree, Starts
  <2> QED
    BY <1>1, <2>1, QuietMove
<1>6. CASE BroadcastBegin(p) \/ BroadcastLast(p) \/ BumpBegin(p)
  <2>1. Moves
    BY <1>6 DEF BroadcastBegin, BroadcastLast, BumpBegin, Starts
  <2> QED
    BY <1>1, <2>1, QuietMove
<1> QED
  BY <1>2, <1>3, <1>4, <1>5, <1>6

\* Depth is not shown, and an undisturbed start finds the tables empty.
LEMMA StillSteps ==
    ASSUME OneAtATime,
           UNCHANGED <<handles, commitments, nextId, sent, onchain, pc>>
    PROVE  UNCHANGED Shown
<1>1. at' = at
  BY DEF at
<1>2. UNCHANGED <<TableCommits, TableTip>>
  BY <1>1, ShownAs DEF Present
<1> QED
  BY <1>1, <1>2, RowsSame DEF Shown

LEMMA TableStep ==
    ASSUME OneAtATime, BaseInv, BaseInv', RowInv, TreeInv, TreeInv', TableInv, FoundInv,
           NoFault', [Next]_vars
    PROVE  Table!TableNext \/ UNCHANGED Shown
<1>1. NoFault
  BY FaultsGrow, BoundsAreNatural DEF NoFault, BaseInv, TypeOK
<1>2. Tabled /\ Found /\ Nested /\ Nested'
  BY <1>1 DEF FoundInv, TableInv, TreeInv, NoFault, Sound, Chained
<1>3. CASE UNCHANGED vars
  BY <1>3, StillSteps DEF vars, tables, chain
<1>4. ASSUME NEW p \in Procs, AddRequests(p)
      PROVE  Table!TableNext \/ UNCHANGED Shown
  BY <1>2, <1>4, QuietSteps, AddInsertAdds DEF AddRequests, Table!TableNext
<1>5. ASSUME NEW p \in Procs, SetParked(p) \/ SetParkedFiltered(p) \/ RemoveStaged(p)
      PROVE  Table!TableNext \/ UNCHANGED Shown
  BY <1>5, ParkIsQuiet, RemoveRemoves DEF Table!TableNext
<1>6. ASSUME NEW p \in Procs, CommitLocal(p)
      PROVE  Table!TableNext \/ UNCHANGED Shown
  BY <1>2, <1>6, QuietSteps, RowCommits, MarkIsQuiet DEF CommitLocal, Table!TableNext
<1>7. ASSUME NEW p \in Procs, RollbackLocal(p)
      PROVE  Table!TableNext \/ UNCHANGED Shown
  BY <1>2, <1>7, QuietSteps, UnstageRollsBack, DeleteIsQuiet DEF RollbackLocal, Table!TableNext
<1>8. ASSUME NEW p \in Procs, Broadcast(p)
      PROVE  Table!TableNext \/ UNCHANGED Shown
  BY <1>2, <1>8, QuietSteps, SendBroadcasts, StoreIsQuiet DEF Broadcast, Table!TableNext
<1>9. ASSUME SaveStepReceipt \/ SaveFoldReceipt \/ Confirm
      PROVE  Table!TableNext
  BY <1>2, <1>9, ReceiptSaves, ConfirmConfirms DEF Table!TableNext
<1>10. ASSUME Finalize
       PROVE  UNCHANGED Shown
  BY <1>10, StillSteps DEF Finalize, tables
<1>11. ASSUME \/ Crash \/ LoadAllSpaces \/ LoadOrCreateSpace \/ LoadOrCreateCrash
              \/ \E p \in Procs : Abort(p)
       PROVE  UNCHANGED Shown
  BY <1>2, <1>11, FaultsKeepFound, StillSteps DEF chain
<1> QED
  BY <1>3, <1>4, <1>5, <1>6, <1>7, <1>8, <1>9, <1>10, <1>11, ParkersOperate DEF Next, Procs

\* The handlers of app.rs, with everything that may happen between their
\* steps, do to the tables what SpaceTable says of them as a whole, for any
\* handles, keys and number of commitments, while requests come one at a time
\* and until a fault cuts one short.
THEOREM TableIsImplemented ==
    ASSUME OneAtATime
    PROVE  Spec => ImplementsTable
<1> DEFINE Inv == BaseInv /\ GrowthInv /\ RowInv /\ TreeInv
           Both == TableInv /\ FoundInv
<1>1. Init => Table!TableInit
  <2> SUFFICES ASSUME Init
               PROVE  Table!TableInit
    OBVIOUS
  <2>1. at = "idle" /\ commitments = <<>> /\ DOMAIN commitments = {}
    BY OneProc DEF Init, at
  <2>2. TableCommits = <<>> /\ TableTip = 0
    <3>1. Present = commitments
      BY <2>1, ShownAs DEF Present
    <3> QED
      BY <2>1, <3>1, TipIsNone, ShownAs DEF TableCommits
  <2>3. TableRows = [h \in Handles |-> Table!NoRow]
    BY <2>1, PlainRow DEF Init, NoRow, Table!NoRow, CommitPCs
  <2>4. TableLeft \in {Budget(MaxId)} /\ nextId = 1
    BY BoundsAreNatural DEF Init, TableLeft
  <2> QED
    BY <2>2, <2>3, <2>4 DEF Table!TableInit
<1>2. Init => Both
  BY InitTable, InitFound
<1>3. Inv /\ Both /\ Inv' /\ [Next]_vars => Both'
  BY NextKeepsTable, NextKeepsFound
<1>4. Inv /\ Both /\ Inv' /\ [Next]_vars =>
        [crashes' = 0 /\ aborts' = 0 =>
           [Table!TableNext]_<<TableRows, TableCommits, nextId, TableTip>>]_vars
  BY TableStep DEF Shown, NoFault
<1>5. Spec => []Inv
  BY TreeInvariant
<1> HIDE DEF Inv, Both
<1> QED
  BY <1>1, <1>2, <1>3, <1>4, <1>5, PTL DEF Spec, ImplementsTable

\* THEOREM.  Until something fails, what the wallet sent is a commitment of the
\* table, and between requests one that bears its txid, so that no rollback
\* takes it: it needs the crash of run SpaceSent between sending and recording
\* to lose a transaction (commit, rollback_last_commitment).
SentIsRecorded == Quiet => \A i \in DOMAIN commitments :
                      commitments[i].root \in sent => commitments[i].txid

THEOREM SentUntilAFault ==
    ASSUME OneAtATime
    PROVE  Spec => [](NoFault => SentIsKnown /\ SentIsRecorded)
<1> DEFINE Inv == BaseInv /\ GrowthInv /\ RowInv /\ TreeInv
           Both == TableInv /\ FoundInv
<1>1. Init => Both
  BY InitTable, InitFound
<1>2. Inv /\ Both /\ Inv' /\ [Next]_vars => Both'
  BY NextKeepsTable, NextKeepsFound
<1>3. Both => (NoFault => SentIsKnown /\ SentIsRecorded)
  <2> SUFFICES ASSUME Found
               PROVE  SentIsKnown /\ SentIsRecorded
    BY DEF FoundInv
  <2>1. Quiet => at = "idle"
    BY OneProc DEF Quiet, OneAtATime, Procs, at
  <2> QED
    BY <2>1 DEF Found, SentFits, SentIsKnown, SentIsRecorded
<1>4. Spec => []Inv
  BY TreeInvariant
<1> HIDE DEF Inv, Both
<1> QED
  BY <1>1, <1>2, <1>3, <1>4, PTL DEF Spec

=============================================================================
