--------------------------- MODULE LocalSpaceProofs ---------------------------
(***************************************************************************)
(* What LocalSpace keeps however many operators and stagers run at once,   *)
(* whatever crashes and is cut short: its types, the broadcast commitments *)
(* and the growth of each root over the one it was validated against.      *)
(***************************************************************************)
EXTENDS LocalSpaceProps, SequenceTheorems, TLAPS

-----------------------------------------------------------------------------
(* Sequences of commitments and trees.                                     *)

\* A function on 1..n is a sequence of length n (BroadcastStore's rewrite).
LEMMA FunctionIsSeq ==
    ASSUME NEW S, NEW n \in Nat, NEW f \in [1..n -> S]
    PROVE  f \in Seq(S) /\ Len(f) = n
  BY SMT

\* A prefix of a sequence has the asked length and the same elements.
LEMMA PrefixKeeps ==
    ASSUME NEW S, NEW s \in Seq(S), NEW n \in Nat, n <= Len(s)
    PROVE  /\ SubSeq(s, 1, n) \in Seq(S)
           /\ Len(SubSeq(s, 1, n)) = n
           /\ \A i \in 1..n : SubSeq(s, 1, n)[i] = s[i]
<1>1. Len(s) \in Nat
  BY LenProperties
<1> QED
  BY <1>1, SMT

\* Front drops the last element and keeps the others where they are.
LEMMA FrontKeeps ==
    ASSUME NEW S, NEW s \in Seq(S), s # <<>>
    PROVE  /\ Front(s) \in Seq(S)
           /\ Len(Front(s)) = Len(s) - 1
           /\ \A i \in 1..(Len(s) - 1) : Front(s)[i] = s[i]
<1>1. Len(s) - 1 \in Nat /\ Len(s) - 1 <= Len(s)
  BY EmptySeq
<1> QED
  BY <1>1, PrefixKeeps, Zenon DEF Front

\* The last element of a non-empty sequence is one of its elements.
LEMMA LastOfSeq ==
    ASSUME NEW S, NEW s \in Seq(S), s # <<>>
    PROVE  Len(s) \in DOMAIN s /\ Last(s) \in S
<1>1. Len(s) \in Nat \ {0}
  BY EmptySeq
<1> QED
  BY <1>1, ElementOfSeq, LenProperties DEF Last

\* One element is replaced: length and the other elements stay.
LEMMA ReplaceKeeps ==
    ASSUME NEW S, NEW s \in Seq(S), NEW i \in 1..Len(s), NEW e \in S,
           NEW t, t = [s EXCEPT ![i] = e]
    PROVE  /\ t \in Seq(S) /\ Len(t) = Len(s)
           /\ t[i] = e /\ \A j \in 1..Len(s) : j # i => t[j] = s[j]
<1>1. t \in Seq(S) /\ Len(t) = Len(s)
  BY SMT
<1>2. t[i] = e /\ \A j \in 1..Len(s) : j # i => t[j] = s[j]
  BY SMT
<1> QED
  BY <1>1, <1>2

-----------------------------------------------------------------------------
(* Types of the helpers.                                                   *)

LEMMA TreeTypes ==
    /\ EmptyTree \in Tree
    /\ NoRequest \in Request
    /\ NoRow \in Row
    /\ \A tree, batch \in Tree : Overlay(tree, batch) \in Tree
  BY DEF EmptyTree, Tree, NoRequest, Request, NoRow, Row, Overlay

LEMMA CurrentTreeType ==
    ASSUME snaps \in Seq(Tree)
    PROVE  CurrentTree \in Tree
  BY TreeTypes, LastOfSeq DEF CurrentTree

LEMMA StagedBatchType ==
    ASSUME handles \in [Handles -> Row]
    PROVE  StagedBatch \in Tree
  BY DEF StagedBatch, Tree, Row

-----------------------------------------------------------------------------
(***************************************************************************)
(* The base invariant: types, and the two facts about locks that make them *)
(* inductive.  A space that is not loaded has no request under way, and    *)
(* the rollback between its two statements holds SQLite alone, over a last *)
(* commitment that still has no txid.                                      *)
(***************************************************************************)
Unloaded == ~loaded => \A p \in Procs : pc[p] = "idle"

DeleteHoldsLock ==
    \A p \in Procs : pc[p] = "rb_delete" =>
        MayRollback /\ \A q \in Procs : pc[q] = "rb_delete" => q = p

\* A commit about to insert its row, and a broadcast about to send, have a root.
CarriesRoot ==
    \A p \in Procs : pc[p] \in {"cm_row", "cm_row0", "bc_send"} => req[p].root \in Tree

BaseInv == TypeOK /\ Unloaded /\ DeleteHoldsLock /\ CarriesRoot

\* A request's move to any label but rb_delete keeps the request variables
\* typed and the locks as they are.
LEMMA MoveKeepsLocks ==
    ASSUME BaseInv, NEW p \in Procs, NEW label \in PCs \ {"rb_delete"},
           NEW local \in Request, With(p, label, local),
           label \in {"cm_row", "cm_row0", "bc_send"} => local.root \in Tree,
           loaded \/ pc[p] # "idle", loaded' = loaded,
           commitments' = commitments \/ SqliteFree
    PROVE  /\ pc' \in [Procs -> PCs] /\ req' \in [Procs -> Request]
           /\ Unloaded' /\ DeleteHoldsLock' /\ CarriesRoot'
<1> USE DEF With, Goto
<1>1. pc' \in [Procs -> PCs] /\ req' \in [Procs -> Request]
  BY DEF BaseInv, TypeOK
<1>2. Unloaded'
  BY DEF BaseInv, Unloaded
<1>3. \A q \in Procs : pc'[q] = "rb_delete" => pc[q] = "rb_delete"
  BY DEF BaseInv, TypeOK
<1>4. DeleteHoldsLock'
  BY <1>3 DEF BaseInv, DeleteHoldsLock, SqliteFree, MayRollback
<1>5. CarriesRoot'
  BY DEF BaseInv, TypeOK, CarriesRoot
<1> QED
  BY <1>1, <1>2, <1>4, <1>5

\* A step that leaves the requests alone keeps the locks when it leaves the
\* commitments alone or takes SQLite.
LEMMA StillKeepsLocks ==
    ASSUME BaseInv, UNCHANGED <<pc, req>>, loaded' = loaded \/ loaded',
           commitments' = commitments \/ SqliteFree
    PROVE  Unloaded' /\ DeleteHoldsLock' /\ CarriesRoot'
  BY DEF BaseInv, Unloaded, DeleteHoldsLock, SqliteFree, MayRollback, CarriesRoot

LEMMA AddKeepsBase ==
    ASSUME BaseInv, NEW p \in Procs, AddRequests(p)
    PROVE  BaseInv'
<1> USE TreeTypes DEF tables, chain, faults, Starts, Done
<1>1. CASE AddBegin(p)
  <2>1. PICK h \in Handles, s \in Spks :
           With(p, "add_tree", [NoRequest EXCEPT !.h = h, !.spk = s])
    BY <1>1 DEF AddBegin
  <2>2. [NoRequest EXCEPT !.h = h, !.spk = s] \in Request
    BY DEF Request
  <2> QED
    BY <1>1, <2>1, <2>2, MoveKeepsLocks DEF AddBegin, BaseInv, TypeOK, PCs
<1>2. CASE AddCheckTree(p)
  <2>1. req[p] \in Request
    BY DEF BaseInv, TypeOK
  <2> QED
    BY <1>2, <2>1, MoveKeepsLocks DEF AddCheckTree, BaseInv, TypeOK, PCs
<1>3. CASE AddCheckStaged(p)
  <2>1. req[p] \in Request
    BY DEF BaseInv, TypeOK
  <2> QED
    BY <1>3, <2>1, MoveKeepsLocks DEF AddCheckStaged, BaseInv, TypeOK, PCs
<1>4. CASE AddInsert(p)
  <2>1. [NoRow EXCEPT !.spk = req[p].spk] \in Row
    BY DEF BaseInv, TypeOK, Row, Request
  <2>2. handles' \in [Handles -> Row]
    BY <1>4, <2>1 DEF AddInsert, BaseInv, TypeOK
  <2> QED
    BY <1>4, <2>2, MoveKeepsLocks DEF AddInsert, BaseInv, TypeOK, PCs
<1> QED
  BY <1>1, <1>2, <1>3, <1>4 DEF AddRequests

LEMMA StagedRowsKeepBase ==
    ASSUME BaseInv, NEW p \in Procs,
           SetParked(p) \/ SetParkedFiltered(p) \/ RemoveStaged(p)
    PROVE  BaseInv'
<1>1. handles' \in [Handles -> Row]
  <2>r. \A h \in Handles, b \in BOOLEAN : [handles[h] EXCEPT !.parked = b] \in Row
    BY DEF BaseInv, TypeOK, Row
  <2>1. CASE SetParked(p)
    BY <2>1, <2>r DEF SetParked, BaseInv, TypeOK
  <2>2. CASE SetParkedFiltered(p)
    <3>1. PICK S \in SUBSET Handles, b \in BOOLEAN :
            handles' = [h \in Handles |->
                          IF Exists(h)
                          THEN [handles[h] EXCEPT !.parked = b /\ h \in S /\ IsStaged(h)]
                          ELSE handles[h]]
      BY <2>2 DEF SetParkedFiltered
    <3>2. \A h \in Handles : (b /\ h \in S /\ IsStaged(h)) \in BOOLEAN
      OBVIOUS
    <3> QED
      BY <3>1, <3>2, <2>r DEF BaseInv, TypeOK
  <2>3. CASE RemoveStaged(p)
    BY <2>3, TreeTypes DEF RemoveStaged, BaseInv, TypeOK
  <2> QED
    BY <2>1, <2>2, <2>3
<1>2. UNCHANGED <<loaded, commitments, nextId, snaps, chain, pc, req, faults>>
  BY DEF SetParked, SetParkedFiltered, RemoveStaged
<1> QED
  BY <1>1, <1>2, StillKeepsLocks DEF BaseInv, TypeOK, chain, faults

\* add_commitment's new row is a commitment with the next id.
LEMMA InsertType ==
    ASSUME TypeOK, NEW prev \in Tree \cup {NoRoot}, NEW root \in Tree,
           InsertCommitment(prev, root)
    PROVE  commitments' \in Seq(Commitment) /\ nextId' \in Nat
<1>1. [id |-> nextId, prev |-> prev, root |-> root,
       step |-> FALSE, agg |-> FALSE, txid |-> FALSE] \in Commitment
  BY DEF TypeOK, Commitment
<1> QED
  BY <1>1, AppendProperties DEF InsertCommitment, TypeOK

LEMMA CommitKeepsBase ==
    ASSUME BaseInv, NEW p \in Procs, CommitLocal(p)
    PROVE  BaseInv'
<1> USE TreeTypes DEF tables, chain, faults, Starts, Done
<1>r. req[p] \in Request /\ CurrentTree \in Tree /\ StagedBatch \in Tree
  BY CurrentTreeType, StagedBatchType DEF BaseInv, TypeOK
<1>n. Len(commitments) \in Nat
  BY LenProperties DEF BaseInv, TypeOK
<1>1. CASE CommitBegin(p)
  BY <1>1, MoveKeepsLocks DEF CommitBegin, BaseInv, TypeOK, PCs
<1>2. CASE CommitCheck(p)
  BY <1>2, MoveKeepsLocks DEF CommitCheck, BaseInv, TypeOK, PCs
<1>3. CASE CommitList(p)
  <2>1. [NoRequest EXCEPT !.batch = StagedBatch] \in Request
    BY <1>r DEF Request
  <2> QED
    BY <1>3, <2>1, MoveKeepsLocks DEF CommitList, BaseInv, TypeOK, PCs
<1>4. CASE CommitInput(p)
  BY <1>4, <1>r, MoveKeepsLocks DEF CommitInput, BaseInv, TypeOK, PCs
<1>5. CASE CommitValidate(p)
  <2>1. [req[p] EXCEPT !.base = CurrentTree,
                       !.root = Overlay(CurrentTree, req[p].batch)] \in Request
    BY <1>r DEF Request
  <2>2. [req[p] EXCEPT !.base = CurrentTree,
                       !.root = Overlay(CurrentTree, req[p].batch)].root \in Tree
    BY <1>r DEF Request
  <2> QED
    BY <1>5, <2>1, <2>2, MoveKeepsLocks DEF CommitValidate, BaseInv, TypeOK, PCs
<1>6. CASE CommitRow(p)
  <2>1. [req[p] EXCEPT !.base = NoRoot, !.idx = Len(commitments)] \in Request
    BY <1>r, <1>n DEF Request
  <2>2. req[p].base \in Tree \cup {NoRoot} /\ req[p].root \in Tree
    BY <1>6, <1>r DEF CommitRow, BaseInv, CarriesRoot, Request
  <2>3. commitments' \in Seq(Commitment) /\ nextId' \in Nat
    BY <1>6, <2>2, InsertType DEF CommitRow, BaseInv
  <2> QED
    BY <1>6, <2>1, <2>3, MoveKeepsLocks DEF CommitRow, BaseInv, TypeOK, PCs
<1>7. CASE CommitTree(p)
  <2>1. [req[p] EXCEPT !.batch = EmptyTree] \in Request
    BY <1>r DEF Request
  <2>2. Overlay(CurrentTree, req[p].batch) \in Tree
    BY <1>r DEF Request
  <2>3. snaps' \in Seq(Tree)
    BY <1>7, <2>2, AppendProperties DEF CommitTree, BaseInv, TypeOK
  <2> QED
    BY <1>7, <2>1, <2>3, MoveKeepsLocks DEF CommitTree, BaseInv, TypeOK, PCs
<1>8. CASE CommitTree0(p)
  <2> DEFINE tree == Overlay(CurrentTree, req[p].batch)
  <2>1. tree \in Tree
    BY <1>r DEF Request
  <2>2. [NoRequest EXCEPT !.root = tree] \in Request
    BY <2>1 DEF Request
  <2>3. snaps' \in Seq(Tree)
    BY <1>8, <2>1, AppendProperties DEF CommitTree0, BaseInv, TypeOK
  <2>4. [NoRequest EXCEPT !.root = tree].root \in Tree
    BY <2>1 DEF NoRequest
  <2> QED
    BY <1>8, <2>2, <2>3, <2>4, MoveKeepsLocks DEF CommitTree0, BaseInv, TypeOK, PCs
<1>9. CASE CommitRow0(p)
  <2>1. [req[p] EXCEPT !.idx = Len(commitments)] \in Request
    BY <1>r, <1>n DEF Request
  <2>2. req[p].root \in Tree
    BY <1>9 DEF CommitRow0, BaseInv, CarriesRoot
  <2>3. commitments' \in Seq(Commitment) /\ nextId' \in Nat
    BY <1>9, <2>2, InsertType DEF CommitRow0, BaseInv
  <2> QED
    BY <1>9, <2>1, <2>3, MoveKeepsLocks DEF CommitRow0, BaseInv, TypeOK, PCs
<1>10. CASE CommitMark(p)
  <2>1. handles' \in [Handles -> Row]
    BY <1>10, <1>r DEF CommitMark, BaseInv, TypeOK, Row, Request
  <2> QED
    BY <1>10, <2>1, MoveKeepsLocks DEF CommitMark, BaseInv, TypeOK, PCs
<1> QED
  BY <1>1, <1>2, <1>3, <1>4, <1>5, <1>6, <1>7, <1>8, <1>9, <1>10 DEF CommitLocal

\* Unstage clears the root of some rows and nothing else.
LEMMA UnstageType ==
    ASSUME TypeOK, NEW root, Unstage(root)
    PROVE  handles' \in [Handles -> Row]
<1>1. ASSUME NEW h \in Handles
      PROVE  [handles[h] EXCEPT !.root = NoRoot, !.idx = 0] \in Row
  BY DEF TypeOK, Row
<1> QED
  BY <1>1 DEF Unstage, TypeOK

LEMMA RollbackKeepsBase ==
    ASSUME BaseInv, NEW p \in Procs, RollbackLocal(p)
    PROVE  BaseInv'
<1> USE TreeTypes DEF tables, chain, faults, Starts, Done
<1>1. CASE RollbackBegin(p)
  <2>1. Last(commitments) \in Commitment
    BY <1>1, LastOfSeq DEF RollbackBegin, MayRollback, BaseInv, TypeOK
  <2>2. [NoRequest EXCEPT !.root = Last(commitments).root] \in Request
    BY <2>1 DEF Request, Commitment
  <2> QED
    BY <1>1, <2>2, MoveKeepsLocks DEF RollbackBegin, BaseInv, TypeOK, PCs
<1>2. CASE RollbackTree(p)
  <2>1. \A i \in DOMAIN snaps : SubSeq(snaps, 1, i - 1) \in Seq(Tree)
    <3> SUFFICES ASSUME NEW i \in DOMAIN snaps
                 PROVE  SubSeq(snaps, 1, i - 1) \in Seq(Tree)
      OBVIOUS
    <3>1. Len(snaps) \in Nat /\ i \in 1..Len(snaps)
      BY LenProperties DEF BaseInv, TypeOK
    <3> QED
      BY <3>1, PrefixKeeps DEF BaseInv, TypeOK
  <2>2. snaps' \in Seq(Tree)
    BY <1>2, <2>1 DEF RollbackTree, IsNewest, BaseInv, TypeOK
  <2> QED
    BY <1>2, <2>2, MoveKeepsLocks DEF RollbackTree, BaseInv, TypeOK, PCs
<1>3. CASE RollbackUnstage(p)
  <2>1. handles' \in [Handles -> Row]
    BY <1>3, UnstageType DEF RollbackUnstage, BaseInv, TypeOK
  <2>2. CASE ~MayRollback
    BY <1>3, <2>1, <2>2, MoveKeepsLocks DEF RollbackUnstage, BaseInv, TypeOK, PCs
  <2>3. CASE MayRollback
    <3>1. /\ SqliteFree /\ pc[p] # "idle" /\ UNCHANGED <<loaded, commitments>>
          /\ pc' = [pc EXCEPT ![p] = "rb_delete"]
          /\ req' = [req EXCEPT ![p] = NoRequest]
      BY <1>3, <2>3 DEF RollbackUnstage, With, Goto
    <3>2. pc' \in [Procs -> PCs] /\ req' \in [Procs -> Request]
      BY <3>1 DEF BaseInv, TypeOK, PCs
    <3>3. Unloaded' /\ CarriesRoot'
      BY <3>1 DEF BaseInv, TypeOK, Unloaded, CarriesRoot
    <3>4. DeleteHoldsLock'
      BY <3>1, <2>3 DEF BaseInv, TypeOK, DeleteHoldsLock, SqliteFree, MayRollback
    <3> QED
      BY <1>3, <2>1, <3>2, <3>3, <3>4 DEF RollbackUnstage, BaseInv, TypeOK
  <2> QED
    BY <2>2, <2>3
<1>4. CASE RollbackDelete(p)
  <2>1. pc[p] = "rb_delete" /\ MayRollback /\ \A q \in Procs : pc[q] = "rb_delete" => q = p
    BY <1>4 DEF RollbackDelete, BaseInv, DeleteHoldsLock
  <2>2. commitments' \in Seq(Commitment)
    BY <1>4, <2>1, FrontKeeps DEF RollbackDelete, MayRollback, BaseInv, TypeOK
  <2>3. /\ pc' = [pc EXCEPT ![p] = "idle"] /\ req' = [req EXCEPT ![p] = NoRequest]
        /\ loaded' = loaded
    BY <1>4 DEF RollbackDelete, With, Goto
  <2>4. pc' \in [Procs -> PCs] /\ req' \in [Procs -> Request]
    BY <2>3 DEF BaseInv, TypeOK, PCs
  <2>5. Unloaded' /\ CarriesRoot' /\ DeleteHoldsLock'
    BY <2>1, <2>3 DEF BaseInv, TypeOK, Unloaded, CarriesRoot, DeleteHoldsLock
  <2> QED
    BY <1>4, <2>2, <2>4, <2>5 DEF RollbackDelete, BaseInv, TypeOK
<1> QED
  BY <1>1, <1>2, <1>3, <1>4 DEF RollbackLocal

-----------------------------------------------------------------------------
(* A row is rewritten in place: a receipt or a txid is recorded.           *)

\* new is the table with the receipts or the txid of some rows recorded.
Recorded(old, new) ==
    /\ new \in Seq(Commitment)
    /\ Len(new) = Len(old)
    /\ \A i \in 1..Len(old) :
         /\ new[i].id = old[i].id
         /\ new[i].prev = old[i].prev
         /\ new[i].root = old[i].root
         /\ old[i].txid => new[i].txid

LEMMA ReceiptRecorded ==
    ASSUME TypeOK, SaveStepReceipt \/ SaveFoldReceipt
    PROVE  Recorded(commitments, commitments')
<1>1. PICK i \in DOMAIN commitments, field \in {"step", "agg"} : Proved(i, field)
  BY DEF SaveStepReceipt, SaveFoldReceipt
<1> DEFINE row == IF field = "step" THEN [commitments[i] EXCEPT !.step = TRUE]
                                    ELSE [commitments[i] EXCEPT !.agg = TRUE]
<1>2. commitments' = [commitments EXCEPT ![i] = row]
  BY <1>1 DEF Proved
<1>3. Len(commitments) \in Nat /\ i \in 1..Len(commitments)
  BY LenProperties DEF TypeOK
<1>4. \A j \in 1..Len(commitments) : commitments[j] \in Commitment
  BY ElementOfSeq DEF TypeOK
<1>5. row \in Commitment
  BY <1>3, <1>4 DEF Commitment
<1>6. /\ commitments' \in Seq(Commitment) /\ Len(commitments') = Len(commitments)
      /\ commitments'[i] = row
      /\ \A j \in 1..Len(commitments) : j # i => commitments'[j] = commitments[j]
  <2> HIDE DEF row
  <2> QED
    BY <1>2, <1>3, <1>5, ReplaceKeeps DEF TypeOK
<1>7. row.id = commitments[i].id /\ row.prev = commitments[i].prev
      /\ row.root = commitments[i].root /\ row.txid = commitments[i].txid
  BY <1>3, <1>4 DEF Commitment
<1> QED
  BY <1>6, <1>7 DEF Recorded

LEMMA TxidRecorded ==
    ASSUME TypeOK, NEW p \in Procs, BroadcastStore(p) \/ BumpStore(p)
    PROVE  Recorded(commitments, commitments')
<1>1. Len(commitments) \in Nat /\ DOMAIN commitments = 1..Len(commitments)
  BY LenProperties DEF TypeOK
<1>2. \A j \in 1..Len(commitments) : commitments[j] \in Commitment
  BY ElementOfSeq DEF TypeOK
<1>3. \A j \in 1..Len(commitments) :
        /\ [commitments[j] EXCEPT !.txid = TRUE] \in Commitment
        /\ [commitments[j] EXCEPT !.txid = TRUE].id = commitments[j].id
        /\ [commitments[j] EXCEPT !.txid = TRUE].prev = commitments[j].prev
        /\ [commitments[j] EXCEPT !.txid = TRUE].root = commitments[j].root
        /\ [commitments[j] EXCEPT !.txid = TRUE].txid
  BY <1>2 DEF Commitment
<1>4. CASE BroadcastStore(p)
  <2>1. commitments' = [i \in 1..Len(commitments) |->
                          IF commitments[i].id = req[p].id
                          THEN [commitments[i] EXCEPT !.txid = TRUE]
                          ELSE commitments[i]]
    BY <1>1, <1>4 DEF BroadcastStore
  <2>2. commitments' \in [1..Len(commitments) -> Commitment]
    BY <1>2, <1>3, <2>1
  <2>3. commitments' \in Seq(Commitment) /\ Len(commitments') = Len(commitments)
    BY <1>1, <2>2, FunctionIsSeq
  <2> QED
    BY <1>3, <2>1, <2>3 DEF Recorded
<1>5. CASE BumpStore(p)
  <2>1. CASE commitments = <<>>
    BY <1>5, <2>1 DEF BumpStore, Recorded, TypeOK
  <2>2. CASE commitments # <<>>
    <3> DEFINE n == Len(commitments)
               row == [commitments[n] EXCEPT !.txid = TRUE]
    <3>1. n \in 1..n
      BY <2>2, EmptySeq DEF TypeOK
    <3>2. commitments' = [commitments EXCEPT ![n] = row]
      BY <1>5, <2>2 DEF BumpStore
    <3>3. /\ row \in Commitment /\ row.id = commitments[n].id
          /\ row.prev = commitments[n].prev /\ row.root = commitments[n].root
          /\ row.txid
      BY <1>3, <3>1
    <3>4. /\ commitments' \in Seq(Commitment) /\ Len(commitments') = n
          /\ commitments'[n] = row
          /\ \A j \in 1..n : j # n => commitments'[j] = commitments[j]
      <4> HIDE DEF row
      <4> QED
        BY <3>1, <3>2, <3>3, ReplaceKeeps DEF TypeOK
    <3> QED
      <4> HIDE DEF row
      <4>1. \A j \in 1..n : /\ commitments'[j].id = commitments[j].id
                            /\ commitments'[j].prev = commitments[j].prev
                            /\ commitments'[j].root = commitments[j].root
                            /\ commitments[j].txid => commitments'[j].txid
        BY <3>3, <3>4
      <4> QED
        BY <3>4, <4>1 DEF Recorded
  <2> QED
    BY <2>1, <2>2
<1> QED
  BY <1>4, <1>5

LEMMA BroadcastKeepsBase ==
    ASSUME BaseInv, NEW p \in Procs, Broadcast(p)
    PROVE  BaseInv'
<1> USE TreeTypes DEF tables, chain, faults, Starts, Done
<1>r. req[p] \in Request
  BY DEF BaseInv, TypeOK
<1>1. CASE BroadcastBegin(p)
  BY <1>1, MoveKeepsLocks DEF BroadcastBegin, BaseInv, TypeOK, PCs
<1>2. CASE BroadcastLast(p)
  <2>1. CASE ~MayBroadcast
    BY <1>2, <2>1, MoveKeepsLocks DEF BroadcastLast, BaseInv, TypeOK, PCs
  <2>2. CASE MayBroadcast
    <3> DEFINE local == [NoRequest EXCEPT !.root = Last(commitments).root,
                                          !.id = Last(commitments).id]
    <3>1. Last(commitments) \in Commitment
      BY <2>2, LastOfSeq DEF MayBroadcast, BaseInv, TypeOK
    <3>2. local \in Request
      BY <3>1 DEF Request, Commitment
    <3>r. local.root \in Tree
      BY <3>1 DEF Commitment, NoRequest
    <3>3. With(p, "bc_send", local) /\ pc[p] # "idle"
          /\ UNCHANGED <<loaded, tables, snaps, chain, faults>>
      BY <1>2, <2>2 DEF BroadcastLast
    <3> QED
      <4> HIDE DEF local
      <4> QED
        BY <3>2, <3>3, <3>r, MoveKeepsLocks DEF BaseInv, TypeOK, PCs
  <2> QED
    BY <2>1, <2>2
<1>3. CASE BroadcastSend(p)
  <2>1. [NoRequest EXCEPT !.id = req[p].id] \in Request
    BY <1>r DEF Request
  <2>2. CASE With(p, "bc_txid", [NoRequest EXCEPT !.id = req[p].id])
             /\ sent' = sent \cup {req[p].root}
    <3>1. req[p].root \in Tree
      BY <1>3 DEF BroadcastSend, BaseInv, CarriesRoot
    <3> QED
      BY <1>3, <2>1, <2>2, <3>1, MoveKeepsLocks DEF BroadcastSend, BaseInv, TypeOK, PCs
  <2>3. CASE Done(p) /\ UNCHANGED sent
    BY <1>3, <2>3, MoveKeepsLocks DEF BroadcastSend, BaseInv, TypeOK, PCs
  <2> QED
    BY <1>3, <2>2, <2>3 DEF BroadcastSend
<1>4. CASE BroadcastStore(p)
  <2>1. commitments' \in Seq(Commitment)
    BY <1>4, TxidRecorded DEF Recorded, BaseInv
  <2> QED
    BY <1>4, <2>1, MoveKeepsLocks DEF BroadcastStore, BaseInv, TypeOK, PCs
<1>5. CASE BumpBegin(p)
  BY <1>5, MoveKeepsLocks DEF BumpBegin, BaseInv, TypeOK, PCs
<1>6. CASE BumpStore(p)
  <2>1. commitments' \in Seq(Commitment)
    BY <1>6, TxidRecorded DEF Recorded, BaseInv
  <2> QED
    BY <1>6, <2>1, MoveKeepsLocks DEF BumpStore, BaseInv, TypeOK, PCs
<1> QED
  BY <1>1, <1>2, <1>3, <1>4, <1>5, <1>6 DEF Broadcast

LEMMA ChainKeepsBase ==
    ASSUME BaseInv, SaveStepReceipt \/ SaveFoldReceipt \/ Confirm \/ Finalize
    PROVE  BaseInv'
<1> USE DEF tables, chain, faults
<1>1. CASE SaveStepReceipt \/ SaveFoldReceipt
  <2>1. commitments' \in Seq(Commitment)
    BY <1>1, ReceiptRecorded DEF Recorded, BaseInv
  <2> QED
    BY <1>1, <2>1, StillKeepsLocks DEF SaveStepReceipt, SaveFoldReceipt, BaseInv, TypeOK
<1>2. CASE Confirm \/ Finalize
  BY <1>2, StillKeepsLocks DEF Confirm, Finalize, BaseInv, TypeOK
<1> QED
  BY <1>1, <1>2

LEMMA FaultsKeepBase ==
    ASSUME BaseInv,
           \/ Crash \/ LoadAllSpaces \/ LoadOrCreateSpace \/ LoadOrCreateCrash
           \/ \E p \in Procs : Abort(p)
    PROVE  BaseInv'
<1> USE TreeTypes, BoundsAreNatural DEF tables, chain, faults
<1>1. CASE Crash
  <2>1. pc' \in [Procs -> PCs] /\ req' \in [Procs -> Request]
    BY <1>1 DEF Crash, PCs
  <2>2. Unloaded' /\ DeleteHoldsLock' /\ CarriesRoot'
    BY <1>1 DEF Crash, Unloaded, DeleteHoldsLock, CarriesRoot
  <2>c. crashes' = crashes + 1 /\ crashes < MaxCrashes /\ crashes \in 0..MaxCrashes
    BY <1>1, Zenon DEF Crash, BaseInv, TypeOK
  <2>3. crashes' \in 0..MaxCrashes /\ loaded' \in BOOLEAN
    <3>1. crashes' \in 0..MaxCrashes
      BY <2>c
    <3> QED
      BY <1>1, <3>1, Zenon DEF Crash
  <2>4. UNCHANGED <<handles, commitments, nextId, snaps, sent, confirmed, onchain,
                    final, aborts>>
    BY <1>1 DEF Crash
  <2>5. /\ handles' \in [Handles -> Row] /\ commitments' \in Seq(Commitment)
        /\ nextId' \in Nat /\ snaps' \in Seq(Tree) /\ aborts' \in 0..MaxAborts
    BY <2>4 DEF BaseInv, TypeOK
  <2>6. /\ sent' \subseteq Tree /\ confirmed' \subseteq sent'
        /\ onchain' \in confirmed' \cup {NoRoot} /\ final' \in BOOLEAN
    BY <2>4 DEF BaseInv, TypeOK
  <2> QED
    BY <2>1, <2>2, <2>3, <2>5, <2>6, Zenon DEF BaseInv, TypeOK
<1>2. CASE LoadAllSpaces
  BY <1>2, StillKeepsLocks DEF LoadAllSpaces, BaseInv, TypeOK
<1>3. CASE LoadOrCreateSpace
  <2>1. \A p \in Procs : pc[p] = "idle"
    BY <1>3 DEF LoadOrCreateSpace, BaseInv, Unloaded
  <2>2. handles' \in [Handles -> Row] /\ commitments' \in Seq(Commitment)
    BY <1>3, UnstageType, FrontKeeps
       DEF LoadOrCreateSpace, Orphaned, MayRollback, BaseInv, TypeOK
  <2>3. Unloaded' /\ DeleteHoldsLock' /\ CarriesRoot'
    BY <1>3, <2>1 DEF LoadOrCreateSpace, Unloaded, DeleteHoldsLock, CarriesRoot
  <2> QED
    BY <1>3, <2>2, <2>3 DEF LoadOrCreateSpace, BaseInv, TypeOK
<1>4. CASE LoadOrCreateCrash
  <2>1. handles' \in [Handles -> Row]
    BY <1>4, UnstageType DEF LoadOrCreateCrash, BaseInv
  <2> QED
    BY <1>4, <2>1, StillKeepsLocks DEF LoadOrCreateCrash, BaseInv, TypeOK
<1>5. ASSUME NEW p \in Procs, Abort(p)
      PROVE  BaseInv'
  BY <1>5, MoveKeepsLocks DEF Abort, Done, BaseInv, TypeOK, PCs
<1> QED
  BY <1>1, <1>2, <1>3, <1>4, <1>5

\* Every step of every request, of the chain and of a fault keeps BaseInv.
LEMMA NextKeepsBase ==
    BaseInv /\ [Next]_vars => BaseInv'
<1> SUFFICES ASSUME BaseInv, [Next]_vars
             PROVE  BaseInv'
  OBVIOUS
<1>1. CASE UNCHANGED vars
  BY <1>1 DEF vars, tables, chain, faults, BaseInv, TypeOK, Unloaded,
              DeleteHoldsLock, MayRollback, CarriesRoot
<1>2. CASE Next
  BY <1>2, AddKeepsBase, StagedRowsKeepBase, CommitKeepsBase, RollbackKeepsBase,
     BroadcastKeepsBase, ChainKeepsBase, FaultsKeepBase, ParkersOperate
     DEF Next, Procs
<1> QED
  BY <1>1, <1>2

\* The space starts unopened, empty and idle.
LEMMA InitBase ==
    Init => BaseInv
<1> SUFFICES ASSUME Init
             PROVE  BaseInv
  OBVIOUS
<1>1. commitments \in Seq(Commitment) /\ snaps \in Seq(Tree)
  BY EmptySeq DEF Init
<1>2. crashes \in 0..MaxCrashes /\ aborts \in 0..MaxAborts /\ nextId \in Nat
  BY BoundsAreNatural DEF Init
<1>3. handles \in [Handles -> Row] /\ req \in [Procs -> Request] /\ pc \in [Procs -> PCs]
  BY TreeTypes DEF Init, PCs
<1>4. TypeOK
  BY <1>1, <1>2, <1>3 DEF Init, TypeOK
<1> QED
  BY <1>4 DEF Init, BaseInv, Unloaded, DeleteHoldsLock, CarriesRoot

LEMMA BaseInvariant ==
    Spec => []BaseInv
  BY InitBase, NextKeepsBase, PTL DEF Spec

-----------------------------------------------------------------------------
\* The tables, the tree and the requests stay typed for every number of
\* handles, operators and stagers, through crashes and dropped handlers.
THEOREM TypeInvariant ==
    Spec => []TypeOK
<1>1. BaseInv => TypeOK
  BY DEF BaseInv
<1> QED
  BY <1>1, BaseInvariant, PTL

-----------------------------------------------------------------------------
(* The steps that write the table commitments.                             *)

LEMMA CommitmentWriters ==
    ASSUME Next
    PROVE  \/ UNCHANGED <<commitments, nextId>>
           \/ \E p \in Procs : CommitRow(p) \/ CommitRow0(p)
           \/ \E p \in Procs : RollbackDelete(p)
           \/ \E p \in Procs : BroadcastStore(p) \/ BumpStore(p)
           \/ SaveStepReceipt \/ SaveFoldReceipt
           \/ LoadOrCreateSpace
<1> USE DEF tables, chain, faults
<1>1. ASSUME NEW p \in Procs, AddRequests(p) \/ Abort(p)
      PROVE  UNCHANGED <<commitments, nextId>>
  BY <1>1 DEF AddRequests, AddBegin, AddCheckTree, AddCheckStaged, AddInsert, Abort
<1>2. ASSUME NEW p \in Parkers, SetParked(p) \/ SetParkedFiltered(p)
      PROVE  UNCHANGED <<commitments, nextId>>
  BY <1>2 DEF SetParked, SetParkedFiltered
<1>3. ASSUME NEW p \in Operators, RemoveStaged(p)
      PROVE  UNCHANGED <<commitments, nextId>>
  BY <1>3 DEF RemoveStaged
<1>4. ASSUME NEW p \in Operators, CommitLocal(p), ~CommitRow(p), ~CommitRow0(p)
      PROVE  UNCHANGED <<commitments, nextId>>
  BY <1>4 DEF CommitLocal, CommitBegin, CommitCheck, CommitList, CommitInput,
              CommitValidate, CommitTree, CommitTree0, CommitMark
<1>5. ASSUME NEW p \in Operators, RollbackLocal(p), ~RollbackDelete(p)
      PROVE  UNCHANGED <<commitments, nextId>>
  BY <1>5 DEF RollbackLocal, RollbackBegin, RollbackTree, RollbackUnstage
<1>6. ASSUME NEW p \in Operators, Broadcast(p), ~BroadcastStore(p), ~BumpStore(p)
      PROVE  UNCHANGED <<commitments, nextId>>
  BY <1>6 DEF Broadcast, BroadcastBegin, BroadcastLast, BroadcastSend, BumpBegin
<1>7. ASSUME Confirm \/ Finalize \/ Crash \/ LoadAllSpaces \/ LoadOrCreateCrash
      PROVE  UNCHANGED <<commitments, nextId>>
  BY <1>7 DEF Confirm, Finalize, Crash, LoadAllSpaces, LoadOrCreateCrash
<1>8. Operators \subseteq Procs
  BY DEF Procs
<1>9. CASE \E p \in Operators : RemoveStaged(p) \/ CommitLocal(p) \/ RollbackLocal(p) \/ Broadcast(p)
  BY <1>3, <1>4, <1>5, <1>6, <1>8, <1>9
<1>10. CASE \E p \in Parkers : SetParked(p) \/ SetParkedFiltered(p)
  BY <1>2, <1>10
<1>11. CASE \E p \in Procs : AddRequests(p) \/ Abort(p)
  BY <1>1, <1>11
<1>12. CASE SaveStepReceipt \/ SaveFoldReceipt \/ LoadOrCreateSpace
  BY <1>12
<1>13. CASE Confirm \/ Finalize \/ Crash \/ LoadAllSpaces \/ LoadOrCreateCrash
  BY <1>7, <1>13
<1>14. \/ \E p \in Procs : AddRequests(p) \/ Abort(p)
       \/ \E p \in Parkers : SetParked(p) \/ SetParkedFiltered(p)
       \/ \E p \in Operators :
            RemoveStaged(p) \/ CommitLocal(p) \/ RollbackLocal(p) \/ Broadcast(p)
       \/ SaveStepReceipt \/ SaveFoldReceipt \/ LoadOrCreateSpace
       \/ Confirm \/ Finalize \/ Crash \/ LoadAllSpaces \/ LoadOrCreateCrash
  BY Zenon DEF Next
<1> QED
  BY <1>9, <1>10, <1>11, <1>12, <1>13, <1>14, Zenon

\* What each of them does to the rows that were there.
LEMMA CommitmentSteps ==
    ASSUME BaseInv, Next
    PROVE  \/ UNCHANGED <<commitments, nextId>>
           \/ \E p \in Procs : \/ CommitRow(p) \/ CommitRow0(p)
           \/ MayRollback /\ commitments' = Front(commitments) /\ UNCHANGED nextId
           \/ Recorded(commitments, commitments') /\ UNCHANGED nextId
<1>1. ASSUME NEW p \in Procs, RollbackDelete(p)
      PROVE  MayRollback /\ commitments' = Front(commitments) /\ UNCHANGED nextId
  BY <1>1 DEF RollbackDelete, BaseInv, DeleteHoldsLock
<1>2. ASSUME LoadOrCreateSpace
      PROVE  /\ UNCHANGED nextId
             /\ \/ commitments' = commitments
                \/ MayRollback /\ commitments' = Front(commitments)
  BY <1>2 DEF LoadOrCreateSpace, Orphaned
<1>3. ASSUME NEW p \in Procs, BroadcastStore(p) \/ BumpStore(p)
      PROVE  Recorded(commitments, commitments') /\ UNCHANGED nextId
  BY <1>3, TxidRecorded DEF BroadcastStore, BumpStore, BaseInv
<1>4. ASSUME SaveStepReceipt \/ SaveFoldReceipt
      PROVE  Recorded(commitments, commitments') /\ UNCHANGED nextId
  BY <1>4, ReceiptRecorded DEF SaveStepReceipt, SaveFoldReceipt, BaseInv
<1> QED
  BY <1>1, <1>2, <1>3, <1>4, CommitmentWriters, Zenon

-----------------------------------------------------------------------------
\* No interleaving, crash or dropped handler deletes, moves or rewrites a
\* commitment that has a txid: rollback_last_commitment reads the txid under
\* the lock it deletes under.
THEOREM BroadcastsAreKept ==
    Spec => BroadcastKept
<1>1. BaseInv /\ [Next]_vars => [BroadcastKeptStep]_vars
  <2> SUFFICES ASSUME BaseInv, Next
               PROVE  BroadcastKeptStep
    BY DEF BroadcastKeptStep
  <2>1. Len(commitments) \in Nat /\ DOMAIN commitments = 1..Len(commitments)
    BY LenProperties DEF BaseInv, TypeOK
  <2>2. CASE commitments' = commitments
    BY <2>2 DEF BroadcastKeptStep
  <2>3. ASSUME NEW p \in Procs, CommitRow(p) \/ CommitRow0(p)
        PROVE  BroadcastKeptStep
    <3>1. PICK prev, root : InsertCommitment(prev, root)
      BY <2>3 DEF CommitRow, CommitRow0
    <3>2. \A i \in DOMAIN commitments :
             i \in DOMAIN commitments' /\ commitments'[i] = commitments[i]
      BY <2>1, <3>1 DEF InsertCommitment, BaseInv, TypeOK
    <3> QED
      BY <3>2 DEF BroadcastKeptStep
  <2>4. CASE MayRollback /\ commitments' = Front(commitments)
    <3>1. /\ commitments' \in Seq(Commitment) /\ Len(commitments') = Len(commitments) - 1
          /\ \A i \in 1..(Len(commitments) - 1) : commitments'[i] = commitments[i]
      BY <2>4, FrontKeeps DEF MayRollback, BaseInv, TypeOK
    <3>2. DOMAIN commitments' = 1..(Len(commitments) - 1)
      BY <3>1, LenProperties
    <3>3. ~commitments[Len(commitments)].txid
      BY <2>4 DEF MayRollback, Last
    <3> QED
      BY <2>1, <3>1, <3>2, <3>3 DEF BroadcastKeptStep
  <2>5. CASE Recorded(commitments, commitments')
    <3>1. DOMAIN commitments' = 1..Len(commitments)
      BY <2>5, LenProperties DEF Recorded
    <3> QED
      BY <2>1, <2>5, <3>1 DEF Recorded, BroadcastKeptStep
  <2> QED
    BY <2>2, <2>3, <2>4, <2>5, CommitmentSteps
<1> QED
  BY <1>1, BaseInvariant, PTL DEF Spec, BroadcastKept

-----------------------------------------------------------------------------
(***************************************************************************)
(* The chain of proofs.  That a broadcast, which stores its txid by row    *)
(* id, writes one commitment at most is because ids are not used twice.    *)
(***************************************************************************)
IdsGrow ==
    \A i \in DOMAIN commitments :
        /\ commitments[i].id < nextId
        /\ \A k \in DOMAIN commitments : i < k => commitments[i].id < commitments[k].id

LEMMA NextKeepsIds ==
    ASSUME BaseInv, IdsGrow, [Next]_vars
    PROVE  IdsGrow'
<1>1. /\ Len(commitments) \in Nat /\ DOMAIN commitments = 1..Len(commitments)
      /\ nextId \in Nat /\ \A i \in DOMAIN commitments : commitments[i].id \in Nat
  <2>1. \A i \in DOMAIN commitments : commitments[i] \in Commitment
    BY ElementOfSeq, LenProperties DEF BaseInv, TypeOK
  <2>2. \A c \in Commitment : c.id \in Nat
    BY DEF Commitment
  <2> QED
    BY <2>1, <2>2, LenProperties DEF BaseInv, TypeOK
<1>2. CASE UNCHANGED <<commitments, nextId>>
  BY <1>2 DEF IdsGrow
<1>3. ASSUME NEW p \in Procs, CommitRow(p) \/ CommitRow0(p)
      PROVE  IdsGrow'
  <2>1. PICK prev, root : InsertCommitment(prev, root)
    BY <1>3 DEF CommitRow, CommitRow0
  <2> DEFINE n == Len(commitments)
  <2>2. /\ nextId' = nextId + 1 /\ DOMAIN commitments' = 1..(n + 1)
        /\ \A i \in 1..n : commitments'[i] = commitments[i]
        /\ commitments'[n + 1].id = nextId
    BY <1>1, <2>1 DEF InsertCommitment, BaseInv, TypeOK
  <2> HIDE DEF n
  <2>3. n \in Nat /\ DOMAIN commitments = 1..n
    BY <1>1 DEF n
  <2>4. \A i \in 1..(n + 1) : i \in 1..n \/ i = n + 1
    BY <2>3
  <2>5. ASSUME NEW i \in 1..(n + 1) PROVE commitments'[i].id < nextId'
    BY <1>1, <2>2, <2>3, <2>4 DEF IdsGrow
  <2>6. ASSUME NEW i \in 1..(n + 1), NEW k \in 1..(n + 1), i < k
        PROVE  commitments'[i].id < commitments'[k].id
    <3>1. i \in 1..n
      BY <2>3, <2>6
    <3> QED
      BY <1>1, <2>2, <2>3, <2>4, <2>6, <3>1 DEF IdsGrow
  <2> QED
    BY <2>2, <2>5, <2>6 DEF IdsGrow
<1>4. CASE MayRollback /\ commitments' = Front(commitments) /\ UNCHANGED nextId
  <2>1. /\ commitments' \in Seq(Commitment) /\ Len(commitments') = Len(commitments) - 1
        /\ \A i \in 1..(Len(commitments) - 1) : commitments'[i] = commitments[i]
    BY <1>4, FrontKeeps DEF MayRollback, BaseInv, TypeOK
  <2>2. DOMAIN commitments' = 1..(Len(commitments) - 1)
    BY <2>1, LenProperties
  <2> QED
    BY <1>1, <1>4, <2>1, <2>2 DEF IdsGrow
<1>5. CASE Recorded(commitments, commitments') /\ UNCHANGED nextId
  <2>1. DOMAIN commitments' = 1..Len(commitments)
    BY <1>5, LenProperties DEF Recorded
  <2> QED
    BY <1>1, <1>5, <2>1 DEF Recorded, IdsGrow
<1>6. CASE UNCHANGED vars
  BY <1>2, <1>6 DEF vars, tables
<1> QED
  BY <1>2, <1>3, <1>4, <1>5, <1>6, CommitmentSteps

\* A link shows the proofs and the txid of its commitment, and takes what the
\* commitment takes.
LEMMA LinkParts ==
    ASSUME NEW c
    PROVE  Link(c).step = c.step /\ Link(c).agg = c.agg /\ Link(c).sent = c.txid
  BY Zenon DEF Link

LEMMA LinkTakes ==
    ASSUME NEW c \in Commitment
    PROVE  /\ Link([c EXCEPT !.step = TRUE]) = [Link(c) EXCEPT !.step = TRUE]
           /\ Link([c EXCEPT !.agg = TRUE]) = [Link(c) EXCEPT !.agg = TRUE]
           /\ Link([c EXCEPT !.txid = TRUE]) = [Link(c) EXCEPT !.sent = TRUE]
<1> DEFINE yes == TRUE
           a == [c EXCEPT !.step = yes]
           b == [c EXCEPT !.agg = yes]
           d == [c EXCEPT !.txid = yes]
<1>1. /\ a.step = yes /\ a.agg = c.agg /\ a.txid = c.txid
      /\ b.step = c.step /\ b.agg = yes /\ b.txid = c.txid
      /\ d.step = c.step /\ d.agg = c.agg /\ d.txid = yes
  <2> HIDE DEF yes
  <2> QED
    BY DEF Commitment
<1> HIDE DEF yes, a, b, d
<1> DEFINE x == c.step
           y == c.agg
           z == c.txid
<1>2. /\ Link(a) = [step |-> yes, agg |-> y, sent |-> z]
      /\ Link(b) = [step |-> x, agg |-> yes, sent |-> z]
      /\ Link(d) = [step |-> x, agg |-> y, sent |-> yes]
      /\ Link(c) = [step |-> x, agg |-> y, sent |-> z]
  BY <1>1, Zenon DEF Link
<1> HIDE DEF x, y, z
<1>3. /\ Link(a) = [Link(c) EXCEPT !.step = yes]
      /\ Link(b) = [Link(c) EXCEPT !.agg = yes]
      /\ Link(d) = [Link(c) EXCEPT !.sent = yes]
  BY <1>2
<1> QED
  BY <1>3, Zenon DEF a, b, d, yes

LEMMA LinksAre ==
    ASSUME TypeOK
    PROVE  /\ Len(commitments) \in Nat /\ DOMAIN commitments = 1..Len(commitments)
           /\ Links \in Seq(Chain!Entry) /\ Len(Links) = Len(commitments)
           /\ DOMAIN Links = DOMAIN commitments
           /\ \A i \in DOMAIN commitments :
                 commitments[i] \in Commitment /\ Links[i] = Link(commitments[i])
<1>1. /\ Len(commitments) \in Nat /\ DOMAIN commitments = 1..Len(commitments)
      /\ \A i \in DOMAIN commitments : commitments[i] \in Commitment
  BY ElementOfSeq, LenProperties DEF TypeOK
<1>2. \A c \in Commitment : Link(c) \in Chain!Entry
  BY DEF Commitment, Link, Chain!Entry
<1>3. /\ DOMAIN Links = DOMAIN commitments
      /\ \A i \in DOMAIN commitments : Links[i] = Link(commitments[i])
  BY DEF Links
<1>4. Links \in [1..Len(commitments) -> Chain!Entry]
  BY <1>1, <1>2 DEF Links
<1> QED
  BY <1>1, <1>3, <1>4, FunctionIsSeq

\* One commitment takes something, the others stay.
LEMMA LinksTake ==
    ASSUME TypeOK, NEW i \in DOMAIN commitments, NEW c, NEW l,
           commitments' = [commitments EXCEPT ![i] = c], Link(c) = l
    PROVE  Links' = [Links EXCEPT ![i] = l]
<1>1. DOMAIN commitments' = DOMAIN commitments
  OBVIOUS
<1>2. Links' = [j \in DOMAIN commitments |-> Link(commitments'[j])]
  BY <1>1 DEF Links
<1>3. commitments'[i] = c /\ \A j \in DOMAIN commitments : j # i => commitments'[j] = commitments[j]
  OBVIOUS
<1> QED
  BY <1>2, <1>3 DEF Links

LEMMA ReceiptsAreProofs ==
    ASSUME TypeOK, SaveStepReceipt \/ SaveFoldReceipt
    PROVE  Chain!ChainNext
<1>1. CASE SaveStepReceipt
  <2>1. PICK i \in DOMAIN commitments :
           /\ i >= 2 /\ ~commitments[i].step
           /\ \A j \in 2..(i - 1) : commitments[j].step
           /\ commitments' = [commitments EXCEPT ![i] = [commitments[i] EXCEPT !.step = TRUE]]
    BY <1>1 DEF SaveStepReceipt, Proved
  <2>2. Links' = [Links EXCEPT ![i] = [Links[i] EXCEPT !.step = TRUE]]
    <3>1. Link([commitments[i] EXCEPT !.step = TRUE]) = [Links[i] EXCEPT !.step = TRUE]
      BY LinksAre, LinkTakes
    <3> QED
      BY <2>1, <3>1, LinksTake
  <2>3. ~Links[i].step
    BY <2>1, LinksAre, LinkParts
  <2>4. Chain!StepsBefore(i)
    <3>1. \A j \in 2..(i - 1) : j \in DOMAIN commitments
      BY LinksAre
    <3> QED
      BY <2>1, <3>1, LinksAre, LinkParts DEF Chain!StepsBefore
  <2>5. Chain!ProveStep(i)
    BY <2>1, <2>2, <2>3, <2>4 DEF Chain!ProveStep
  <2> QED
    BY <2>1, <2>5, LinksAre DEF Chain!ChainNext
<1>2. CASE SaveFoldReceipt
  <2>1. PICK i \in DOMAIN commitments :
           /\ i >= 3 /\ ~commitments[i].agg
           /\ \A j \in 2..i : commitments[j].step
           /\ \A j \in 3..(i - 1) : commitments[j].agg
           /\ commitments' = [commitments EXCEPT ![i] = [commitments[i] EXCEPT !.agg = TRUE]]
    BY <1>2 DEF SaveFoldReceipt, Proved
  <2>2. Links' = [Links EXCEPT ![i] = [Links[i] EXCEPT !.agg = TRUE]]
    <3>1. Link([commitments[i] EXCEPT !.agg = TRUE]) = [Links[i] EXCEPT !.agg = TRUE]
      BY LinksAre, LinkTakes
    <3> QED
      BY <2>1, <3>1, LinksTake
  <2>3. /\ \A j \in 2..(i - 1) : j \in DOMAIN commitments /\ j \in 2..i
        /\ \A j \in 3..(i - 1) : j \in DOMAIN commitments
        /\ i \in 2..i
    BY <2>1, LinksAre
  <2>4. ~Links[i].agg /\ Links[i].step
    BY <2>1, <2>3, LinksAre, LinkParts
  <2>5. Chain!StepsBefore(i) /\ Chain!FoldsBefore(i)
    <3>1. \A j \in DOMAIN commitments : /\ Links[j].step = commitments[j].step
                                        /\ Links[j].agg = commitments[j].agg
      BY LinksAre, LinkParts, Zenon
    <3>2. \A j \in 2..(i - 1) : Links[j].step
      BY <2>1, <2>3, <3>1, Zenon
    <3>3. \A j \in 3..(i - 1) : Links[j].agg
      BY <2>1, <2>3, <3>1, Zenon
    <3> QED
      BY <3>2, <3>3 DEF Chain!StepsBefore, Chain!FoldsBefore
  <2>6. Chain!ProveFold(i)
    BY <2>1, <2>2, <2>4, <2>5 DEF Chain!ProveFold
  <2> QED
    BY <2>1, <2>6, LinksAre DEF Chain!ChainNext
<1> QED
  BY <1>1, <1>2

\* The txid is set on one commitment or on none.
LEMMA TxidIsSent ==
    ASSUME TypeOK, IdsGrow, NEW p \in Procs, BroadcastStore(p) \/ BumpStore(p)
    PROVE  Chain!ChainNext \/ UNCHANGED Links
<1>1. ASSUME NEW i \in DOMAIN commitments,
             commitments' = [commitments EXCEPT ![i] = [commitments[i] EXCEPT !.txid = TRUE]]
      PROVE  Chain!ChainNext \/ UNCHANGED Links
  <2>1. Links' = [Links EXCEPT ![i] = [Links[i] EXCEPT !.sent = TRUE]]
    <3>1. Link([commitments[i] EXCEPT !.txid = TRUE]) = [Links[i] EXCEPT !.sent = TRUE]
      BY LinksAre, LinkTakes
    <3> QED
      BY <1>1, <3>1, LinksTake
  <2>2. CASE commitments[i].txid
    <3>1. [commitments[i] EXCEPT !.txid = TRUE] = commitments[i]
      <4>1. commitments[i] \in Commitment
        BY LinksAre
      <4> QED
        BY <2>2, <4>1 DEF Commitment
    <3>2. commitments' = commitments
      BY <1>1, <3>1 DEF TypeOK
    <3> QED
      BY <3>2 DEF Links
  <2>3. CASE ~commitments[i].txid
    <3>1. ~Links[i].sent
      BY <2>3, LinksAre, LinkParts
    <3>2. Chain!Send(i)
      BY <2>1, <3>1 DEF Chain!Send
    <3> QED
      BY <3>2, LinksAre DEF Chain!ChainNext
  <2> QED
    BY <2>2, <2>3
<1>2. CASE BroadcastStore(p)
  <2>1. commitments' = [i \in DOMAIN commitments |->
                          IF commitments[i].id = req[p].id
                          THEN [commitments[i] EXCEPT !.txid = TRUE]
                          ELSE commitments[i]]
    BY <1>2 DEF BroadcastStore
  <2>2. CASE \A i \in DOMAIN commitments : commitments[i].id # req[p].id
    <3>1. commitments' = commitments
      BY <2>1, <2>2, LinksAre DEF TypeOK
    <3> QED
      BY <3>1 DEF Links
  <2>3. CASE \E i \in DOMAIN commitments : commitments[i].id = req[p].id
    <3>1. PICK i \in DOMAIN commitments : commitments[i].id = req[p].id
      BY <2>3
    <3>2. \A j \in DOMAIN commitments : j # i => commitments[j].id # req[p].id
      <4>1. \A j \in DOMAIN commitments : j \in Nat /\ commitments[j].id \in Nat
        BY LinksAre DEF Commitment
      <4> QED
        BY <3>1, <4>1 DEF IdsGrow
    <3> DEFINE c == [commitments[i] EXCEPT !.txid = TRUE]
    <3>3. commitments' = [j \in DOMAIN commitments |-> IF j = i THEN c ELSE commitments[j]]
      BY <2>1, <3>1, <3>2
    <3> HIDE DEF c
    <3>4. commitments' = [commitments EXCEPT ![i] = c]
      BY <3>3, LinksAre DEF TypeOK
    <3> QED
      BY <1>1, <3>4 DEF c
  <2> QED
    BY <2>2, <2>3
<1>3. CASE BumpStore(p)
  <2>1. CASE commitments = <<>>
    <3>1. commitments' = commitments
      BY <1>3, <2>1 DEF BumpStore
    <3> QED
      BY <3>1 DEF Links
  <2>2. CASE commitments # <<>>
    <3>1. Len(commitments) \in DOMAIN commitments
      BY <2>2, EmptySeq, LinksAre DEF TypeOK
    <3> DEFINE n == Len(commitments)
    <3>2. commitments' = [commitments EXCEPT ![n] = [commitments[n] EXCEPT !.txid = TRUE]]
      BY <1>3, <2>2 DEF BumpStore
    <3> QED
      BY <1>1, <3>1, <3>2
  <2> QED
    BY <2>1, <2>2
<1> QED
  BY <1>2, <1>3

\* However many requests run at once, whatever crashes and is cut short, the
\* commitments are a chain of proofs: proofs are made in order and kept, and
\* the newest commitment alone goes, unsent.
THEOREM SpaceKeepsChain ==
    Spec => ImplementsChain
<1>1. Init => Chain!ChainInit /\ IdsGrow
  BY DEF Init, Chain!ChainInit, Links, IdsGrow
<1>2. BaseInv /\ IdsGrow /\ [Next]_vars => Chain!ChainNext \/ UNCHANGED Links
  <2> SUFFICES ASSUME BaseInv, IdsGrow, Next
               PROVE  Chain!ChainNext \/ UNCHANGED Links
    BY DEF vars, tables, Links
  <2>1. TypeOK
    BY DEF BaseInv
  <2>2. CASE UNCHANGED commitments
    BY <2>2 DEF Links
  <2>3. ASSUME NEW p \in Procs, CommitRow(p) \/ CommitRow0(p)
        PROVE  Chain!ChainNext
    <3>1. PICK prev, root : InsertCommitment(prev, root)
      BY <2>3 DEF CommitRow, CommitRow0
    <3> DEFINE n == Len(commitments)
               c == [id |-> nextId, prev |-> prev, root |-> root,
                     step |-> FALSE, agg |-> FALSE, txid |-> FALSE]
    <3>2. Link(c) = Chain!New
      BY Zenon DEF Link, Chain!New
    <3>3. commitments' = Append(commitments, c)
      BY <3>1 DEF InsertCommitment
    <3> HIDE DEF c
    <3>4. /\ DOMAIN commitments' = 1..(n + 1) /\ commitments'[n + 1] = c
          /\ \A i \in 1..n : commitments'[i] = commitments[i]
      BY <2>1, <3>3, LinksAre DEF TypeOK
    <3>5. Links' = [i \in 1..(n + 1) |-> IF i = n + 1 THEN Chain!New ELSE Links[i]]
      <4>1. Links' = [i \in 1..(n + 1) |-> Link(commitments'[i])]
        BY <3>4 DEF Links
      <4>2. \A i \in 1..(n + 1) :
               Link(commitments'[i]) = IF i = n + 1 THEN Chain!New ELSE Links[i]
        BY <2>1, <3>2, <3>4, LinksAre
      <4> QED
        BY <4>1, <4>2
    <3>6. Links' = Append(Links, Chain!New)
      <4>1. Links \in Seq(Chain!Entry) /\ Len(Links) = n /\ n \in Nat
        BY <2>1, LinksAre
      <4>2. Chain!New \in Chain!Entry
        BY DEF Chain!New, Chain!Entry
      <4> DEFINE more == Append(Links, Chain!New)
      <4> HIDE DEF n
      <4>3. /\ more \in Seq(Chain!Entry) /\ Len(more) = n + 1
            /\ \A i \in 1..n : more[i] = Links[i]
            /\ more[n + 1] = Chain!New
        BY <4>1, <4>2, AppendProperties
      <4> HIDE DEF more
      <4>4. more = [i \in 1..(n + 1) |-> more[i]]
        BY <4>1, <4>3
      <4>5. \A i \in 1..(n + 1) : i = n + 1 \/ (i \in 1..n /\ i # n + 1)
        BY <4>1
      <4>6. Links' = more
        BY <3>5, <4>3, <4>4, <4>5
      <4> QED
        BY <4>6 DEF more
    <3> QED
      BY <3>6 DEF Chain!Commit, Chain!ChainNext
  <2>4. CASE MayRollback /\ commitments' = Front(commitments)
    <3> DEFINE n == Len(commitments)
    <3>1. /\ commitments' \in Seq(Commitment) /\ Len(commitments') = n - 1
          /\ \A i \in 1..(n - 1) : commitments'[i] = commitments[i]
      BY <2>1, <2>4, FrontKeeps DEF MayRollback, TypeOK
    <3>2. n \in DOMAIN commitments /\ ~commitments[n].txid /\ n \in Nat /\ n - 1 \in Nat
      BY <2>1, <2>4, EmptySeq, LinksAre DEF MayRollback, Last, TypeOK
    <3>3. Links # <<>> /\ ~Last(Links).sent
      <4>1. Links # <<>> /\ Last(Links) = Link(commitments[n])
        BY <2>1, <3>2, LinksAre DEF Last
      <4> QED
        BY <3>2, <4>1, LinkParts
    <3>4. Links' = [i \in 1..(n - 1) |-> Links[i]]
      <4>1. DOMAIN commitments' = 1..(n - 1)
        BY <3>1, LenProperties
      <4> QED
        BY <2>1, <3>1, <3>2, <4>1, LinksAre DEF Links
    <3>5. Links' = Front(Links)
      BY <2>1, <3>2, <3>4, LinksAre DEF Front
    <3>6. Last(Links) = Chain!Last(Links) /\ Front(Links) = Chain!Front(Links)
      BY Zenon DEF Last, Chain!Last, Front, Chain!Front
    <3> QED
      BY <3>3, <3>5, <3>6 DEF Chain!Withdraw, Chain!ChainNext
  <2>5. ASSUME NEW p \in Procs, BroadcastStore(p) \/ BumpStore(p)
        PROVE  Chain!ChainNext \/ UNCHANGED Links
    BY <2>1, <2>5, TxidIsSent
  <2>6. CASE SaveStepReceipt \/ SaveFoldReceipt
    BY <2>1, <2>6, ReceiptsAreProofs
  <2>7. ASSUME NEW p \in Procs, RollbackDelete(p)
        PROVE  MayRollback /\ commitments' = Front(commitments)
    BY <2>7 DEF RollbackDelete, BaseInv, DeleteHoldsLock
  <2>8. ASSUME LoadOrCreateSpace
        PROVE  \/ UNCHANGED commitments
               \/ MayRollback /\ commitments' = Front(commitments)
    BY <2>8 DEF LoadOrCreateSpace, Orphaned
  <2> QED
    BY <2>2, <2>3, <2>4, <2>5, <2>6, <2>7, <2>8, CommitmentWriters
<1>3. BaseInv /\ IdsGrow /\ [Next]_vars => IdsGrow'
  BY NextKeepsIds
<1>4. BaseInv /\ IdsGrow /\ [Next]_vars => [Chain!ChainNext]_Links
  BY <1>2
<1> QED
  BY <1>1, <1>3, <1>4, BaseInvariant, PTL DEF Spec, ImplementsChain, Chain!ChainSpec

-----------------------------------------------------------------------------
(***************************************************************************)
(* Growth.  ExtendsPrev is not inductive: the row is inserted an await     *)
(* after the exclusion proof, so the request must carry a base and a root  *)
(* that already extend each other, and before that a batch with a handle.  *)
(***************************************************************************)
CarriesProof ==
    \A p \in Procs :
        /\ pc[p] \in {"cm_input", "cm_validate"} => req[p].batch # EmptyTree
        /\ pc[p] = "cm_row" => Ledger!Grows(req[p].base, req[p].root)

GrowthInv == ExtendsPrev /\ CarriesProof

\* guest::run's check, with a batch that holds a handle, makes the root grow.
LEMMA OverlayGrows ==
    ASSUME NEW tree \in Tree, NEW batch \in Tree,
           Excludes(tree, batch), batch # EmptyTree
    PROVE  Ledger!Grows(tree, Overlay(tree, batch))
<1>1. PICK h \in Handles : batch[h] # NoSpk
  BY DEF Tree, EmptyTree
<1>2. Overlay(tree, batch)[h] # tree[h]
  BY <1>1 DEF Overlay, Excludes
<1>3. \A g \in Handles : tree[g] # NoSpk => Overlay(tree, batch)[g] = tree[g]
  BY DEF Overlay, Excludes
<1> QED
  BY <1>2, <1>3 DEF Ledger!Grows

\* list_staged found a row, so the batch holds a handle.
LEMMA StagedBatchNotEmpty ==
    ASSUME ~StagedCount0
    PROVE  StagedBatch # EmptyTree
<1>1. PICK h \in Handles : Eligible(h)
  BY DEF StagedCount0
<1>2. StagedBatch[h] # NoSpk /\ EmptyTree[h] = NoSpk
  BY <1>1 DEF StagedBatch, EmptyTree, Eligible, IsStaged, Exists
<1> QED
  BY <1>2

\* A move keeps CarriesProof when the moving request still carries its proof.
LEMMA MoveCarriesProof ==
    ASSUME BaseInv, CarriesProof, NEW p \in Procs, NEW label, NEW local,
           With(p, label, local),
           label \in {"cm_input", "cm_validate"} => local.batch # EmptyTree,
           label = "cm_row" => Ledger!Grows(local.base, local.root)
    PROVE  CarriesProof'
<1>1. \A q \in Procs : q # p => pc'[q] = pc[q] /\ req'[q] = req[q]
  BY DEF With, Goto, BaseInv, TypeOK
<1>2. pc'[p] = label /\ req'[p] = local
  BY DEF With, Goto, BaseInv, TypeOK
<1>3. ASSUME NEW q \in Procs
      PROVE  /\ pc'[q] \in {"cm_input", "cm_validate"} => req'[q].batch # EmptyTree
             /\ pc'[q] = "cm_row" => Ledger!Grows(req'[q].base, req'[q].root)
  BY <1>1, <1>2, <1>3 DEF CarriesProof
<1>4. EmptyTree' = EmptyTree
  BY DEF EmptyTree
<1> QED
  BY <1>3 DEF CarriesProof, EmptyTree, Ledger!Grows

\* No request moves, or all of them are dropped at once (SetParked, the chain,
\* loading, a crash).
LEMMA StillCarriesProof ==
    ASSUME CarriesProof,
           UNCHANGED <<pc, req>> \/ \A p \in Procs : pc'[p] = "idle"
    PROVE  CarriesProof'
<1>1. EmptyTree' = EmptyTree
  BY DEF EmptyTree
<1> QED
  BY <1>1 DEF CarriesProof, Ledger!Grows

\* Only commit_local puts a batch in a request.
LEMMA OthersCarryProof ==
    ASSUME BaseInv, CarriesProof, NEW p \in Procs,
           AddRequests(p) \/ RollbackLocal(p) \/ Broadcast(p) \/ Abort(p)
    PROVE  CarriesProof'
<1> DEFINE Plain == PCs \ {"cm_input", "cm_validate", "cm_row"}
<1>1. ASSUME AddRequests(p)
      PROVE  \E label \in Plain : \E local : With(p, label, local)
  BY <1>1 DEF AddRequests, AddBegin, AddCheckTree, AddCheckStaged, AddInsert, Done, PCs
<1>2. ASSUME RollbackLocal(p)
      PROVE  \E label \in Plain : \E local : With(p, label, local)
  BY <1>2 DEF RollbackLocal, RollbackBegin, RollbackTree, RollbackUnstage,
              RollbackDelete, Done, PCs
<1>3. ASSUME Broadcast(p)
      PROVE  \E label \in Plain : \E local : With(p, label, local)
  BY <1>3 DEF Broadcast, BroadcastBegin, BroadcastLast, BroadcastSend,
              BroadcastStore, BumpBegin, BumpStore, Done, PCs
<1>4. ASSUME Abort(p)
      PROVE  \E label \in Plain : \E local : With(p, label, local)
  BY <1>4 DEF Abort, Done, PCs
<1> QED
  BY <1>1, <1>2, <1>3, <1>4, MoveCarriesProof

LEMMA CommitCarriesProof ==
    ASSUME BaseInv, CarriesProof, NEW p \in Procs, CommitLocal(p)
    PROVE  CarriesProof'
<1> USE DEF Done
<1>r. req[p] \in Request /\ CurrentTree \in Tree
  BY CurrentTreeType DEF BaseInv, TypeOK
<1>1. CASE CommitBegin(p) \/ CommitCheck(p)
  BY <1>1, MoveCarriesProof DEF CommitBegin, CommitCheck
<1>2. CASE CommitList(p)
  <2>1. [NoRequest EXCEPT !.batch = StagedBatch].batch = StagedBatch
    BY DEF NoRequest
  <2> QED
    BY <1>2, <2>1, StagedBatchNotEmpty, MoveCarriesProof DEF CommitList
<1>3. CASE CommitInput(p)
  <2>1. req[p].batch # EmptyTree
    BY <1>3 DEF CommitInput, CarriesProof
  <2> QED
    BY <1>3, <2>1, MoveCarriesProof DEF CommitInput
<1>4. CASE CommitValidate(p)
  <2> DEFINE local == [req[p] EXCEPT !.base = CurrentTree,
                                     !.root = Overlay(CurrentTree, req[p].batch)]
  <2>1. req[p].batch # EmptyTree /\ req[p].batch \in Tree
    BY <1>4, <1>r DEF CommitValidate, CarriesProof, Request
  <2>2. local.base = CurrentTree /\ local.root = Overlay(CurrentTree, req[p].batch)
    BY <1>r DEF Request
  <2>3. CASE Excludes(CurrentTree, req[p].batch)
    <3>1. Ledger!Grows(local.base, local.root)
      BY <1>r, <2>1, <2>2, <2>3, OverlayGrows
    <3>2. With(p, "cm_row", local)
      BY <1>4, <2>3 DEF CommitValidate
    <3> QED
      <4> HIDE DEF local
      <4> QED
        BY <3>1, <3>2, MoveCarriesProof
  <2>4. CASE ~Excludes(CurrentTree, req[p].batch)
    BY <1>4, <2>4, MoveCarriesProof DEF CommitValidate
  <2> QED
    BY <2>3, <2>4
<1>5. CASE CommitRow(p) \/ CommitTree(p) \/ CommitTree0(p) \/ CommitRow0(p) \/ CommitMark(p)
  BY <1>5, MoveCarriesProof DEF CommitRow, CommitTree, CommitTree0, CommitRow0, CommitMark
<1> QED
  BY <1>1, <1>2, <1>3, <1>4, <1>5 DEF CommitLocal

LEMMA NextCarriesProof ==
    BaseInv /\ CarriesProof /\ [Next]_vars => CarriesProof'
<1> SUFFICES ASSUME BaseInv, CarriesProof, [Next]_vars
             PROVE  CarriesProof'
  OBVIOUS
<1> USE DEF tables, chain, faults
<1>1. CASE UNCHANGED vars
  BY <1>1, StillCarriesProof DEF vars
<1>2. ASSUME NEW p \in Operators, RemoveStaged(p)
      PROVE  CarriesProof'
  BY <1>2, StillCarriesProof DEF RemoveStaged
<1>3. ASSUME NEW p \in Parkers, SetParked(p) \/ SetParkedFiltered(p)
      PROVE  CarriesProof'
  BY <1>3, StillCarriesProof DEF SetParked, SetParkedFiltered
<1>4. ASSUME SaveStepReceipt \/ SaveFoldReceipt \/ Confirm \/ Finalize
      PROVE  CarriesProof'
  BY <1>4, StillCarriesProof DEF SaveStepReceipt, SaveFoldReceipt, Confirm, Finalize
<1>5. ASSUME Crash \/ LoadAllSpaces \/ LoadOrCreateSpace \/ LoadOrCreateCrash
      PROVE  CarriesProof'
  BY <1>5, StillCarriesProof DEF Crash, LoadAllSpaces, LoadOrCreateSpace, LoadOrCreateCrash
<1>6. CASE Next
  BY <1>2, <1>3, <1>4, <1>5, <1>6, OthersCarryProof, CommitCarriesProof
     DEF Next, Procs
<1> QED
  BY <1>1, <1>6

\* The one row a step may add extends the base its request validated against.
LEMMA NextKeepsGrowth ==
    BaseInv /\ GrowthInv /\ [Next]_vars => GrowthInv'
<1> SUFFICES ASSUME BaseInv, GrowthInv, [Next]_vars
             PROVE  ExtendsPrev'
  BY NextCarriesProof DEF GrowthInv
<1>1. Len(commitments) \in Nat /\ DOMAIN commitments = 1..Len(commitments)
  BY LenProperties DEF BaseInv, TypeOK
<1>2. CASE commitments' = commitments
  BY <1>2 DEF GrowthInv, ExtendsPrev, Ledger!Grows
<1>3. ASSUME NEW p \in Procs, CommitRow(p) \/ CommitRow0(p)
      PROVE  ExtendsPrev'
  <2> DEFINE prev == IF CommitRow(p) THEN req[p].base ELSE NoRoot
             root == req[p].root
  <2>1. InsertCommitment(prev, root)
    BY <1>3 DEF CommitRow, CommitRow0
  <2>2. prev # NoRoot => Ledger!Grows(prev, root)
    BY <1>3 DEF CommitRow, GrowthInv, CarriesProof
  <2>3. /\ DOMAIN commitments' = 1..(Len(commitments) + 1)
        /\ \A i \in 1..Len(commitments) : commitments'[i] = commitments[i]
        /\ commitments'[Len(commitments) + 1].prev = prev
        /\ commitments'[Len(commitments) + 1].root = root
    <3> HIDE DEF prev, root
    <3> QED
      BY <1>1, <2>1 DEF InsertCommitment, BaseInv, TypeOK
  <2>4. \A i \in 1..(Len(commitments) + 1) :
           i \in 1..Len(commitments) \/ i = Len(commitments) + 1
    BY <1>1
  <2>5. \A i \in DOMAIN commitments' : commitments'[i].prev # NoRoot =>
           Ledger!Grows(commitments'[i].prev, commitments'[i].root)
    <3> HIDE DEF prev, root
    <3> QED
      BY <1>1, <2>2, <2>3, <2>4 DEF GrowthInv, ExtendsPrev
  <2> QED
    BY <2>5 DEF ExtendsPrev, Ledger!Grows
<1>4. CASE MayRollback /\ commitments' = Front(commitments)
  <2>1. /\ commitments' \in Seq(Commitment) /\ Len(commitments') = Len(commitments) - 1
        /\ \A i \in 1..(Len(commitments) - 1) : commitments'[i] = commitments[i]
    BY <1>4, FrontKeeps DEF MayRollback, BaseInv, TypeOK
  <2>2. DOMAIN commitments' = 1..(Len(commitments) - 1)
    BY <2>1, LenProperties
  <2> QED
    BY <1>1, <2>1, <2>2 DEF GrowthInv, ExtendsPrev, Ledger!Grows
<1>5. CASE Recorded(commitments, commitments')
  <2>1. DOMAIN commitments' = 1..Len(commitments)
    BY <1>5, LenProperties DEF Recorded
  <2> QED
    BY <1>1, <1>5, <2>1 DEF Recorded, GrowthInv, ExtendsPrev, Ledger!Grows
<1>6. CASE UNCHANGED vars
  BY <1>2, <1>6 DEF vars, tables
<1> QED
  BY <1>2, <1>3, <1>4, <1>5, <1>6, CommitmentSteps

\* Whatever operators race, fail and crash, the root of every commitment after
\* a first one binds what its prev_root binds, to the same keys, and more: the
\* exclusion proof still covers the row inserted two awaits later.
THEOREM CommitmentsGrow ==
    Spec => []ExtendsPrev
<1>1. Init => GrowthInv
  BY DEF Init, GrowthInv, ExtendsPrev, CarriesProof
<1>2. GrowthInv => ExtendsPrev
  BY DEF GrowthInv
<1> QED
  BY <1>1, <1>2, NextKeepsGrowth, BaseInvariant, PTL DEF Spec

=============================================================================
