--------------------------- MODULE OneRequestProofs ---------------------------
(***************************************************************************)
(* What LocalSpace keeps when the operator's requests come one at a time,  *)
(* as the UI issues them, and nobody else stages: for any handles, keys,   *)
(* number of commitments and faults, committed rows are provable, a        *)
(* recorded txid was sent and the pipeline view agrees with the handlers;  *)
(* with the checked start-up and no handler cut short, the commitments are *)
(* one chain that ends at the tree on disk and implement HandleLedger;     *)
(* without faults table and tree agree.                                    *)
(***************************************************************************)
EXTENDS LocalSpaceProofs, FiniteSetTheorems

OneAtATime == Stagers = {} /\ \E o : Operators = {o}

\* The request under way: where it is, and its locals.
Op == CHOOSE o \in Procs : TRUE
at == pc[Op]
my == req[Op]

-----------------------------------------------------------------------------
(***************************************************************************)
(* Rows.  Between list_staged_handles and commit_staged_handles the staged *)
(* rows are the batch, so the root that is marked binds each of them; and  *)
(* what a broadcast carries is still the last commitment.  Faults do not   *)
(* matter: a request that is cut short only stops.                         *)
(***************************************************************************)
BindsStaged(root) == \A h \in Handles : Eligible(h) => root[h] = handles[h].spk

\* Row ids are never reused, and only a first commitment has no prev_root.
Numbered ==
    \A i \in DOMAIN commitments :
        /\ commitments[i].id < nextId
        /\ commitments[i].prev = NoRoot <=> i = 1
        /\ \A j \in DOMAIN commitments : commitments[j].id = commitments[i].id => j = i

IsLast(l) == commitments # <<>> /\ l.id = Last(commitments).id

RowLocals(label, l) ==
    /\ label \in {"cm_tree0", "cm_row0"} => commitments = <<>>
    /\ label \in {"cm_validate", "cm_row"} => commitments # <<>>
    /\ label = "cm_row" => l.base \in Tree
    /\ label \in {"cm_input", "cm_validate", "cm_row", "cm_tree", "cm_tree0"} =>
         l.batch = StagedBatch
    /\ label \in {"cm_row", "cm_tree", "cm_row0", "cm_mark"} => BindsStaged(l.root)
    /\ label \in {"cm_tree", "cm_mark"} =>
         /\ commitments # <<>> /\ l.idx + 1 = Len(commitments)
         /\ l.root = Last(commitments).root
    /\ label = "rb_delete" => \A h \in Handles : handles[h].root # Last(commitments).root
    /\ label = "bc_send" => IsLast(l) /\ l.root = Last(commitments).root
    /\ label = "bc_txid" => IsLast(l) /\ Last(commitments).root \in sent
    /\ label = "bp_store" => commitments # <<>> /\ Last(commitments).txid

RowInv ==
    /\ CommittedRowsProvable /\ TxidWasSent /\ Numbered
    /\ \A label \in PCs, l \in Request : at = label /\ my = l => RowLocals(label, l)

-----------------------------------------------------------------------------
(***************************************************************************)
(* Trees.  The commitments are the newest snapshots, one for one: older    *)
(* snapshots may be left by first commits that died before their row.  The *)
(* table is ahead by one row from add_commitment to the tree's write, and  *)
(* from the tree's rollback to the row's deletion; a crash leaves it so.   *)
(***************************************************************************)
Sound == aborts = 0 /\ (crashes = 0 \/ ~BootLoadsAll)

Aligned(n) ==
    /\ n <= Len(snaps)
    /\ \A i \in 1..n : commitments[i].root = snaps[(Len(snaps) - n) + i]
InStep == Aligned(Len(commitments))
Ahead  == commitments # <<>> /\ ~Last(commitments).txid /\ Aligned(Len(commitments) - 1)

AheadPCs == {"cm_tree", "rb_unstage", "rb_delete"}

TreeLocals(label, l) ==
    /\ label = "cm_tree0" => l.batch # EmptyTree
    /\ label = "cm_row0" => snaps # <<>> /\ l.root = CurrentTree /\ l.root # EmptyTree
    /\ label = "cm_row" => l.base = CurrentTree /\ l.root = Overlay(CurrentTree, l.batch)
    /\ label = "cm_tree" => Last(commitments).root = Overlay(CurrentTree, l.batch)
    /\ label = "rb_tree" => MayRollback /\ l.root = Last(commitments).root
    /\ label \in AheadPCs => Ahead
    /\ label \notin AheadPCs => InStep \/ ~loaded

\* Every root binds what each root before it binds, and more.
Nested ==
    /\ \A i, j \in DOMAIN commitments :
         i < j => Ledger!Grows(commitments[i].root, commitments[j].root)
    /\ commitments # <<>> => commitments[1].root # EmptyTree

Chained ==
    /\ PrevRootChain /\ Nested
    /\ ~loaded => InStep \/ Ahead
    /\ \A label \in PCs, l \in Request : at = label /\ my = l => TreeLocals(label, l)

TreeInv == Sound => Chained

-----------------------------------------------------------------------------
(***************************************************************************)
(* Table and tree, while nothing has failed.  A commitment's root binds    *)
(* the rows of it and of the commitments before it, to the rows' keys; the *)
(* batch joins when it is marked, and leaves with the unstaging.           *)
(***************************************************************************)
NoFault == crashes = 0 /\ aborts = 0

InRoot(h, i) == handles[h].root # NoRoot /\ handles[h].idx < i
Binds(i) ==
    \A h \in Handles : commitments[i].root[h] = IF InRoot(h, i) THEN handles[h].spk ELSE NoSpk

TableLocals(label, l) ==
    /\ label \in {"add_staged", "add_insert"} => CurrentTree[l.h] = NoSpk
    /\ label \notin {"cm_tree", "cm_mark", "rb_delete"} /\ commitments # <<>> =>
         Binds(Len(commitments))
    /\ label \in {"cm_tree", "cm_mark"} =>
         \A h \in Handles : Last(commitments).root[h] =
             IF handles[h].root # NoRoot \/ Eligible(h) THEN handles[h].spk ELSE NoSpk
    /\ label = "cm_row0" =>
         \A h \in Handles : l.root[h] = IF Eligible(h) THEN handles[h].spk ELSE NoSpk
    /\ label = "cm_row0" => Len(snaps) = 1
    /\ label \in AheadPCs => Len(snaps) + 1 = Len(commitments)
    /\ label \notin AheadPCs \cup {"cm_row0"} => Len(snaps) = Len(commitments)

Tabled ==
    /\ ~loaded => commitments = <<>>
    /\ \A i \in DOMAIN commitments : i < Len(commitments) => Binds(i)
    /\ \A label \in PCs, l \in Request : at = label /\ my = l => TableLocals(label, l)

TableInv == NoFault => Tabled

-----------------------------------------------------------------------------
(* One request.                                                            *)

LEMMA OneProc ==
    ASSUME OneAtATime
    PROVE  Procs = {Op}
  BY DEF OneAtATime, Procs, Op

\* Where a move takes the request.
LEMMA MoveTo ==
    ASSUME BaseInv, OneAtATime, NEW p \in Procs, NEW label, NEW local, With(p, label, local)
    PROVE  at' = label /\ my' = local /\ p = Op
  BY OneProc DEF With, Goto, at, my, BaseInv, TypeOK

LEMMA HereTypes ==
    ASSUME BaseInv, OneAtATime
    PROVE  at \in PCs /\ my \in Request /\ Op \in Procs
  BY OneProc DEF at, my, BaseInv, TypeOK

\* A record of receipts and txids keeps what the requests go by.
LEMMA RecordedKeeps ==
    ASSUME TypeOK, Recorded(commitments, commitments')
    PROVE  /\ Len(commitments') = Len(commitments) /\ Len(commitments) \in Nat
           /\ DOMAIN commitments' = DOMAIN commitments
           /\ DOMAIN commitments = 1..Len(commitments)
           /\ \A i \in DOMAIN commitments :
                /\ commitments'[i].id = commitments[i].id
                /\ commitments'[i].prev = commitments[i].prev
                /\ commitments'[i].root = commitments[i].root
                /\ commitments[i].txid => commitments'[i].txid
           /\ (commitments' = <<>>) <=> (commitments = <<>>)
           /\ commitments # <<>> =>
                /\ Last(commitments').id = Last(commitments).id
                /\ Last(commitments').root = Last(commitments).root
                /\ Last(commitments).txid => Last(commitments').txid
<1>1. /\ Len(commitments') = Len(commitments) /\ Len(commitments) \in Nat
      /\ DOMAIN commitments' = 1..Len(commitments) /\ DOMAIN commitments = 1..Len(commitments)
  BY LenProperties DEF TypeOK, Recorded
<1>2. (commitments' = <<>>) <=> (commitments = <<>>)
  BY <1>1, EmptySeq DEF TypeOK, Recorded
<1>3. commitments # <<>> => Len(commitments) \in 1..Len(commitments)
  BY <1>1, EmptySeq DEF TypeOK
<1> QED
  BY <1>1, <1>2, <1>3 DEF Recorded, Last

LEMMA SameRecorded ==
    ASSUME TypeOK, commitments' = commitments
    PROVE  Recorded(commitments, commitments')
  BY DEF Recorded, TypeOK

-----------------------------------------------------------------------------
(* Rows: the steps keep RowInv.                                            *)

\* A record that only adds txids of sent roots, with the handles untouched.
LEMMA RowsKept ==
    ASSUME BaseInv, RowInv, Recorded(commitments, commitments'),
           UNCHANGED <<handles, nextId>>, sent \subseteq sent', TxidWasSent'
    PROVE  /\ CommittedRowsProvable' /\ TxidWasSent' /\ Numbered'
           /\ \A label, l : RowLocals(label, l) => RowLocals(label, l)'
<1> USE RecordedKeeps DEF BaseInv
<1>1. CommittedRowsProvable'
  BY DEF RowInv, CommittedRowsProvable
<1>2. Numbered'
  BY DEF RowInv, Numbered
<1>3. StagedBatch' = StagedBatch /\ \A root : BindsStaged(root)' <=> BindsStaged(root)
  BY DEF StagedBatch, BindsStaged, Eligible, IsStaged, Exists
<1>4. \A label, l : RowLocals(label, l) => RowLocals(label, l)'
  BY <1>3 DEF RowLocals, IsLast
<1> QED
  BY <1>1, <1>2, <1>4

\* A txid that was recorded stays the txid of a sent root.
LEMMA SentKept ==
    ASSUME TxidWasSent, commitments' = commitments, sent \subseteq sent'
    PROVE  TxidWasSent'
  BY DEF TxidWasSent

\* The request moves, and the tables stay.
LEMMA RowMove ==
    ASSUME BaseInv, OneAtATime, RowInv, NEW p \in Procs, NEW label, NEW local,
           With(p, label, local), UNCHANGED <<handles, commitments, nextId>>,
           sent \subseteq sent', RowLocals(label, local)'
    PROVE  RowInv'
<1>1. Recorded(commitments, commitments')
  BY SameRecorded DEF BaseInv
<1>2. TxidWasSent'
  BY SentKept DEF RowInv
<1>3. at' = label /\ my' = local
  BY MoveTo
<1> QED
  BY <1>1, <1>2, <1>3, RowsKept DEF RowInv

\* ... to a label that says nothing of rows.
LEMMA RowLeave ==
    ASSUME BaseInv, OneAtATime, RowInv, NEW p \in Procs, NEW local,
           NEW label \in {"idle", "add_tree", "add_staged", "add_insert", "cm_check",
                          "cm_list", "rb_tree", "rb_unstage", "bc_last"},
           With(p, label, local), UNCHANGED <<handles, commitments, nextId>>,
           sent \subseteq sent'
    PROVE  RowInv'
<1>1. RowLocals(label, local)'
  BY DEF RowLocals
<1> QED
  BY <1>1, RowMove

\* The request ends, or none was under way.
LEMMA RowIdle ==
    ASSUME OneAtATime, at' = "idle",
           CommittedRowsProvable', TxidWasSent', Numbered'
    PROVE  RowInv'
<1>1. \A l : RowLocals("idle", l)'
  BY DEF RowLocals
<1> QED
  BY <1>1 DEF RowInv

\* The request stays where it is, and the commitments are recorded at most.
LEMMA RowStay ==
    ASSUME BaseInv, RowInv, Recorded(commitments, commitments'),
           UNCHANGED <<handles, nextId, pc, req>>, sent \subseteq sent', TxidWasSent'
    PROVE  RowInv'
<1>1. at' = at /\ my' = my
  BY DEF at, my
<1> QED
  BY <1>1, RowsKept DEF RowInv

\* Rows that change without becoming committed.
LEMMA UncommittedRows ==
    ASSUME RowInv, commitments' = commitments,
           \A h \in Handles :
             \/ handles'[h].root = NoRoot
             \/ /\ handles'[h].root = handles[h].root /\ handles'[h].idx = handles[h].idx
                /\ handles'[h].spk = handles[h].spk
    PROVE  CommittedRowsProvable'
  BY DEF RowInv, CommittedRowsProvable

LEMMA AddKeepsRows ==
    ASSUME BaseInv, OneAtATime, RowInv, NEW p \in Procs, AddRequests(p)
    PROVE  RowInv'
<1> USE DEF tables, chain, faults, Done
<1>1. CASE AddBegin(p)
  BY <1>1, RowLeave DEF AddBegin
<1>2. CASE AddCheckTree(p)
  BY <1>2, RowLeave DEF AddCheckTree
<1>3. CASE AddCheckStaged(p)
  BY <1>3, RowLeave DEF AddCheckStaged
<1>4. CASE AddInsert(p)
  <2>1. at' = "idle"
    BY <1>4, MoveTo DEF AddInsert
  <2>2. [NoRow EXCEPT !.spk = req[p].spk].root = NoRoot
    BY DEF NoRow
  <2>3. CommittedRowsProvable'
    BY <1>4, <2>2, UncommittedRows DEF AddInsert, BaseInv, TypeOK
  <2>4. TxidWasSent' /\ Numbered'
    BY <1>4 DEF AddInsert, RowInv, TxidWasSent, Numbered
  <2> QED
    BY <2>1, <2>3, <2>4, RowIdle
<1> QED
  BY <1>1, <1>2, <1>3, <1>4 DEF AddRequests

LEMMA ParkKeepsRows ==
    ASSUME BaseInv, OneAtATime, RowInv, NEW p \in Procs,
           SetParked(p) \/ SetParkedFiltered(p) \/ RemoveStaged(p)
    PROVE  RowInv'
<1>1. at' = "idle"
  BY OneProc DEF SetParked, SetParkedFiltered, RemoveStaged, Starts, at
<1>2. UNCHANGED <<commitments, nextId, sent>>
  BY DEF SetParked, SetParkedFiltered, RemoveStaged, chain
<1>3. ASSUME NEW h \in Handles, NEW b \in BOOLEAN
      PROVE  /\ [handles[h] EXCEPT !.parked = b].root = handles[h].root
             /\ [handles[h] EXCEPT !.parked = b].idx = handles[h].idx
             /\ [handles[h] EXCEPT !.parked = b].spk = handles[h].spk
  BY DEF BaseInv, TypeOK, Row
<1>4. NoRow.root = NoRoot
  BY DEF NoRow
<1>5. CommittedRowsProvable'
  <2>1. CASE SetParked(p)
    BY <1>2, <1>3, <2>1, UncommittedRows DEF SetParked
  <2>2. CASE SetParkedFiltered(p)
    <3>1. PICK S \in SUBSET Handles, b \in BOOLEAN :
            handles' = [h \in Handles |->
                          IF Exists(h)
                          THEN [handles[h] EXCEPT !.parked = b /\ h \in S /\ IsStaged(h)]
                          ELSE handles[h]]
      BY <2>2 DEF SetParkedFiltered
    <3>2. \A h \in Handles : (b /\ h \in S /\ IsStaged(h)) \in BOOLEAN
      OBVIOUS
    <3>3. \A h \in Handles :
            \/ handles'[h] = handles[h]
            \/ \E c \in BOOLEAN : handles'[h] = [handles[h] EXCEPT !.parked = c]
      BY <3>1, <3>2
    <3>4. ASSUME NEW h \in Handles
          PROVE  /\ handles'[h].root = handles[h].root /\ handles'[h].idx = handles[h].idx
                 /\ handles'[h].spk = handles[h].spk
      <4>1. CASE handles'[h] = handles[h]
        BY <4>1
      <4>2. CASE \E c \in BOOLEAN : handles'[h] = [handles[h] EXCEPT !.parked = c]
        BY <1>3, <4>2
      <4> QED
        BY <3>3, <4>1, <4>2
    <3> QED
      BY <1>2, <3>4, UncommittedRows
  <2>3. CASE RemoveStaged(p)
    BY <1>2, <1>4, <2>3, UncommittedRows DEF RemoveStaged
  <2> QED
    BY <2>1, <2>2, <2>3
<1>6. TxidWasSent' /\ Numbered'
  BY <1>2 DEF RowInv, TxidWasSent, Numbered
<1> QED
  BY <1>1, <1>5, <1>6, RowIdle

\* What a request carries that stands at a label.
LEMMA RowCarried ==
    ASSUME BaseInv, OneAtATime, RowInv, NEW p \in Procs
    PROVE  /\ RowLocals(pc[p], req[p]) /\ req[p] \in Request /\ p = Op
           /\ CurrentTree \in Tree /\ StagedBatch \in Tree
<1>1. p = Op
  BY OneProc
<1>2. at \in PCs /\ my \in Request
  BY HereTypes
<1>3. RowLocals(at, my)
  BY <1>2 DEF RowInv
<1> QED
  BY <1>1, <1>2, <1>3, CurrentTreeType, StagedBatchType DEF at, my, BaseInv, TypeOK

\* The staged batch, laid over any tree, binds the staged rows.
LEMMA OverlayBinds ==
    ASSUME BaseInv, NEW tree \in Tree
    PROVE  BindsStaged(Overlay(tree, StagedBatch))
  BY DEF BindsStaged, Overlay, StagedBatch, Eligible, IsStaged, Exists, Tree

\* add_commitment, seen from the rows.
LEMMA InsertKeeps ==
    ASSUME TypeOK, NEW prev \in Tree \cup {NoRoot}, NEW root \in Tree,
           InsertCommitment(prev, root)
    PROVE  /\ Len(commitments) \in Nat /\ Len(commitments') = Len(commitments) + 1
           /\ DOMAIN commitments = 1..Len(commitments)
           /\ DOMAIN commitments' = 1..(Len(commitments) + 1)
           /\ \A i \in DOMAIN commitments : commitments'[i] = commitments[i]
           /\ commitments' # <<>> /\ Last(commitments') = commitments'[Len(commitments) + 1]
           /\ Last(commitments').id = nextId /\ Last(commitments').prev = prev
           /\ Last(commitments').root = root /\ ~Last(commitments').txid
           /\ nextId' = nextId + 1 /\ nextId \in Nat
<1> DEFINE row == [id |-> nextId, prev |-> prev, root |-> root,
                   step |-> FALSE, agg |-> FALSE, txid |-> FALSE]
<1>1. Len(commitments) \in Nat /\ DOMAIN commitments = 1..Len(commitments)
  BY LenProperties DEF TypeOK
<1>2. row \in Commitment
  BY DEF TypeOK, Commitment
<1>3. row.id = nextId /\ row.prev = prev /\ row.root = root /\ ~row.txid
  OBVIOUS
<1>4. commitments' = Append(commitments, row)
  BY DEF InsertCommitment
<1> HIDE DEF row
<1>5. /\ commitments' \in Seq(Commitment) /\ Len(commitments') = Len(commitments) + 1
      /\ \A i \in 1..Len(commitments) : commitments'[i] = commitments[i]
      /\ commitments'[Len(commitments) + 1] = row
  BY <1>1, <1>2, <1>4, AppendProperties DEF TypeOK
<1>6. DOMAIN commitments' = 1..(Len(commitments) + 1) /\ commitments' # <<>>
  BY <1>1, <1>5, LenProperties, EmptySeq
<1> QED
  BY <1>1, <1>3, <1>5, <1>6 DEF InsertCommitment, TypeOK, Last

\* ... keeps what is said of all rows.
LEMMA InsertKeepsRows ==
    ASSUME TypeOK, RowInv, NEW prev \in Tree \cup {NoRoot}, NEW root \in Tree,
           InsertCommitment(prev, root), UNCHANGED handles, sent \subseteq sent',
           prev = NoRoot <=> commitments = <<>>
    PROVE  CommittedRowsProvable' /\ TxidWasSent' /\ Numbered'
<1> DEFINE n == Len(commitments)
<1>a. /\ n \in Nat /\ DOMAIN commitments = 1..n /\ DOMAIN commitments' = 1..(n + 1)
      /\ \A i \in DOMAIN commitments : commitments'[i] = commitments[i]
      /\ Last(commitments') = commitments'[n + 1]
      /\ Last(commitments').id = nextId /\ ~Last(commitments').txid
      /\ Last(commitments').prev = prev
      /\ nextId' = nextId + 1 /\ nextId \in Nat
  BY InsertKeeps
<1>b. commitments = <<>> <=> n = 0
  BY EmptySeq DEF TypeOK
<1> HIDE DEF n
<1>1. CommittedRowsProvable'
  BY <1>a DEF RowInv, CommittedRowsProvable
<1>2. \A i \in DOMAIN commitments' :
         i \in DOMAIN commitments \/ (i = n + 1 /\ commitments'[i] = Last(commitments'))
  BY <1>a
<1>3. TxidWasSent'
  BY <1>2, <1>a DEF RowInv, TxidWasSent
<1>4. Numbered'
  <2>1. \A i \in DOMAIN commitments : commitments[i] \in Commitment
    BY ElementOfSeq, LenProperties, <1>a DEF TypeOK
  <2>2. \A i \in DOMAIN commitments : commitments[i].id < nextId /\ commitments[i].id \in Nat
    BY <2>1 DEF RowInv, Numbered, Commitment
  <2>3. \A i \in DOMAIN commitments' : commitments'[i].id < nextId'
    BY <1>2, <1>a, <2>2
  <2>4. ASSUME NEW i \in DOMAIN commitments', NEW j \in DOMAIN commitments',
               commitments'[j].id = commitments'[i].id
        PROVE  j = i
    <3>1. CASE i \in DOMAIN commitments /\ j \in DOMAIN commitments
      BY <1>a, <2>4, <3>1 DEF RowInv, Numbered
    <3>2. CASE i = n + 1 /\ j = n + 1
      BY <3>2
    <3>3. CASE i = n + 1 /\ j \in DOMAIN commitments
      BY <1>a, <2>2, <2>4, <3>3
    <3>4. CASE j = n + 1 /\ i \in DOMAIN commitments
      BY <1>a, <2>2, <2>4, <3>4
    <3> QED
      BY <1>2, <3>1, <3>2, <3>3, <3>4
  <2>5. \A i \in DOMAIN commitments' : commitments'[i].prev = NoRoot <=> i = 1
    <3>1. \A i \in DOMAIN commitments : commitments'[i].prev = NoRoot <=> i = 1
      BY <1>a DEF RowInv, Numbered
    <3>2. commitments'[n + 1].prev = NoRoot <=> n + 1 = 1
      BY <1>a, <1>b
    <3> QED
      BY <1>2, <3>1, <3>2
  <2> QED
    BY <2>3, <2>4, <2>5 DEF Numbered
<1> QED
  BY <1>1, <1>3, <1>4

LEMMA CommitKeepsRows ==
    ASSUME BaseInv, OneAtATime, RowInv, NEW p \in Procs, CommitLocal(p)
    PROVE  RowInv'
<1> USE DEF tables, chain, faults, Done
<1>c. /\ RowLocals(pc[p], req[p]) /\ req[p] \in Request /\ p = Op
      /\ CurrentTree \in Tree /\ StagedBatch \in Tree
  BY RowCarried
<1>l. Len(commitments) \in Nat
  BY LenProperties DEF BaseInv, TypeOK
<1>u. ASSUME UNCHANGED handles
      PROVE  StagedBatch' = StagedBatch /\ \A root : BindsStaged(root) => BindsStaged(root)'
  BY <1>u DEF StagedBatch, BindsStaged, Eligible, IsStaged, Exists
<1>1. CASE CommitBegin(p) \/ CommitCheck(p)
  BY <1>1, RowLeave DEF CommitBegin, CommitCheck
<1>2. CASE CommitList(p)
  <2>1. CASE With(p, "idle", NoRequest)
    BY <1>2, <2>1, RowLeave DEF CommitList
  <2>2. CASE With(p, "cm_input", [NoRequest EXCEPT !.batch = StagedBatch])
    <3>1. [NoRequest EXCEPT !.batch = StagedBatch].batch = StagedBatch
      BY DEF NoRequest
    <3>2. RowLocals("cm_input", [NoRequest EXCEPT !.batch = StagedBatch])
      BY <3>1 DEF RowLocals
    <3>3. \A l : RowLocals("cm_input", l) => RowLocals("cm_input", l)'
      BY <1>2, <1>u DEF RowLocals, CommitList
    <3> QED
      BY <1>2, <2>2, <3>2, <3>3, RowMove DEF CommitList
  <2> QED
    BY <1>2, <2>1, <2>2 DEF CommitList
<1>3. CASE CommitInput(p)
  <2>1. UNCHANGED <<handles, commitments, nextId, sent>> /\ req[p].batch = StagedBatch
    BY <1>3, <1>c DEF CommitInput, RowLocals
  <2>2. CASE commitments = <<>>
    <3>1. With(p, "cm_tree0", req[p])
      BY <1>3, <2>2 DEF CommitInput
    <3>2. \A l : l.batch = StagedBatch => RowLocals("cm_tree0", l)'
      BY <1>u, <2>1, <2>2 DEF RowLocals
    <3> QED
      BY <2>1, <3>1, <3>2, RowMove
  <2>3. CASE commitments # <<>>
    <3>1. With(p, "cm_validate", req[p])
      BY <1>3, <2>3 DEF CommitInput
    <3>2. \A l : l.batch = StagedBatch => RowLocals("cm_validate", l)'
      BY <1>u, <2>1, <2>3 DEF RowLocals
    <3> QED
      BY <2>1, <3>1, <3>2, RowMove
  <2> QED
    BY <2>2, <2>3
<1>4. CASE CommitValidate(p)
  <2> DEFINE local == [req[p] EXCEPT !.base = CurrentTree,
                                     !.root = Overlay(CurrentTree, req[p].batch)]
  <2>1. CASE With(p, "idle", NoRequest)
    BY <1>4, <2>1, RowLeave DEF CommitValidate
  <2>2. CASE With(p, "cm_row", local)
    <3>1. req[p].batch = StagedBatch
      BY <1>4, <1>c DEF CommitValidate, RowLocals
    <3>2. /\ local.batch = StagedBatch /\ local.root = Overlay(CurrentTree, StagedBatch)
          /\ local.base \in Tree /\ commitments # <<>>
      BY <1>4, <1>c, <3>1 DEF Request, CommitValidate, RowLocals
    <3>3. RowLocals("cm_row", local)
      <4> HIDE DEF local
      <4> QED
        BY <1>c, <3>2, OverlayBinds DEF RowLocals
    <3>4. \A l : RowLocals("cm_row", l) => RowLocals("cm_row", l)'
      BY <1>4, <1>u DEF RowLocals, CommitValidate
    <3>5. UNCHANGED <<handles, commitments, nextId, sent>>
      BY <1>4 DEF CommitValidate
    <3> HIDE DEF local
    <3> QED
      BY <2>2, <3>3, <3>4, <3>5, RowMove
  <2> QED
    BY <1>4, <2>1, <2>2 DEF CommitValidate
<1>5. CASE CommitRow(p)
  <2> DEFINE local == [req[p] EXCEPT !.base = NoRoot, !.idx = Len(commitments)]
  <2>1. InsertCommitment(req[p].base, req[p].root) /\ UNCHANGED <<handles, sent>>
    BY <1>5 DEF CommitRow
  <2>2. /\ req[p].base \in Tree \cup {NoRoot} /\ req[p].root \in Tree
        /\ req[p].base # NoRoot /\ commitments # <<>>
    <3>1. req[p].base \in Tree /\ commitments # <<>>
      BY <1>5, <1>c DEF CommitRow, RowLocals
    <3>2. req[p].root \in Tree
      BY <1>5, <1>c DEF CommitRow, BaseInv, CarriesRoot
    <3> QED
      BY <3>1, <3>2, SentinelsAreFresh DEF Tree
  <2>3. CommittedRowsProvable' /\ TxidWasSent' /\ Numbered'
    BY <2>1, <2>2, InsertKeepsRows DEF BaseInv
  <2>4. at' = "cm_tree" /\ my' = local
    BY <1>5, MoveTo DEF CommitRow
  <2>5. local.batch = StagedBatch /\ local.root = req[p].root /\ BindsStaged(req[p].root)
        /\ local.idx = Len(commitments)
    BY <1>5, <1>c DEF CommitRow, RowLocals, Request
  <2>6. \A l : l = local => RowLocals("cm_tree", l)'
    <3>1. commitments' # <<>> /\ Len(commitments') = Len(commitments) + 1
          /\ Last(commitments').root = req[p].root
      BY <2>1, <2>2, InsertKeeps DEF BaseInv
    <3>2. \A l : /\ l.batch = StagedBatch /\ BindsStaged(l.root) /\ l.idx = Len(commitments)
                 /\ l.root = req[p].root
                 => RowLocals("cm_tree", l)'
      BY <1>l, <1>u, <2>1, <3>1 DEF RowLocals
    <3>3. local.batch = StagedBatch /\ BindsStaged(local.root) /\ local.idx = Len(commitments)
          /\ local.root = req[p].root
      BY <2>5
    <3> HIDE DEF local
    <3> QED
      BY <3>2, <3>3
  <2> QED
    BY <2>3, <2>4, <2>6 DEF RowInv
<1>6. CASE CommitTree(p)
  <2>1. UNCHANGED <<handles, commitments, nextId, sent>>
    BY <1>6 DEF CommitTree
  <2>2. RowLocals("cm_mark", [req[p] EXCEPT !.batch = EmptyTree])
    BY <1>6, <1>c DEF CommitTree, RowLocals, Request
  <2>3. \A l : RowLocals("cm_mark", l) => RowLocals("cm_mark", l)'
    BY <1>u, <2>1 DEF RowLocals
  <2> QED
    BY <1>6, <2>1, <2>2, <2>3, RowMove DEF CommitTree
<1>7. CASE CommitTree0(p)
  <2> DEFINE local == [NoRequest EXCEPT !.root = Overlay(CurrentTree, req[p].batch)]
  <2>1. UNCHANGED <<handles, commitments, nextId, sent>> /\ With(p, "cm_row0", local)
    BY <1>7 DEF CommitTree0
  <2>2. local.root = Overlay(CurrentTree, StagedBatch) /\ commitments = <<>>
    BY <1>7, <1>c DEF CommitTree0, RowLocals, NoRequest
  <2> HIDE DEF local
  <2>3. RowLocals("cm_row0", local)
    BY <1>c, <2>2, OverlayBinds DEF RowLocals
  <2>4. \A l : RowLocals("cm_row0", l) => RowLocals("cm_row0", l)'
    BY <1>u, <2>1 DEF RowLocals
  <2> QED
    BY <2>1, <2>3, <2>4, RowMove
<1>8. CASE CommitRow0(p)
  <2> DEFINE local == [req[p] EXCEPT !.idx = Len(commitments)]
  <2>1. InsertCommitment(NoRoot, req[p].root) /\ UNCHANGED <<handles, sent>>
    BY <1>8 DEF CommitRow0
  <2>2. req[p].root \in Tree /\ commitments = <<>>
    BY <1>8, <1>c DEF CommitRow0, RowLocals, BaseInv, CarriesRoot
  <2>3. CommittedRowsProvable' /\ TxidWasSent' /\ Numbered'
    BY <2>1, <2>2, InsertKeepsRows DEF BaseInv
  <2>4. at' = "cm_mark" /\ my' = local
    BY <1>8, MoveTo DEF CommitRow0
  <2>5. local.root = req[p].root /\ BindsStaged(req[p].root) /\ local.idx = Len(commitments)
    BY <1>8, <1>c DEF CommitRow0, RowLocals, Request
  <2>6. \A l : l = local => RowLocals("cm_mark", l)'
    <3>1. commitments' # <<>> /\ Len(commitments') = Len(commitments) + 1
          /\ Last(commitments').root = req[p].root
      BY <2>1, <2>2, InsertKeeps DEF BaseInv
    <3>2. \A l : /\ BindsStaged(l.root) /\ l.idx = Len(commitments) /\ l.root = req[p].root
                 => RowLocals("cm_mark", l)'
      BY <1>l, <1>u, <2>1, <3>1 DEF RowLocals
    <3> HIDE DEF local
    <3> QED
      BY <2>5, <3>2
  <2> QED
    BY <2>3, <2>4, <2>6 DEF RowInv
<1>9. CASE CommitMark(p)
  <2>1. /\ commitments # <<>> /\ req[p].idx + 1 = Len(commitments)
        /\ req[p].root = Last(commitments).root /\ BindsStaged(req[p].root)
    BY <1>9, <1>c DEF CommitMark, RowLocals
  <2>2. req[p].idx + 1 \in DOMAIN commitments
        /\ commitments[req[p].idx + 1].root = req[p].root
    BY <1>l, <2>1, EmptySeq, LastOfSeq DEF Last, BaseInv, TypeOK
  <2>3. \A h \in Handles :
          IF Eligible(h)
          THEN /\ handles'[h].root = req[p].root /\ handles'[h].idx = req[p].idx
               /\ handles'[h].spk = handles[h].spk
          ELSE handles'[h] = handles[h]
    BY <1>9 DEF CommitMark, BaseInv, TypeOK, Row
  <2>4. CommittedRowsProvable'
    <3> SUFFICES ASSUME NEW h \in Handles, handles'[h].root # NoRoot
                 PROVE  \E i \in DOMAIN commitments :
                          /\ i = handles'[h].idx + 1
                          /\ commitments[i].root = handles'[h].root
                          /\ commitments[i].root[h] = handles'[h].spk
      BY <1>9 DEF CommittedRowsProvable, CommitMark
    <3>1. CASE Eligible(h)
      BY <2>1, <2>2, <2>3, <3>1 DEF BindsStaged
    <3>2. CASE ~Eligible(h)
      BY <2>3, <3>2 DEF RowInv, CommittedRowsProvable
    <3> QED
      BY <3>1, <3>2
  <2>5. TxidWasSent' /\ Numbered'
    BY <1>9 DEF CommitMark, RowInv, TxidWasSent, Numbered
  <2>6. at' = "idle"
    BY <1>9, MoveTo DEF CommitMark
  <2> QED
    BY <2>4, <2>5, <2>6, RowIdle
<1> QED
  BY <1>1, <1>2, <1>3, <1>4, <1>5, <1>6, <1>7, <1>8, <1>9 DEF CommitLocal

\* A row loses its commitment, or is left alone.
LEMMA UnstageRows ==
    ASSUME TypeOK, NEW root, Unstage(root)
    PROVE  \A h \in Handles :
             /\ handles[h].root = root => handles'[h].root = NoRoot
             /\ handles[h].root # root => handles'[h] = handles[h]
  BY DEF Unstage, TypeOK, Row

\* No row names what is not a tree's root.
LEMMA LastRoot ==
    ASSUME TypeOK, commitments # <<>>
    PROVE  /\ Len(commitments) \in Nat \ {0} /\ DOMAIN commitments = 1..Len(commitments)
           /\ Last(commitments) = commitments[Len(commitments)]
           /\ Last(commitments) \in Commitment
           /\ Last(commitments).root \in Tree /\ Last(commitments).root # NoRoot
<1>1. Last(commitments) \in Commitment
  BY LastOfSeq DEF TypeOK
<1>2. Len(commitments) \in Nat \ {0} /\ DOMAIN commitments = 1..Len(commitments)
  BY EmptySeq, LenProperties DEF TypeOK
<1>3. Last(commitments).root \in Tree
  BY <1>1 DEF Commitment
<1> QED
  BY <1>1, <1>2, <1>3, SentinelsAreFresh DEF Tree, Last

\* The last commitment goes, and no row names it.
LEMMA FrontKeepsRows ==
    ASSUME TypeOK, RowInv, commitments # <<>>, commitments' = Front(commitments),
           UNCHANGED <<nextId, sent>>,
           \A h \in Handles :
             \/ handles'[h].root = NoRoot
             \/ handles'[h] = handles[h] /\ handles[h].root # Last(commitments).root
    PROVE  CommittedRowsProvable' /\ TxidWasSent' /\ Numbered'
<1>1. /\ Len(commitments) \in Nat \ {0} /\ DOMAIN commitments = 1..Len(commitments)
      /\ Last(commitments) = commitments[Len(commitments)]
  BY LastRoot
<1>2. /\ DOMAIN commitments' = 1..(Len(commitments) - 1)
      /\ \A i \in DOMAIN commitments' : i \in DOMAIN commitments
                                        /\ commitments'[i] = commitments[i]
  <2>1. /\ commitments' \in Seq(Commitment) /\ Len(commitments') = Len(commitments) - 1
        /\ \A i \in 1..(Len(commitments) - 1) : commitments'[i] = commitments[i]
    BY FrontKeeps DEF TypeOK
  <2>2. DOMAIN commitments' = 1..(Len(commitments) - 1)
    BY <2>1, LenProperties
  <2> QED
    BY <1>1, <2>1, <2>2
<1>3. CommittedRowsProvable'
  <2> SUFFICES ASSUME NEW h \in Handles, handles'[h].root # NoRoot
               PROVE  \E i \in DOMAIN commitments' :
                        /\ i = handles'[h].idx + 1
                        /\ commitments'[i].root = handles'[h].root
                        /\ commitments'[i].root[h] = handles'[h].spk
    BY DEF CommittedRowsProvable
  <2>1. handles'[h] = handles[h] /\ handles[h].root # Last(commitments).root
        /\ handles[h].root # NoRoot
    OBVIOUS
  <2>2. PICK i \in DOMAIN commitments :
               /\ i = handles[h].idx + 1
               /\ commitments[i].root = handles[h].root
               /\ commitments[i].root[h] = handles[h].spk
    BY <2>1 DEF RowInv, CommittedRowsProvable
  <2>3. i \in DOMAIN commitments'
    BY <1>1, <1>2, <2>1, <2>2
  <2> QED
    BY <1>2, <2>1, <2>2, <2>3
<1>4. TxidWasSent' /\ Numbered'
  BY <1>2 DEF RowInv, TxidWasSent, Numbered
<1> QED
  BY <1>3, <1>4

LEMMA RollbackKeepsRows ==
    ASSUME BaseInv, OneAtATime, RowInv, NEW p \in Procs, RollbackLocal(p)
    PROVE  RowInv'
<1> USE DEF tables, chain, faults, Done
<1>1. CASE RollbackBegin(p)
  BY <1>1, RowLeave DEF RollbackBegin
<1>2. CASE RollbackTree(p)
  BY <1>2, RowLeave DEF RollbackTree
<1>3. CASE RollbackUnstage(p)
  <2>1. CASE ~MayRollback
    BY <1>3, <2>1, RowLeave DEF RollbackUnstage
  <2>2. CASE MayRollback
    <3> DEFINE root == Last(commitments).root
    <3>1. /\ Unstage(root) /\ With(p, "rb_delete", NoRequest)
          /\ UNCHANGED <<commitments, nextId, sent>>
      BY <1>3, <2>2 DEF RollbackUnstage
    <3>2. root # NoRoot
      BY <2>2, LastRoot DEF MayRollback, BaseInv
    <3>3. \A h \in Handles : /\ handles[h].root = root => handles'[h].root = NoRoot
                             /\ handles[h].root # root => handles'[h] = handles[h]
      BY <3>1, UnstageRows DEF BaseInv
    <3>4. \A l : RowLocals("rb_delete", l)'
      <4>1. \A h \in Handles : handles'[h].root # root
        BY <3>2, <3>3
      <4> QED
        BY <3>1, <4>1 DEF RowLocals
    <3>5. CommittedRowsProvable'
      BY <3>1, <3>3, UncommittedRows
    <3>6. TxidWasSent' /\ Numbered'
      BY <3>1 DEF RowInv, TxidWasSent, Numbered
    <3>7. at' = "rb_delete"
      BY <3>1, MoveTo
    <3> QED
      BY <3>4, <3>5, <3>6, <3>7 DEF RowInv
  <2> QED
    BY <2>1, <2>2
<1>4. CASE RollbackDelete(p)
  <2>1. \A h \in Handles : handles[h].root # Last(commitments).root
    BY <1>4, RowCarried DEF RollbackDelete, RowLocals
  <2>2. commitments # <<>>
    BY <1>4 DEF RollbackDelete, BaseInv, DeleteHoldsLock, MayRollback
  <2>3. CommittedRowsProvable' /\ TxidWasSent' /\ Numbered'
    BY <1>4, <2>1, <2>2, FrontKeepsRows DEF RollbackDelete, BaseInv
  <2>4. at' = "idle"
    BY <1>4, MoveTo DEF RollbackDelete
  <2> QED
    BY <2>3, <2>4, RowIdle
<1> QED
  BY <1>1, <1>2, <1>3, <1>4 DEF RollbackLocal

\* Only the row the broadcast was for takes its txid.
LEMMA StoredTxids ==
    ASSUME TypeOK, NEW p \in Procs, BroadcastStore(p)
    PROVE  \A i \in DOMAIN commitments :
             commitments'[i].txid => commitments[i].txid \/ commitments[i].id = req[p].id
  BY DEF BroadcastStore

LEMMA BumpedTxids ==
    ASSUME TypeOK, NEW p \in Procs, BumpStore(p), commitments # <<>>
    PROVE  \A i \in DOMAIN commitments :
             commitments'[i].txid => commitments[i].txid \/ i = Len(commitments)
  BY DEF BumpStore

LEMMA BroadcastKeepsRows ==
    ASSUME BaseInv, OneAtATime, RowInv, NEW p \in Procs, Broadcast(p)
    PROVE  RowInv'
<1> USE DEF tables, chain, faults, Done
<1>c. RowLocals(pc[p], req[p]) /\ req[p] \in Request
  BY RowCarried
<1>1. CASE BroadcastBegin(p)
  BY <1>1, RowLeave DEF BroadcastBegin
<1>2. CASE BroadcastLast(p)
  <2>1. CASE ~MayBroadcast
    BY <1>2, <2>1, RowLeave DEF BroadcastLast
  <2>2. CASE MayBroadcast
    <3> DEFINE local == [NoRequest EXCEPT !.root = Last(commitments).root,
                                          !.id = Last(commitments).id]
    <3>1. With(p, "bc_send", local) /\ UNCHANGED <<handles, commitments, nextId, sent>>
      BY <1>2, <2>2 DEF BroadcastLast
    <3>2. commitments # <<>> /\ local.id = Last(commitments).id
          /\ local.root = Last(commitments).root
      BY <2>2 DEF MayBroadcast, NoRequest
    <3> HIDE DEF local
    <3>3. RowLocals("bc_send", local)
      BY <3>2 DEF RowLocals, IsLast
    <3>4. \A l : RowLocals("bc_send", l) => RowLocals("bc_send", l)'
      BY <3>1 DEF RowLocals, IsLast
    <3> QED
      BY <3>1, <3>3, <3>4, RowMove
  <2> QED
    BY <2>1, <2>2
<1>3. CASE BroadcastSend(p)
  <2>1. CASE With(p, "idle", NoRequest)
    BY <1>3, <2>1, RowLeave DEF BroadcastSend
  <2>2. CASE sent' = sent \cup {req[p].root}
             /\ With(p, "bc_txid", [NoRequest EXCEPT !.id = req[p].id])
    <3> DEFINE local == [NoRequest EXCEPT !.id = req[p].id]
    <3>1. UNCHANGED <<handles, commitments, nextId>> /\ With(p, "bc_txid", local)
      BY <1>3, <2>2 DEF BroadcastSend
    <3>2. commitments # <<>> /\ local.id = Last(commitments).id
          /\ Last(commitments).root \in sent'
      BY <1>3, <1>c, <2>2 DEF BroadcastSend, RowLocals, IsLast, NoRequest
    <3> HIDE DEF local
    <3>3. \A l : l = local => RowLocals("bc_txid", l)'
      BY <3>1, <3>2 DEF RowLocals, IsLast
    <3>4. at' = "bc_txid" /\ my' = local
      BY <3>1, MoveTo
    <3>5. CommittedRowsProvable' /\ TxidWasSent' /\ Numbered'
      BY <2>2, <3>1 DEF RowInv, CommittedRowsProvable, TxidWasSent, Numbered
    <3> QED
      BY <3>3, <3>4, <3>5 DEF RowInv
  <2> QED
    BY <1>3, <2>1, <2>2 DEF BroadcastSend
<1>4. CASE BroadcastStore(p)
  <2>1. IsLast(req[p]) /\ Last(commitments).root \in sent
    BY <1>4, <1>c DEF BroadcastStore, RowLocals
  <2>2. /\ Len(commitments) \in DOMAIN commitments
        /\ commitments[Len(commitments)] = Last(commitments)
    BY <2>1, LastRoot DEF IsLast, BaseInv
  <2>3. Recorded(commitments, commitments')
    BY <1>4, TxidRecorded DEF BaseInv
  <2>4. TxidWasSent'
    <3>1. \A i \in DOMAIN commitments :
            commitments'[i].txid => commitments[i].txid \/ i = Len(commitments)
      BY <1>4, <2>1, <2>2, StoredTxids DEF IsLast, RowInv, Numbered, BaseInv
    <3>2. \A i \in DOMAIN commitments :
            commitments'[i].txid => commitments[i].root \in sent
      BY <2>1, <2>2, <3>1 DEF RowInv, TxidWasSent
    <3> QED
      BY <1>4, <2>3, <3>2, RecordedKeeps DEF TxidWasSent, BroadcastStore, BaseInv
  <2>5. UNCHANGED <<handles, nextId, sent>>
    BY <1>4 DEF BroadcastStore
  <2>6. at' = "idle"
    BY <1>4, MoveTo DEF BroadcastStore
  <2> QED
    BY <2>3, <2>4, <2>5, <2>6, RowsKept, RowIdle
<1>5. CASE BumpBegin(p)
  <2>1. With(p, "bp_store", NoRequest) /\ UNCHANGED <<handles, commitments, nextId, sent>>
    BY <1>5 DEF BumpBegin
  <2>2. RowLocals("bp_store", NoRequest)'
    BY <1>5, <2>1 DEF BumpBegin, RowLocals
  <2> QED
    BY <2>1, <2>2, RowMove
<1>6. CASE BumpStore(p)
  <2>1. commitments # <<>> /\ Last(commitments).txid
    BY <1>6, <1>c DEF BumpStore, RowLocals
  <2>2. /\ Len(commitments) \in DOMAIN commitments
        /\ commitments[Len(commitments)] = Last(commitments)
    BY <2>1, LastRoot DEF BaseInv
  <2>3. Recorded(commitments, commitments')
    BY <1>6, TxidRecorded DEF BaseInv
  <2>4. TxidWasSent'
    <3>1. \A i \in DOMAIN commitments : commitments'[i].txid => commitments[i].txid
      BY <1>6, <2>1, <2>2, BumpedTxids DEF BaseInv
    <3> QED
      BY <1>6, <2>3, <3>1, RecordedKeeps DEF RowInv, TxidWasSent, BumpStore, BaseInv
  <2>5. UNCHANGED <<handles, nextId, sent>>
    BY <1>6 DEF BumpStore
  <2>6. at' = "idle"
    BY <1>6, MoveTo DEF BumpStore
  <2> QED
    BY <2>3, <2>4, <2>5, <2>6, RowsKept, RowIdle
<1> QED
  BY <1>1, <1>2, <1>3, <1>4, <1>5, <1>6 DEF Broadcast

\* A receipt is not a txid.
LEMMA ReceiptKeepsTxids ==
    ASSUME TypeOK, SaveStepReceipt \/ SaveFoldReceipt
    PROVE  \A i \in DOMAIN commitments : commitments'[i].txid = commitments[i].txid
<1>1. PICK i \in DOMAIN commitments, field \in {"step", "agg"} : Proved(i, field)
  BY DEF SaveStepReceipt, SaveFoldReceipt
<1>2. PICK row : commitments' = [commitments EXCEPT ![i] = row]
                 /\ row.txid = commitments[i].txid
  <2>1. /\ [commitments[i] EXCEPT !.step = TRUE].txid = commitments[i].txid
        /\ [commitments[i] EXCEPT !.agg = TRUE].txid = commitments[i].txid
    BY ElementOfSeq, LenProperties DEF TypeOK, Commitment
  <2> QED
    BY <1>1, <2>1 DEF Proved
<1> QED
  BY <1>2

LEMMA ChainKeepsRows ==
    ASSUME BaseInv, RowInv, SaveStepReceipt \/ SaveFoldReceipt \/ Confirm \/ Finalize
    PROVE  RowInv'
<1> USE DEF tables, chain, faults
<1>1. CASE SaveStepReceipt \/ SaveFoldReceipt
  <2>1. Recorded(commitments, commitments')
    BY <1>1, ReceiptRecorded DEF BaseInv
  <2>2. UNCHANGED <<handles, nextId, pc, req, sent>>
    BY <1>1 DEF SaveStepReceipt, SaveFoldReceipt
  <2>3. \A i \in DOMAIN commitments : commitments'[i].txid = commitments[i].txid
    BY <1>1, ReceiptKeepsTxids DEF BaseInv
  <2>4. TxidWasSent'
    BY <2>1, <2>2, <2>3, RecordedKeeps DEF RowInv, TxidWasSent, BaseInv
  <2> QED
    BY <2>1, <2>2, <2>4, RowStay
<1>2. CASE Confirm \/ Finalize
  <2>1. UNCHANGED <<handles, commitments, nextId, pc, req, sent>>
    BY <1>2 DEF Confirm, Finalize
  <2> QED
    BY <2>1, SameRecorded, SentKept, RowStay DEF RowInv, BaseInv
<1> QED
  BY <1>1, <1>2

LEMMA FaultsKeepRows ==
    ASSUME BaseInv, OneAtATime, RowInv,
           \/ Crash \/ LoadAllSpaces \/ LoadOrCreateSpace \/ LoadOrCreateCrash
           \/ \E p \in Procs : Abort(p)
    PROVE  RowInv'
<1> USE DEF tables, chain, faults
<1>i. ~loaded => at = "idle"
  BY HereTypes DEF BaseInv, Unloaded, at
<1>1. CASE Crash
  <2>1. at' = "idle"
    BY <1>1, HereTypes DEF Crash, at
  <2>2. CommittedRowsProvable' /\ TxidWasSent' /\ Numbered'
    BY <1>1 DEF Crash, RowInv, CommittedRowsProvable, TxidWasSent, Numbered
  <2> QED
    BY <2>1, <2>2, RowIdle
<1>2. CASE LoadAllSpaces
  BY <1>2, SameRecorded, SentKept, RowStay DEF LoadAllSpaces, RowInv, BaseInv
<1>3. CASE LoadOrCreateSpace
  <2>1. at' = "idle"
    BY <1>3, <1>i DEF LoadOrCreateSpace, at
  <2>2. CASE Orphaned
    <3>1. commitments # <<>> /\ Unstage(Last(commitments).root)
          /\ commitments' = Front(commitments)
      BY <1>3, <2>2 DEF LoadOrCreateSpace, Orphaned, MayRollback
    <3>2. \A h \in Handles :
            \/ handles'[h].root = NoRoot
            \/ handles'[h] = handles[h] /\ handles[h].root # Last(commitments).root
      BY <3>1, UnstageRows DEF BaseInv
    <3>3. UNCHANGED <<nextId, sent>>
      BY <1>3 DEF LoadOrCreateSpace
    <3>4. CommittedRowsProvable' /\ TxidWasSent' /\ Numbered'
      BY <3>1, <3>2, <3>3, FrontKeepsRows DEF BaseInv
    <3> QED
      BY <2>1, <3>4, RowIdle
  <2>3. CASE ~Orphaned
    <3>1. CommittedRowsProvable' /\ TxidWasSent' /\ Numbered'
      BY <1>3, <2>3
         DEF LoadOrCreateSpace, RowInv, CommittedRowsProvable, TxidWasSent, Numbered
    <3> QED
      BY <2>1, <3>1, RowIdle
  <2> QED
    BY <2>2, <2>3
<1>4. CASE LoadOrCreateCrash
  <2>1. at' = "idle" /\ UNCHANGED <<commitments, nextId, sent>>
    BY <1>4, <1>i DEF LoadOrCreateCrash, at
  <2>2. CommittedRowsProvable'
    BY <1>4, <2>1, UnstageRows, UncommittedRows DEF LoadOrCreateCrash, BaseInv
  <2>3. TxidWasSent' /\ Numbered'
    BY <2>1 DEF RowInv, TxidWasSent, Numbered
  <2> QED
    BY <2>1, <2>2, <2>3, RowIdle
<1>5. CASE \E p \in Procs : Abort(p)
  BY <1>5, RowLeave DEF Abort, Done
<1> QED
  BY <1>1, <1>2, <1>3, <1>4, <1>5

LEMMA NextKeepsRows ==
    ASSUME OneAtATime, BaseInv, RowInv, [Next]_vars
    PROVE  RowInv'
<1>1. CASE UNCHANGED vars
  <2>1. UNCHANGED <<handles, commitments, nextId, sent, pc, req>>
    BY <1>1 DEF vars, tables, chain
  <2> QED
    BY <2>1, SameRecorded, SentKept, RowStay DEF RowInv, BaseInv
<1>2. CASE Next
  BY <1>2, AddKeepsRows, ParkKeepsRows, CommitKeepsRows, RollbackKeepsRows,
     BroadcastKeepsRows, ChainKeepsRows, FaultsKeepRows, ParkersOperate
     DEF Next, Procs
<1> QED
  BY <1>1, <1>2

LEMMA InitRows ==
    ASSUME OneAtATime, Init
    PROVE  RowInv
<1>1. at = "idle" /\ \A h \in Handles : handles[h].root = NoRoot
  BY OneProc DEF Init, at, NoRow
<1>2. CommittedRowsProvable /\ TxidWasSent /\ Numbered
  BY <1>1 DEF Init, CommittedRowsProvable, TxidWasSent, Numbered
<1>3. \A l : RowLocals("idle", l)
  BY DEF RowLocals
<1> QED
  BY <1>1, <1>2, <1>3 DEF RowInv

LEMMA RowInvariant ==
    ASSUME OneAtATime
    PROVE  Spec => [](BaseInv /\ RowInv)
<1>1. Init => BaseInv /\ RowInv
  BY InitBase, InitRows
<1>2. BaseInv /\ RowInv /\ [Next]_vars => (BaseInv /\ RowInv)'
  BY NextKeepsBase, NextKeepsRows
<1> QED
  BY <1>1, <1>2, PTL DEF Spec

\* When requests come one at a time, a row shown as committed is provable for
\* any handles, keys and commitments, whatever is cut short by a crash, an
\* I/O error or a dropped client, and whichever boot path loads the space
\* (commit_staged_handles, rollback_last_commitment, the start-up cleanup).
THEOREM RowsAreProvable ==
    ASSUME OneAtATime
    PROVE  Spec => []CommittedRowsProvable
<1>1. BaseInv /\ RowInv => CommittedRowsProvable
  BY DEF RowInv
<1> QED
  BY <1>1, RowInvariant, PTL

\* ... and a recorded txid is the txid of the commitment's own root: nothing
\* is marked broadcast that the wallet never sent (commit, bump_commit).
THEOREM TxidsWereSent ==
    ASSUME OneAtATime
    PROVE  Spec => []TxidWasSent
<1>1. BaseInv /\ RowInv => TxidWasSent
  BY DEF RowInv
<1> QED
  BY <1>1, RowInvariant, PTL

-----------------------------------------------------------------------------
(* Trees: the steps keep the chain, and the tree in step with it.          *)

LEMMA GrowsTransitive ==
    ASSUME NEW a \in Tree, NEW b \in Tree, NEW c \in Tree,
           Ledger!Grows(a, b), Ledger!Grows(b, c)
    PROVE  Ledger!Grows(a, c)
<1>1. PICK h \in Handles : b[h] # a[h]
  BY DEF Ledger!Grows, Tree
<1>2. c[h] # a[h]
  BY <1>1 DEF Ledger!Grows
<1> QED
  BY <1>2 DEF Ledger!Grows

\* In step, the newest commitment names the newest snapshot.
LEMMA TipIsTree ==
    ASSUME TypeOK, InStep, commitments # <<>>
    PROVE  /\ Len(snaps) \in Nat \ {0} /\ Len(commitments) <= Len(snaps)
           /\ Last(commitments).root = snaps[Len(snaps)]
           /\ Last(commitments).root = CurrentTree
<1>1. /\ Len(commitments) \in Nat \ {0} /\ Last(commitments) = commitments[Len(commitments)]
  BY LastRoot
<1>2. Len(snaps) \in Nat /\ Len(commitments) <= Len(snaps)
  BY LenProperties DEF TypeOK, InStep, Aligned
<1>3. Last(commitments).root = snaps[Len(snaps)]
  BY <1>1, <1>2 DEF InStep, Aligned
<1>4. snaps # <<>>
  BY <1>1, <1>2
<1> QED
  BY <1>1, <1>2, <1>3, <1>4 DEF CurrentTree, Last

\* A new last commitment that continues the chain.
LEMMA AppendChains ==
    ASSUME TypeOK, PrevRootChain, Nested,
           NEW prev \in Tree \cup {NoRoot}, NEW root \in Tree, InsertCommitment(prev, root),
           commitments = <<>> => prev = NoRoot /\ root # EmptyTree,
           commitments # <<>> => prev = Last(commitments).root /\ Ledger!Grows(prev, root)
    PROVE  PrevRootChain' /\ Nested'
<1> DEFINE n == Len(commitments)
<1>1. /\ n \in Nat /\ DOMAIN commitments = 1..n /\ DOMAIN commitments' = 1..(n + 1)
      /\ \A i \in 1..n : commitments'[i] = commitments[i]
      /\ commitments'[n + 1].prev = prev /\ commitments'[n + 1].root = root
  BY InsertKeeps
<1>2. commitments = <<>> <=> n = 0
  BY EmptySeq DEF TypeOK
<1>3. n # 0 => Last(commitments) = commitments[n]
  BY DEF Last
<1>4. \A i \in 1..n : commitments[i].root \in Tree
  <2>1. \A i \in 1..n : commitments[i] \in Commitment
    BY ElementOfSeq DEF TypeOK
  <2> QED
    BY <2>1 DEF Commitment
<1> HIDE DEF n
<1>5. PrevRootChain'
  BY <1>1, <1>2, <1>3 DEF PrevRootChain
<1>6. \A i \in 1..n : Ledger!Grows(commitments[i].root, root)
  <2> SUFFICES ASSUME NEW i \in 1..n
               PROVE  Ledger!Grows(commitments[i].root, root)
    OBVIOUS
  <2>1. Ledger!Grows(commitments[n].root, root)
    BY <1>1, <1>2, <1>3
  <2>2. CASE i = n
    BY <2>1, <2>2
  <2>3. CASE i < n
    <3>1. Ledger!Grows(commitments[i].root, commitments[n].root)
      BY <1>1, <2>3 DEF Nested
    <3> QED
      BY <1>1, <1>4, <2>1, <3>1, GrowsTransitive
  <2> QED
    BY <1>1, <2>2, <2>3
<1>7. \A i, j \in 1..(n + 1) :
        i < j => Ledger!Grows(commitments'[i].root, commitments'[j].root)
  BY <1>1, <1>6 DEF Nested
<1>8. commitments'[1].root # EmptyTree
  BY <1>1, <1>2 DEF Nested
<1>9. EmptyTree' = EmptyTree
  BY DEF EmptyTree
<1> QED
  BY <1>1, <1>5, <1>7, <1>8, <1>9 DEF Nested, Ledger!Grows

\* The last commitment goes.
LEMMA FrontChains ==
    ASSUME TypeOK, PrevRootChain, Nested, commitments # <<>>,
           commitments' = Front(commitments)
    PROVE  /\ PrevRootChain' /\ Nested'
           /\ Len(commitments') = Len(commitments) - 1 /\ Len(commitments) \in Nat \ {0}
           /\ \A i \in 1..(Len(commitments) - 1) : commitments'[i] = commitments[i]
<1>1. Len(commitments) \in Nat \ {0} /\ DOMAIN commitments = 1..Len(commitments)
  BY LastRoot
<1>2. /\ commitments' \in Seq(Commitment) /\ Len(commitments') = Len(commitments) - 1
      /\ \A i \in 1..(Len(commitments) - 1) : commitments'[i] = commitments[i]
  BY FrontKeeps DEF TypeOK
<1>3. DOMAIN commitments' = 1..(Len(commitments) - 1)
  BY <1>2, LenProperties
<1>4. commitments' # <<>> => 1 \in 1..(Len(commitments) - 1)
  BY <1>1, <1>2, EmptySeq
<1>5. EmptyTree' = EmptyTree
  BY DEF EmptyTree
<1>6. PrevRootChain'
  BY <1>1, <1>2, <1>3 DEF PrevRootChain
<1>7. Nested'
  BY <1>1, <1>2, <1>3, <1>4, <1>5 DEF Nested, Ledger!Grows
<1> QED
  BY <1>1, <1>2, <1>6, <1>7

\* Receipts and txids are recorded.
LEMMA RecordedChains ==
    ASSUME TypeOK, PrevRootChain, Nested, Recorded(commitments, commitments'),
           UNCHANGED snaps
    PROVE  PrevRootChain' /\ Nested' /\ (InStep => InStep')
<1>1. /\ Len(commitments') = Len(commitments) /\ Len(commitments) \in Nat
      /\ DOMAIN commitments' = DOMAIN commitments /\ DOMAIN commitments = 1..Len(commitments)
      /\ \A i \in DOMAIN commitments :
           /\ commitments'[i].prev = commitments[i].prev
           /\ commitments'[i].root = commitments[i].root
      /\ (commitments' = <<>>) <=> (commitments = <<>>)
  BY RecordedKeeps
<1>2. EmptyTree' = EmptyTree
  BY DEF EmptyTree
<1>3. PrevRootChain'
  BY <1>1 DEF PrevRootChain
<1>4. commitments # <<>> => 1 \in DOMAIN commitments
  BY <1>1, EmptySeq DEF TypeOK
<1>5. Nested'
  BY <1>1, <1>2, <1>4 DEF Nested, Ledger!Grows
<1>6. InStep => InStep'
  BY <1>1 DEF InStep, Aligned
<1> QED
  BY <1>3, <1>5, <1>6

\* What is said of the request depends on the commitments and the tree only.
LEMMA TreeSame ==
    ASSUME UNCHANGED <<loaded, commitments, snaps>>
    PROVE  /\ PrevRootChain' = PrevRootChain /\ Nested' = Nested
           /\ InStep' = InStep /\ Ahead' = Ahead
           /\ \A label, l : TreeLocals(label, l)' = TreeLocals(label, l)
<1>1. EmptyTree' = EmptyTree /\ CurrentTree' = CurrentTree
  BY DEF EmptyTree, CurrentTree
<1>2. PrevRootChain' = PrevRootChain /\ Nested' = Nested
  BY <1>1 DEF PrevRootChain, Nested, Ledger!Grows
<1>3. InStep' = InStep /\ Ahead' = Ahead
  BY DEF InStep, Ahead, Aligned
<1>4. \A label, l : TreeLocals(label, l)' = TreeLocals(label, l)
  BY <1>1, <1>3 DEF TreeLocals, MayRollback, Overlay
<1> QED
  BY <1>2, <1>3, <1>4

\* What a request carries that stands at a label.
LEMMA TreeCarried ==
    ASSUME BaseInv, OneAtATime, Chained, NEW p \in Procs
    PROVE  /\ TreeLocals(pc[p], req[p]) /\ p = Op /\ req[p] \in Request
           /\ pc[p] # "idle" => loaded
           /\ loaded /\ pc[p] \notin AheadPCs => InStep
           /\ CurrentTree \in Tree
<1>1. p = Op
  BY OneProc
<1>2. TreeLocals(pc[p], req[p]) /\ req[p] \in Request
  BY <1>1, HereTypes DEF Chained, at, my
<1>3. pc[p] # "idle" => loaded
  BY DEF BaseInv, Unloaded
<1> QED
  BY <1>1, <1>2, <1>3, CurrentTreeType DEF TreeLocals, BaseInv, TypeOK

\* The request moves, and commitments and tree stay.
LEMMA TreeMove ==
    ASSUME BaseInv, OneAtATime, Chained, NEW p \in Procs, NEW label, NEW local,
           With(p, label, local), UNCHANGED <<loaded, commitments, snaps>>,
           loaded, TreeLocals(label, local)
    PROVE  Chained'
<1>1. at' = label /\ my' = local
  BY MoveTo
<1> QED
  BY <1>1, TreeSame DEF Chained

\* ... to a label that asks for nothing but the tree in step.
PlainPCs == {"idle", "add_tree", "add_staged", "add_insert", "cm_check", "cm_list",
             "cm_input", "cm_mark", "bc_last", "bc_send", "bc_txid", "bp_store"}

LEMMA TreeLeave ==
    ASSUME BaseInv, OneAtATime, Chained, NEW p \in Procs, NEW label \in PlainPCs,
           NEW local, With(p, label, local), UNCHANGED <<loaded, commitments, snaps>>,
           loaded, pc[p] \notin AheadPCs
    PROVE  Chained'
<1>1. InStep
  BY TreeCarried
<1>2. TreeLocals(label, local)
  BY <1>1 DEF TreeLocals, PlainPCs, AheadPCs
<1> QED
  BY <1>2, TreeMove

\* Nothing moves.
LEMMA TreeStill ==
    ASSUME Chained, UNCHANGED <<loaded, commitments, snaps, pc, req>>
    PROVE  Chained'
<1>1. at' = at /\ my' = my
  BY DEF at, my
<1> QED
  BY <1>1, TreeSame DEF Chained

LEMMA AddKeepsTree ==
    ASSUME BaseInv, OneAtATime, Chained, NEW p \in Procs, AddRequests(p)
    PROVE  Chained'
<1> USE DEF tables, chain, faults, Done, Starts
<1>1. pc[p] \notin AheadPCs /\ loaded /\ UNCHANGED <<loaded, commitments, snaps>>
  BY TreeCarried DEF AddRequests, AddBegin, AddCheckTree, AddCheckStaged, AddInsert, AheadPCs
<1>2. \E label \in PlainPCs : \E local : With(p, label, local)
  BY DEF AddRequests, AddBegin, AddCheckTree, AddCheckStaged, AddInsert, PlainPCs
<1> QED
  BY <1>1, <1>2, TreeLeave

LEMMA ParkKeepsTree ==
    ASSUME Chained, NEW p \in Procs,
           SetParked(p) \/ SetParkedFiltered(p) \/ RemoveStaged(p)
    PROVE  Chained'
  BY TreeStill DEF SetParked, SetParkedFiltered, RemoveStaged

LEMMA CommitKeepsTree ==
    ASSUME BaseInv, GrowthInv, RowInv, OneAtATime, Chained, NEW p \in Procs, CommitLocal(p)
    PROVE  Chained'
<1> USE DEF tables, chain, faults, Done
<1>c. /\ TreeLocals(pc[p], req[p]) /\ RowLocals(pc[p], req[p])
      /\ req[p] \in Request /\ CurrentTree \in Tree
      /\ pc[p] # "idle" => loaded
      /\ loaded /\ pc[p] \notin AheadPCs => InStep
  BY TreeCarried, RowCarried
<1>e. EmptyTree' = EmptyTree
  BY DEF EmptyTree
<1>1. CASE CommitBegin(p) \/ CommitCheck(p) \/ CommitList(p) \/ CommitMark(p)
  <2>1. pc[p] \notin AheadPCs /\ loaded /\ UNCHANGED <<loaded, commitments, snaps>>
    BY <1>1, <1>c DEF CommitBegin, CommitCheck, CommitList, CommitMark, AheadPCs, Starts
  <2>2. \E label \in PlainPCs : \E local : With(p, label, local)
    BY <1>1 DEF CommitBegin, CommitCheck, CommitList, CommitMark, PlainPCs
  <2> QED
    BY <2>1, <2>2, TreeLeave
<1>2. CASE CommitInput(p)
  <2>1. /\ loaded /\ InStep /\ UNCHANGED <<loaded, commitments, snaps>>
        /\ req[p].batch # EmptyTree
        /\ With(p, IF commitments = <<>> THEN "cm_tree0" ELSE "cm_validate", req[p])
    BY <1>2, <1>c DEF CommitInput, AheadPCs, GrowthInv, CarriesProof
  <2>2. TreeLocals(IF commitments = <<>> THEN "cm_tree0" ELSE "cm_validate", req[p])
    BY <2>1 DEF TreeLocals, AheadPCs
  <2> QED
    BY <2>1, <2>2, TreeMove
<1>3. CASE CommitValidate(p)
  <2> DEFINE local == [req[p] EXCEPT !.base = CurrentTree,
                                     !.root = Overlay(CurrentTree, req[p].batch)]
  <2>1. loaded /\ InStep /\ commitments # <<>> /\ UNCHANGED <<loaded, commitments, snaps>>
    BY <1>3, <1>c DEF CommitValidate, AheadPCs, RowLocals
  <2>2. CASE With(p, "cm_row", local)
    <3>1. /\ local.base = CurrentTree /\ local.batch = req[p].batch
          /\ local.root = Overlay(CurrentTree, req[p].batch)
      BY <1>c DEF Request
    <3> HIDE DEF local
    <3>2. TreeLocals("cm_row", local)
      BY <2>1, <3>1 DEF TreeLocals, AheadPCs
    <3> QED
      BY <2>1, <2>2, <3>2, TreeMove
  <2>3. CASE With(p, "idle", NoRequest)
    BY <1>3, <2>1, <2>3, TreeLeave DEF CommitValidate, AheadPCs, PlainPCs
  <2> QED
    BY <1>3, <2>2, <2>3 DEF CommitValidate
<1>4. CASE CommitRow(p)
  <2> DEFINE local == [req[p] EXCEPT !.base = NoRoot, !.idx = Len(commitments)]
  <2>1. /\ InsertCommitment(req[p].base, req[p].root) /\ UNCHANGED <<loaded, snaps>>
        /\ With(p, "cm_tree", local)
    BY <1>4 DEF CommitRow
  <2>2. /\ loaded /\ InStep /\ commitments # <<>>
        /\ req[p].base = CurrentTree /\ req[p].root = Overlay(CurrentTree, req[p].batch)
    BY <1>4, <1>c DEF CommitRow, AheadPCs, RowLocals, TreeLocals
  <2>3. /\ req[p].base \in Tree \cup {NoRoot} /\ req[p].root \in Tree
        /\ Ledger!Grows(req[p].base, req[p].root)
    BY <1>4, <1>c DEF CommitRow, BaseInv, CarriesRoot, Request, GrowthInv, CarriesProof
  <2>4. req[p].base = Last(commitments).root
    BY <2>2, TipIsTree DEF BaseInv
  <2>5. PrevRootChain' /\ Nested'
    BY <2>1, <2>2, <2>3, <2>4, AppendChains DEF BaseInv, Chained
  <2>6. /\ commitments' # <<>> /\ ~Last(commitments').txid
        /\ Last(commitments').root = req[p].root
        /\ Len(commitments') = Len(commitments) + 1 /\ Len(commitments) \in Nat
        /\ \A i \in 1..Len(commitments) : commitments'[i] = commitments[i]
    BY <2>1, <2>3, InsertKeeps DEF BaseInv
  <2>7. Ahead'
    BY <2>1, <2>2, <2>6 DEF Ahead, InStep, Aligned
  <2>8. local.batch = req[p].batch /\ CurrentTree' = CurrentTree
    BY <1>c, <2>1 DEF Request, CurrentTree
  <2> HIDE DEF local
  <2>9. \A l : l = local => TreeLocals("cm_tree", l)'
    BY <2>2, <2>6, <2>7, <2>8 DEF TreeLocals, AheadPCs, Overlay
  <2>10. at' = "cm_tree" /\ my' = local
    BY <2>1, MoveTo
  <2> QED
    BY <2>1, <2>2, <2>5, <2>9, <2>10 DEF Chained
<1>5. CASE CommitTree(p)
  <2> DEFINE local == [req[p] EXCEPT !.batch = EmptyTree]
             tree == Overlay(CurrentTree, req[p].batch)
  <2>1. /\ snaps' = Append(snaps, tree) /\ UNCHANGED <<loaded, commitments>>
        /\ With(p, "cm_mark", local)
    BY <1>5 DEF CommitTree
  <2>2. /\ loaded /\ commitments # <<>> /\ Aligned(Len(commitments) - 1)
        /\ Last(commitments).root = tree
    BY <1>5, <1>c DEF CommitTree, AheadPCs, TreeLocals, Ahead
  <2>3. tree \in Tree
    BY <1>c, TreeTypes DEF Request
  <2> HIDE DEF tree
  <2>4. /\ Len(snaps) \in Nat /\ Len(snaps') = Len(snaps) + 1
        /\ \A i \in 1..Len(snaps) : snaps'[i] = snaps[i]
        /\ snaps'[Len(snaps) + 1] = tree
    BY <2>1, <2>3, AppendProperties, LenProperties DEF BaseInv, TypeOK
  <2>5. /\ Len(commitments) \in Nat \ {0} /\ Last(commitments) = commitments[Len(commitments)]
    BY <2>2, LastRoot DEF BaseInv
  <2>6. InStep'
    <3> DEFINE n == Len(commitments)
               m == Len(snaps)
    <3>1. /\ n \in Nat \ {0} /\ m \in Nat /\ n - 1 <= m
          /\ \A i \in 1..(n - 1) : commitments[i].root = snaps[(m - (n - 1)) + i]
          /\ commitments[n].root = tree
      BY <2>2, <2>4, <2>5 DEF Aligned
    <3>2. /\ Len(snaps') = m + 1 /\ snaps'[m + 1] = tree
          /\ \A i \in 1..m : snaps'[i] = snaps[i]
      BY <2>4
    <3> HIDE DEF n, m
    <3>3. \A i \in 1..(n - 1) :
            /\ (m - (n - 1)) + i \in 1..m /\ ((m + 1) - n) + i = (m - (n - 1)) + i
      BY <3>1
    <3>4. \A i \in 1..n : commitments[i].root = snaps'[((m + 1) - n) + i]
      BY <3>1, <3>2, <3>3
    <3> USE DEF n, m
    <3> QED
      BY <2>1, <3>1, <3>2, <3>4 DEF InStep, Aligned
  <2>7. at' = "cm_mark" /\ PrevRootChain' /\ Nested'
    BY <1>e, <2>1, MoveTo DEF PrevRootChain, Nested, Chained, Ledger!Grows
  <2>8. \A l : TreeLocals("cm_mark", l)'
    BY <2>6 DEF TreeLocals, AheadPCs
  <2> QED
    BY <2>1, <2>2, <2>7, <2>8 DEF Chained
<1>6. CASE CommitTree0(p)
  <2> DEFINE tree == Overlay(CurrentTree, req[p].batch)
             local == [NoRequest EXCEPT !.root = tree]
  <2>1. /\ snaps' = Append(snaps, tree) /\ UNCHANGED <<loaded, commitments>>
        /\ With(p, "cm_row0", local)
    BY <1>6 DEF CommitTree0
  <2>2. loaded /\ commitments = <<>> /\ req[p].batch # EmptyTree /\ req[p].batch \in Tree
    BY <1>6, <1>c DEF CommitTree0, AheadPCs, RowLocals, TreeLocals, Request
  <2>3. tree \in Tree /\ tree # EmptyTree
    <3>1. PICK h \in Handles : req[p].batch[h] # NoSpk
      BY <2>2 DEF Tree, EmptyTree
    <3>2. tree[h] # NoSpk /\ EmptyTree[h] = NoSpk
      BY <3>1 DEF Overlay, EmptyTree
    <3> QED
      BY <1>c, <2>2, <3>2, TreeTypes
  <2>4. local.root = tree
    BY DEF NoRequest
  <2> HIDE DEF tree, local
  <2>5. snaps' # <<>> /\ CurrentTree' = tree /\ Len(snaps') \in Nat
    <3>1. /\ Len(snaps) \in Nat /\ snaps' \in Seq(Tree) /\ Len(snaps') = Len(snaps) + 1
          /\ snaps'[Len(snaps) + 1] = tree
      BY <2>1, <2>3, AppendProperties, LenProperties DEF BaseInv, TypeOK
    <3>2. snaps' # <<>>
      BY <3>1, EmptySeq
    <3> QED
      BY <3>1, <3>2 DEF CurrentTree, Last
  <2>6. InStep' /\ PrevRootChain' /\ Nested'
    BY <2>1, <2>2, <2>5, EmptySeq DEF InStep, Aligned, PrevRootChain, Nested
  <2>7. \A l : l = local => TreeLocals("cm_row0", l)'
    BY <1>e, <2>1, <2>2, <2>3, <2>4, <2>5, <2>6 DEF TreeLocals, AheadPCs
  <2>8. at' = "cm_row0" /\ my' = local
    BY <2>1, MoveTo
  <2> QED
    BY <2>1, <2>2, <2>6, <2>7, <2>8 DEF Chained
<1>7. CASE CommitRow0(p)
  <2>1. /\ InsertCommitment(NoRoot, req[p].root) /\ UNCHANGED <<loaded, snaps>>
        /\ With(p, "cm_mark", [req[p] EXCEPT !.idx = Len(commitments)])
    BY <1>7 DEF CommitRow0
  <2>2. /\ loaded /\ commitments = <<>> /\ snaps # <<>>
        /\ req[p].root = CurrentTree /\ req[p].root # EmptyTree
    BY <1>7, <1>c DEF CommitRow0, RowLocals, TreeLocals
  <2>3. PrevRootChain' /\ Nested'
    BY <1>c, <2>1, <2>2, AppendChains DEF BaseInv, Chained
  <2>4. /\ Len(commitments') = 1 /\ commitments'[1].root = CurrentTree
    BY <1>c, <2>1, <2>2, InsertKeeps, EmptySeq DEF BaseInv
  <2>5. Len(snaps) \in Nat \ {0} /\ CurrentTree = snaps[Len(snaps)]
    BY <2>2, EmptySeq DEF CurrentTree, Last, BaseInv, TypeOK
  <2>6. InStep'
    BY <2>1, <2>4, <2>5 DEF InStep, Aligned
  <2>7. at' = "cm_mark"
    BY <2>1, MoveTo
  <2>8. \A l : TreeLocals("cm_mark", l)'
    BY <2>6 DEF TreeLocals, AheadPCs
  <2> QED
    BY <2>1, <2>2, <2>3, <2>7, <2>8 DEF Chained
<1> QED
  BY <1>1, <1>2, <1>3, <1>4, <1>5, <1>6, <1>7 DEF CommitLocal

LEMMA RollbackKeepsTree ==
    ASSUME BaseInv, OneAtATime, Chained, NEW p \in Procs, RollbackLocal(p)
    PROVE  Chained'
<1> USE DEF tables, chain, faults, Done
<1>c. /\ TreeLocals(pc[p], req[p]) /\ (pc[p] # "idle" => loaded)
      /\ (loaded /\ pc[p] \notin AheadPCs => InStep)
  BY TreeCarried
<1>1. CASE RollbackBegin(p)
  <2> DEFINE local == [NoRequest EXCEPT !.root = Last(commitments).root]
  <2>1. /\ loaded /\ InStep /\ MayRollback /\ UNCHANGED <<loaded, commitments, snaps>>
        /\ With(p, "rb_tree", local)
    BY <1>1, <1>c DEF RollbackBegin, Starts, AheadPCs
  <2>2. local.root = Last(commitments).root
    BY DEF NoRequest
  <2> HIDE DEF local
  <2>3. TreeLocals("rb_tree", local)
    BY <2>1, <2>2 DEF TreeLocals, AheadPCs
  <2> QED
    BY <2>1, <2>3, TreeMove
<1>2. CASE RollbackTree(p)
  <2>1. /\ loaded /\ InStep /\ MayRollback /\ req[p].root = Last(commitments).root
        /\ UNCHANGED <<loaded, commitments>>
    BY <1>2, <1>c DEF RollbackTree, TreeLocals, AheadPCs
  <2> DEFINE n == Len(commitments)
             m == Len(snaps)
  <2>2. m \in Nat \ {0} /\ n <= m /\ snaps[m] = req[p].root /\ DOMAIN snaps = 1..m
    BY <2>1, TipIsTree, LenProperties DEF MayRollback, BaseInv, TypeOK
  <2>3. n \in Nat \ {0} /\ \A i \in 1..n : commitments[i].root = snaps[(m - n) + i]
    BY <2>1, LastRoot DEF MayRollback, InStep, Aligned, BaseInv
  <2>4. snaps' = SubSeq(snaps, 1, m - 1) /\ With(p, "rb_unstage", NoRequest)
    <3>1. PICK i \in DOMAIN snaps :
                 /\ IsNewest(i, req[p].root) /\ snaps' = SubSeq(snaps, 1, i - 1)
                 /\ With(p, "rb_unstage", NoRequest)
      BY <1>2, <2>2 DEF RollbackTree
    <3>2. i = m
      BY <2>2, <3>1 DEF IsNewest
    <3> QED
      BY <3>1, <3>2
  <2>5. /\ Len(snaps') = m - 1 /\ \A i \in 1..(m - 1) : snaps'[i] = snaps[i]
    <3>1. m - 1 \in Nat /\ m - 1 <= m
      BY <2>2
    <3> QED
      BY <2>4, <3>1, PrefixKeeps, Zenon DEF BaseInv, TypeOK
  <2> HIDE DEF n, m
  <2>6. \A i \in 1..(n - 1) :
          /\ (m - n) + i \in 1..(m - 1) /\ ((m - 1) - (n - 1)) + i = (m - n) + i
          /\ i \in 1..n
    BY <2>2, <2>3
  <2>7. \A i \in 1..(n - 1) : commitments[i].root = snaps'[((m - 1) - (n - 1)) + i]
    BY <2>3, <2>5, <2>6
  <2>8. n - 1 <= m - 1 /\ Len(snaps') = m - 1
    BY <2>2, <2>3, <2>5
  <2>9. Ahead'
    BY <2>1, <2>7, <2>8 DEF Ahead, Aligned, MayRollback, n
  <2>10. at' = "rb_unstage" /\ \A l : TreeLocals("rb_unstage", l)'
    BY <2>4, <2>9, MoveTo DEF TreeLocals, AheadPCs
  <2>11. PrevRootChain' /\ Nested'
    <3>1. EmptyTree' = EmptyTree
      BY DEF EmptyTree
    <3> QED
      BY <2>1, <3>1 DEF PrevRootChain, Nested, Chained, Ledger!Grows
  <2> QED
    BY <2>1, <2>10, <2>11 DEF Chained
<1>3. CASE RollbackUnstage(p)
  <2>1. loaded /\ Ahead
    BY <1>3, <1>c DEF RollbackUnstage, TreeLocals, AheadPCs
  <2>2. With(p, "rb_delete", NoRequest) /\ UNCHANGED <<loaded, commitments, snaps>>
    BY <1>3, <2>1 DEF RollbackUnstage, MayRollback, Ahead
  <2>3. TreeLocals("rb_delete", NoRequest)
    BY <2>1 DEF TreeLocals, AheadPCs
  <2> QED
    BY <2>1, <2>2, <2>3, TreeMove
<1>4. CASE RollbackDelete(p)
  <2>1. /\ loaded /\ Ahead /\ UNCHANGED <<loaded, snaps>>
        /\ commitments' = Front(commitments) /\ With(p, "idle", NoRequest)
    BY <1>4, <1>c DEF RollbackDelete, TreeLocals, AheadPCs
  <2>2. /\ PrevRootChain' /\ Nested'
        /\ Len(commitments') = Len(commitments) - 1 /\ Len(commitments) \in Nat \ {0}
        /\ \A i \in 1..(Len(commitments) - 1) : commitments'[i] = commitments[i]
    BY <2>1, FrontChains DEF BaseInv, Chained, Ahead
  <2>3. InStep'
    BY <2>1, <2>2 DEF Ahead, InStep, Aligned
  <2>4. at' = "idle" /\ \A l : TreeLocals("idle", l)'
    BY <2>1, <2>3, MoveTo DEF TreeLocals, AheadPCs
  <2> QED
    BY <2>1, <2>2, <2>4 DEF Chained
<1> QED
  BY <1>1, <1>2, <1>3, <1>4 DEF RollbackLocal

LEMMA BroadcastKeepsTree ==
    ASSUME BaseInv, OneAtATime, Chained, NEW p \in Procs, Broadcast(p)
    PROVE  Chained'
<1> USE DEF tables, chain, faults, Done
<1>1. loaded /\ InStep /\ pc[p] \notin AheadPCs /\ UNCHANGED <<loaded, snaps>>
  BY TreeCarried DEF Broadcast, BroadcastBegin, BroadcastLast, BroadcastSend, BroadcastStore,
                     BumpBegin, BumpStore, Starts, AheadPCs
<1>2. CASE BroadcastBegin(p) \/ BroadcastLast(p) \/ BroadcastSend(p) \/ BumpBegin(p)
  <2>1. commitments' = commitments /\ \E label \in PlainPCs : \E local : With(p, label, local)
    BY <1>2 DEF BroadcastBegin, BroadcastLast, BroadcastSend, BumpBegin, PlainPCs
  <2> QED
    BY <1>1, <2>1, TreeLeave
<1>3. CASE BroadcastStore(p) \/ BumpStore(p)
  <2>1. PrevRootChain' /\ Nested' /\ InStep'
    BY <1>1, <1>3, TxidRecorded, RecordedChains DEF BaseInv, Chained
  <2>2. at' = "idle"
    BY <1>3, MoveTo DEF BroadcastStore, BumpStore
  <2>3. \A l : TreeLocals("idle", l)'
    BY <2>1 DEF TreeLocals, AheadPCs
  <2> QED
    BY <1>1, <2>1, <2>2, <2>3 DEF Chained
<1> QED
  BY <1>2, <1>3 DEF Broadcast

LEMMA ChainKeepsTree ==
    ASSUME BaseInv, OneAtATime, Chained,
           SaveStepReceipt \/ SaveFoldReceipt \/ Confirm \/ Finalize
    PROVE  Chained'
<1> USE DEF tables, chain, faults
<1>1. CASE SaveStepReceipt \/ SaveFoldReceipt
  <2>1. loaded /\ UNCHANGED <<loaded, snaps, pc, req>>
    BY <1>1 DEF SaveStepReceipt, SaveFoldReceipt
  <2>2. Recorded(commitments, commitments')
    BY <1>1, ReceiptRecorded DEF BaseInv
  <2>3. PrevRootChain' /\ Nested' /\ (InStep => InStep')
    BY <2>1, <2>2, RecordedChains DEF BaseInv, Chained
  <2>4. /\ (commitments' = <<>>) <=> (commitments = <<>>)
        /\ Len(commitments') = Len(commitments) /\ DOMAIN commitments = 1..Len(commitments)
        /\ \A i \in DOMAIN commitments : commitments'[i].root = commitments[i].root
        /\ commitments # <<>> => Last(commitments').root = Last(commitments).root
    BY <2>2, RecordedKeeps DEF BaseInv
  <2>5. commitments # <<>> => Last(commitments').txid = Last(commitments).txid
    <3>1. \A i \in DOMAIN commitments : commitments'[i].txid = commitments[i].txid
      BY <1>1, ReceiptKeepsTxids DEF BaseInv
    <3>2. commitments # <<>> => Len(commitments) \in DOMAIN commitments
      BY LastRoot DEF BaseInv
    <3> QED
      BY <2>4, <3>1, <3>2 DEF Last
  <2>6. MayRollback => MayRollback'
    BY <2>4, <2>5 DEF MayRollback
  <2>7. Ahead => Ahead'
    <3>1. ASSUME commitments # <<>>, Aligned(Len(commitments) - 1)
          PROVE  Aligned(Len(commitments) - 1)'
      <4>1. Len(commitments) \in Nat \ {0}
        BY <3>1, LastRoot DEF BaseInv
      <4>2. \A i \in 1..(Len(commitments) - 1) : i \in DOMAIN commitments
        BY <2>4, <4>1
      <4> QED
        BY <2>1, <2>4, <3>1, <4>2 DEF Aligned
    <3> QED
      BY <2>4, <2>5, <3>1 DEF Ahead
  <2>8. \A label, l : TreeLocals(label, l) => TreeLocals(label, l)'
    <3>1. CurrentTree' = CurrentTree /\ EmptyTree' = EmptyTree
      BY <2>1 DEF CurrentTree, EmptyTree
    <3>2. ASSUME NEW label, NEW l, TreeLocals(label, l)
          PROVE  TreeLocals(label, l)'
      <4>2. label = "cm_tree" => Last(commitments').root = Overlay(CurrentTree, l.batch)
        BY <2>4, <3>2 DEF TreeLocals, AheadPCs, Ahead
      <4>3. label = "rb_tree" => MayRollback' /\ l.root = Last(commitments').root
        BY <2>4, <2>6, <3>2 DEF TreeLocals, MayRollback
      <4>4. /\ label \in AheadPCs => Ahead'
            /\ label \notin AheadPCs => InStep' \/ ~loaded
        BY <2>3, <2>7, <3>2 DEF TreeLocals
      <4> QED
        BY <2>1, <3>1, <3>2, <4>2, <4>3, <4>4 DEF TreeLocals, Overlay
    <3> QED
      BY <3>2
  <2>9. at' = at /\ my' = my
    BY <2>1 DEF at, my
  <2> QED
    BY <2>1, <2>3, <2>8, <2>9 DEF Chained
<1>2. CASE Confirm \/ Finalize
  BY <1>2, TreeStill DEF Confirm, Finalize
<1> QED
  BY <1>1, <1>2

\* Start-up leaves no commitment ahead of its tree: it deletes the row that
\* Orphaned finds, and one it does not find is in step.
LEMMA CleanupKeepsTree ==
    ASSUME BaseInv, OneAtATime, Chained, LoadOrCreateSpace
    PROVE  Chained'
<1> USE DEF tables, chain, faults
<1>1. /\ InStep \/ Ahead
      /\ PrevRootChain /\ Nested /\ UNCHANGED <<snaps, pc, req>> /\ loaded'
  BY DEF LoadOrCreateSpace, Chained
<1>2. at' = "idle"
  BY <1>1, HereTypes DEF LoadOrCreateSpace, BaseInv, Unloaded, at
<1>3. InStep' => \A l : TreeLocals("idle", l)'
  BY DEF TreeLocals, AheadPCs
<1>4. CASE Orphaned
  <2>1. commitments' = Front(commitments) /\ commitments # <<>>
    BY <1>4 DEF LoadOrCreateSpace, Orphaned, MayRollback
  <2>2. Ahead
    BY <1>1, <1>4, <2>1, TipIsTree DEF Orphaned, BaseInv
  <2>3. /\ PrevRootChain' /\ Nested'
        /\ Len(commitments') = Len(commitments) - 1 /\ Len(commitments) \in Nat \ {0}
        /\ \A i \in 1..(Len(commitments) - 1) : commitments'[i] = commitments[i]
    BY <1>1, <2>1, FrontChains DEF BaseInv
  <2>4. InStep'
    BY <1>1, <2>2, <2>3 DEF Ahead, InStep, Aligned
  <2> QED
    BY <1>1, <1>2, <1>3, <2>3, <2>4 DEF Chained
<1>5. CASE ~Orphaned
  <2>1. commitments' = commitments
    BY <1>5 DEF LoadOrCreateSpace
  <2>2. PrevRootChain' /\ Nested' /\ (InStep => InStep')
    BY <1>1, <2>1, SameRecorded, RecordedChains DEF BaseInv
  <2>3. ASSUME Ahead
        PROVE  InStep
    <3> DEFINE n == Len(commitments)
    <3>1. /\ commitments # <<>> /\ n \in Nat \ {0} /\ Last(commitments) = commitments[n]
          /\ Last(commitments).root = CurrentTree
          /\ DOMAIN commitments = 1..n
      BY <1>5, <2>3, LastRoot DEF Ahead, Orphaned, MayRollback, BaseInv
    <3>2. Len(snaps) \in Nat /\ n - 1 <= Len(snaps)
          /\ \A i \in 1..(n - 1) : commitments[i].root = snaps[(Len(snaps) - (n - 1)) + i]
      BY <2>3, LenProperties DEF Ahead, Aligned, BaseInv, TypeOK
    <3> HIDE DEF n
    <3>3. CASE n = 1
      <4>1. snaps # <<>>
        BY <1>1, <3>1, <3>3 DEF Nested, CurrentTree
      <4>2. Len(snaps) >= 1 /\ CurrentTree = snaps[Len(snaps)]
        BY <4>1, EmptySeq DEF CurrentTree, Last, BaseInv, TypeOK
      <4> QED
        BY <3>1, <3>2, <3>3, <4>2 DEF InStep, Aligned, n
    <3>4. CASE n > 1
      <4>1. /\ Len(snaps) \in Nat \ {0}
            /\ commitments[n - 1].root = snaps[Len(snaps)]
        BY <3>1, <3>2, <3>4
      <4>2. CurrentTree = snaps[Len(snaps)]
        BY <4>1, EmptySeq DEF CurrentTree, Last, BaseInv, TypeOK
      <4>3. Ledger!Grows(commitments[n - 1].root, commitments[n].root)
        BY <1>1, <3>1, <3>4 DEF Nested
      <4> QED
        BY <3>1, <4>1, <4>2, <4>3 DEF Ledger!Grows
    <3> QED
      BY <3>1, <3>3, <3>4
  <2>4. InStep'
    BY <1>1, <2>2, <2>3
  <2> QED
    BY <1>1, <1>2, <1>3, <2>2, <2>4 DEF Chained
<1> QED
  BY <1>4, <1>5

LEMMA FaultsKeepTree ==
    ASSUME BaseInv, OneAtATime, Chained, Sound',
           \/ Crash \/ LoadAllSpaces \/ LoadOrCreateSpace \/ LoadOrCreateCrash
           \/ \E p \in Procs : Abort(p)
    PROVE  Chained'
<1> USE DEF tables, chain, faults
<1>1. CASE Crash
  <2>1. at' = "idle" /\ UNCHANGED <<commitments, snaps>> /\ ~loaded' /\ loaded
    BY <1>1, HereTypes DEF Crash, at
  <2>2. InStep \/ Ahead
    BY <2>1, TreeCarried, HereTypes DEF TreeLocals
  <2>3. InStep' \/ Ahead'
    BY <2>1, <2>2 DEF InStep, Ahead, Aligned
  <2>4. \A l : TreeLocals("idle", l)'
    BY <2>1 DEF TreeLocals, AheadPCs
  <2>5. PrevRootChain' /\ Nested'
    <3>1. EmptyTree' = EmptyTree
      BY DEF EmptyTree
    <3> QED
      BY <2>1, <3>1 DEF PrevRootChain, Nested, Chained, Ledger!Grows
  <2> QED
    BY <2>1, <2>3, <2>4, <2>5 DEF Chained
<1>2. CASE LoadAllSpaces
  BY <1>2 DEF LoadAllSpaces, Sound, BaseInv, TypeOK
<1>3. CASE LoadOrCreateSpace
  BY <1>3, CleanupKeepsTree
<1>4. CASE LoadOrCreateCrash
  BY <1>4, TreeStill DEF LoadOrCreateCrash
<1>5. CASE \E p \in Procs : Abort(p)
  BY <1>5, BoundsAreNatural DEF Abort, Sound, BaseInv, TypeOK
<1> QED
  BY <1>1, <1>2, <1>3, <1>4, <1>5

\* Faults are only added to.
LEMMA FaultsGrow ==
    ASSUME [Next]_vars
    PROVE  \/ UNCHANGED <<crashes, aborts>>
           \/ UNCHANGED aborts /\ crashes' = crashes + 1
           \/ UNCHANGED crashes /\ aborts' = aborts + 1
<1> USE DEF tables, chain, faults
<1>1. ASSUME NEW p \in Procs,
             AddRequests(p) \/ CommitLocal(p) \/ RollbackLocal(p) \/ Broadcast(p)
      PROVE  UNCHANGED <<crashes, aborts>>
  BY <1>1 DEF AddRequests, AddBegin, AddCheckTree, AddCheckStaged, AddInsert,
     CommitLocal, CommitBegin, CommitCheck, CommitList, CommitInput, CommitValidate,
     CommitRow, CommitTree, CommitTree0, CommitRow0, CommitMark,
     RollbackLocal, RollbackBegin, RollbackTree, RollbackUnstage, RollbackDelete,
     Broadcast, BroadcastBegin, BroadcastLast, BroadcastSend, BroadcastStore,
     BumpBegin, BumpStore
<1>2. ASSUME NEW p \in Procs, SetParked(p) \/ SetParkedFiltered(p) \/ RemoveStaged(p)
      PROVE  UNCHANGED <<crashes, aborts>>
  BY <1>2 DEF SetParked, SetParkedFiltered, RemoveStaged
<1>3. ASSUME SaveStepReceipt \/ SaveFoldReceipt \/ Confirm \/ Finalize
             \/ LoadAllSpaces \/ LoadOrCreateSpace \/ UNCHANGED vars
      PROVE  UNCHANGED <<crashes, aborts>>
  BY <1>3 DEF SaveStepReceipt, SaveFoldReceipt, Confirm, Finalize, LoadAllSpaces,
              LoadOrCreateSpace, vars
<1>4. ASSUME Crash \/ LoadOrCreateCrash
      PROVE  UNCHANGED aborts /\ crashes' = crashes + 1
  BY <1>4 DEF Crash, LoadOrCreateCrash
<1>5. ASSUME NEW p \in Procs, Abort(p)
      PROVE  UNCHANGED crashes /\ aborts' = aborts + 1
  BY <1>5 DEF Abort
<1> QED
  BY <1>1, <1>2, <1>3, <1>4, <1>5, ParkersOperate DEF Next, Procs

LEMMA SoundBefore ==
    ASSUME BaseInv, [Next]_vars, Sound'
    PROVE  Sound
  BY FaultsGrow, BoundsAreNatural DEF Sound, BaseInv, TypeOK

LEMMA NextKeepsTree ==
    ASSUME OneAtATime, BaseInv, GrowthInv, RowInv, TreeInv, [Next]_vars
    PROVE  TreeInv'
<1> SUFFICES ASSUME Sound'
             PROVE  Chained'
  BY DEF TreeInv
<1>1. Chained
  BY SoundBefore DEF TreeInv
<1>2. CASE UNCHANGED vars
  BY <1>1, <1>2, TreeStill DEF vars, tables
<1>3. CASE Next
  BY <1>1, <1>3, AddKeepsTree, ParkKeepsTree, CommitKeepsTree, RollbackKeepsTree,
     BroadcastKeepsTree, ChainKeepsTree, FaultsKeepTree, ParkersOperate
     DEF Next, Procs
<1> QED
  BY <1>2, <1>3

LEMMA InitTree ==
    ASSUME OneAtATime, Init
    PROVE  TreeInv
<1>1. commitments = <<>> /\ snaps = <<>> /\ Len(snaps) = 0 /\ Len(commitments) = 0
  BY EmptySeq DEF Init
<1>2. PrevRootChain /\ Nested /\ InStep
  BY <1>1 DEF PrevRootChain, Nested, InStep, Aligned
<1>3. at = "idle" /\ \A l : TreeLocals("idle", l)
  BY <1>2, OneProc DEF Init, at, TreeLocals, AheadPCs
<1> QED
  BY <1>2, <1>3 DEF TreeInv, Chained

LEMMA TreeInvariant ==
    ASSUME OneAtATime
    PROVE  Spec => [](BaseInv /\ GrowthInv /\ RowInv /\ TreeInv)
<1>1. Init => BaseInv /\ GrowthInv /\ RowInv /\ TreeInv
  <2>1. Init => GrowthInv
    BY DEF Init, GrowthInv, ExtendsPrev, CarriesProof
  <2> QED
    BY <2>1, InitBase, InitRows, InitTree
<1>2. BaseInv /\ GrowthInv /\ RowInv /\ TreeInv /\ [Next]_vars
        => (BaseInv /\ GrowthInv /\ RowInv /\ TreeInv)'
  BY NextKeepsBase, NextKeepsGrowth, NextKeepsRows, NextKeepsTree
<1> QED
  BY <1>1, <1>2, PTL DEF Spec

\* No handler is cut short, and a process that dies comes back through
\* load_or_create_space.
CheckedBoot == MaxAborts = 0 /\ (MaxCrashes = 0 \/ ~BootLoadsAll)

LEMMA BootIsSound ==
    ASSUME CheckedBoot, BaseInv
    PROVE  Sound
  BY BoundsAreNatural DEF CheckedBoot, Sound, BaseInv, TypeOK

\* With one request at a time and the checked start-up, between requests the
\* newest commitment names the tree on disk, wherever the process died before.
THEOREM TreesAgree ==
    ASSUME OneAtATime, CheckedBoot
    PROVE  Spec => []TreeIsLastRoot
<1>1. ASSUME BaseInv, TreeInv
      PROVE  TreeIsLastRoot
  <2> SUFFICES ASSUME Quiet, commitments # <<>>
               PROVE  Last(commitments).root = CurrentTree
    BY DEF TreeIsLastRoot
  <2>1. loaded /\ pc[Op] = "idle" /\ Op \in Procs
    BY OneProc DEF Quiet, OneAtATime, Procs
  <2>2. Chained
    BY <1>1, BootIsSound DEF TreeInv
  <2>3. InStep
    BY <1>1, <2>1, <2>2, TreeCarried DEF AheadPCs
  <2> QED
    BY <1>1, <2>3, TipIsTree DEF BaseInv
<1> QED
  BY <1>1, TreeInvariant, PTL

\* THEOREM.  ... so with the checked start-up no crash leaves a half-finished
\* rollback behind, as core.rs says of rollback_local: it is only the boot path
\* of main.rs, which does not check, that run SpaceBoot refutes this for.
THEOREM CheckedBootFinishes ==
    ASSUME OneAtATime, CheckedBoot
    PROVE  Spec => []CrashedRollbackIsFinished
<1>1. TreeIsLastRoot => CrashedRollbackIsFinished
  BY DEF TreeIsLastRoot, CrashedRollbackIsFinished, Orphaned, MayRollback
<1> QED
  BY <1>1, TreesAgree, PTL

\* ... and every commitment continues the one before it, so the step and fold
\* proofs compose.
THEOREM CommitmentsChain ==
    ASSUME OneAtATime, CheckedBoot
    PROVE  Spec => []PrevRootChain
<1>1. BaseInv /\ TreeInv => PrevRootChain
  BY BootIsSound DEF TreeInv, Chained
<1> QED
  BY <1>1, TreeInvariant, PTL

-----------------------------------------------------------------------------
(* The commitments implement the ledger.                                   *)

\* The list of roots that HandleLedger speaks of.
View(table) == [i \in DOMAIN table |-> [root |-> table[i].root, sealed |-> table[i].txid]]
Entry == [root: Tree, sealed: BOOLEAN]

LEMMA ViewIsSeq ==
    ASSUME NEW table \in Seq(Commitment)
    PROVE  /\ View(table) \in Seq(Entry) /\ Len(View(table)) = Len(table)
           /\ Len(table) \in Nat /\ DOMAIN table = 1..Len(table)
           /\ \A i \in 1..Len(table) :
                View(table)[i] = [root |-> table[i].root, sealed |-> table[i].txid]
           /\ View(table) = <<>> <=> table = <<>>
           /\ table # <<>> => /\ Last(View(table)).root = Last(table).root
                              /\ Last(View(table)).sealed = Last(table).txid
<1>1. Len(table) \in Nat /\ DOMAIN table = 1..Len(table)
  BY LenProperties
<1>2. \A i \in 1..Len(table) : table[i] \in Commitment
  BY ElementOfSeq
<1>3. View(table) \in [1..Len(table) -> Entry]
  BY <1>1, <1>2 DEF View, Entry, Commitment
<1>4. View(table) \in Seq(Entry) /\ Len(View(table)) = Len(table)
  BY <1>1, <1>3, FunctionIsSeq
<1>5. \A i \in 1..Len(table) :
        View(table)[i] = [root |-> table[i].root, sealed |-> table[i].txid]
  BY <1>1 DEF View
<1>6. View(table) = <<>> <=> table = <<>>
  BY <1>4, EmptySeq
<1>7. table # <<>> => /\ Last(View(table)).root = Last(table).root
                      /\ Last(View(table)).sealed = Last(table).txid
  <2>1. table # <<>> => Len(table) \in 1..Len(table)
    BY <1>1, EmptySeq
  <2>2. Last(View(table)) = View(table)[Len(table)] /\ Last(table) = table[Len(table)]
    BY <1>4 DEF Last
  <2>3. ASSUME table # <<>>
        PROVE  View(table)[Len(table)] =
                 [root |-> table[Len(table)].root, sealed |-> table[Len(table)].txid]
    BY <1>5, <2>1, <2>3
  <2> QED
    BY <2>2, <2>3
<1> QED
  BY <1>1, <1>4, <1>5, <1>6, <1>7

\* A new row extends the ledger.
LEMMA InsertExtends ==
    ASSUME TypeOK, NEW prev \in Tree \cup {NoRoot}, NEW root \in Tree,
           commitments' \in Seq(Commitment), InsertCommitment(prev, root)
    PROVE  View(commitments') = Append(View(commitments), [root |-> root, sealed |-> FALSE])
<1> DEFINE entry == [root |-> root, sealed |-> FALSE]
           n == Len(commitments)
<1>1. /\ n \in Nat /\ Len(commitments') = n + 1
      /\ \A i \in 1..n : commitments'[i] = commitments[i]
      /\ commitments'[n + 1].root = root /\ ~commitments'[n + 1].txid
      /\ commitments'[n + 1].txid \in BOOLEAN
  <2>1. /\ n \in Nat /\ Len(commitments') = n + 1 /\ DOMAIN commitments = 1..n
        /\ \A i \in DOMAIN commitments : commitments'[i] = commitments[i]
        /\ commitments'[n + 1].root = root /\ ~commitments'[n + 1].txid
    BY InsertKeeps
  <2>2. commitments'[n + 1] \in Commitment
    BY <2>1, ElementOfSeq
  <2> QED
    BY <2>1, <2>2 DEF Commitment
<1>2. /\ View(commitments) \in Seq(Entry) /\ Len(View(commitments)) = n
      /\ \A i \in 1..n : View(commitments)[i] =
                           [root |-> commitments[i].root, sealed |-> commitments[i].txid]
  BY ViewIsSeq DEF TypeOK
<1>3. /\ View(commitments') \in Seq(Entry) /\ Len(View(commitments')) = n + 1
      /\ \A i \in 1..(n + 1) : View(commitments')[i] =
                           [root |-> commitments'[i].root, sealed |-> commitments'[i].txid]
  BY <1>1, ViewIsSeq
<1>4. entry \in Entry
  BY DEF Entry
<1> HIDE DEF n
<1>5. View(commitments')[n + 1] = entry
  <2>1. commitments'[n + 1].txid = FALSE /\ n + 1 \in 1..(n + 1)
    BY <1>1
  <2> QED
    BY <1>1, <1>3, <2>1
<1> HIDE DEF entry
<1>6. /\ Append(View(commitments), entry) \in Seq(Entry)
      /\ Len(Append(View(commitments), entry)) = n + 1
      /\ \A i \in 1..n : Append(View(commitments), entry)[i] = View(commitments)[i]
      /\ Append(View(commitments), entry)[n + 1] = entry
  BY <1>2, <1>4, AppendProperties
<1>7. \A i \in 1..(n + 1) : View(commitments')[i] = Append(View(commitments), entry)[i]
  <2>1. ASSUME NEW i \in 1..n
        PROVE  View(commitments')[i] = View(commitments)[i]
    <3>1. i \in 1..(n + 1) /\ commitments'[i] = commitments[i]
      BY <1>1
    <3>2. View(commitments')[i] =
            [root |-> commitments[i].root, sealed |-> commitments[i].txid]
      BY <1>3, <3>1
    <3> QED
      BY <1>2, <3>2
  <2>2. \A i \in 1..n : View(commitments')[i] = Append(View(commitments), entry)[i]
    BY <1>6, <2>1
  <2>3. \A i \in 1..(n + 1) : i \in 1..n \/ i = n + 1
    BY <1>1
  <2> QED
    BY <1>5, <1>6, <2>2, <2>3
<1>8. View(commitments') = Append(View(commitments), entry)
  BY <1>3, <1>6, <1>7, SeqEqual
<1> QED
  BY <1>8 DEF entry

\* A row that goes is withdrawn.
LEMMA FrontWithdraws ==
    ASSUME TypeOK, commitments # <<>>, commitments' = Front(commitments)
    PROVE  View(commitments') = Front(View(commitments))
<1> DEFINE n == Len(commitments)
           view == View(commitments)
<1>1. /\ commitments' \in Seq(Commitment) /\ Len(commitments') = n - 1 /\ n \in Nat \ {0}
      /\ \A i \in 1..(n - 1) : commitments'[i] = commitments[i]
  BY FrontKeeps, LastRoot DEF TypeOK
<1>2. /\ view \in Seq(Entry) /\ Len(view) = n /\ view # <<>>
      /\ \A i \in 1..n : view[i] =
                           [root |-> commitments[i].root, sealed |-> commitments[i].txid]
  BY ViewIsSeq DEF TypeOK
<1>3. /\ View(commitments') \in Seq(Entry) /\ Len(View(commitments')) = n - 1
      /\ \A i \in 1..(n - 1) : View(commitments')[i] =
                           [root |-> commitments'[i].root, sealed |-> commitments'[i].txid]
  BY <1>1, ViewIsSeq
<1>4. /\ Front(view) \in Seq(Entry) /\ Len(Front(view)) = n - 1
      /\ \A i \in 1..(n - 1) : Front(view)[i] = view[i]
  BY <1>2, FrontKeeps
<1> HIDE DEF n, view
<1>5. \A i \in 1..(n - 1) : View(commitments')[i] = Front(view)[i]
  <2> TAKE i \in 1..(n - 1)
  <2>1. i \in 1..n /\ commitments'[i] = commitments[i]
    BY <1>1
  <2>2. View(commitments')[i] =
          [root |-> commitments[i].root, sealed |-> commitments[i].txid]
    BY <1>3, <2>1
  <2>3. Front(view)[i] = view[i]
    BY <1>4
  <2> QED
    BY <1>2, <2>1, <2>2, <2>3
<1>6. View(commitments') = Front(view)
  BY <1>3, <1>4, <1>5, SeqEqual
<1> QED
  BY <1>6 DEF view

\* A row that takes a txid is sealed; one that takes a receipt is the same.
LEMMA RecordedSeals ==
    ASSUME TypeOK, Recorded(commitments, commitments')
    PROVE  /\ (\A i \in DOMAIN commitments : commitments'[i].txid = commitments[i].txid)
                => View(commitments') = View(commitments)
           /\ (/\ commitments # <<>>
               /\ \A i \in DOMAIN commitments :
                    commitments'[i].txid =
                      (IF i = Len(commitments) THEN TRUE ELSE commitments[i].txid))
                => View(commitments') =
                     [View(commitments) EXCEPT ![Len(View(commitments))].sealed = TRUE]
<1>1. /\ DOMAIN commitments' = DOMAIN commitments
      /\ \A i \in DOMAIN commitments : commitments'[i].root = commitments[i].root
  BY RecordedKeeps
<1>2. Len(View(commitments)) = Len(commitments)
  BY ViewIsSeq DEF TypeOK
<1> QED
  BY <1>1, <1>2 DEF View

LEMMA CommitExtends ==
    ASSUME OneAtATime, BaseInv, BaseInv', GrowthInv, RowInv, Chained, NEW p \in Procs,
           CommitRow(p) \/ CommitRow0(p)
    PROVE  Ledger!LedgerNext
<1>c. TreeLocals(pc[p], req[p]) /\ (loaded /\ pc[p] \notin AheadPCs => InStep)
      /\ (pc[p] # "idle" => loaded) /\ req[p] \in Request /\ RowLocals(pc[p], req[p])
  BY TreeCarried, RowCarried
<1> DEFINE prev == IF pc[p] = "cm_row" THEN req[p].base ELSE NoRoot
           root == req[p].root
<1>1. InsertCommitment(prev, root) /\ prev \in Tree \cup {NoRoot} /\ root \in Tree
  BY <1>c DEF CommitRow, CommitRow0, BaseInv, CarriesRoot, Request
<1>2. commitments # <<>> => Ledger!Grows(Last(commitments).root, root)
  <2>1. CASE CommitRow(p)
    <3>1. InStep /\ req[p].base = CurrentTree /\ Ledger!Grows(req[p].base, req[p].root)
      BY <1>c, <2>1 DEF CommitRow, AheadPCs, TreeLocals, GrowthInv, CarriesProof
    <3> QED
      BY <3>1, TipIsTree DEF BaseInv
  <2>2. CASE CommitRow0(p)
    BY <1>c, <2>2 DEF CommitRow0, RowLocals
  <2> QED
    BY <2>1, <2>2
<1> HIDE DEF prev, root
<1>3. View(commitments') = Append(View(commitments), [root |-> root, sealed |-> FALSE])
  BY <1>1, InsertExtends DEF BaseInv, TypeOK
<1>4. View(commitments) # <<>> => Ledger!Grows(Last(View(commitments)).root, root)
  BY <1>2, ViewIsSeq DEF BaseInv, TypeOK
<1>5. root \in Ledger!LedgerTree
  BY <1>1 DEF Ledger!LedgerTree, Tree
<1> QED
  BY <1>3, <1>4, <1>5 DEF Ledger!LedgerNext, Ledger!Extend, View, Last, Ledger!Last

LEMMA LedgerStep ==
    ASSUME OneAtATime, BaseInv, BaseInv', GrowthInv, RowInv, Chained, Next
    PROVE  Ledger!LedgerNext \/ View(commitments') = View(commitments)
<1> USE DEF tables, chain, faults
<1>1. CASE commitments' = commitments
  BY <1>1
<1>2. CASE \E p \in Procs : CommitRow(p) \/ CommitRow0(p)
  BY <1>2, CommitExtends
<1>3. CASE MayRollback /\ commitments' = Front(commitments)
  <2>1. View(commitments') = Front(View(commitments))
    BY <1>3, FrontWithdraws DEF MayRollback, BaseInv
  <2>2. View(commitments) # <<>> /\ ~Last(View(commitments)).sealed
    BY <1>3, ViewIsSeq DEF MayRollback, BaseInv, TypeOK
  <2> QED
    BY <2>1, <2>2 DEF Ledger!LedgerNext, Ledger!Withdraw, View, Last, Ledger!Last,
                      Front, Ledger!Front
<1>4. CASE SaveStepReceipt \/ SaveFoldReceipt
  BY <1>4, ReceiptRecorded, ReceiptKeepsTxids, RecordedSeals DEF BaseInv
<1>5. ASSUME NEW p \in Procs, BroadcastStore(p) \/ BumpStore(p)
      PROVE  Ledger!LedgerNext
  <2>1. RowLocals(pc[p], req[p])
    BY RowCarried
  <2>2. /\ commitments # <<>>
        /\ BroadcastStore(p) => req[p].id = Last(commitments).id
    BY <1>5, <2>1 DEF BroadcastStore, BumpStore, RowLocals, IsLast
  <2>3. /\ Last(commitments) = commitments[Len(commitments)]
        /\ Len(commitments) \in DOMAIN commitments /\ DOMAIN commitments = 1..Len(commitments)
        /\ \A i \in DOMAIN commitments : commitments[i] \in Commitment
    BY <2>2, LastRoot, ElementOfSeq DEF BaseInv, TypeOK
  <2>4. \A i \in DOMAIN commitments :
          [commitments[i] EXCEPT !.txid = TRUE].txid = TRUE
    BY <2>3 DEF Commitment
  <2>5. \A i \in DOMAIN commitments :
          commitments'[i].txid = (IF i = Len(commitments) THEN TRUE ELSE commitments[i].txid)
    <3>1. CASE BroadcastStore(p)
      <4>1. \A i \in DOMAIN commitments :
               commitments[i].id = req[p].id <=> i = Len(commitments)
        BY <2>2, <2>3, <3>1 DEF RowInv, Numbered
      <4>2. \A i \in DOMAIN commitments :
               commitments'[i] = IF commitments[i].id = req[p].id
                                 THEN [commitments[i] EXCEPT !.txid = TRUE]
                                 ELSE commitments[i]
        BY <3>1 DEF BroadcastStore
      <4> QED
        BY <2>4, <4>1, <4>2
    <3>2. CASE BumpStore(p)
      <4>1. commitments' = [commitments EXCEPT ![Len(commitments)] =
                              [commitments[Len(commitments)] EXCEPT !.txid = TRUE]]
        BY <2>2, <3>2 DEF BumpStore
      <4> QED
        BY <2>3, <2>4, <4>1
    <3> QED
      BY <1>5, <3>1, <3>2
  <2>6. Recorded(commitments, commitments')
    BY <1>5, TxidRecorded DEF BaseInv
  <2>7. View(commitments') = [View(commitments) EXCEPT ![Len(View(commitments))].sealed = TRUE]
    BY <2>2, <2>5, <2>6, RecordedSeals DEF BaseInv
  <2>8. View(commitments) # <<>>
    BY <2>2, ViewIsSeq DEF BaseInv, TypeOK
  <2> QED
    BY <2>7, <2>8 DEF Ledger!LedgerNext, Ledger!Seal, View
<1>6. ASSUME NEW p \in Procs, RollbackDelete(p)
      PROVE  MayRollback /\ commitments' = Front(commitments)
  BY <1>6 DEF RollbackDelete, BaseInv, DeleteHoldsLock
<1>7. ASSUME LoadOrCreateSpace
      PROVE  \/ commitments' = commitments
             \/ MayRollback /\ commitments' = Front(commitments)
  BY <1>7 DEF LoadOrCreateSpace, Orphaned
<1> QED
  BY <1>1, <1>2, <1>3, <1>4, <1>5, <1>6, <1>7, CommitmentWriters

\* With one request at a time and the checked start-up, the commitments are
\* the ledger the README promises: append-only and growing, the first script
\* pubkey of a handle wins, and a root is withdrawn only before it is sealed.
THEOREM LedgerIsImplemented ==
    ASSUME OneAtATime, CheckedBoot
    PROVE  Spec => ImplementsLedger
<1> DEFINE Inv == BaseInv /\ GrowthInv /\ RowInv /\ TreeInv
<1>1. Init => Ledger!LedgerInit
  BY DEF Init, Ledger!LedgerInit
<1>2. ASSUME Inv, Inv', [Next]_vars
      PROVE  Ledger!LedgerNext \/ View(commitments') = View(commitments)
  <2>1. Chained
    BY <1>2, BootIsSound DEF TreeInv
  <2>2. CASE UNCHANGED vars
    BY <2>2 DEF vars, tables
  <2> QED
    BY <1>2, <2>1, <2>2, LedgerStep
<1>3. Inv /\ Inv' /\ [Next]_vars
        => [Ledger!LedgerNext]_([i \in DOMAIN commitments |->
                 [root |-> commitments[i].root, sealed |-> commitments[i].txid]])
  BY <1>2 DEF View
<1>4. Spec => []Inv
  BY TreeInvariant
<1> HIDE DEF Inv
<1> QED
  BY <1>1, <1>3, <1>4, PTL DEF Spec, ImplementsLedger, Ledger!LedgerSpec

-----------------------------------------------------------------------------
(* What the owner of a handle gets from it.                                *)

\* THEOREM.  ... the tree that certificates are cut from binds what each
\* broadcast root binds: every later root was grown from it (CommitValidate),
\* and the tree is the last root between requests.
THEOREM BroadcastsAreServed ==
    ASSUME OneAtATime, CheckedBoot
    PROVE  Spec => []BroadcastIsServed
<1>1. ASSUME BaseInv, TreeInv, TreeIsLastRoot
      PROVE  BroadcastIsServed
  <2> SUFFICES ASSUME Quiet, NEW i \in DOMAIN commitments, NEW h \in Handles,
                      commitments[i].root[h] # NoSpk
               PROVE  CurrentTree[h] = commitments[i].root[h]
    BY DEF BroadcastIsServed
  <2>1. /\ Len(commitments) \in Nat \ {0} /\ DOMAIN commitments = 1..Len(commitments)
        /\ Last(commitments) = commitments[Len(commitments)] /\ commitments # <<>>
    BY <1>1, LastRoot, EmptySeq DEF BaseInv, TypeOK
  <2>2. CurrentTree = commitments[Len(commitments)].root
    BY <1>1, <2>1 DEF TreeIsLastRoot
  <2>3. i < Len(commitments) =>
          Ledger!Grows(commitments[i].root, commitments[Len(commitments)].root)
    BY <1>1, <2>1, BootIsSound DEF TreeInv, Chained, Nested
  <2> QED
    BY <2>1, <2>2, <2>3 DEF Ledger!Grows
<1> QED
  BY <1>1, TreeInvariant, TreesAgree, PTL

\* The promise to owners, told of the commitments.
Owners == INSTANCE HandleLedgerProofs WITH
    ledger <- [i \in DOMAIN commitments |->
                 [root |-> commitments[i].root, sealed |-> commitments[i].txid]]

\* The ledger of HandleLedgerProofs is the one that is implemented.
LEMMA LedgerIsTheOwners ==
    ASSUME OneAtATime, CheckedBoot
    PROVE  Spec => Owners!LedgerSpec
<1>1. Ledger!LedgerInit <=> Owners!LedgerInit
  BY DEF Ledger!LedgerInit, Owners!LedgerInit
<1>2. Ledger!LedgerNext <=> Owners!LedgerNext
  BY DEF Ledger!LedgerNext, Owners!LedgerNext, Ledger!Extend, Owners!Extend,
         Ledger!Withdraw, Owners!Withdraw, Ledger!Seal, Owners!Seal,
         Ledger!Grows, Owners!Grows, Ledger!LedgerTree, Owners!LedgerTree,
         Ledger!Last, Owners!Last, Ledger!Front, Owners!Front
<1> QED
  BY <1>1, <1>2, LedgerIsImplemented, PTL
     DEF ImplementsLedger, Ledger!LedgerSpec, Owners!LedgerSpec

\* A broadcast commitment binds the handle to the key.
Owned(h, s) ==
    \E i \in DOMAIN commitments : commitments[i].txid /\ commitments[i].root[h] = s

\* THEOREM.  With one request at a time and the checked start-up, what a
\* broadcast commitment binds stays bound by a broadcast commitment for ever,
\* and whenever the space is served between requests, to that key: the owner
\* of a handle never loses it, whatever is rolled back or crashes.
THEOREM OwnersKeepTheirHandles ==
    ASSUME OneAtATime, CheckedBoot, NEW h \in Handles, NEW s \in Spks
    PROVE  Spec => [](Owned(h, s) => [](Owned(h, s) /\ (Quiet => CurrentTree[h] = s)))
<1>1. Owned(h, s) <=> Owners!Owned(h, s)
  BY DEF Owned, Owners!Owned
<1> DEFINE view == [i \in DOMAIN commitments |->
                 [root |-> commitments[i].root, sealed |-> commitments[i].txid]]
<1>2. [Owners!OwnedGrows]_view /\ Owners!Owned(h, s) => Owners!Owned(h, s)'
  <2>1. Owners!OwnedGrows /\ Owners!Owned(h, s) => Owners!Owned(h, s)'
    BY DEF Owners!OwnedGrows
  <2>2. Owners!Owned(h, s) <=> \E i \in DOMAIN view : view[i].sealed /\ view[i].root[h] = s
    BY DEF Owners!Owned
  <2>3. Owners!Owned(h, s)' <=>
          \E i \in DOMAIN view' : view'[i].sealed /\ view'[i].root[h] = s
    BY DEF Owners!Owned
  <2> HIDE DEF view
  <2>4. view' = view /\ Owners!Owned(h, s) => Owners!Owned(h, s)'
    BY <2>2, <2>3
  <2> QED
    BY <2>1, <2>4
<1>3. BroadcastIsServed /\ Owned(h, s) => (Quiet => CurrentTree[h] = s)
  BY SentinelsAreFresh DEF BroadcastIsServed, Owned
<1> QED
  BY <1>1, <1>2, <1>3, LedgerIsTheOwners, Owners!OwnersKeep, BroadcastsAreServed, PTL

-----------------------------------------------------------------------------
(* Table and tree: the steps keep TableInv.                                *)

\* A committed row's index is within the commitments.
LEMMA CommittedIdx ==
    ASSUME TypeOK, RowInv
    PROVE  /\ Len(commitments) \in Nat /\ DOMAIN commitments = 1..Len(commitments)
           /\ \A h \in Handles : handles[h].idx \in Nat
           /\ \A h \in Handles : handles[h].root # NoRoot =>
                /\ handles[h].idx + 1 \in 1..Len(commitments)
                /\ commitments[handles[h].idx + 1].root = handles[h].root
                /\ InRoot(h, Len(commitments))
<1>1. Len(commitments) \in Nat /\ DOMAIN commitments = 1..Len(commitments)
  BY LenProperties DEF TypeOK
<1>2. \A h \in Handles : handles[h].idx \in Nat
  BY DEF TypeOK, Row
<1>3. \A h \in Handles : handles[h].root # NoRoot =>
        /\ handles[h].idx + 1 \in 1..Len(commitments)
        /\ commitments[handles[h].idx + 1].root = handles[h].root
  BY <1>1 DEF RowInv, CommittedRowsProvable
<1>4. \A h \in Handles : handles[h].root # NoRoot => InRoot(h, Len(commitments))
  BY <1>1, <1>2, <1>3 DEF InRoot
<1> QED
  BY <1>1, <1>2, <1>3, <1>4

\* What is bound in an earlier root is bound in the last one.
LEMMA UnboundInLast ==
    ASSUME TypeOK, Nested, NEW h \in Handles, commitments # <<>>,
           Last(commitments).root[h] = NoSpk
    PROVE  \A i \in DOMAIN commitments : commitments[i].root[h] = NoSpk
<1>1. /\ Len(commitments) \in Nat \ {0} /\ DOMAIN commitments = 1..Len(commitments)
      /\ Last(commitments) = commitments[Len(commitments)]
  BY LastRoot
<1>2. \A i \in DOMAIN commitments : i < Len(commitments) =>
        Ledger!Grows(commitments[i].root, commitments[Len(commitments)].root)
  BY <1>1 DEF Nested
<1> QED
  BY <1>1, <1>2 DEF Ledger!Grows

\* What is said of the request depends on the tables and the tree only.
LEMMA TableSame ==
    ASSUME UNCHANGED <<handles, commitments, snaps>>
    PROVE  /\ \A i : Binds(i)' = Binds(i)
           /\ \A label, l : TableLocals(label, l)' = TableLocals(label, l)
<1>1. CurrentTree' = CurrentTree
  BY DEF CurrentTree, EmptyTree
<1>2. \A i : Binds(i)' = Binds(i)
  BY DEF Binds, InRoot
<1>3. \A h : Eligible(h)' = Eligible(h)
  BY DEF Eligible, IsStaged, Exists
<1>4. \A label, l : TableLocals(label, l)' = TableLocals(label, l)
  BY <1>1, <1>2, <1>3 DEF TableLocals
<1> QED
  BY <1>2, <1>4

LEMMA TableCarried ==
    ASSUME BaseInv, OneAtATime, Tabled, NEW p \in Procs
    PROVE  TableLocals(pc[p], req[p]) /\ (pc[p] # "idle" => loaded)
<1>1. p = Op
  BY OneProc
<1>2. TableLocals(pc[p], req[p])
  BY <1>1, HereTypes DEF Tabled, at, my
<1> QED
  BY <1>2 DEF BaseInv, Unloaded

\* The request moves, and the tables and the tree stay.
LEMMA TableMove ==
    ASSUME BaseInv, OneAtATime, Tabled, NEW p \in Procs, NEW label, NEW local,
           With(p, label, local), UNCHANGED <<loaded, handles, commitments, snaps>>,
           TableLocals(label, local)
    PROVE  Tabled'
<1>1. at' = label /\ my' = local
  BY MoveTo
<1> QED
  BY <1>1, TableSame DEF Tabled

\* ... to a label that says nothing of the request, from one that says it all.
EvenPCs == {"idle", "add_tree", "cm_check", "cm_list", "cm_input", "cm_validate", "cm_row",
            "cm_tree0", "rb_tree", "bc_last", "bc_send", "bc_txid", "bp_store"}

LEMMA TableLeave ==
    ASSUME BaseInv, OneAtATime, Tabled, NEW p \in Procs, NEW label \in EvenPCs, NEW local,
           With(p, label, local), UNCHANGED <<loaded, handles, commitments, snaps>>,
           pc[p] \in EvenPCs \cup {"add_staged"}
    PROVE  Tabled'
<1>1. TableLocals(label, local)
  BY TableCarried DEF TableLocals, EvenPCs, AheadPCs
<1> QED
  BY <1>1, TableMove

\* The request ends, or none was under way.
LEMMA TableIdle ==
    ASSUME OneAtATime, at' = "idle", loaded' \/ commitments' = <<>>,
           \A i \in DOMAIN commitments' : Binds(i)',
           commitments' # <<>> => Len(commitments') \in DOMAIN commitments',
           Len(snaps') = Len(commitments')
    PROVE  Tabled'
<1>1. \A l : TableLocals("idle", l)'
  BY DEF TableLocals, AheadPCs
<1> QED
  BY <1>1 DEF Tabled

\* No commitment but the last is in doubt, and the last only while it is made
\* or unmade.
LEMMA AllBind ==
    ASSUME BaseInv, OneAtATime, Tabled, NEW p \in Procs,
           pc[p] \notin {"cm_tree", "cm_mark", "rb_delete"}
    PROVE  \A i \in DOMAIN commitments : Binds(i)
<1>1. Len(commitments) \in Nat /\ DOMAIN commitments = 1..Len(commitments)
  BY LenProperties DEF BaseInv, TypeOK
<1>2. commitments # <<>> => Binds(Len(commitments))
  BY TableCarried DEF TableLocals
<1>3. \A i \in DOMAIN commitments : commitments # <<>> /\ i <= Len(commitments)
  BY <1>1, EmptySeq
<1> QED
  BY <1>1, <1>2, <1>3 DEF Tabled

\* Staged rows come, go and are parked.
LEMMA StagedRowsKeepTable ==
    ASSUME BaseInv, OneAtATime, RowInv, Tabled, NEW p \in Procs, loaded,
           pc[p] \in {"idle", "add_insert"}, at' = "idle",
           UNCHANGED <<loaded, commitments, snaps>>,
           \A h \in Handles :
             \/ handles'[h].root = NoRoot
                /\ \A i \in DOMAIN commitments : commitments[i].root[h] = NoSpk
             \/ handles'[h].root = NoRoot /\ handles[h].root = NoRoot
             \/ /\ handles'[h].root = handles[h].root /\ handles'[h].idx = handles[h].idx
                /\ handles'[h].spk = handles[h].spk
    PROVE  Tabled'
<1>1. \A i \in DOMAIN commitments : Binds(i)
  BY AllBind
<1>2. \A i \in DOMAIN commitments : Binds(i)'
  BY <1>1 DEF Binds, InRoot
<1>3. Len(snaps) = Len(commitments)
  BY TableCarried DEF TableLocals, AheadPCs
<1>4. commitments # <<>> => Len(commitments) \in DOMAIN commitments
  BY LastRoot DEF BaseInv
<1> QED
  BY <1>2, <1>3, <1>4, TableIdle

LEMMA AddKeepsTable ==
    ASSUME BaseInv, OneAtATime, RowInv, Chained, Tabled, NEW p \in Procs, AddRequests(p)
    PROVE  Tabled'
<1> USE DEF tables, chain, faults, Done
<1>c. TableLocals(pc[p], req[p]) /\ (pc[p] # "idle" => loaded) /\ req[p] \in Request
  BY TableCarried, RowCarried
<1>1. CASE AddBegin(p)
  BY <1>1, TableLeave DEF AddBegin, Starts, EvenPCs
<1>2. CASE AddCheckTree(p)
  <2>1. CASE CurrentTree[req[p].h] # NoSpk
    BY <1>2, <2>1, TableLeave DEF AddCheckTree, EvenPCs
  <2>2. CASE CurrentTree[req[p].h] = NoSpk
    <3>1. TableLocals("add_staged", req[p])
      BY <1>2, <1>c, <2>2 DEF AddCheckTree, TableLocals, AheadPCs
    <3> QED
      BY <1>2, <2>2, <3>1, TableMove DEF AddCheckTree
  <2> QED
    BY <2>1, <2>2
<1>3. CASE AddCheckStaged(p)
  <2>1. CASE IsStaged(req[p].h)
    BY <1>3, <2>1, TableLeave DEF AddCheckStaged, EvenPCs
  <2>2. CASE ~IsStaged(req[p].h)
    <3>1. TableLocals("add_insert", req[p])
      BY <1>3, <1>c DEF AddCheckStaged, TableLocals, AheadPCs
    <3> QED
      BY <1>3, <2>2, <3>1, TableMove DEF AddCheckStaged
  <2> QED
    BY <2>1, <2>2
<1>4. CASE AddInsert(p)
  <2>1. /\ loaded /\ CurrentTree[req[p].h] = NoSpk /\ UNCHANGED <<loaded, commitments, snaps>>
        /\ handles' = [handles EXCEPT ![req[p].h] = [NoRow EXCEPT !.spk = req[p].spk]]
    BY <1>4, <1>c DEF AddInsert, TableLocals
  <2>2. at' = "idle"
    BY <1>4, MoveTo DEF AddInsert
  <2>3. [NoRow EXCEPT !.spk = req[p].spk].root = NoRoot
    BY DEF NoRow
  <2>4. InStep
    BY <1>4, <2>1, TreeCarried DEF AddInsert, AheadPCs
  <2>5. ASSUME req[p].h \in Handles
        PROVE  \A i \in DOMAIN commitments : commitments[i].root[req[p].h] = NoSpk
    <3>1. CASE commitments = <<>>
      BY <3>1
    <3>2. CASE commitments # <<>>
      BY <2>1, <2>4, <2>5, <3>2, TipIsTree, UnboundInLast DEF Chained, BaseInv
    <3> QED
      BY <3>1, <3>2
  <2>6. \A h \in Handles :
          \/ h = req[p].h /\ handles'[h].root = NoRoot
          \/ handles'[h] = handles[h]
    BY <2>1, <2>3 DEF BaseInv, TypeOK
  <2> QED
    BY <1>4, <2>1, <2>2, <2>5, <2>6, StagedRowsKeepTable DEF AddInsert
<1> QED
  BY <1>1, <1>2, <1>3, <1>4 DEF AddRequests

LEMMA ParkKeepsTable ==
    ASSUME BaseInv, OneAtATime, RowInv, Tabled, NEW p \in Procs,
           SetParked(p) \/ SetParkedFiltered(p) \/ RemoveStaged(p)
    PROVE  Tabled'
<1>1. /\ at' = "idle" /\ pc[p] = "idle" /\ loaded /\ UNCHANGED <<loaded, commitments, snaps>>
  BY OneProc DEF SetParked, SetParkedFiltered, RemoveStaged, Starts, at
<1>2. ASSUME NEW h \in Handles, NEW b \in BOOLEAN
      PROVE  /\ [handles[h] EXCEPT !.parked = b].root = handles[h].root
             /\ [handles[h] EXCEPT !.parked = b].idx = handles[h].idx
             /\ [handles[h] EXCEPT !.parked = b].spk = handles[h].spk
  BY DEF BaseInv, TypeOK, Row
<1>3. \A h \in Handles :
        \/ handles'[h].root = NoRoot /\ handles[h].root = NoRoot
        \/ /\ handles'[h].root = handles[h].root /\ handles'[h].idx = handles[h].idx
           /\ handles'[h].spk = handles[h].spk
  <2>1. CASE SetParked(p)
    BY <1>2, <2>1 DEF SetParked
  <2>2. CASE SetParkedFiltered(p)
    <3>1. PICK S \in SUBSET Handles, b \in BOOLEAN :
            handles' = [h \in Handles |->
                          IF Exists(h)
                          THEN [handles[h] EXCEPT !.parked = b /\ h \in S /\ IsStaged(h)]
                          ELSE handles[h]]
      BY <2>2 DEF SetParkedFiltered
    <3>2. \A h \in Handles : (b /\ h \in S /\ IsStaged(h)) \in BOOLEAN
      OBVIOUS
    <3>3. \A h \in Handles :
            \/ handles'[h] = handles[h]
            \/ \E c \in BOOLEAN : handles'[h] = [handles[h] EXCEPT !.parked = c]
      BY <3>1, <3>2
    <3>4. ASSUME NEW h \in Handles
          PROVE  /\ handles'[h].root = handles[h].root /\ handles'[h].idx = handles[h].idx
                 /\ handles'[h].spk = handles[h].spk
      <4>1. CASE handles'[h] = handles[h]
        BY <4>1
      <4>2. CASE \E c \in BOOLEAN : handles'[h] = [handles[h] EXCEPT !.parked = c]
        BY <1>2, <4>2
      <4> QED
        BY <3>3, <4>1, <4>2
    <3> QED
      BY <3>4
  <2>3. CASE RemoveStaged(p)
    BY <2>3 DEF RemoveStaged, IsStaged, NoRow
  <2> QED
    BY <2>1, <2>2, <2>3
<1> QED
  BY <1>1, <1>3, StagedRowsKeepTable

LEMMA CommitKeepsTable ==
    ASSUME BaseInv, OneAtATime, RowInv, Chained, Tabled, NEW p \in Procs, CommitLocal(p)
    PROVE  Tabled'
<1> USE DEF tables, chain, faults, Done
<1> DEFINE n == Len(commitments)
<1>c. /\ TableLocals(pc[p], req[p]) /\ RowLocals(pc[p], req[p]) /\ TreeLocals(pc[p], req[p])
      /\ (pc[p] # "idle" => loaded) /\ req[p] \in Request
      /\ (loaded /\ pc[p] \notin AheadPCs => InStep)
  BY TableCarried, RowCarried, TreeCarried
<1>i. /\ n \in Nat /\ DOMAIN commitments = 1..n
      /\ \A h \in Handles : handles[h].idx \in Nat
      /\ \A h \in Handles : handles[h].root # NoRoot => InRoot(h, n) /\ n # 0
  BY CommittedIdx DEF BaseInv
<1>b. \A h \in Handles : StagedBatch[h] = IF Eligible(h) THEN handles[h].spk ELSE NoSpk
  BY DEF StagedBatch
<1>s. \A h \in Handles : Eligible(h) => handles[h].spk # NoSpk /\ handles[h].root = NoRoot
  BY DEF Eligible, IsStaged, Exists
<1> HIDE DEF n
<1>1. CASE CommitBegin(p) \/ CommitCheck(p) \/ CommitList(p) \/ CommitInput(p)
  <2>1. UNCHANGED <<loaded, handles, commitments, snaps>> /\ pc[p] \in EvenPCs
    BY <1>1 DEF CommitBegin, CommitCheck, CommitList, CommitInput, Starts, EvenPCs
  <2>2. \E label \in EvenPCs : \E local : With(p, label, local)
    BY <1>1 DEF CommitBegin, CommitCheck, CommitList, CommitInput, EvenPCs
  <2> QED
    BY <2>1, <2>2, TableLeave
<1>2. CASE CommitValidate(p)
  <2>1. UNCHANGED <<loaded, handles, commitments, snaps>> /\ pc[p] \in EvenPCs
    BY <1>2 DEF CommitValidate, EvenPCs
  <2>2. \E label \in EvenPCs : \E local : With(p, label, local)
    BY <1>2 DEF CommitValidate, EvenPCs
  <2> QED
    BY <2>1, <2>2, TableLeave
<1>3. CASE CommitRow(p)
  <2>1. /\ InsertCommitment(req[p].base, req[p].root) /\ UNCHANGED <<loaded, handles, snaps>>
        /\ With(p, "cm_tree", [req[p] EXCEPT !.base = NoRoot, !.idx = n])
    BY <1>3 DEF CommitRow, n
  <2>2. /\ loaded /\ InStep /\ commitments # <<>> /\ req[p].batch = StagedBatch
        /\ req[p].root = Overlay(CurrentTree, req[p].batch)
        /\ Binds(n) /\ Len(snaps) = n
    BY <1>3, <1>c DEF CommitRow, AheadPCs, TreeLocals, RowLocals, TableLocals, n
  <2>3. req[p].base \in Tree \cup {NoRoot} /\ req[p].root \in Tree
    BY <1>3, <1>c DEF CommitRow, BaseInv, CarriesRoot, Request
  <2>4. /\ Len(commitments') = n + 1 /\ DOMAIN commitments' = 1..(n + 1)
        /\ \A i \in 1..n : commitments'[i] = commitments[i]
        /\ commitments' # <<>> /\ Last(commitments').root = req[p].root
    BY <2>1, <2>3, InsertKeeps DEF BaseInv, n
  <2>5. /\ Last(commitments).root = CurrentTree /\ Last(commitments) = commitments[n]
        /\ n # 0
    BY <2>2, TipIsTree, LastRoot DEF BaseInv, n
  <2>6. \A i \in 1..n : Binds(i)
    BY <1>i, <2>2 DEF Tabled, n
  <2>7. \A i \in 1..n : Binds(i)'
    BY <2>1, <2>4, <2>6 DEF Binds, InRoot
  <2>8. \A h \in Handles : Last(commitments').root[h] =
             IF handles[h].root # NoRoot \/ Eligible(h) THEN handles[h].spk ELSE NoSpk
    <3> SUFFICES ASSUME NEW h \in Handles
                 PROVE  Last(commitments').root[h] =
                   IF handles[h].root # NoRoot \/ Eligible(h) THEN handles[h].spk ELSE NoSpk
      OBVIOUS
    <3>1. Last(commitments').root[h] = IF Eligible(h) THEN handles[h].spk ELSE CurrentTree[h]
      BY <1>b, <1>s, <2>2, <2>4 DEF Overlay
    <3>2. CurrentTree[h] = IF InRoot(h, n) THEN handles[h].spk ELSE NoSpk
      BY <2>2, <2>5 DEF Binds
    <3>3. InRoot(h, n) <=> handles[h].root # NoRoot
      BY <1>i DEF InRoot
    <3> QED
      BY <3>1, <3>2, <3>3
  <2>9. \A h \in Handles : Eligible(h)' = Eligible(h)
    BY <2>1 DEF Eligible, IsStaged, Exists
  <2>10. \A l : TableLocals("cm_tree", l)'
    <3>1. \A h \in Handles : Last(commitments').root[h] =
             IF handles'[h].root # NoRoot \/ Eligible(h)' THEN handles'[h].spk ELSE NoSpk
      BY <2>1, <2>8, <2>9
    <3> QED
      BY <2>1, <2>2, <2>4, <3>1 DEF TableLocals, AheadPCs
  <2>11. at' = "cm_tree"
    BY <2>1, MoveTo
  <2>12. \A i \in DOMAIN commitments' : i < Len(commitments') => Binds(i)'
    BY <1>i, <2>4, <2>7
  <2> QED
    BY <2>1, <2>2, <2>10, <2>11, <2>12 DEF Tabled
<1>4. CASE CommitTree(p)
  <2>1. /\ snaps' = Append(snaps, Overlay(CurrentTree, req[p].batch))
        /\ UNCHANGED <<loaded, handles, commitments>>
        /\ With(p, "cm_mark", [req[p] EXCEPT !.batch = EmptyTree])
    BY <1>4 DEF CommitTree
  <2>2. /\ loaded /\ Len(snaps) + 1 = n
        /\ \A h \in Handles : Last(commitments).root[h] =
             IF handles[h].root # NoRoot \/ Eligible(h) THEN handles[h].spk ELSE NoSpk
    BY <1>4, <1>c DEF CommitTree, AheadPCs, TableLocals, n
  <2>3. Len(snaps') = Len(snaps) + 1
    <3>1. Overlay(CurrentTree, req[p].batch) \in Tree
      BY <1>c, CurrentTreeType, TreeTypes DEF Request, BaseInv, TypeOK
    <3> QED
      BY <2>1, <3>1, AppendProperties DEF BaseInv, TypeOK
  <2>4. \A h \in Handles : Eligible(h)' = Eligible(h)
    BY <2>1 DEF Eligible, IsStaged, Exists
  <2>5. \A l : TableLocals("cm_mark", l)'
    BY <2>1, <2>2, <2>3, <2>4 DEF TableLocals, AheadPCs, n
  <2>6. \A i : Binds(i)' = Binds(i)
    BY <2>1 DEF Binds, InRoot
  <2>7. at' = "cm_mark"
    BY <2>1, MoveTo
  <2> QED
    BY <2>1, <2>2, <2>5, <2>6, <2>7 DEF Tabled
<1>5. CASE CommitTree0(p)
  <2> DEFINE tree == Overlay(CurrentTree, req[p].batch)
             local == [NoRequest EXCEPT !.root = tree]
  <2>1. /\ snaps' = Append(snaps, tree) /\ UNCHANGED <<loaded, handles, commitments>>
        /\ With(p, "cm_row0", local)
    BY <1>5 DEF CommitTree0
  <2>2. /\ loaded /\ commitments = <<>> /\ Len(snaps) = n /\ req[p].batch = StagedBatch
    BY <1>5, <1>c DEF CommitTree0, AheadPCs, TableLocals, TreeLocals, RowLocals, n
  <2>3. Len(snaps) = 0 /\ snaps = <<>>
    BY <2>2, EmptySeq DEF n, BaseInv, TypeOK
  <2>4. tree \in Tree /\ \A h \in Handles : tree[h] = StagedBatch[h]
    <3>1. CurrentTree = EmptyTree /\ StagedBatch \in Tree
      BY <2>3, StagedBatchType DEF CurrentTree, BaseInv, TypeOK
    <3> QED
      BY <2>2, <3>1, TreeTypes DEF Overlay, EmptyTree
  <2>5. local.root = tree
    BY DEF NoRequest
  <2> HIDE DEF tree, local
  <2>6. Len(snaps') = 1
    BY <2>1, <2>3, <2>4, AppendProperties DEF BaseInv, TypeOK
  <2>7. \A h \in Handles : Eligible(h)' = Eligible(h)
    BY <2>1 DEF Eligible, IsStaged, Exists
  <2>8. \A l : l = local => TableLocals("cm_row0", l)'
    BY <1>b, <2>1, <2>2, <2>4, <2>5, <2>6, <2>7 DEF TableLocals, AheadPCs
  <2>9. at' = "cm_row0" /\ my' = local
    BY <2>1, MoveTo
  <2> QED
    BY <2>1, <2>2, <2>8, <2>9 DEF Tabled
<1>6. CASE CommitRow0(p)
  <2>1. /\ InsertCommitment(NoRoot, req[p].root) /\ UNCHANGED <<loaded, handles, snaps>>
        /\ With(p, "cm_mark", [req[p] EXCEPT !.idx = n])
    BY <1>6 DEF CommitRow0, n
  <2>2. /\ loaded /\ commitments = <<>> /\ Len(snaps) = 1
        /\ \A h \in Handles : req[p].root[h] = IF Eligible(h) THEN handles[h].spk ELSE NoSpk
    BY <1>6, <1>c DEF CommitRow0, AheadPCs, TableLocals, RowLocals
  <2>3. req[p].root \in Tree
    BY <1>6 DEF CommitRow0, BaseInv, CarriesRoot
  <2>4. n = 0 /\ \A h \in Handles : handles[h].root = NoRoot
    BY <1>i, <2>2, EmptySeq DEF n
  <2>5. /\ Len(commitments') = 1 /\ DOMAIN commitments' = 1..1
        /\ commitments' # <<>> /\ Last(commitments').root = req[p].root
    BY <2>1, <2>3, <2>4, InsertKeeps DEF BaseInv, n
  <2>6. \A h \in Handles : Eligible(h)' = Eligible(h)
    BY <2>1 DEF Eligible, IsStaged, Exists
  <2>7. \A l : TableLocals("cm_mark", l)'
    BY <2>1, <2>2, <2>4, <2>5, <2>6 DEF TableLocals, AheadPCs
  <2>8. at' = "cm_mark"
    BY <2>1, MoveTo
  <2>9. \A i \in DOMAIN commitments' : ~(i < Len(commitments'))
    BY <2>5
  <2> QED
    BY <2>1, <2>2, <2>7, <2>8, <2>9 DEF Tabled
<1>7. CASE CommitMark(p)
  <2>1. UNCHANGED <<loaded, commitments, snaps>> /\ loaded /\ at' = "idle"
    BY <1>7, <1>c, MoveTo DEF CommitMark
  <2>2. /\ commitments # <<>> /\ req[p].idx + 1 = n /\ req[p].root = Last(commitments).root
        /\ Len(snaps) = n
        /\ \A h \in Handles : Last(commitments).root[h] =
             IF handles[h].root # NoRoot \/ Eligible(h) THEN handles[h].spk ELSE NoSpk
    BY <1>7, <1>c DEF CommitMark, AheadPCs, TableLocals, RowLocals, n
  <2>3. /\ n # 0 /\ Last(commitments) = commitments[n] /\ req[p].root # NoRoot
        /\ req[p].idx \in Nat
    BY <1>c, <2>2, LastRoot DEF BaseInv, n, Request
  <2>4. \A h \in Handles :
          IF Eligible(h)
          THEN /\ handles'[h].root = req[p].root /\ handles'[h].idx = req[p].idx
               /\ handles'[h].spk = handles[h].spk
          ELSE handles'[h] = handles[h]
    BY <1>7 DEF CommitMark, BaseInv, TypeOK, Row
  <2>5. \A i \in 1..n : i < n => Binds(i)'
    <3> SUFFICES ASSUME NEW i \in 1..n, i < n
                 PROVE  Binds(i)'
      OBVIOUS
    <3>1. Binds(i)
      BY <1>i DEF Tabled, n
    <3>2. \A h \in Handles : Eligible(h) => ~InRoot(h, i) /\ ~InRoot(h, i)'
      BY <1>i, <1>s, <2>2, <2>3, <2>4 DEF InRoot
    <3> QED
      BY <2>1, <2>4, <3>1, <3>2 DEF Binds, InRoot
  <2>6. \A m : m = n => Binds(m)'
    <3> SUFFICES ASSUME NEW m, m = n, NEW h \in Handles
                 PROVE  Last(commitments).root[h] =
                          IF InRoot(h, m)' THEN handles'[h].spk ELSE NoSpk
      BY <2>1, <2>3 DEF Binds
    <3>1. CASE Eligible(h)
      BY <1>i, <2>1, <2>2, <2>3, <2>4, <3>1 DEF InRoot
    <3>2. CASE ~Eligible(h)
      <4>1. InRoot(h, n) <=> handles[h].root # NoRoot
        BY <1>i DEF InRoot
      <4> QED
        BY <2>1, <2>2, <2>4, <3>2, <4>1 DEF InRoot
    <3> QED
      BY <3>1, <3>2
  <2>7. \A i \in DOMAIN commitments' : Binds(i)'
    BY <1>i, <2>1, <2>5, <2>6
  <2> QED
    BY <1>i, <2>1, <2>2, <2>3, <2>7, TableIdle DEF n
<1> QED
  BY <1>1, <1>2, <1>3, <1>4, <1>5, <1>6, <1>7 DEF CommitLocal

LEMMA RollbackKeepsTable ==
    ASSUME BaseInv, OneAtATime, RowInv, Chained, Tabled, NEW p \in Procs, RollbackLocal(p)
    PROVE  Tabled'
<1> USE DEF tables, chain, faults, Done
<1> DEFINE n == Len(commitments)
<1>c. /\ TableLocals(pc[p], req[p]) /\ TreeLocals(pc[p], req[p])
      /\ (pc[p] # "idle" => loaded)
      /\ (loaded /\ pc[p] \notin AheadPCs => InStep)
  BY TableCarried, TreeCarried
<1>i. /\ n \in Nat /\ DOMAIN commitments = 1..n
      /\ \A h \in Handles : handles[h].idx \in Nat
      /\ \A h \in Handles : handles[h].root # NoRoot =>
           /\ handles[h].idx + 1 \in 1..n
           /\ commitments[handles[h].idx + 1].root = handles[h].root
  BY CommittedIdx DEF BaseInv
<1> HIDE DEF n
<1>1. CASE RollbackBegin(p)
  <2>1. UNCHANGED <<loaded, handles, commitments, snaps>> /\ pc[p] \in EvenPCs
    BY <1>1 DEF RollbackBegin, Starts, EvenPCs
  <2>2. \E label \in EvenPCs : \E local : With(p, label, local)
    BY <1>1 DEF RollbackBegin, EvenPCs
  <2> QED
    BY <2>1, <2>2, TableLeave
<1>2. CASE RollbackTree(p)
  <2>1. /\ loaded /\ InStep /\ MayRollback /\ req[p].root = Last(commitments).root
        /\ Len(snaps) = n /\ UNCHANGED <<loaded, handles, commitments>>
        /\ Binds(n)
    BY <1>2, <1>c DEF RollbackTree, TreeLocals, TableLocals, AheadPCs, MayRollback, n
  <2>2. n # 0 /\ snaps[n] = req[p].root /\ DOMAIN snaps = 1..n
    BY <2>1, TipIsTree, LenProperties DEF MayRollback, BaseInv, TypeOK
  <2>3. snaps' = SubSeq(snaps, 1, n - 1) /\ With(p, "rb_unstage", NoRequest)
    <3>1. PICK i \in DOMAIN snaps :
                 /\ IsNewest(i, req[p].root) /\ snaps' = SubSeq(snaps, 1, i - 1)
                 /\ With(p, "rb_unstage", NoRequest)
      BY <1>2, <1>i, <2>2 DEF RollbackTree
    <3>2. i = n
      BY <1>i, <2>2, <3>1 DEF IsNewest
    <3> QED
      BY <3>1, <3>2
  <2>4. Len(snaps') = n - 1
    <3>1. n - 1 \in Nat /\ n - 1 <= Len(snaps)
      BY <1>i, <2>1, <2>2
    <3> QED
      BY <2>3, <3>1, PrefixKeeps, Zenon DEF BaseInv, TypeOK
  <2>5. \A i : Binds(i)' = Binds(i)
    BY <2>1 DEF Binds, InRoot
  <2>6. Len(snaps') + 1 = n /\ Len(commitments') = n
    BY <1>i, <2>1, <2>4 DEF n
  <2>7. \A l : TableLocals("rb_unstage", l)'
    <3>1. \A m : m = n => Binds(m)'
      BY <2>1, <2>5
    <3> QED
      BY <2>6, <3>1 DEF TableLocals, AheadPCs
  <2>8. at' = "rb_unstage"
    BY <2>3, MoveTo
  <2>9. \A i \in DOMAIN commitments' : i < Len(commitments') => Binds(i)'
    BY <2>1, <2>5 DEF Tabled
  <2> QED
    BY <2>1, <2>7, <2>8, <2>9 DEF Tabled
<1>3. CASE RollbackUnstage(p)
  <2>1. loaded /\ Ahead /\ Len(snaps) + 1 = n
    BY <1>3, <1>c DEF RollbackUnstage, TreeLocals, TableLocals, AheadPCs, n
  <2>2. /\ With(p, "rb_delete", NoRequest) /\ UNCHANGED <<loaded, commitments, snaps>>
        /\ Unstage(Last(commitments).root)
    BY <1>3, <2>1 DEF RollbackUnstage, MayRollback, Ahead
  <2>3. Last(commitments) = commitments[n] /\ Last(commitments).root # NoRoot
    BY <2>1, LastRoot DEF Ahead, BaseInv, n
  <2>4. \A h \in Handles :
          /\ handles[h].root = Last(commitments).root => handles'[h].root = NoRoot
          /\ handles[h].root # Last(commitments).root => handles'[h] = handles[h]
    BY <2>2, UnstageRows DEF BaseInv
  <2>5. \A h \in Handles : handles[h].root = Last(commitments).root =>
          handles[h].idx + 1 = n
    <3> SUFFICES ASSUME NEW h \in Handles, handles[h].root = Last(commitments).root
                 PROVE  handles[h].idx + 1 = n
      OBVIOUS
    <3> DEFINE i == handles[h].idx + 1
    <3>1. i \in 1..n /\ commitments[i].root = commitments[n].root
      BY <1>i, <2>3
    <3>2. i < n => Ledger!Grows(commitments[i].root, commitments[n].root)
      BY <1>i, <3>1 DEF Chained, Nested
    <3>3. ~(i < n)
      BY <3>1, <3>2 DEF Ledger!Grows
    <3> HIDE DEF i
    <3>4. i = n
      BY <1>i, <3>1, <3>3
    <3> QED
      BY <3>4 DEF i
  <2>6. \A i \in 1..n : i < n => Binds(i)'
    <3> SUFFICES ASSUME NEW i \in 1..n, i < n
                 PROVE  Binds(i)'
      OBVIOUS
    <3>1. Binds(i)
      BY <1>i DEF Tabled, n
    <3>2. \A h \in Handles : handles[h].root = Last(commitments).root =>
            ~InRoot(h, i) /\ ~InRoot(h, i)'
      BY <1>i, <2>4, <2>5 DEF InRoot
    <3> QED
      BY <2>2, <2>4, <3>1, <3>2 DEF Binds, InRoot
  <2>7. Len(snaps') + 1 = Len(commitments') /\ Len(commitments') = n
    BY <2>1, <2>2 DEF n
  <2>8. at' = "rb_delete" /\ \A l : TableLocals("rb_delete", l)'
    BY <2>2, <2>7, MoveTo DEF TableLocals, AheadPCs
  <2>9. \A i \in DOMAIN commitments' : i < Len(commitments') => Binds(i)'
    BY <1>i, <2>2, <2>6, <2>7
  <2> QED
    BY <2>1, <2>2, <2>8, <2>9 DEF Tabled
<1>4. CASE RollbackDelete(p)
  <2>1. /\ loaded /\ Ahead /\ Len(snaps) + 1 = n /\ UNCHANGED <<loaded, handles, snaps>>
        /\ commitments' = Front(commitments) /\ With(p, "idle", NoRequest)
    BY <1>4, <1>c DEF RollbackDelete, TreeLocals, TableLocals, AheadPCs, n
  <2>2. /\ commitments' \in Seq(Commitment) /\ Len(commitments') = n - 1 /\ n # 0
        /\ \A i \in 1..(n - 1) : commitments'[i] = commitments[i]
    BY <2>1, FrontKeeps, LastRoot DEF BaseInv, TypeOK, Ahead, n
  <2>3. DOMAIN commitments' = 1..(n - 1)
    BY <2>2, LenProperties
  <2>4. \A i \in 1..(n - 1) : Binds(i)
    BY <1>i DEF Tabled, n
  <2>5. \A i \in DOMAIN commitments' : Binds(i)'
    BY <2>1, <2>2, <2>3, <2>4 DEF Binds, InRoot
  <2>6. commitments' # <<>> => Len(commitments') \in DOMAIN commitments'
    BY <2>2, EmptySeq, LenProperties
  <2>7. Len(snaps') = Len(commitments')
    <3>1. Len(snaps) \in Nat
      BY LenProperties DEF BaseInv, TypeOK
    <3> QED
      BY <1>i, <2>1, <2>2, <3>1
  <2>8. at' = "idle"
    BY <2>1, MoveTo
  <2> QED
    BY <2>1, <2>5, <2>6, <2>7, <2>8, TableIdle
<1> QED
  BY <1>1, <1>2, <1>3, <1>4 DEF RollbackLocal

\* Receipts and txids are not what table and tree agree on.
LEMMA RecordedBinds ==
    ASSUME TypeOK, Recorded(commitments, commitments'), UNCHANGED <<handles, snaps>>
    PROVE  /\ DOMAIN commitments' = DOMAIN commitments
           /\ Len(commitments') = Len(commitments)
           /\ \A i \in DOMAIN commitments : Binds(i) => Binds(i)'
           /\ \A label, l : TableLocals(label, l) => TableLocals(label, l)'
<1>1. /\ DOMAIN commitments' = DOMAIN commitments /\ Len(commitments') = Len(commitments)
      /\ (commitments' = <<>>) <=> (commitments = <<>>)
      /\ \A i \in DOMAIN commitments : commitments'[i].root = commitments[i].root
  BY RecordedKeeps
<1>2. commitments # <<>> => /\ Last(commitments').root = Last(commitments).root
                            /\ Len(commitments) \in DOMAIN commitments
  BY RecordedKeeps, LastRoot
<1>3. \A i \in DOMAIN commitments : Binds(i) => Binds(i)'
  BY <1>1 DEF Binds, InRoot
<1>4. CurrentTree' = CurrentTree /\ \A h : Eligible(h)' = Eligible(h)
  BY DEF CurrentTree, EmptyTree, Eligible, IsStaged, Exists
<1>5. \A label, l : TableLocals(label, l) => TableLocals(label, l)'
  <2> SUFFICES ASSUME NEW label, NEW l, TableLocals(label, l)
               PROVE  TableLocals(label, l)'
    OBVIOUS
  <2>1. label \notin {"cm_tree", "cm_mark", "rb_delete"} /\ commitments' # <<>> =>
          Binds(Len(commitments))'
    <3>1. label \notin {"cm_tree", "cm_mark", "rb_delete"} /\ commitments' # <<>> =>
            Binds(Len(commitments)) /\ Len(commitments) \in DOMAIN commitments
      BY <1>1, <1>2 DEF TableLocals
    <3>2. \A m : m = Len(commitments) /\ m \in DOMAIN commitments /\ Binds(m) => Binds(m)'
      BY <1>3
    <3> QED
      BY <1>1, <3>1, <3>2
  <2>2. label \in {"cm_tree", "cm_mark"} =>
         \A h \in Handles : Last(commitments').root[h] =
             IF handles'[h].root # NoRoot \/ Eligible(h)' THEN handles'[h].spk ELSE NoSpk
    <3>1. CASE commitments # <<>>
      BY <1>2, <1>4, <3>1 DEF TableLocals
    <3>2. CASE commitments = <<>>
      BY <1>1, <1>4, <3>2 DEF TableLocals
    <3> QED
      BY <3>1, <3>2
  <2> QED
    BY <1>1, <1>4, <2>1, <2>2 DEF TableLocals
<1> QED
  BY <1>1, <1>3, <1>5

LEMMA BroadcastKeepsTable ==
    ASSUME BaseInv, OneAtATime, Tabled, NEW p \in Procs, Broadcast(p)
    PROVE  Tabled'
<1> USE DEF tables, chain, faults, Done
<1>1. CASE BroadcastBegin(p) \/ BroadcastLast(p) \/ BroadcastSend(p) \/ BumpBegin(p)
  <2>1. UNCHANGED <<loaded, handles, commitments, snaps>> /\ pc[p] \in EvenPCs
    BY <1>1 DEF BroadcastBegin, BroadcastLast, BroadcastSend, BumpBegin, Starts, EvenPCs
  <2>2. \E label \in EvenPCs : \E local : With(p, label, local)
    BY <1>1 DEF BroadcastBegin, BroadcastLast, BroadcastSend, BumpBegin, EvenPCs
  <2> QED
    BY <2>1, <2>2, TableLeave
<1>2. CASE BroadcastStore(p) \/ BumpStore(p)
  <2>1. loaded /\ UNCHANGED <<loaded, handles, snaps>>
    BY <1>2, TableCarried DEF BroadcastStore, BumpStore
  <2>2. /\ DOMAIN commitments' = DOMAIN commitments /\ Len(commitments') = Len(commitments)
        /\ \A i \in DOMAIN commitments : Binds(i) => Binds(i)'
    BY <1>2, <2>1, TxidRecorded, RecordedBinds DEF BaseInv
  <2>3. \A i \in DOMAIN commitments : Binds(i)
    BY <1>2, AllBind DEF BroadcastStore, BumpStore
  <2>4. Len(snaps) = Len(commitments)
    BY <1>2, TableCarried DEF BroadcastStore, BumpStore, TableLocals, AheadPCs
  <2>5. at' = "idle"
    BY <1>2, MoveTo DEF BroadcastStore, BumpStore
  <2>6. commitments' # <<>> => Len(commitments') \in DOMAIN commitments'
    <3>1. commitments' # <<>> => commitments # <<>>
      BY <1>2, TxidRecorded, RecordedKeeps DEF BaseInv
    <3> QED
      BY <2>2, <3>1, LastRoot DEF BaseInv
  <2> QED
    BY <2>1, <2>2, <2>3, <2>4, <2>5, <2>6, TableIdle
<1> QED
  BY <1>1, <1>2 DEF Broadcast

LEMMA ChainKeepsTable ==
    ASSUME BaseInv, Tabled, SaveStepReceipt \/ SaveFoldReceipt \/ Confirm \/ Finalize
    PROVE  Tabled'
<1> USE DEF tables, chain, faults
<1>1. UNCHANGED <<loaded, handles, snaps, pc, req>>
  BY DEF SaveStepReceipt, SaveFoldReceipt, Confirm, Finalize
<1>2. Recorded(commitments, commitments') /\ (loaded \/ commitments' = commitments)
  BY ReceiptRecorded, SameRecorded
     DEF SaveStepReceipt, SaveFoldReceipt, Confirm, Finalize, BaseInv
<1>3. at' = at /\ my' = my
  BY <1>1 DEF at, my
<1> QED
  BY <1>1, <1>2, <1>3, RecordedBinds DEF Tabled, BaseInv

\* Without a fault the space is loaded once, empty.
LEMMA FaultsKeepTable ==
    ASSUME BaseInv, Tabled, NoFault',
           \/ Crash \/ LoadAllSpaces \/ LoadOrCreateSpace \/ LoadOrCreateCrash
           \/ \E p \in Procs : Abort(p)
    PROVE  Tabled'
<1> USE DEF tables, chain, faults
<1>1. LoadOrCreateSpace
  BY BoundsAreNatural DEF Crash, LoadAllSpaces, LoadOrCreateCrash, Abort, NoFault,
                          BaseInv, TypeOK
<1>2. loaded' /\ UNCHANGED <<handles, commitments, snaps, pc, req>>
  BY <1>1 DEF LoadOrCreateSpace, Orphaned, MayRollback, Tabled
<1>3. at' = at /\ my' = my
  BY <1>2 DEF at, my
<1> QED
  BY <1>2, <1>3, TableSame DEF Tabled

LEMMA NextKeepsTable ==
    ASSUME OneAtATime, BaseInv, RowInv, TreeInv, TableInv, [Next]_vars
    PROVE  TableInv'
<1> SUFFICES ASSUME NoFault'
             PROVE  Tabled'
  BY DEF TableInv
<1>1. NoFault
  BY FaultsGrow, BoundsAreNatural DEF NoFault, BaseInv, TypeOK
<1>2. Tabled /\ Chained
  BY <1>1 DEF TableInv, TreeInv, NoFault, Sound
<1>3. CASE UNCHANGED vars
  <2>1. UNCHANGED <<loaded, handles, commitments, snaps>> /\ at' = at /\ my' = my
    BY <1>3 DEF vars, tables, at, my
  <2> QED
    BY <1>2, <2>1, TableSame DEF Tabled
<1>4. CASE Next
  BY <1>2, <1>4, AddKeepsTable, ParkKeepsTable, CommitKeepsTable, RollbackKeepsTable,
     BroadcastKeepsTable, ChainKeepsTable, FaultsKeepTable, ParkersOperate
     DEF Next, Procs
<1> QED
  BY <1>3, <1>4

LEMMA InitTable ==
    ASSUME OneAtATime, Init
    PROVE  TableInv
<1>1. commitments = <<>> /\ snaps = <<>> /\ Len(snaps) = 0 /\ Len(commitments) = 0
  BY EmptySeq DEF Init
<1>2. at = "idle" /\ \A l : TableLocals("idle", l)
  BY <1>1, OneProc DEF Init, at, TableLocals, AheadPCs
<1> QED
  BY <1>1, <1>2 DEF TableInv, Tabled

\* With one request at a time and while nothing has failed, table and tree
\* agree between requests: a handle is in the tree exactly when its row is
\* committed, with the row's key, so every staged handle can still be
\* committed (add_request, commit_local, rollback_local, remove_staged).
THEOREM TableAgrees ==
    ASSUME OneAtATime
    PROVE  Spec => []TreeMatchesTable
<1> DEFINE Inv == BaseInv /\ GrowthInv /\ RowInv /\ TreeInv
<1>1. Init => TableInv
  BY InitTable
<1>2. Inv /\ TableInv /\ [Next]_vars => TableInv'
  BY NextKeepsTable
<1>3. ASSUME Inv, TableInv
      PROVE  TreeMatchesTable
  <2> SUFFICES ASSUME Quiet, NoFault, NEW h \in Handles
               PROVE  CurrentTree[h] =
                        IF handles[h].root # NoRoot THEN handles[h].spk ELSE NoSpk
    BY DEF TreeMatchesTable, NoFault
  <2>1. loaded /\ pc[Op] = "idle" /\ Op \in Procs
    BY OneProc DEF Quiet, OneAtATime, Procs
  <2>2. Tabled /\ Chained
    BY <1>3 DEF TableInv, TreeInv, NoFault, Sound
  <2>3. InStep
    BY <1>3, <2>1, <2>2, TreeCarried DEF AheadPCs
  <2>4. /\ commitments # <<>> => Binds(Len(commitments))
        /\ Len(snaps) = Len(commitments)
    BY <1>3, <2>1, <2>2, TableCarried DEF TableLocals, AheadPCs
  <2>5. /\ Len(commitments) \in Nat
        /\ handles[h].root # NoRoot =>
             InRoot(h, Len(commitments)) /\ handles[h].idx + 1 \in 1..Len(commitments)
    BY <1>3, CommittedIdx DEF BaseInv
  <2>6. CASE commitments = <<>>
    <3>1. Len(commitments) = 0
      BY <2>6, EmptySeq
    <3>2. snaps = <<>> /\ handles[h].root = NoRoot
      BY <1>3, <2>4, <2>5, <3>1, EmptySeq DEF BaseInv, TypeOK
    <3> QED
      BY <3>2 DEF CurrentTree, EmptyTree
  <2>7. CASE commitments # <<>>
    <3>1. Last(commitments).root = CurrentTree
          /\ Last(commitments) = commitments[Len(commitments)]
      BY <1>3, <2>3, <2>7, TipIsTree, LastRoot DEF BaseInv
    <3>2. InRoot(h, Len(commitments)) <=> handles[h].root # NoRoot
      BY <2>5 DEF InRoot
    <3> QED
      BY <2>4, <2>7, <3>1, <3>2 DEF Binds
  <2> QED
    BY <2>6, <2>7
<1>4. Spec => []Inv
  BY TreeInvariant
<1> HIDE DEF Inv
<1> QED
  BY <1>1, <1>2, <1>3, <1>4, PTL DEF Spec

-----------------------------------------------------------------------------
(***************************************************************************)
(* The pipeline view.  Its counts are of finite sets; that only a first    *)
(* commitment has no prev_root makes its rules and the handlers' the same. *)
(***************************************************************************)
ProofsThere == NextProof = "none"

LEMMA ProofsCounted ==
    ASSUME TypeOK
    PROVE  /\ (PendingProofs = 0) = ProofsThere
           /\ ProofIndex <= ProofTotal
           /\ ProofsThere <=> StepsMissing = {} /\ FoldsMissing = {}
<1>1. Len(commitments) \in Nat /\ DOMAIN commitments = 1..Len(commitments)
  BY LenProperties DEF TypeOK
<1>2. IsFiniteSet(StepsMissing) /\ IsFiniteSet(FoldsMissing)
  <2>1. IsFiniteSet(DOMAIN commitments)
    BY <1>1, FS_Interval
  <2>2. StepsMissing \in SUBSET DOMAIN commitments /\ FoldsMissing \in SUBSET DOMAIN commitments
    BY DEF StepsMissing, FoldsMissing
  <2> QED
    BY <2>1, <2>2, FS_Subset
<1>3. /\ Cardinality(StepsMissing) \in Nat /\ Cardinality(FoldsMissing) \in Nat
      /\ Cardinality(StepsMissing) = 0 <=> StepsMissing = {}
      /\ Cardinality(FoldsMissing) = 0 <=> FoldsMissing = {}
  BY <1>2, FS_CardinalityType, FS_EmptySet
<1>4. ProofsThere <=> StepsMissing = {} /\ FoldsMissing = {}
  BY DEF ProofsThere, NextProof
<1>5. PendingProofs = 0 <=> StepsMissing = {} /\ FoldsMissing = {}
  BY <1>3 DEF PendingProofs
<1>6. NextProof = "fold" => Len(commitments) >= 3
  BY <1>1 DEF NextProof, FoldsMissing
<1>7. ProofIndex <= ProofTotal
  BY <1>6 DEF ProofIndex, ProofTotal
<1> QED
  BY <1>4, <1>5, <1>7

LEMMA HandlesCounted ==
    ASSUME TypeOK, CommittedRowsProvable, IsFiniteSet(Handles), commitments = <<>>
    PROVE  CommittedCount = 0 /\ TotalHandles = Cardinality({h \in Handles : Exists(h)})
<1> DEFINE Free   == {h \in Handles : Eligible(h)}
           Parked == {h \in Handles : IsStaged(h) /\ handles[h].parked}
           There  == {h \in Handles : Exists(h)}
<1>1. \A h \in Handles : handles[h].root = NoRoot
  BY DEF CommittedRowsProvable
<1>2. {h \in Handles : Exists(h) /\ handles[h].root # NoRoot} = {}
  BY <1>1
<1>3. CommittedCount = 0
  BY <1>2, FS_EmptySet DEF CommittedCount
<1>4. There = Free \cup Parked /\ Free \cap Parked = {}
  BY <1>1 DEF Eligible, IsStaged
<1>5. Free \in SUBSET Handles /\ Parked \in SUBSET Handles
  OBVIOUS
<1>6. StagedCount = Cardinality(Free) /\ ParkedCount = Cardinality(Parked)
  BY DEF StagedCount, ParkedCount
<1> HIDE DEF Free, Parked, There
<1>7. IsFiniteSet(Free) /\ IsFiniteSet(Parked)
  BY <1>5, FS_Subset
<1>8. Cardinality(Free) \in Nat /\ Cardinality(Parked) \in Nat
  BY <1>7, FS_CardinalityType
<1>9. Cardinality(There) = Cardinality(Free) + Cardinality(Parked)
  <2>1. Cardinality(Free \cap Parked) = 0
    BY <1>4, FS_EmptySet
  <2>2. Cardinality(Free \cup Parked) =
          Cardinality(Free) + Cardinality(Parked) - Cardinality(Free \cap Parked)
    BY <1>7, FS_Union
  <2> QED
    BY <1>4, <1>8, <2>1, <2>2
<1>10. TotalHandles = Cardinality(There)
  BY <1>3, <1>6, <1>8, <1>9 DEF TotalHandles
<1> QED
  BY <1>3, <1>10 DEF There

LEMMA OfferIsTaken ==
    ASSUME TypeOK, Numbered, NEW marked \in BOOLEAN
    PROVE  LET current == Current(marked)
           IN /\ current = "broadcast" => MayBroadcast
              /\ (current \in {"confirmed", "finalized"}) =
                   (CommitStatus \in {"pending", "confirmed"})
              /\ IF HasPending(marked)
                 THEN Len(commitments) > 1 => ~CanCommitLocal
                 ELSE ~StagedCount0 /\ StepState(marked, "proving") # "in_progress"
                        => CanCommitLocal
<1> DEFINE n == Len(commitments)
<1>1. CASE commitments = <<>>
  BY <1>1 DEF Current, CommitStatus, HasPending, CanCommitLocal
<1>2. CASE commitments # <<>>
  <2>1. n \in Nat /\ n \in DOMAIN commitments /\ Last(commitments) = commitments[n]
    BY <1>2, LastRoot
  <2>2. commitments[n].prev = NoRoot <=> n = 1
    BY <2>1 DEF Numbered
  <2>3. Proven /\ n # 1 => Last(commitments).step /\ HasProof(n)
    <3>1. n # 1 => n >= 2
      BY <1>2, LastRoot
    <3>2. Proven /\ n # 1 => StepsMissing = {} /\ FoldsMissing = {}
      BY <2>1, <3>1, ProofsCounted DEF Proven, ProofsThere
    <3>3. Proven /\ n # 1 => commitments[n].step /\ (n >= 3 => commitments[n].agg)
      BY <2>1, <3>1, <3>2 DEF StepsMissing, FoldsMissing
    <3> HIDE DEF n
    <3>4. n >= 2 => n = 2 \/ n >= 3
      BY <2>1
    <3>5. Proven /\ n # 1 => commitments[n].step /\ (commitments[n].agg \/ n = 2)
      BY <3>1, <3>3, <3>4, Zenon
    <3>6. Proven /\ n # 1 => HasProof(n)
      BY <3>5, Zenon DEF HasProof
    <3>7. Proven /\ n # 1 => Last(commitments).step
      BY <2>1, <3>5, Zenon
    <3> QED
      BY <3>6, <3>7
  <2>4. Current(marked) = "broadcast" => MayBroadcast
    BY <1>2, <2>1, <2>2, <2>3 DEF Current, MayBroadcast
  <2>5. (Current(marked) \in {"confirmed", "finalized"}) =
          (CommitStatus \in {"pending", "confirmed"})
    BY <1>2 DEF Current, CommitStatus
  <2>6. HasPending(marked) <=> ~(Last(commitments).txid /\ OnChain /\ final)
    BY <1>2 DEF HasPending, Current
  <2>7. HasPending(marked) /\ n > 1 => ~CanCommitLocal
    BY <1>2, <2>1, <2>6 DEF CanCommitLocal, OnChain
  <2>8. ASSUME ~HasPending(marked), ~StagedCount0, StepState(marked, "proving") # "in_progress"
        PROVE  CanCommitLocal
    <3>1. n # 1 => Proven
      BY <1>2, <2>8 DEF StepState
    <3> QED
      BY <1>2, <2>1, <2>2, <2>3, <2>6, <2>8, <3>1 DEF CanCommitLocal, OnChain
  <2> QED
    BY <2>4, <2>5, <2>7, <2>8
<1> QED
  BY <1>1, <1>2

\* With one request at a time the pipeline view offers what the handlers
\* accept, whatever the history, proofs and faults: app.rs computes it from
\* the index of the last commitment, the handlers from its prev_root, and
\* for every state the operator can reach the two agree.
THEOREM PipelineFollows ==
    ASSUME OneAtATime, IsFiniteSet(Handles)
    PROVE  Spec => []PipelineAgrees
<1>1. BaseInv /\ RowInv => PipelineAgrees
  <2> SUFFICES ASSUME BaseInv, RowInv
               PROVE  PipelineAgrees
    OBVIOUS
  <2>1. TypeOK /\ Numbered /\ CommittedRowsProvable
    BY DEF BaseInv, RowInv
  <2> QED
    BY <2>1, ProofsCounted, HandlesCounted, OfferIsTaken DEF PipelineAgrees, ProofsThere
<1>2. Spec => [](BaseInv /\ RowInv)
  BY RowInvariant
<1> QED
  BY <1>1, <1>2, PTL

=============================================================================
