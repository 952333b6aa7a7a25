-------------------------- MODULE RegistryLoopProofs --------------------------
(***************************************************************************)
(* What RegistryLoop keeps for any handles, keys and users, any number of  *)
(* commitments, any sizes of messages and any budget of faults: its types, *)
(* what the marks of rows and the certificates on the relays say of the    *)
(* space, and the registry's promise to whoever asks for a handle.         *)
(***************************************************************************)
EXTENDS RegistryLoop, SequenceTheorems, FiniteSetTheorems, TLAPS

-----------------------------------------------------------------------------
(* Sequences.                                                              *)

\* A prefix has the asked length and the same elements.
LEMMA PrefixKeeps ==
    ASSUME NEW S, NEW s \in Seq(S), NEW n \in Nat, n <= Len(s)
    PROVE  /\ SubSeq(s, 1, n) \in Seq(S)
           /\ Len(SubSeq(s, 1, n)) = n
           /\ \A i \in 1..n : SubSeq(s, 1, n)[i] = s[i]
<1>1. Len(s) \in Nat
  BY LenProperties
<1> QED
  BY <1>1, SMT

\* The commitments with the newest one withdrawn.
LEMMA FrontKeeps ==
    ASSUME NEW S, NEW s \in Seq(S), Len(s) > 0
    PROVE  /\ Front(s) \in Seq(S)
           /\ Len(Front(s)) = Len(s) - 1
           /\ \A i \in 1..(Len(s) - 1) : Front(s)[i] = s[i]
<1>1. Len(s) \in Nat
  BY LenProperties
<1>2. Len(s) - 1 \in Nat /\ Len(s) - 1 <= Len(s)
  BY <1>1
<1> QED
  BY <1>2, PrefixKeeps, Zenon DEF Front

\* Elements replaced in place: a function on a sequence's domain is one.
LEMMA SameDomain ==
    ASSUME NEW S, NEW T, NEW s \in Seq(S), NEW f \in [DOMAIN s -> T]
    PROVE  f \in Seq(T) /\ Len(f) = Len(s) /\ DOMAIN f = DOMAIN s
<1>1. Len(s) \in Nat /\ DOMAIN s = 1..Len(s)
  BY LenProperties
<1> QED
  BY <1>1, SMT

\* A registration taken out of the intake.
LEMMA RemoveAtKeeps ==
    ASSUME NEW S, NEW s \in Seq(S), NEW i \in DOMAIN s
    PROVE  RemoveAt(s, i) \in Seq(S)
<1>1. Len(s) \in Nat /\ DOMAIN s = 1..Len(s)
  BY LenProperties
<1>2. SubSeq(s, 1, i - 1) \in Seq(S) /\ SubSeq(s, i + 1, Len(s)) \in Seq(S)
  BY <1>1, SMT
<1> QED
  BY <1>2, ConcatProperties DEF RemoveAt

-----------------------------------------------------------------------------
(***************************************************************************)
(* The base invariant: types, and what makes them inductive.  A label with *)
(* no row has nothing else either; the commitment the chain shows was      *)
(* sent, so no rollback reaches it; and what a sync has pulled stays where *)
(* it was in the registry's list.                                          *)
(***************************************************************************)
NoRows  == \A h \in Handles : ~Exists(h) => rows[h] = NoRow
TipSent == tip > 0 => commits[tip].sent
TodoInv == \A p \in Tasks : \A i \in sync[p].todo : i \in DOMAIN regs /\ regs[i].h \in Handles

TableInv == TableType /\ NoRows /\ TipSent
RegInv   == RegType /\ TodoInv

\* What no step does to the rows: a handle in the tip's tree keeps its key
\* and its place, the tip does not go back, and a row is never marked
\* (publish_certs apart).
TreeKept ==
    /\ tip <= tip'
    /\ \A h \in Handles : InTree(h, tip) =>
         rows'[h].spk = rows[h].spk /\ rows'[h].idx = rows[h].idx
MarksFade == \A h \in Handles : rows'[h].pub \in {rows[h].pub, "no"}

LEMMA RowTypes ==
    /\ NoRow \in Row
    /\ \A s \in Spks : Staged(s) \in Row /\ Staged(s).spk = s /\ Staged(s).pub = "no"
                       /\ Staged(s).idx = 0 /\ Staged(s).spk # NoSpk
    /\ NoRow.spk = NoSpk /\ NoRow.idx = 0 /\ NoRow.pub = "no"
  BY TableAssumption DEF NoRow, Row, Staged

\* What is replaced in a commitment leaves it one.
LEMMA CommitFields ==
    ASSUME NEW c \in Commit
    PROVE  /\ \A n \in 0..2 : [c EXCEPT !.proofs = n] \in Commit
           /\ [c EXCEPT !.marked = TRUE] \in Commit
           /\ [c EXCEPT !.marked = TRUE].sent = c.sent
           /\ [c EXCEPT !.sent = TRUE] \in Commit
           /\ c.sent \in BOOLEAN
  BY Zenon DEF Commit

LEMMA SpendKeeps ==
    ASSUME left \in Budget,
           \/ Spend("commits") \/ Spend("requests") \/ Spend("regs") \/ Spend("faults")
           \/ UNCHANGED left
    PROVE  left' \in Budget
<1>1. CASE Spend("commits")
  BY <1>1 DEF Spend, Budget
<1>2. CASE Spend("requests")
  BY <1>2 DEF Spend, Budget
<1>3. CASE Spend("regs")
  BY <1>3 DEF Spend, Budget
<1>4. CASE Spend("faults")
  BY <1>4 DEF Spend, Budget
<1> QED
  BY <1>1, <1>2, <1>3, <1>4

\* Staging a name that has no row, by hand or by a sync.
LEMMA StageKeeps ==
    ASSUME TableInv, NEW h \in Handles, NEW s \in Spks, ~Exists(h), Stage(h, s),
           UNCHANGED <<commits, nextId, tip, left>>
    PROVE  TableInv' /\ TreeKept /\ MarksFade
<1>1. rows' = [rows EXCEPT ![h] = Staged(s)] /\ rows \in [Handles -> Row]
  BY DEF Stage, TableInv, TableType
<1>2. TableType'
  BY <1>1, RowTypes DEF TableInv, TableType
<1>3. NoRows' /\ TipSent'
  BY <1>1, RowTypes DEF TableInv, NoRows, TipSent, Exists
<1>4. rows[h] = NoRow
  BY DEF TableInv, NoRows
<1>5. TreeKept /\ MarksFade
  BY <1>1, <1>4, RowTypes DEF TreeKept, MarksFade, InTree, TableInv, TableType, Row
<1> QED
  BY <1>2, <1>3, <1>5 DEF TableInv

\* Every step of the operator's handlers, the proofs and the chain.
LEMMA TableSteps ==
    ASSUME TableInv, TableNext
    PROVE  TableInv' /\ TreeKept /\ MarksFade
<1> USE DEF TableInv, TableType, Newest
<1>0. Len(commits) \in Nat /\ DOMAIN commits = 1..Len(commits) /\ tip \in Nat
  BY LenProperties
<1>1. CASE AddRequest
  <2>1. PICK h \in Handles, s \in Spks : ~Exists(h) /\ Stage(h, s)
    BY <1>1 DEF AddRequest, Budget
  <2> QED
    BY <1>1, <2>1, StageKeeps DEF AddRequest
<1>2. CASE RemoveStaged
  <2>1. PICK S \in SUBSET {h \in Handles : IsStaged(h)} :
          rows' = [h \in Handles |-> IF h \in S THEN NoRow ELSE rows[h]]
    BY <1>2 DEF RemoveStaged
  <2>2. TableType' /\ TipSent' /\ tip <= tip'
    BY <1>0, <1>2, <2>1, RowTypes DEF RemoveStaged, TipSent
  <2>3. NoRows'
    BY <2>1 DEF NoRows, Exists
  <2>4. TreeKept /\ MarksFade
    BY <1>0, <2>1, <2>2, RowTypes DEF TreeKept, MarksFade, InTree, IsStaged, Row
  <2> QED
    BY <2>2, <2>3, <2>4
<1>3. CASE CommitLocal
  <2>1. PICK S \in SUBSET {h \in Handles : IsStaged(h)} :
          rows' = [h \in Handles |-> IF h \in S THEN [rows[h] EXCEPT !.idx = Newest + 1]
                                                ELSE rows[h]]
    BY <1>3 DEF CommitLocal
  <2> DEFINE c == [id |-> nextId, proofs |-> 0, sent |-> FALSE, marked |-> FALSE]
  <2>2. c \in Commit /\ commits' = Append(commits, c) /\ nextId' \in Nat
    BY <1>3 DEF CommitLocal, Commit
  <2> HIDE DEF c
  <2>3. /\ commits' \in Seq(Commit) /\ Len(commits') = Len(commits) + 1
        /\ \A i \in 1..Len(commits) : commits'[i] = commits[i]
    BY <2>2, AppendProperties
  <2>4. rows' \in [Handles -> Row]
    <3>1. \A h \in Handles : [rows[h] EXCEPT !.idx = Newest + 1] \in Row
      BY <1>0 DEF Row
    <3> QED
      BY <2>1, <3>1
  <2>5. left' \in Budget /\ tip' = tip
    BY <1>3, SpendKeeps DEF CommitLocal
  <2>6. TableType' /\ TipSent'
    BY <1>0, <2>2, <2>3, <2>4, <2>5 DEF TipSent
  <2>7. NoRows'
    BY <2>1 DEF NoRows, Exists, IsStaged, Row
  <2>8. TreeKept /\ MarksFade
    BY <1>0, <2>1, <2>5 DEF TreeKept, MarksFade, InTree, IsStaged, Row
  <2> QED
    BY <2>6, <2>7, <2>8
<1>4. CASE RollbackLocal
  <2>1. /\ rows' = [h \in Handles |-> IF rows[h].idx = Newest
                                      THEN [rows[h] EXCEPT !.idx = 0] ELSE rows[h]]
        /\ commits' = Front(commits) /\ UNCHANGED <<nextId, tip, left>>
        /\ Len(commits) > 0 /\ ~commits[Len(commits)].sent
    BY <1>4 DEF RollbackLocal
  <2>2. tip < Len(commits)
    BY <1>0, <2>1 DEF TipSent
  <2>3. TableType' /\ TipSent'
    <3>1. rows' \in [Handles -> Row]
      BY <2>1 DEF Row
    <3>2. commits' \in Seq(Commit) /\ Len(commits') = Len(commits) - 1
          /\ \A i \in 1..(Len(commits) - 1) : commits'[i] = commits[i]
      BY <2>1, FrontKeeps
    <3> QED
      BY <1>0, <2>1, <2>2, <3>1, <3>2 DEF TipSent
  <2>4. NoRows'
    BY <2>1, RowTypes DEF NoRows, Exists, Row
  <2>5. TreeKept /\ MarksFade
    BY <1>0, <2>1, <2>2 DEF TreeKept, MarksFade, InTree, Row
  <2> QED
    BY <2>3, <2>4, <2>5
<1>5. CASE SaveReceipt
  <2>1. PICK i \in DOMAIN commits : /\ commits[i].proofs < Needs(i)
                                    /\ commits' = [commits EXCEPT ![i].proofs = @ + 1]
    BY <1>5 DEF SaveReceipt
  <2>2. commits[i] \in Commit
    BY <1>0, <2>1, ElementOfSeq
  <2>3. Needs(i) \in 0..2
    BY DEF Needs
  <2>4. [commits[i] EXCEPT !.proofs = @ + 1] \in Commit
    <3>1. commits[i].proofs \in 0..2
      BY <2>2, Zenon DEF Commit
    <3>2. commits[i].proofs + 1 \in 0..2
      BY <2>1, <2>3, <3>1
    <3> QED
      BY <2>2, <3>2, CommitFields
  <2>5. \A j \in DOMAIN commits : commits'[j].sent = commits[j].sent
    BY <1>0, <2>1, <2>2 DEF Commit
  <2>6. commits' \in [DOMAIN commits -> Commit]
    BY <1>0, <2>1, <2>4, ElementOfSeq
  <2> QED
    BY <1>0, <1>5, <2>5, <2>6, SameDomain
    DEF SaveReceipt, TipSent, TreeKept, MarksFade, NoRows, Exists, InTree
<1>6. CASE Broadcast
  <2>1. /\ Len(commits) \in DOMAIN commits
        /\ commits' = [commits EXCEPT ![Len(commits)].sent = TRUE]
    BY <1>0, <1>6 DEF Broadcast
  <2>2. commits[Len(commits)] \in Commit
    BY <1>0, <2>1, ElementOfSeq
  <2>3. \A j \in DOMAIN commits : commits[j].sent => commits'[j].sent
    BY <1>0, <2>1, <2>2 DEF Commit
  <2>4. [commits[Len(commits)] EXCEPT !.sent = TRUE] \in Commit
    BY <2>2 DEF Commit
  <2>5. commits' \in [DOMAIN commits -> Commit]
    BY <1>0, <2>1, <2>4, ElementOfSeq
  <2> QED
    BY <1>0, <1>6, <2>3, <2>5, SameDomain
    DEF Broadcast, TipSent, TreeKept, MarksFade, NoRows, Exists, InTree
<1>7. CASE Confirm
  <2> USE DEF Confirm, table
  <2>0. tip' = Len(commits) /\ commits[Len(commits)].sent
        /\ UNCHANGED <<rows, commits, nextId, left>>
    BY <1>7, Zenon
  <2>1. tip' = Len(commits) /\ tip <= tip' /\ UNCHANGED <<rows, commits, nextId, left>>
    BY <1>0, <2>0
  <2>2. TableType'
    BY <1>0, <2>1
  <2>3. NoRows'
    BY <2>1 DEF NoRows, Exists
  <2>4. TipSent'
    BY <2>0, Zenon DEF TipSent
  <2> QED
    BY <2>1, <2>2, <2>3, <2>4 DEF TreeKept, MarksFade
<1> QED
  BY <1>1, <1>2, <1>3, <1>4, <1>5, <1>6, <1>7 DEF TableNext

-----------------------------------------------------------------------------
(* The registry and the cycle against it.                                  *)

\* The list only grows, and who asked for what stays.
RegsKept ==
    \A i \in DOMAIN regs : /\ i \in DOMAIN regs'
                           /\ regs'[i].h = regs[i].h /\ regs'[i].spk = regs[i].spk

LEMMA SyncTypes ==
    /\ NoOutcome \in Outcomes /\ NoSync \in Sync /\ NoSync.todo = {} /\ NoSync.out = NoOutcome
    /\ NoSync.told = {}
    /\ \A out \in Outcomes, n \in Names, o \in {"none", "staged", "committed", "rejected"} :
         [out EXCEPT ![n] = o] \in Outcomes
  BY DEF NoOutcome, Outcomes, NoSync, Sync

\* A task goes on with s; what it still has to stage is in the list.
LEMMA SyncMoves ==
    ASSUME RegInv, NEW p \in Tasks, NEW s \in Sync, SetSync(p, s), RegsKept,
           s.todo \subseteq sync[p].todo
    PROVE  sync' \in [Tasks -> Sync] /\ TodoInv'
<1>1. sync' \in [Tasks -> Sync]
  BY DEF RegInv, RegType, SetSync
<1>2. \A q \in Tasks : sync'[q].todo \subseteq sync[q].todo
  BY DEF RegInv, RegType, SetSync
<1> QED
  BY <1>1, <1>2 DEF RegInv, TodoInv, RegsKept

LEMMA AckOrEndMoves ==
    ASSUME RegInv, NEW p \in Tasks, NEW s \in Sync, AckOrEnd(p, s), RegsKept
    PROVE  sync' \in [Tasks -> Sync] /\ TodoInv'
<1>1. CASE s.out = NoOutcome
  BY <1>1, SyncMoves, SyncTypes DEF AckOrEnd
<1>2. CASE s.out # NoOutcome
  <2>1. SetSync(p, [s EXCEPT !.pc = "ack", !.todo = {}])
    BY <1>2 DEF AckOrEnd
  <2>2. [s EXCEPT !.pc = "ack", !.todo = {}] \in Sync
        /\ [s EXCEPT !.pc = "ack", !.todo = {}].todo = {}
    BY DEF Sync
  <2> QED
    BY <2>1, <2>2, SyncMoves
<1> QED
  BY <1>1, <1>2

\* An ack or a notification changes statuses in place.
LEMMA RegsRewritten ==
    ASSUME RegInv,
           \/ \E out \in Outcomes : AckHandles(out)
           \/ \E names \in SUBSET Handles, root \in Nat : Committed(names, root)
    PROVE  regs' \in Seq(Reg) /\ DOMAIN regs' = DOMAIN regs /\ RegsKept
<1> USE DEF RegInv, RegType, RegsKept
<1>1. \A i \in DOMAIN regs : regs[i] \in Reg
  BY ElementOfSeq, LenProperties
<1>2. CASE \E out \in Outcomes : AckHandles(out)
  <2>1. PICK out \in Outcomes : AckHandles(out)
    BY <1>2
  <2>2. \A i \in DOMAIN regs : out[regs[i].h] # "none" =>
          [regs[i] EXCEPT !.status = out[regs[i].h]] \in Reg
    BY <1>1 DEF Outcomes, Reg, Status
  <2>3. regs' \in [DOMAIN regs -> Reg]
    BY <1>1, <2>1, <2>2 DEF AckHandles
  <2>4. \A i \in DOMAIN regs : regs'[i].h = regs[i].h /\ regs'[i].spk = regs[i].spk
    BY <1>1, <2>1 DEF AckHandles, Reg
  <2> QED
    BY <2>3, <2>4, SameDomain
<1>3. CASE \E names \in SUBSET Handles, root \in Nat : Committed(names, root)
  <2>1. PICK names \in SUBSET Handles, root \in Nat : Committed(names, root)
    BY <1>3
  <2>2. \A i \in DOMAIN regs :
          [regs[i] EXCEPT !.status = "committed", !.root = root] \in Reg
    BY <1>1 DEF Reg, Status
  <2>3. regs' \in [DOMAIN regs -> Reg]
    BY <1>1, <2>1, <2>2 DEF Committed
  <2>4. \A i \in DOMAIN regs : regs'[i].h = regs[i].h /\ regs'[i].spk = regs[i].spk
    BY <1>1, <2>1 DEF Committed, Reg
  <2> QED
    BY <2>3, <2>4, SameDomain
<1> QED
  BY <1>2, <1>3

\* A pull settles the names that are none and leaves the others to stage.
LEMMA PullKeeps ==
    ASSUME RegInv, NEW p \in Tasks, Pull(p)
    PROVE  RegInv'
<1> USE DEF RegInv, RegType
<1> DEFINE good == {i \in Pending : regs[i].h \in Handles}
           bad == {regs[i].h : i \in Pending \ good}
           out == [n \in Names |-> IF n \in bad THEN "rejected" ELSE "none"]
           s == [NoSync EXCEPT !.todo = good, !.out = out]
<1>1. DOMAIN regs \subseteq Nat
  BY LenProperties
<1>2. good \subseteq Nat /\ out \in Outcomes
  BY <1>1 DEF Pending, Outcomes
<1>3. s \in Sync /\ [s EXCEPT !.pc = "stage"] \in Sync
      /\ [s EXCEPT !.pc = "stage"].todo = good
  BY <1>2 DEF Sync, NoSync
<1>4. RegsKept /\ UNCHANGED <<regs, intake, late>>
  BY DEF Pull, RegsKept
<1>5. CASE good = {}
  BY <1>3, <1>4, <1>5, AckOrEndMoves DEF Pull
<1>6. CASE good # {}
  <2>1. SetSync(p, [s EXCEPT !.pc = "stage"])
    BY <1>6 DEF Pull
  <2>2. sync' \in [Tasks -> Sync]
    BY <1>3, <2>1 DEF SetSync
  <2>3. \A q \in Tasks : sync'[q].todo \in {good, sync[q].todo}
    BY <1>3, <2>1 DEF SetSync
  <2>4. TodoInv'
    BY <1>4, <2>3 DEF TodoInv, Pending
  <2> QED
    BY <1>4, <2>2, <2>4
<1> QED
  BY <1>5, <1>6

\* One request is staged, or skipped with an outcome.
LEMMA StageOneKeeps ==
    ASSUME RegInv, TableInv, NEW p \in Tasks, StageOne(p)
    PROVE  RegInv' /\ TableInv' /\ TreeKept /\ MarksFade
<1> USE DEF RegInv, RegType
<1>1. PICK i \in sync[p].todo :
        LET a == regs[i]
            s == [sync[p] EXCEPT !.todo = @ \ {i},
                    !.out[a.h] = IF ~Exists(a.h) THEN "staged"
                                 ELSE IF @ = "none" THEN OutcomeOf(a) ELSE @]
        IN /\ IF Exists(a.h) THEN UNCHANGED rows ELSE Stage(a.h, a.spk)
           /\ IF s.todo = {} THEN AckOrEnd(p, s) ELSE SetSync(p, s)
  BY DEF StageOne
<1> DEFINE a == regs[i]
           o == IF ~Exists(a.h) THEN "staged"
                ELSE IF sync[p].out[a.h] = "none" THEN OutcomeOf(a) ELSE sync[p].out[a.h]
           s == [sync[p] EXCEPT !.todo = @ \ {i}, !.out[a.h] = o]
<1>2. i \in DOMAIN regs /\ a.h \in Handles /\ a \in Reg /\ a.spk \in Spks
  <2>1. i \in DOMAIN regs /\ a.h \in Handles
    BY Zenon DEF TodoInv
  <2>2. a \in Reg
    BY <2>1, ElementOfSeq, LenProperties
  <2> QED
    BY <2>1, <2>2 DEF Reg
<1>3. UNCHANGED <<commits, nextId, tip, left, regs, intake, late>> /\ RegsKept
  BY DEF StageOne, RegsKept
<1>4. sync[p] \in Sync /\ sync[p].out \in Outcomes /\ a.h \in Names
  BY <1>2 DEF Sync, Names
<1>5. o \in {"none", "staged", "committed", "rejected"}
  BY <1>4 DEF OutcomeOf, Outcomes
<1> HIDE DEF o
<1>6. s \in Sync /\ s.todo \subseteq sync[p].todo
  BY <1>4, <1>5 DEF Sync, Outcomes
<1>7. IF s.todo = {} THEN AckOrEnd(p, s) ELSE SetSync(p, s)
  BY <1>1 DEF o
<1>8. RegInv'
  BY <1>3, <1>6, <1>7, AckOrEndMoves, SyncMoves
<1>9. CASE Exists(a.h)
  <2>1. UNCHANGED <<rows, commits, nextId, tip, left>>
    BY <1>1, <1>3, <1>9
  <2> QED
    BY <1>8, <2>1
    DEF TableInv, TableType, NoRows, TipSent, Exists, TreeKept, MarksFade, InTree
<1>10. CASE ~Exists(a.h)
  BY <1>1, <1>2, <1>3, <1>8, <1>10, StageKeeps
<1> QED
  BY <1>9, <1>10

\* What else a task may do against the registry leaves the space alone.
SyncAside(p) ==
    \/ StageFails(p) \/ SendAck(p) \/ AckFails(p) \/ PullFails(p)
    \/ NotifyRead(p) \/ NotifySend(p) \/ SyncDropped(p)

LEMMA SyncAsideKeeps ==
    ASSUME RegInv, TableType, NEW p \in Tasks, SyncAside(p)
    PROVE  RegInv'
<1> USE DEF RegInv, RegType
<1>1. sync[p] \in Sync /\ sync[p].out \in Outcomes /\ sync[p].root \in Nat
      /\ sync[p].told \in SUBSET Handles
  BY DEF Sync
<1>2. UNCHANGED regs => RegsKept
  BY DEF RegsKept
<1>3. CASE StageFails(p)
  <2> DEFINE s == [sync[p] EXCEPT !.out = [n \in Names |-> IF n \in BadNames THEN @[n]
                                                          ELSE "none"]]
  <2>1. s \in Sync
    BY <1>1 DEF Sync, Outcomes
  <2>2. AckOrEnd(p, s)
    BY <1>3 DEF StageFails
  <2> QED
    BY <1>2, <1>3, <2>1, <2>2, AckOrEndMoves DEF StageFails
<1>4. CASE SendAck(p)
  <2>1. regs' \in Seq(Reg) /\ RegsKept
    BY <1>1, <1>4, RegsRewritten DEF SendAck
  <2> QED
    BY <1>4, <2>1, SyncMoves, SyncTypes DEF SendAck
<1>5. CASE AckFails(p)
  BY <1>1, <1>2, <1>5, SyncMoves, SyncTypes DEF AckFails
<1>6. CASE PullFails(p)
  BY <1>6 DEF PullFails, regVars, TodoInv
<1>7. CASE NotifyRead(p)
  <2>1. PICK i \in DOMAIN commits :
          LET told == {h \in Handles : rows[h].idx = i}
          IN SetSync(p, [NoSync EXCEPT !.pc = "notify", !.told = told,
                                       !.root = commits[i].id])
    BY <1>7 DEF NotifyRead, HandlesOf
  <2> DEFINE s == [NoSync EXCEPT !.pc = "notify", !.told = {h \in Handles : rows[h].idx = i},
                                 !.root = commits[i].id]
  <2>2. commits[i] \in Commit
    BY ElementOfSeq, LenProperties DEF TableType
  <2>3. commits[i].id \in Nat
    BY <2>2, Zenon DEF Commit
  <2>4. s \in Sync /\ s.todo = {}
    BY <2>3, SyncTypes DEF Sync, NoSync
  <2> QED
    BY <1>2, <1>7, <2>1, <2>4, SyncMoves DEF NotifyRead
<1>8. CASE NotifySend(p)
  <2>1. regs' \in Seq(Reg) /\ RegsKept
    BY <1>1, <1>8, RegsRewritten DEF NotifySend
  <2> QED
    BY <1>8, <2>1, SyncMoves, SyncTypes DEF NotifySend
<1>9. CASE SyncDropped(p)
  BY <1>2, <1>9, SyncMoves, SyncTypes DEF SyncDropped
<1> QED
  BY <1>3, <1>4, <1>5, <1>6, <1>7, <1>8, <1>9 DEF SyncAside

\* The registry's own steps.
LEMMA RegistryKeeps ==
    ASSUME RegInv, left \in Budget, RegisterCheck \/ RegisterPush \/ LateAck
    PROVE  RegInv' /\ RegsKept
<1> USE DEF RegInv, RegType
<1>1. CASE RegisterCheck
  <2>1. PICK n \in left.names, s \in left.spks : intake' = Append(intake, [h |-> n, spk |-> s])
    BY <1>1 DEF RegisterCheck
  <2>2. [h |-> n, spk |-> s] \in Ask
    BY DEF Budget, Ask
  <2>3. intake' \in Seq(Ask)
    BY <2>1, <2>2, AppendProperties
  <2> QED
    BY <1>1, <2>3 DEF RegisterCheck, RegsKept, TodoInv
<1>2. CASE RegisterPush
  <2>1. PICK i \in DOMAIN intake :
          /\ regs' = Append(regs, [h |-> intake[i].h, spk |-> intake[i].spk,
                                   status |-> "pending", root |-> 0])
          /\ intake' = RemoveAt(intake, i)
    BY <1>2 DEF RegisterPush
  <2>2. intake[i] \in Ask
    BY ElementOfSeq, LenProperties
  <2> DEFINE r == [h |-> intake[i].h, spk |-> intake[i].spk, status |-> "pending", root |-> 0]
  <2>3. r \in Reg
    BY <2>2 DEF Ask, Reg, Status
  <2> HIDE DEF r
  <2>4. /\ regs' = Append(regs, r) /\ regs' \in Seq(Reg) /\ Len(regs') = Len(regs) + 1
        /\ \A j \in 1..Len(regs) : regs'[j] = regs[j]
    BY <2>1, <2>3, AppendProperties DEF r
  <2>5. RegsKept
    BY <2>4, LenProperties DEF RegsKept
  <2> QED
    BY <1>2, <2>1, <2>4, <2>5, RemoveAtKeeps DEF RegisterPush, RegsKept, TodoInv
<1>3. CASE LateAck
  <2>1. PICK out \in late : AckHandles(out) /\ late' = late \ {out}
    BY <1>3 DEF LateAck
  <2>2. regs' \in Seq(Reg) /\ RegsKept
    BY <2>1, RegsRewritten
  <2> QED
    BY <1>3, <2>1, <2>2 DEF LateAck, RegsKept, TodoInv
<1> QED
  BY <1>1, <1>2, <1>3

-----------------------------------------------------------------------------
(***************************************************************************)
(* Publishers.  The tip a publisher works with is not ahead of the chain;  *)
(* what it holds for final is in that tip's tree, so in every later one;   *)
(* final certificates in its hands already hold; and once a batch is out,  *)
(* each of its names has a certificate, final ones for the final marks.    *)
(***************************************************************************)
PubTypes == net \subseteq Cert /\ last \in [certs: Nat, bytes: Nat] /\ job \in [Tasks -> Job]

CertHolds(c) == rows[c.h].spk = c.spk /\ InTree(c.h, tip)
Covered(j, S) ==
    /\ \A h \in j.batch : \E c \in S : c.h = h
    /\ \A h \in j.ready : FinalCert(h) \in S

JobOK(j) ==
    /\ j.at <= tip
    /\ j.ready \subseteq j.batch
    /\ \A h \in j.ready : InTree(h, j.at)
    /\ \A c \in j.certs : c.kind = "final" => CertHolds(c)
    /\ j.pc = "send" => Covered(j, j.certs)
    /\ j.pc \in {"temp", "final"} => Covered(j, net)

MarksInv == FinalIsProvable /\ CertsHold /\ MarkedWasSent
JobsInv  == \A p \in Tasks, j \in Job : job[p] = j => JobOK(j)
PubInv   == PubTypes /\ JobsInv /\ MarksInv

LEMMA JobTypes ==
    ASSUME TableType
    PROVE  NoJob \in Job /\ JobOK(NoJob)
  BY DEF NoJob, Job, PubPCs, TableType, JobOK

LEMMA StaysInTree ==
    ASSUME TableType, TableType', TreeKept, NEW h \in Handles, NEW t \in 0..tip, InTree(h, t)
    PROVE  InTree(h, t)' /\ InTree(h, tip) /\ InTree(h, tip)' /\ rows'[h].spk = rows[h].spk
<1>1. rows[h].idx \in Nat /\ rows'[h].idx \in Nat /\ tip \in Nat /\ tip' \in Nat
  BY LenProperties DEF TableType, Row
<1> QED
  BY <1>1 DEF InTree, TreeKept

\* Whatever the others do, what a publisher holds stays true.
LEMMA JobsKept ==
    ASSUME TableType, TableType', TreeKept, net \subseteq net', NEW j \in Job, JobOK(j)
    PROVE  JobOK(j)'
<1>1. tip \in Nat /\ tip' \in Nat /\ j.at \in 0..tip
  BY LenProperties DEF TableType, Job, JobOK
<1>2. j.batch \subseteq Handles /\ j.ready \subseteq Handles /\ j.certs \subseteq Cert
  BY DEF Job, JobOK
<1>3. j.at <= tip'
  BY <1>1 DEF TreeKept
<1>4. \A h \in j.ready : InTree(h, j.at)' /\ FinalCert(h)' = FinalCert(h)
  BY <1>1, <1>2, StaysInTree DEF JobOK, FinalCert
<1>5. \A c \in j.certs : c.kind = "final" => CertHolds(c)'
  <2> SUFFICES ASSUME NEW c \in j.certs, c.kind = "final"
               PROVE  CertHolds(c)'
    OBVIOUS
  <2>1. CertHolds(c) /\ c.h \in Handles
    BY <1>2 DEF JobOK, Cert
  <2> QED
    BY <1>1, <2>1, StaysInTree DEF CertHolds
<1>6. j.pc = "send" => Covered(j, j.certs)'
  BY <1>4 DEF JobOK, Covered
<1>7. j.pc \in {"temp", "final"} => Covered(j, net)'
  BY <1>4 DEF JobOK, Covered
<1> QED
  BY <1>3, <1>4, <1>5, <1>6, <1>7 DEF JobOK

\* Steps that mark no row and send nothing.
LEMMA MarksKept ==
    ASSUME TableType, TableType', TreeKept, MarksFade, UNCHANGED net,
           net \subseteq Cert, MarksInv
    PROVE  MarksInv'
<1>1. tip \in 0..tip
  BY LenProperties DEF TableType
<1>2. FinalIsProvable'
  <2> SUFFICES ASSUME NEW h \in Handles, rows'[h].pub = "final"
               PROVE  InTree(h, tip)' /\ FinalCert(h)' \in net
    BY DEF FinalIsProvable, FinalCert
  <2>1. rows[h].pub = "final"
    BY DEF MarksFade
  <2>2. InTree(h, tip) /\ FinalCert(h) \in net
    BY <2>1 DEF MarksInv, FinalIsProvable, FinalCert
  <2> QED
    BY <1>1, <2>2, StaysInTree DEF FinalCert
<1>3. CertsHold'
  <2> SUFFICES ASSUME NEW c \in net, c.kind = "final"
               PROVE  rows'[c.h].spk = c.spk /\ InTree(c.h, tip)'
    BY DEF CertsHold
  <2>1. rows[c.h].spk = c.spk /\ InTree(c.h, tip) /\ c.h \in Handles
    BY DEF MarksInv, CertsHold, Cert
  <2> QED
    BY <1>1, <2>1, StaysInTree
<1>4. MarkedWasSent'
  BY DEF MarksInv, MarkedWasSent, MarksFade
<1> QED
  BY <1>2, <1>3, <1>4 DEF MarksInv

LEMMA PubBeside ==
    ASSUME PubInv, TableType, TableType', TreeKept, MarksFade, UNCHANGED pubVars
    PROVE  PubInv'
<1>1. UNCHANGED <<net, last, job>>
  BY DEF pubVars
<1>2. \A j \in Job : JobOK(j) => JobOK(j)'
  BY <1>1, JobsKept
<1> QED
  BY <1>1, <1>2, MarksKept DEF PubInv, PubTypes, JobsInv

\* A publisher goes on with j.
LEMMA JobMoves ==
    ASSUME PubInv, TableType, TableType', TreeKept, net \subseteq net', net' \subseteq Cert,
           last' \in [certs: Nat, bytes: Nat], MarksInv',
           NEW p \in Tasks, NEW j \in Job, JobOK(j)', job' = [job EXCEPT ![p] = j]
    PROVE  PubInv'
<1>1. job' \in [Tasks -> Job]
  BY DEF PubInv, PubTypes
<1>2. \A k \in Job : JobOK(k) => JobOK(k)'
  BY JobsKept
<1>3. \A q \in Tasks : job'[q] \in {j, job[q]} /\ job[q] \in Job
  BY DEF PubInv, PubTypes
<1>4. JobsInv'
  <2> SUFFICES ASSUME NEW q \in Tasks, NEW k \in Job, job'[q] = k
               PROVE  JobOK(k)'
    BY DEF JobsInv
  <2>1. CASE k = j
    BY <2>1
  <2>2. CASE k = job[q]
    BY <1>2, <2>2 DEF PubInv, JobsInv
  <2> QED
    BY <1>3, <2>1, <2>2
<1> QED
  BY <1>1, <1>4 DEF PubInv, PubTypes

\* Steps that leave the space alone, reset stale marks, or mark rows.
LEMMA TableSame ==
    ASSUME TableInv, UNCHANGED <<table, tip>>, left' \in Budget
    PROVE  TableInv' /\ TreeKept /\ MarksFade
<1>1. UNCHANGED <<rows, commits, nextId, tip>> /\ tip \in Nat
  BY LenProperties DEF table, TableInv, TableType
<1> QED
  BY <1>1 DEF TableInv, TableType, NoRows, TipSent, Exists, TreeKept, MarksFade

LEMMA ResetKeeps ==
    ASSUME TableInv, NEW t \in Nat, ResetStale(t), UNCHANGED <<commits, nextId, tip, left>>
    PROVE  TableInv' /\ TreeKept /\ MarksFade
<1> USE DEF TableInv, TableType
<1>1. tip \in Nat
  BY LenProperties
<1>2. rows' \in [Handles -> Row]
  BY DEF ResetStale, Row
<1>3. NoRows' /\ TipSent'
  BY RowTypes DEF ResetStale, Row, NoRows, Exists, TipSent
<1>4. \A h \in Handles : /\ rows'[h].spk = rows[h].spk /\ rows'[h].idx = rows[h].idx
                         /\ rows'[h].pub \in {rows[h].pub, "no"}
  BY DEF ResetStale, Row
<1>5. TreeKept /\ MarksFade
  BY <1>1, <1>4 DEF TreeKept, MarksFade
<1> QED
  BY <1>2, <1>3, <1>5

LEMMA MarkKeeps ==
    ASSUME TableInv, NEW S, NEW pub \in {"temp", "final"}, NEW at \in Nat, Mark(S, pub, at),
           UNCHANGED <<commits, nextId, tip, left>>
    PROVE  /\ TableInv' /\ TreeKept
           /\ \A h \in Handles : rows'[h].pub # rows[h].pub => h \in S /\ rows'[h].pub = pub
<1> USE DEF TableInv, TableType
<1>1. tip \in Nat
  BY LenProperties
<1>2. rows' \in [Handles -> Row]
  BY DEF Mark, Row
<1>3. NoRows' /\ TipSent'
  BY DEF Mark, Row, NoRows, Exists, TipSent
<1>4. \A h \in Handles : rows'[h].spk = rows[h].spk /\ rows'[h].idx = rows[h].idx
  BY DEF Mark, Row
<1>5. TreeKept
  BY <1>1, <1>4 DEF TreeKept
<1>6. \A h \in Handles : rows'[h].pub # rows[h].pub => h \in S /\ rows'[h].pub = pub
  BY DEF Mark, Row
<1> QED
  BY <1>2, <1>3, <1>5, <1>6

-----------------------------------------------------------------------------
(***************************************************************************)
(* Batch sizes: what next_batch_size answers, and that it shrinks.         *)
(***************************************************************************)
LEMMA Quotient ==
    ASSUME NEW n \in Nat, NEW d \in Nat \ {0}
    PROVE  n \div d \in Nat /\ d * (n \div d) <= n
  BY SMT

LEMMA BudgetType ==
    SizeBudget \in Nat
<1>1. RelayMax * BudgetPercent \in Nat
  BY PublishingAssumption
<1> QED
  BY <1>1, Quotient DEF SizeBudget

LEMMA BatchSizeType ==
    ASSUME NEW m \in [certs: Nat, bytes: Nat]
    PROVE  BatchSize(m, BatchCeiling) \in 1..BatchCeiling
<1>1. m.certs \in Nat /\ m.bytes \in Nat /\ m.certs * SizeBudget \in Nat
  BY BudgetType
<1>2. m.bytes > 0 => (m.certs * SizeBudget) \div m.bytes \in Nat
  BY <1>1, Quotient
<1> DEFINE q == (m.certs * SizeBudget) \div m.bytes
<1> HIDE DEF q
<1>3. m.bytes > 0 => q \in Nat
  BY <1>2 DEF q
<1>4. AssumedBatch \in Nat \ {0} /\ BatchCeiling \in Nat \ {0}
  BY PublishingAssumption
<1>5. BatchSize(m, BatchCeiling) =
        AtLeast(AtMost(IF m.certs > 0 /\ m.bytes > 0 THEN AtLeast(q, 1)
                       ELSE AssumedBatch, BatchCeiling), 1)
  BY DEF BatchSize, q
<1> QED
  BY <1>1, <1>3, <1>4, <1>5 DEF AtLeast, AtMost

LEMMA BatchMessage ==
    ASSUME NEW S \in SUBSET Handles
    PROVE  Cardinality(S) \in Nat /\ Message(Cardinality(S)) \in [certs: Nat, bytes: Nat]
<1>1. Cardinality(S) \in Nat
  BY FS_Subset, FS_CardinalityType, TableAssumption
<1> DEFINE n == Cardinality(S)
<1> HIDE DEF n
<1>2. n \in Nat => RootSize + n * CertSize \in Nat
  BY PublishingAssumption
<1> QED
  BY <1>1, <1>2 DEF Message, n

-----------------------------------------------------------------------------
(***************************************************************************)
(* The steps of a publisher.  p goes on with one of its labels in hand.    *)
(***************************************************************************)
\* A publisher reads only, and goes on with j or stops.
LEMMA ReadKeeps ==
    ASSUME TableInv, PubInv, UNCHANGED <<table, tip, net>>, left' \in Budget,
           last' \in [certs: Nat, bytes: Nat], NEW p \in Tasks, NEW j \in Job, JobOK(j),
           Set(p, j) \/ Stop(p)
    PROVE  TableInv' /\ TreeKept /\ PubInv'
<1>1. TableInv' /\ TreeKept /\ MarksFade
  BY TableSame
<1>2. JobOK(j)' /\ JobOK(NoJob)' /\ NoJob \in Job
  BY <1>1, JobsKept, JobTypes DEF TableInv
<1>3. MarksInv'
  BY <1>1, MarksKept DEF TableInv, PubInv, PubTypes
<1>4. job' = [job EXCEPT ![p] = j] \/ job' = [job EXCEPT ![p] = NoJob]
  BY DEF Set, Stop
<1>5. net' = net /\ net \subseteq Cert
  BY DEF PubInv, PubTypes
<1> QED
  BY <1>1, <1>2, <1>3, <1>4, <1>5, JobMoves DEF TableInv

\* Rows or a commitment are marked, and p goes on with j or stops.
LEMMA WriteKeeps ==
    ASSUME TableInv, PubInv, TableInv', TreeKept, MarksFade \/ MarksInv',
           UNCHANGED <<net, last>>,
           NEW p \in Tasks, NEW j \in Job, JobOK(j), Set(p, j) \/ Stop(p)
    PROVE  PubInv'
<1>1. JobOK(j)' /\ JobOK(NoJob)' /\ NoJob \in Job
  BY JobsKept, JobTypes DEF TableInv
<1>2. MarksInv'
  BY MarksKept DEF TableInv, PubInv, PubTypes
<1>3. job' = [job EXCEPT ![p] = j] \/ job' = [job EXCEPT ![p] = NoJob]
  BY DEF Set, Stop
<1>4. net' = net /\ net \subseteq Cert /\ last' \in [certs: Nat, bytes: Nat]
  BY DEF PubInv, PubTypes
<1> QED
  BY <1>1, <1>2, <1>3, <1>4, JobMoves DEF TableInv

\* publish_certs begins, for the loop or for a request, and so does the view.
LEMMA BeginKeeps ==
    ASSUME TableInv, PubInv, NEW p \in Tasks, NEW only \in SUBSET Handles, Begin(p, only),
           left' \in Budget
    PROVE  TableInv' /\ TreeKept /\ PubInv'
<1> DEFINE j == [NoJob EXCEPT !.pc = "reset", !.at = tip, !.only = only]
<1>1. j \in Job /\ JobOK(j)
  <2>1. tip \in Nat
    BY LenProperties DEF TableInv, TableType
  <2>2. j \in Job /\ j.at = tip /\ j.ready = {} /\ j.certs = {} /\ j.pc = "reset"
    BY <2>1 DEF NoJob, Job, PubPCs
  <2> HIDE DEF j
  <2> QED
    BY <2>1, <2>2 DEF JobOK
<1> QED
  BY <1>1, ReadKeeps DEF Begin, PubInv, PubTypes

LEMMA AskKeeps ==
    ASSUME TableInv, PubInv, NEW p \in Tasks, PipelineAsk(p)
    PROVE  TableInv' /\ TreeKept /\ PubInv'
<1> DEFINE j == [NoJob EXCEPT !.pc = "stale", !.at = Newest]
<1>1. j \in Job /\ JobOK(j)
  <2>1. tip \in Nat /\ tip = Newest
    BY LenProperties DEF TableInv, TableType, PipelineAsk
  <2>2. j \in Job /\ j.at = tip /\ j.ready = {} /\ j.certs = {} /\ j.pc = "stale"
    BY <2>1 DEF NoJob, Job, PubPCs
  <2> HIDE DEF j
  <2> QED
    BY <2>1, <2>2 DEF JobOK
<1>2. left' \in Budget
  BY SpendKeeps DEF PipelineAsk, TableInv, TableType
<1> QED
  BY <1>1, <1>2, ReadKeeps DEF PipelineAsk, PubInv, PubTypes

LEMMA SelectKeeps ==
    ASSUME TableInv, PubInv, NEW p \in Tasks, PublishSelect(p)
    PROVE  TableInv' /\ TreeKept /\ PubInv'
<1> DEFINE limit == IF job[p].only = {} THEN BatchSize(last, BatchCeiling)
                                        ELSE BatchCeiling
           found == IF job[p].only = {} THEN Unpublished(job[p].at)
                                        ELSE {h \in job[p].only : Exists(h)}
           batch == FirstByName(found, limit)
           j == [job[p] EXCEPT !.pc = "issue", !.only = {}, !.limit = limit,
                    !.batch = batch, !.ready = {h \in batch : InTree(h, job[p].at)}]
<1>1. job[p] \in Job /\ JobOK(job[p])
  BY DEF PubInv, PubTypes, JobsInv
<1>2. batch \subseteq Handles
  BY <1>1 DEF FirstByName, Unpublished, Job
<1>3. limit \in Nat
  BY BatchSizeType, PublishingAssumption DEF PubInv, PubTypes
<1> HIDE DEF batch, limit
<1>4. j \in Job /\ j.at = job[p].at /\ j.certs = job[p].certs /\ j.batch = batch
      /\ j.ready = {h \in batch : InTree(h, job[p].at)} /\ j.pc = "issue"
  BY <1>1, <1>2, <1>3 DEF Job, PubPCs
<1> HIDE DEF j
<1>5. JobOK(j)
  BY <1>1, <1>4 DEF JobOK
<1>6. UNCHANGED <<table, tip, net, last, left>> /\ (Set(p, j) \/ Stop(p))
  BY DEF PublishSelect, j, batch, limit
<1> QED
  BY <1>4, <1>5, <1>6, ReadKeeps DEF PubInv, PubTypes, TableInv, TableType

\* What is in the tip's tree gets a final certificate, with the row's key.
LEMMA IssueKeeps ==
    ASSUME TableInv, PubInv, NEW p \in Tasks, PublishIssue(p)
    PROVE  TableInv' /\ TreeKept /\ PubInv'
<1> DEFINE certs == {CertOf(h) : h \in job[p].batch}
           j == [job[p] EXCEPT !.pc = "send", !.certs = certs]
<1>0. UNCHANGED <<table, tip, net, last, left>>
  BY DEF PublishIssue
<1>1. job[p] \in Job /\ JobOK(job[p])
  BY DEF PubInv, PubTypes, JobsInv
<1>2. job[p].batch \subseteq Handles /\ job[p].ready \subseteq job[p].batch
      /\ job[p].at \in 0..tip
  BY <1>1, LenProperties DEF Job, JobOK, TableInv, TableType
<1>3. CASE Set(p, j) /\ \A h \in job[p].batch : Exists(h)
  <2>1. \A h \in job[p].batch : CertOf(h) \in Cert /\ CertOf(h).h = h
                              /\ (CertOf(h).kind = "final" => CertHolds(CertOf(h)))
    BY <1>2, <1>3 DEF CertOf, FinalCert, TempCert, Cert, Exists, CertHolds, TableInv, TableType, Row
  <2>2. \A h \in job[p].ready : CertOf(h) = FinalCert(h)
    <3> SUFFICES ASSUME NEW h \in job[p].ready
                 PROVE  InTree(h, tip)
      BY DEF CertOf, FinalCert
    <3>1. InTree(h, job[p].at) /\ rows[h].idx \in Nat /\ tip \in Nat
      BY <1>1, <1>2, LenProperties DEF JobOK, TableInv, TableType, Row
    <3> QED
      BY <1>2, <3>1 DEF InTree
  <2>3. certs \subseteq Cert
    BY <2>1
  <2> HIDE DEF certs
  <2>4. j \in Job /\ j.at = job[p].at /\ j.certs = certs /\ j.batch = job[p].batch
        /\ j.ready = job[p].ready /\ j.pc = "send"
    BY <1>1, <2>3 DEF Job, PubPCs
  <2> HIDE DEF j
  <2>5. Covered(j, j.certs) /\ \A c \in certs : c.kind = "final" => CertHolds(c)
    BY <1>2, <2>1, <2>2, <2>4 DEF Covered, certs
  <2>6. JobOK(j)
    BY <1>1, <2>4, <2>5 DEF JobOK
  <2> QED
    BY <1>0, <1>3, <2>4, <2>6, ReadKeeps DEF PubInv, PubTypes, TableInv, TableType, j
<1>4. CASE Stop(p)
  BY <1>0, <1>4, JobTypes, ReadKeeps DEF PubInv, PubTypes, TableInv, TableType
<1> QED
  BY <1>3, <1>4 DEF PublishIssue

\* More certificates on the relays, all of them true, break no mark.
LEMMA NetGrows ==
    ASSUME MarksInv, UNCHANGED <<rows, tip>>, NEW S, net' \in {net, net \cup S},
           \A c \in S : c.kind = "final" => CertHolds(c)
    PROVE  MarksInv'
<1>1. FinalIsProvable'
  BY DEF MarksInv, FinalIsProvable, InTree
<1>2. CertsHold'
  BY DEF MarksInv, CertsHold, CertHolds, InTree
<1>3. MarkedWasSent'
  BY DEF MarksInv, MarkedWasSent
<1> QED
  BY <1>1, <1>2, <1>3 DEF MarksInv

\* The batch goes out, is declined, or its exchange fails.
LEMMA SendKeeps ==
    ASSUME TableInv, PubInv, NEW p \in Tasks, PublishSend(p) \/ PublishSendFails(p)
    PROVE  TableInv' /\ TreeKept /\ PubInv'
<1>1. job[p] \in Job /\ JobOK(job[p]) /\ job[p].pc = "send"
  BY DEF PubInv, PubTypes, JobsInv, PublishSend, PublishSendFails, At
<1> DEFINE m == Message(Cardinality(job[p].batch))
           j == [job[p] EXCEPT !.pc = AfterSend(p), !.certs = {}]
<1>2. m \in [certs: Nat, bytes: Nat]
  BY <1>1, BatchMessage DEF Job
<1> HIDE DEF m
<1>3. UNCHANGED <<table, tip>> /\ left' \in Budget /\ last' \in [certs: Nat, bytes: Nat]
  BY <1>2, SpendKeeps DEF PublishSend, PublishSendFails, m, PubInv, PubTypes, TableInv, TableType
<1>4. net' \in {net, net \cup job[p].certs}
  BY DEF PublishSend, PublishSendFails
<1>5. TableInv' /\ TreeKept /\ MarksFade
  BY <1>3, TableSame
<1>6. MarksInv' /\ net \subseteq net' /\ net' \subseteq Cert
  <2>1. \A c \in job[p].certs : c \in Cert /\ (c.kind = "final" => CertHolds(c))
    BY <1>1 DEF JobOK, Job
  <2> QED
    BY <1>3, <1>4, <2>1, NetGrows DEF PubInv, PubTypes, table
<1>7. CASE Stop(p)
  <2>1. NoJob \in Job /\ JobOK(NoJob)'
    BY <1>5, <1>6, JobTypes, JobsKept DEF TableInv
  <2>2. job' = [job EXCEPT ![p] = NoJob]
    BY <1>7 DEF Stop, Set
  <2> QED
    BY <1>3, <1>5, <1>6, <2>1, <2>2, JobMoves DEF TableInv
<1>8. CASE Sent(p) /\ net' = net \cup job[p].certs
  <2>0. PICK k : k = j
    OBVIOUS
  <2>1. k \in Job /\ k.at = job[p].at /\ k.certs = {} /\ k.batch = job[p].batch
        /\ k.ready = job[p].ready /\ k.pc \in {"temp", "final"}
    BY <1>1, <2>0 DEF Job, PubPCs, AfterSend
  <2>2. Covered(job[p], job[p].certs)
    BY <1>1 DEF JobOK
  <2>3. k.at <= tip' /\ k.ready \subseteq k.batch /\ \A h \in k.ready : InTree(h, k.at)'
    BY <1>1, <1>3, <2>1 DEF JobOK, table, InTree
  <2>4. Covered(k, net)'
    BY <1>3, <1>8, <2>1, <2>2 DEF Covered, FinalCert, table
  <2>5. JobOK(k)'
    BY <2>1, <2>3, <2>4 DEF JobOK
  <2>6. job' = [job EXCEPT ![p] = k]
    BY <1>8, <2>0 DEF Sent, Set
  <2> QED
    BY <1>3, <1>5, <1>6, <2>1, <2>5, <2>6, JobMoves DEF TableInv
<1> QED
  BY <1>7, <1>8 DEF PublishSend, PublishSendFails

\* A label that carries nothing to prove.
LEMMA QuietLabel ==
    ASSUME TableType, NEW j \in Job, JobOK(j), NEW label \in {"select", "left", "newest", "stamp"},
           NEW n \in Nat, NEW id \in Nat
    PROVE  /\ [NoJob EXCEPT !.pc = label, !.at = j.at, !.limit = n] \in Job
           /\ JobOK([NoJob EXCEPT !.pc = label, !.at = j.at, !.limit = n])
           /\ [NoJob EXCEPT !.pc = label, !.id = id] \in Job
           /\ JobOK([NoJob EXCEPT !.pc = label, !.id = id])
           /\ [j EXCEPT !.pc = label] \in Job
           /\ JobOK([j EXCEPT !.pc = label])
<1>0. tip \in Nat
  BY LenProperties DEF TableType
<1> DEFINE a == [NoJob EXCEPT !.pc = label, !.at = j.at, !.limit = n]
           b == [NoJob EXCEPT !.pc = label, !.id = id]
           c == [j EXCEPT !.pc = label]
<1>1. a \in Job /\ a.at = j.at /\ a.ready = {} /\ a.certs = {} /\ a.pc = label
  BY DEF NoJob, Job, PubPCs
<1>2. b \in Job /\ b.at = 0 /\ b.ready = {} /\ b.certs = {} /\ b.pc = label
  BY DEF NoJob, Job, PubPCs
<1>3. /\ c \in Job /\ c.at = j.at /\ c.ready = j.ready /\ c.batch = j.batch
      /\ c.certs = j.certs /\ c.pc = label
  BY DEF Job, PubPCs
<1> HIDE DEF a, b, c
<1>4. JobOK(a) /\ JobOK(b) /\ JobOK(c)
  BY <1>0, <1>1, <1>2, <1>3 DEF JobOK
<1> QED
  BY <1>1, <1>2, <1>3, <1>4 DEF a, b, c

\* The rows whose certificates are temporary are marked.
LEMMA MarkTempKeeps ==
    ASSUME TableInv, PubInv, NEW p \in Tasks, PublishMarkTemp(p)
    PROVE  TableInv' /\ TreeKept /\ PubInv'
<1>1. job[p] \in Job /\ JobOK(job[p]) /\ job[p].pc = "temp" /\ Covered(job[p], net)
  BY DEF PubInv, PubTypes, JobsInv, PublishMarkTemp, At, JobOK
<1> DEFINE S == job[p].batch \ job[p].ready
           j == [job[p] EXCEPT !.pc = "final"]
<1>2. Mark(S, "temp", job[p].at) /\ UNCHANGED <<commits, nextId, tip, net, last, left>>
      /\ job[p].at \in Nat /\ (Stop(p) \/ Set(p, j))
  BY <1>1 DEF PublishMarkTemp, Job, Goto
<1>3. TableInv' /\ TreeKept
      /\ \A h \in Handles : rows'[h].pub # rows[h].pub => h \in S /\ rows'[h].pub = "temp"
  BY <1>2, MarkKeeps
<1>4. net \subseteq Cert /\ tip \in 0..tip
  BY LenProperties DEF PubInv, PubTypes, TableInv, TableType
<1>5. FinalIsProvable'
  <2> SUFFICES ASSUME NEW h \in Handles, rows'[h].pub = "final"
               PROVE  InTree(h, tip)' /\ FinalCert(h)' \in net
    BY <1>2 DEF FinalIsProvable, FinalCert
  <2>1. InTree(h, tip) /\ FinalCert(h) \in net
    BY <1>3 DEF PubInv, MarksInv, FinalIsProvable, FinalCert
  <2> QED
    BY <1>3, <1>4, <2>1, StaysInTree DEF FinalCert, TableInv
<1>6. CertsHold'
  <2> SUFFICES ASSUME NEW c \in net, c.kind = "final"
               PROVE  rows'[c.h].spk = c.spk /\ InTree(c.h, tip)'
    BY <1>2 DEF CertsHold
  <2>1. rows[c.h].spk = c.spk /\ InTree(c.h, tip) /\ c.h \in Handles
    BY <1>4 DEF PubInv, MarksInv, CertsHold, Cert
  <2> QED
    BY <1>3, <1>4, <2>1, StaysInTree DEF TableInv
<1>7. MarkedWasSent'
  BY <1>1, <1>2, <1>3 DEF PubInv, MarksInv, MarkedWasSent, Covered
<1>8. j \in Job /\ JobOK(j)
  <2>1. /\ j \in Job /\ j.at = job[p].at /\ j.ready = job[p].ready /\ j.batch = job[p].batch
        /\ j.certs = job[p].certs /\ j.pc = "final"
    BY <1>1 DEF Job, PubPCs
  <2> HIDE DEF j
  <2> QED
    BY <1>1, <2>1 DEF JobOK, Covered
<1>9. MarksInv'
  BY <1>5, <1>6, <1>7 DEF MarksInv
<1> HIDE DEF j
<1> QED
  BY <1>2, <1>3, <1>8, <1>9, WriteKeeps

\* The rows of the tip's tree are marked final: their certificates are out.
LEMMA MarkFinalKeeps ==
    ASSUME TableInv, PubInv, NEW p \in Tasks, PublishMarkFinal(p)
    PROVE  TableInv' /\ TreeKept /\ PubInv'
<1>1. job[p] \in Job /\ JobOK(job[p]) /\ job[p].pc = "final" /\ Covered(job[p], net)
  BY DEF PubInv, PubTypes, JobsInv, PublishMarkFinal, At, JobOK
<1> DEFINE j == [NoJob EXCEPT !.pc = "left", !.at = job[p].at, !.limit = job[p].limit]
<1>2. Mark(job[p].ready, "final", 0) /\ UNCHANGED <<commits, nextId, tip, net, last, left>>
      /\ Set(p, j)
  BY DEF PublishMarkFinal
<1>3. TableInv' /\ TreeKept
      /\ \A h \in Handles : rows'[h].pub # rows[h].pub =>
           h \in job[p].ready /\ rows'[h].pub = "final"
  BY <1>2, MarkKeeps
<1>4. net \subseteq Cert /\ tip \in 0..tip /\ job[p].at \in 0..tip
  BY <1>1, LenProperties DEF PubInv, PubTypes, TableInv, TableType, JobOK, Job
<1>5. FinalIsProvable'
  <2> SUFFICES ASSUME NEW h \in Handles, rows'[h].pub = "final"
               PROVE  InTree(h, tip)' /\ FinalCert(h)' \in net
    BY <1>2 DEF FinalIsProvable, FinalCert
  <2>1. CASE rows[h].pub = "final"
    <3>1. InTree(h, tip) /\ FinalCert(h) \in net
      BY <2>1 DEF PubInv, MarksInv, FinalIsProvable, FinalCert
    <3> QED
      BY <1>3, <1>4, <3>1, StaysInTree DEF FinalCert, TableInv
  <2>2. CASE h \in job[p].ready
    <3>1. InTree(h, job[p].at) /\ FinalCert(h) \in net
      BY <1>1, <2>2 DEF JobOK, Covered
    <3> QED
      BY <1>3, <1>4, <3>1, StaysInTree DEF FinalCert, TableInv
  <2> QED
    BY <1>3, <2>1, <2>2
<1>6. CertsHold'
  <2> SUFFICES ASSUME NEW c \in net, c.kind = "final"
               PROVE  rows'[c.h].spk = c.spk /\ InTree(c.h, tip)'
    BY <1>2 DEF CertsHold
  <2>1. rows[c.h].spk = c.spk /\ InTree(c.h, tip) /\ c.h \in Handles
    BY <1>4 DEF PubInv, MarksInv, CertsHold, Cert
  <2> QED
    BY <1>3, <1>4, <2>1, StaysInTree DEF TableInv
<1>7. MarkedWasSent'
  <2> SUFFICES ASSUME NEW h \in Handles, rows'[h].pub # "no"
               PROVE  \E c \in net : c.h = h
    BY <1>2 DEF MarkedWasSent
  <2>1. CASE rows'[h].pub = rows[h].pub
    BY <2>1 DEF PubInv, MarksInv, MarkedWasSent
  <2>2. CASE h \in job[p].ready
    BY <1>1, <2>2 DEF Covered, JobOK
  <2> QED
    BY <1>3, <2>1, <2>2
<1>8. j \in Job /\ JobOK(j)
  <2>1. TableType /\ job[p].limit \in Nat
    BY <1>1 DEF TableInv, Job
  <2> QED
    BY <1>1, <2>1, QuietLabel
<1> HIDE DEF j
<1>9. MarksInv'
  BY <1>5, <1>6, <1>7 DEF MarksInv
<1> QED
  BY <1>2, <1>3, <1>8, <1>9, WriteKeeps

\* Stale marks are reset, by a publisher or by the pipeline view.
LEMMA ResetsKeep ==
    ASSUME TableInv, PubInv, NEW p \in Tasks, PublishReset(p) \/ PipelineReset(p)
    PROVE  TableInv' /\ TreeKept /\ PubInv'
<1>1. job[p] \in Job /\ JobOK(job[p])
  BY DEF PubInv, PubTypes, JobsInv
<1>2. job[p].at \in Nat /\ ResetStale(job[p].at)
      /\ UNCHANGED <<commits, nextId, tip, net, last, left>>
  BY <1>1 DEF Job, PublishReset, PipelineReset
<1>3. TableInv' /\ TreeKept /\ MarksFade
  BY <1>2, ResetKeeps
<1>4. [job[p] EXCEPT !.pc = "select"] \in Job /\ JobOK([job[p] EXCEPT !.pc = "select"])
  BY <1>1, QuietLabel DEF TableInv
<1>5. Set(p, [job[p] EXCEPT !.pc = "select"]) \/ Stop(p)
  BY DEF PublishReset, PipelineReset, Goto
<1> QED
  BY <1>2, <1>3, <1>4, <1>5, WriteKeeps

\* The commitment is looked for, and stamped by its row id.
LEMMA LeftKeeps ==
    ASSUME TableInv, PubInv, NEW p \in Tasks, PublishLeft(p)
    PROVE  TableInv' /\ TreeKept /\ PubInv'
<1>1. NoJob \in Job /\ JobOK(NoJob)
  BY JobTypes DEF TableInv
<1> DEFINE j == [NoJob EXCEPT !.pc = "newest"]
<1>2. /\ j \in Job /\ j.at = 0 /\ j.ready = {} /\ j.certs = {} /\ j.pc = "newest"
      /\ NoJob.at = 0
  BY DEF NoJob, Job, PubPCs
<1>3. Set(p, j) \/ Stop(p)
  BY DEF PublishLeft
<1> HIDE DEF j
<1>4. JobOK(j)
  BY <1>1, <1>2 DEF JobOK
<1> QED
  BY <1>2, <1>3, <1>4, ReadKeeps DEF PublishLeft, PubInv, PubTypes, TableInv, TableType

LEMMA NewestKeeps ==
    ASSUME TableInv, PubInv, NEW p \in Tasks, PublishNewest(p)
    PROVE  TableInv' /\ TreeKept /\ PubInv'
<1>1. NoJob \in Job /\ JobOK(NoJob)
  BY JobTypes DEF TableInv
<1>2. UNCHANGED <<table, tip, net, last, left>>
  BY DEF PublishNewest
<1> DEFINE j == [NoJob EXCEPT !.pc = "stamp", !.id = commits[Newest].id]
<1>3. CASE Newest > 0 /\ Set(p, j)
  <2>1. commits[Newest] \in Commit
    BY <1>3, ElementOfSeq, LenProperties DEF TableInv, TableType, Newest
  <2>2. commits[Newest].id \in Nat
    BY <2>1, Zenon DEF Commit
  <2>3. j \in Job /\ JobOK(j)
    BY <1>1, <2>2, QuietLabel DEF TableInv
  <2> QED
    BY <1>2, <1>3, <2>3, ReadKeeps DEF PubInv, PubTypes, TableInv, TableType
<1>4. CASE Stop(p)
  BY <1>1, <1>2, <1>4, ReadKeeps DEF PubInv, PubTypes, TableInv, TableType
<1> QED
  BY <1>3, <1>4 DEF PublishNewest

LEMMA StampKeeps ==
    ASSUME TableInv, PubInv, NEW p \in Tasks, PublishStamp(p)
    PROVE  TableInv' /\ TreeKept /\ PubInv'
<1> USE DEF TableInv, TableType
<1>1. /\ commits' = [i \in DOMAIN commits |-> IF commits[i].id = job[p].id
                                              THEN [commits[i] EXCEPT !.marked = TRUE]
                                              ELSE commits[i]]
      /\ Stop(p) /\ UNCHANGED <<rows, nextId, tip, net, last, left>>
  BY DEF PublishStamp
<1>2. \A i \in DOMAIN commits : commits[i] \in Commit
  BY ElementOfSeq, LenProperties
<1>3. commits' \in [DOMAIN commits -> Commit]
  BY <1>1, <1>2, CommitFields
<1>4. \A i \in DOMAIN commits : commits'[i].sent = commits[i].sent
  BY <1>1, <1>2, CommitFields
<1>5. commits' \in Seq(Commit) /\ Len(commits') = Len(commits) /\ tip \in Nat
  BY <1>3, SameDomain, LenProperties
<1>6. TipSent'
  BY <1>1, <1>4, LenProperties DEF TipSent
<1>7. TableInv' /\ TreeKept /\ MarksFade
  BY <1>1, <1>5, <1>6 DEF NoRows, Exists, TreeKept, MarksFade
<1>8. NoJob \in Job /\ JobOK(NoJob)
  BY JobTypes
<1> QED
  BY <1>1, <1>7, <1>8, WriteKeeps

\* Every step of publish_certs, for the loop and for a request, and the view's.
LEMMA PublishStepKeeps ==
    ASSUME TableInv, PubInv, NEW p \in Tasks, PublishStep(p)
    PROVE  TableInv' /\ TreeKept /\ PubInv'
  BY ResetsKeep, SelectKeeps, IssueKeeps, SendKeeps, MarkTempKeeps, MarkFinalKeeps,
     LeftKeeps, NewestKeeps, StampKeeps DEF PublishStep

LEMMA UserPublishKeeps ==
    ASSUME TableInv, PubInv, NEW p \in Tasks, UserPublish(p)
    PROVE  TableInv' /\ TreeKept /\ PubInv'
<1>1. CASE UserBegin(p)
  BY <1>1, SpendKeeps, BeginKeeps DEF UserBegin, TableInv, TableType
<1>2. CASE PublishDropped(p)
  <2>1. NoJob \in Job /\ JobOK(NoJob)
    BY JobTypes DEF TableInv
  <2> QED
    BY <1>2, <2>1, ReadKeeps DEF PublishDropped, PubInv, PubTypes, TableInv, TableType
<1> QED
  BY <1>1, <1>2, AskKeeps, ResetsKeep, PublishStepKeeps DEF UserPublish

-----------------------------------------------------------------------------
(***************************************************************************)
(* The composition.                                                        *)
(***************************************************************************)
LoopInv ==
    /\ TableInv /\ RegInv /\ PubInv
    /\ turn \in {"sync", "publish"} /\ held \subseteq Handles \X Spks

LEMMA LoopInvInit ==
    ASSUME LoopInit
    PROVE  LoopInv
<1> USE DEF LoopInit, TableInit, PubInit, RegInit
<1>1. TableInv
  BY RowTypes, TableAssumption
  DEF TableInv, TableType, NoRows, TipSent, Exists
<1>2. RegInv
  BY SyncTypes DEF RegInv, RegType, TodoInv
<1>3. PubInv
  <2>1. NoMessage \in [certs: Nat, bytes: Nat]
    BY DEF NoMessage
  <2>2. NoJob \in Job /\ JobOK(NoJob)
    BY <1>1, JobTypes DEF TableInv
  <2>3. MarksInv
    BY RowTypes DEF MarksInv, FinalIsProvable, CertsHold, MarkedWasSent
  <2> QED
    BY <2>1, <2>2, <2>3 DEF PubInv, PubTypes, JobsInv
<1> QED
  BY <1>1, <1>2, <1>3 DEF LoopInv

\* Steps against the registry, beside the publishers.
SyncMove(p) ==
    \/ Pull(p) /\ (Spend("requests") \/ UNCHANGED left)
    \/ StageOne(p) \/ SyncAside(p)

LEMMA SyncMoveKeeps ==
    ASSUME TableInv, RegInv, PubInv, NEW p \in Tasks, SyncMove(p), UNCHANGED pubVars
    PROVE  TableInv' /\ RegInv' /\ PubInv'
<1>1. CASE Pull(p) /\ (Spend("requests") \/ UNCHANGED left)
  <2>1. left' \in Budget
    BY <1>1, SpendKeeps DEF TableInv, TableType
  <2> QED
    BY <1>1, <2>1, PullKeeps, TableSame, PubBeside DEF Pull, TableInv
<1>2. CASE StageOne(p)
  BY <1>2, StageOneKeeps, PubBeside DEF TableInv
<1>3. CASE SyncAside(p)
  <2>1. UNCHANGED <<table, tip>> /\ left' \in Budget
    BY <1>3, SpendKeeps
    DEF SyncAside, StageFails, SendAck, AckFails, PullFails, NotifyRead, NotifySend,
        SyncDropped, TableInv, TableType
  <2> QED
    BY <1>3, <2>1, SyncAsideKeeps, TableSame, PubBeside DEF TableInv
<1> QED
  BY <1>1, <1>2, <1>3 DEF SyncMove

LEMMA RegBeside ==
    ASSUME RegInv, UNCHANGED regVars
    PROVE  RegInv'
  BY DEF RegInv, RegType, TodoInv, regVars

LEMMA LoopInvStep ==
    ASSUME LoopInv, LoopNext
    PROVE  LoopInv'
<1> USE DEF LoopInv
<1>1. Loop \in Tasks /\ Users \subseteq Tasks
  BY DEF Tasks
<1>2. TableInv' /\ RegInv' /\ PubInv' /\ turn' \in {"sync", "publish"}
  <2>1. CASE LoopSync
    <3>1. SyncMove(Loop) /\ UNCHANGED pubVars
      BY <2>1 DEF LoopSync, SyncMove, SyncStep, SyncAside
    <3> QED
      BY <1>1, <2>1, <3>1, SyncMoveKeeps DEF LoopSync
  <2>2. CASE LoopPublish
    <3>1. CASE PublishStep(Loop)
      BY <1>1, <2>2, <3>1, PublishStepKeeps, RegBeside DEF LoopPublish
    <3>2. CASE LoopBegin /\ left.relay
      <4>1. Begin(Loop, {}) /\ left' \in Budget
        BY <3>2 DEF LoopBegin, TableInv, TableType
      <4> QED
        BY <1>1, <2>2, <4>1, BeginKeeps, RegBeside DEF LoopPublish
    <3>3. CASE LoopBegin /\ ~left.relay
      <4>1. UNCHANGED <<table, tip, pubVars>> /\ left' \in Budget
        BY <3>3 DEF LoopBegin, TableInv, TableType
      <4> QED
        BY <2>2, <4>1, TableSame, PubBeside, RegBeside DEF LoopPublish, TableInv
    <3> QED
      BY <2>2, <3>1, <3>2, <3>3 DEF LoopPublish
  <2>3. CASE (\E p \in Users : UserStep(p)) /\ UNCHANGED turn
    <3>1. PICK p \in Users : UserStep(p)
      BY <2>3
    <3>2. CASE UserPublish(p) /\ UNCHANGED regVars
      BY <1>1, <2>3, <3>2, UserPublishKeeps, RegBeside
    <3>3. CASE UserSync(p) /\ UNCHANGED pubVars
      <4>1. SyncMove(p)
        BY <3>3 DEF UserSync, UserPull, SyncStep, SyncMove, SyncAside
      <4> QED
        BY <1>1, <2>3, <3>3, <4>1, SyncMoveKeeps
    <3> QED
      BY <3>1, <3>2, <3>3 DEF UserStep
  <2>4. CASE SpaceStep /\ UNCHANGED turn
    BY <2>4, TableSteps, PubBeside, RegBeside DEF SpaceStep, TableInv
  <2>5. CASE RegistryStep /\ UNCHANGED turn
    <3>1. UNCHANGED <<table, tip>> /\ left' \in Budget /\ left \in Budget
      BY <2>5, SpendKeeps
      DEF RegistryStep, RegisterCheck, RegisterPush, LateAck, TableInv, TableType
    <3> QED
      BY <2>5, <3>1, RegistryKeeps, TableSame, PubBeside DEF RegistryStep, TableInv
  <2>6. CASE Restart
    <3>1. UNCHANGED <<table, tip, net, regs, intake, late>> /\ left' \in Budget
      BY <2>6, SpendKeeps DEF Restart, TableInv, TableType
    <3>2. TableInv' /\ TreeKept /\ MarksFade
      BY <3>1, TableSame
    <3>3. RegInv'
      BY <2>6, SyncTypes DEF Restart, RegInv, RegType, TodoInv
    <3>4. NoJob \in Job /\ JobOK(NoJob)'
      BY <3>1, <3>2, JobTypes, JobsKept DEF TableInv
    <3>5. \A p \in Tasks : job'[p] = NoJob
      BY <2>6 DEF Restart
    <3>6. JobsInv'
      BY <3>4, <3>5 DEF JobsInv
    <3>7. PubTypes'
      BY <2>6, <3>4 DEF Restart, PubInv, PubTypes, NoMessage
    <3> QED
      BY <2>6, <3>1, <3>2, <3>3, <3>6, <3>7, MarksKept DEF Restart, PubInv, PubTypes, TableInv
  <2> QED
    BY <2>1, <2>2, <2>3, <2>4, <2>5, <2>6 DEF LoopNext, Step, LoopStep
<1>3. held' \subseteq Handles \X Spks
  BY <1>2 DEF LoopNext, Remember, HeldNow, TableInv, TableType, Row, Exists
<1> QED
  BY <1>2, <1>3

LEMMA LoopInvStutter ==
    ASSUME LoopInv, UNCHANGED loopVars
    PROVE  LoopInv'
<1>1. UNCHANGED <<rows, commits, nextId, tip, left, turn, held, pubVars, regVars>>
  BY DEF loopVars, table
<1>2. TableInv' /\ TreeKept /\ MarksFade
  BY <1>1, TableSame DEF LoopInv, TableInv, TableType, table
<1> QED
  BY <1>1, <1>2, PubBeside, RegBeside DEF LoopInv, TableInv

LEMMA LoopInvariant ==
    LoopSpec => []LoopInv
<1>1. LoopInv /\ [LoopNext]_loopVars => LoopInv'
  BY LoopInvStep, LoopInvStutter
<1> QED
  BY <1>1, LoopInvInit, PTL DEF LoopSpec

\* Types: every task works on registrations that are there, and publishes
\* rows of the table (RegistryLoop).
THEOREM LoopTypes ==
    LoopSpec => []LoopTypeOK
<1>1. LoopInv => LoopTypeOK
  BY DEF LoopInv, TableInv, RegInv, PubInv, PubTypes, LoopTypeOK, PubType
<1> QED
  BY <1>1, LoopInvariant, PTL

\* A row that publish_certs marked final is in the tip's tree and its final
\* certificate is on the relays, however many publishers race with the
\* chain, rollbacks, commits and each other.
THEOREM FinalMarksHold ==
    LoopSpec => []FinalIsProvable
<1>1. LoopInv => FinalIsProvable
  BY DEF LoopInv, PubInv, MarksInv
<1> QED
  BY <1>1, LoopInvariant, PTL

\* No final certificate is ever contradicted by the space.
THEOREM CertificatesHold ==
    LoopSpec => []CertsHold
<1>1. LoopInv => CertsHold
  BY DEF LoopInv, PubInv, MarksInv
<1> QED
  BY <1>1, LoopInvariant, PTL

\* The relays forget nothing, and a step of the space or of the registry does
\* not reach them.
LEMMA RelaysKeep ==
    ASSUME [LoopNext]_loopVars
    PROVE  net \subseteq net'
<1>1. ASSUME NEW p, PublishStep(p)
      PROVE  net \subseteq net'
  BY <1>1 DEF PublishStep, PublishReset, PublishSelect, PublishIssue, PublishSend,
     PublishSendFails, PublishMarkTemp, PublishMarkFinal, PublishLeft, PublishNewest,
     PublishStamp
<1>2. ASSUME NEW p, \/ PublishDropped(p) \/ PipelineAsk(p) \/ PipelineReset(p)
                    \/ UserBegin(p)
      PROVE  net' = net
  <2>1. PublishDropped(p) \/ PipelineAsk(p) \/ PipelineReset(p) => net' = net
    BY DEF PublishDropped, PipelineAsk, PipelineReset
  <2>2. \A S \in SUBSET Handles : Begin(p, S) => net' = net
    BY DEF Begin
  <2> QED
    BY <1>2, <2>1, <2>2 DEF UserBegin
<1>3. LoopStep => net \subseteq net'
  BY <1>1 DEF LoopStep, LoopSync, LoopPublish, LoopBegin, Begin, pubVars
<1>4. ASSUME NEW p, UserStep(p)
      PROVE  net \subseteq net'
  BY <1>1, <1>2, <1>4 DEF UserStep, UserPublish, pubVars
<1>5. SpaceStep \/ RegistryStep \/ Restart \/ UNCHANGED loopVars => UNCHANGED net
  BY DEF SpaceStep, RegistryStep, Restart, loopVars, pubVars
<1> QED
  BY <1>3, <1>4, <1>5 DEF LoopNext, Step

\* THEOREM.  Once the relays hold a final certificate they do so for ever, and
\* the space never departs from it: the handle stays in the tip's tree with
\* the certified key, whatever is published, rolled back or restarted later.
THEOREM CertificatesHoldForEver ==
    ASSUME NEW c
    PROVE  LoopSpec =>
             []((c \in net /\ c.kind = "final") =>
                  [](c \in net /\ rows[c.h].spk = c.spk /\ InTree(c.h, tip)))
<1> DEFINE Out  == c \in net /\ c.kind = "final"
           Good == c \in net /\ rows[c.h].spk = c.spk /\ InTree(c.h, tip)
<1>1. [LoopNext]_loopVars /\ Out => Out'
  BY RelaysKeep
<1>2. CertsHold /\ Out => Good
  BY DEF CertsHold
<1> HIDE DEF Out, Good
<1>3. LoopSpec => [](Out => []Good)
  BY <1>1, <1>2, CertificatesHold, PTL DEF LoopSpec
<1> QED
  BY <1>3 DEF Out, Good

\* A row is marked only when some certificate of its name went out: declined
\* and failed batches leave it to be selected again.
THEOREM MarkedWereSent ==
    LoopSpec => []MarkedWasSent
<1>1. LoopInv => MarkedWasSent
  BY DEF LoopInv, PubInv, MarksInv
<1> QED
  BY <1>1, LoopInvariant, PTL

-----------------------------------------------------------------------------
(***************************************************************************)
(* The promise to whoever asks (HandleRequests).  An outcome that is still *)
(* on its way, in a sync's hands or in a late ack, was earned when it was  *)
(* formed, and what is earned stays earned: askers and holders are only    *)
(* ever added.  A name's status is that of its first registration.         *)
(***************************************************************************)
EarnedNow(n, o) ==
    IF o = "rejected" THEN n \in BadNames \/ \E s \in AskedFor(n) : \E t \in Spks \ {s} : <<n, t>> \in held
    ELSE o \in {"staged", "committed"} /\ \E s \in AskedFor(n) : <<n, s>> \in held

OutOK(out)   == \A n \in Names : out[n] # "none" => EarnedNow(n, out[n])
ToldOK(told) == \A h \in told : \E t \in Spks : <<h, t>> \in held

\* Quantified over values, so that a later state's operators apply to them.
SyncOK      == \A p \in Tasks, s \in Sync : sync[p] = s => OutOK(s.out) /\ ToldOK(s.told)
LateOK      == \A out \in late : OutOK(out)
FirstsExist == \A i \in DOMAIN regs : \E j \in DOMAIN regs : regs[j].h = regs[i].h /\ IsFirst(j)

ReqInv == HeldNow \subseteq held /\ SyncOK /\ LateOK /\ FirstsExist

\* A name has one first registration at most.
LEMMA OneFirst ==
    ASSUME RegType, NEW n, NEW i \in FirstOf(n)
    PROVE  FirstOf(n) = {i} /\ StatusOf(n) = regs[i].status /\ i \in DOMAIN regs /\ regs[i].h = n
<1>1. DOMAIN regs = 1..Len(regs) /\ Len(regs) \in Nat
  BY LenProperties DEF RegType
<1>2. \A j \in FirstOf(n) : j = i
  BY <1>1 DEF FirstOf, IsFirst
<1>3. FirstOf(n) = {i}
  BY <1>2
<1>4. (CHOOSE j \in FirstOf(n) : TRUE) = i
  BY <1>3
<1> QED
  BY <1>3, <1>4 DEF StatusOf, FirstOf

\* Whoever asked or held stays; so does what was earned.
LEMMA EarnedStays ==
    ASSUME RegsKept, held \subseteq held'
    PROVE  /\ \A n \in Names : AskedFor(n) \subseteq AskedFor(n)'
           /\ \A n \in Names, o \in {"staged", "committed", "rejected"} :
                EarnedNow(n, o) => EarnedNow(n, o)'
           /\ \A out \in Outcomes : OutOK(out) => OutOK(out)'
           /\ \A told \in SUBSET Handles : ToldOK(told) => ToldOK(told)'
<1>1. \A n \in Names : AskedFor(n) \subseteq AskedFor(n)'
  BY DEF AskedFor, RegsKept
<1>2. \A n \in Names, o \in {"staged", "committed", "rejected"} :
        EarnedNow(n, o) => EarnedNow(n, o)'
  BY <1>1 DEF EarnedNow
<1>3. \A out \in Outcomes : OutOK(out) => OutOK(out)'
  BY <1>2 DEF OutOK, Outcomes
<1>4. \A told \in SUBSET Handles : ToldOK(told) => ToldOK(told)'
  BY DEF ToldOK
<1> QED
  BY <1>1, <1>2, <1>3, <1>4

\* Rows keep their keys or are removed, or one row is staged: what was held
\* is remembered, and at most one pair is new.
KeysStay  == \A h \in Handles : rows'[h].spk \in {rows[h].spk, NoSpk}
OneStaged == \E h \in Handles, s \in Spks : ~Exists(h) /\ Stage(h, s)

LEMMA HeldMoves ==
    ASSUME TableInv, HeldNow \subseteq held, Remember, KeysStay \/ OneStaged
    PROVE  \/ held' = held
           \/ \E h \in Handles, s \in Spks : held' = held \cup {<<h, s>>}
<1>1. CASE KeysStay
  <2>1. HeldNow' \subseteq HeldNow
    BY <1>1 DEF HeldNow, Exists, KeysStay
  <2> QED
    BY <2>1 DEF Remember
<1>2. CASE OneStaged
  <2>1. PICK h \in Handles, s \in Spks : ~Exists(h) /\ Stage(h, s)
    BY <1>2 DEF OneStaged
  <2>2. /\ rows'[h].spk = s /\ s # NoSpk
        /\ \A g \in Handles : g # h => rows'[g].spk = rows[g].spk
    BY <2>1, RowTypes DEF Stage, TableInv, TableType
  <2>3. HeldNow' = HeldNow \cup {<<h, s>>}
    BY <2>1, <2>2 DEF HeldNow, Exists
  <2> QED
    BY <2>3 DEF Remember
<1> QED
  BY <1>1, <1>2

\* A step that leaves the registry and its cycle alone.
LEMMA PublishKeys ==
    ASSUME TableInv, NEW p \in Tasks, PublishStep(p) \/ UserPublish(p)
    PROVE  KeysStay
<1> USE DEF TableInv, TableType
<1>1. CASE UNCHANGED rows
  BY <1>1 DEF KeysStay
<1>2. CASE \E t : ResetStale(t)
  BY <1>2 DEF ResetStale, Row, KeysStay
<1>3. CASE \E S, pub, at : Mark(S, pub, at)
  BY <1>3 DEF Mark, Row, KeysStay
<1>4. PublishStep(p) => \/ UNCHANGED rows \/ \E t : ResetStale(t)
                        \/ \E S, pub, at : Mark(S, pub, at)
  BY Zenon DEF PublishStep, PublishReset, PublishSelect, PublishIssue, PublishSend,
     PublishSendFails, PublishMarkTemp, PublishMarkFinal, PublishLeft, PublishNewest,
     PublishStamp, table
<1>5. UserPublish(p) => PublishStep(p) \/ UNCHANGED rows \/ \E t : ResetStale(t)
  BY DEF UserPublish, UserBegin, Begin, PublishDropped, PipelineAsk, PipelineReset, table
<1> QED
  BY <1>1, <1>2, <1>3, <1>4, <1>5

LEMMA TableKeys ==
    ASSUME TableInv, TableNext
    PROVE  KeysStay \/ OneStaged
<1> USE DEF TableInv, TableType
<1>1. CASE AddRequest
  BY <1>1 DEF AddRequest, OneStaged, Budget
<1>2. CASE RemoveStaged
  BY <1>2, RowTypes DEF RemoveStaged, KeysStay
<1>3. CASE CommitLocal
  BY <1>3 DEF CommitLocal, KeysStay, Row
<1>4. CASE RollbackLocal
  BY <1>4 DEF RollbackLocal, KeysStay, Row
<1>5. CASE SaveReceipt \/ Broadcast \/ Confirm
  BY <1>5 DEF SaveReceipt, Broadcast, Confirm, table, KeysStay
<1> QED
  BY <1>1, <1>2, <1>3, <1>4, <1>5 DEF TableNext

\* Each step is of one of four kinds.
LEMMA Kinds ==
    ASSUME LoopInv, LoopNext
    PROVE  \/ \E p \in Tasks : SyncMove(p)
           \/ UNCHANGED regVars /\ (KeysStay \/ OneStaged)
           \/ RegistryStep
           \/ Restart
<1> USE DEF LoopInv
<1>1. Loop \in Tasks /\ Users \subseteq Tasks
  BY DEF Tasks
<1>2. CASE LoopSync
  BY <1>1, <1>2 DEF LoopSync, SyncMove, SyncStep, SyncAside
<1>3. CASE LoopPublish
  <2>1. CASE LoopBegin
    BY <1>3, <2>1 DEF LoopPublish, LoopBegin, Begin, table, KeysStay
  <2>2. CASE PublishStep(Loop)
    BY <1>1, <1>3, <2>2, PublishKeys DEF LoopPublish
  <2> QED
    BY <1>3, <2>1, <2>2 DEF LoopPublish
<1>4. CASE \E p \in Users : UserStep(p)
  <2>1. PICK p \in Users : UserStep(p)
    BY <1>4
  <2>2. CASE UserPublish(p) /\ UNCHANGED regVars
    BY <1>1, <2>2, PublishKeys
  <2>3. CASE UserSync(p)
    BY <1>1, <2>3 DEF UserSync, UserPull, SyncStep, SyncMove, SyncAside
  <2> QED
    BY <2>1, <2>2, <2>3 DEF UserStep
<1>5. CASE SpaceStep
  BY <1>5, TableKeys DEF SpaceStep
<1> QED
  BY <1>2, <1>3, <1>4, <1>5 DEF LoopNext, Step, LoopStep

\* What a step does to the registry's list, and to the rows beside it.
LEMMA RegsMove ==
    ASSUME LoopInv, ReqInv, LoopNext
    PROVE  /\ KeysStay \/ OneStaged
           /\ \/ UNCHANGED regs
              \/ KeysStay /\ RegisterPush
              \/ KeysStay /\ \E out \in Outcomes : OutOK(out) /\ AckHandles(out)
              \/ KeysStay /\ \E told \in SUBSET Handles, root \in Nat :
                                ToldOK(told) /\ Committed(told, root)
<1> USE DEF LoopInv, RegInv, RegType
<1>1. UNCHANGED rows => KeysStay
  BY DEF KeysStay
<1>2. ASSUME NEW p \in Tasks, SyncMove(p)
      PROVE  /\ KeysStay \/ OneStaged
             /\ \/ UNCHANGED regs
                \/ KeysStay /\ \E out \in Outcomes : OutOK(out) /\ AckHandles(out)
                \/ KeysStay /\ \E told \in SUBSET Handles, root \in Nat :
                                  ToldOK(told) /\ Committed(told, root)
  <2>1. /\ sync[p] \in Sync /\ OutOK(sync[p].out) /\ sync[p].out \in Outcomes
        /\ ToldOK(sync[p].told) /\ sync[p].told \in SUBSET Handles /\ sync[p].root \in Nat
    BY DEF Sync, ReqInv, SyncOK
  <2>2. CASE StageOne(p)
    <3>1. PICK i \in sync[p].todo :
            IF Exists(regs[i].h) THEN UNCHANGED rows ELSE Stage(regs[i].h, regs[i].spk)
      BY <2>2 DEF StageOne
    <3>2. i \in DOMAIN regs /\ regs[i].h \in Handles
      BY Zenon DEF TodoInv
    <3>3. regs[i] \in Reg
      BY <3>2, ElementOfSeq, LenProperties
    <3>4. regs[i].spk \in Spks
      BY <3>3 DEF Reg
    <3> QED
      BY <1>1, <2>2, <3>1, <3>2, <3>4 DEF OneStaged, StageOne
  <2>3. CASE SendAck(p)
    BY <1>1, <2>1, <2>3 DEF SendAck, table
  <2>4. CASE NotifySend(p)
    BY <1>1, <2>1, <2>4 DEF NotifySend, table
  <2>5. CASE UNCHANGED <<rows, regs>>
    BY <1>1, <2>5
  <2>6. Pull(p) \/ StageFails(p) \/ AckFails(p) \/ PullFails(p) \/ NotifyRead(p) \/ SyncDropped(p)
          => UNCHANGED <<rows, regs>>
    BY DEF Pull, StageFails, AckFails, PullFails, NotifyRead, SyncDropped, table, regVars
  <2> QED
    BY <1>2, <2>2, <2>3, <2>4, <2>5, <2>6, Zenon DEF SyncMove, SyncAside
<1>3. CASE RegistryStep
  <2>1. UNCHANGED rows
    BY <1>3 DEF RegistryStep, RegisterCheck, RegisterPush, LateAck, table
  <2>2. LateAck => \E out \in Outcomes : OutOK(out) /\ AckHandles(out)
    BY DEF LateAck, ReqInv, LateOK
  <2>3. RegisterCheck => UNCHANGED regs
    BY DEF RegisterCheck
  <2> QED
    BY <1>1, <1>3, <2>1, <2>2, <2>3 DEF RegistryStep
<1>4. CASE Restart
  BY <1>1, <1>4 DEF Restart, table
<1>5. CASE UNCHANGED regVars /\ (KeysStay \/ OneStaged)
  BY <1>5 DEF regVars
<1> QED
  BY <1>2, <1>3, <1>4, <1>5, Kinds

\* A registration is pushed: the others keep their places, and the new one is
\* a first exactly when its name had none.
LEMMA PushMoves ==
    ASSUME RegInv, FirstsExist, RegisterPush
    PROVE  /\ RegsKept /\ FirstsExist'
           /\ \E r \in Ask : \A n \in Names :
                /\ AskedFor(n)' = IF n = r.h THEN AskedFor(n) \cup {r.spk} ELSE AskedFor(n)
                /\ StatusOf(n)' = IF n = r.h /\ StatusOf(n) = "none" THEN "pending"
                                  ELSE StatusOf(n)
<1> USE DEF RegInv, RegType
<1>1. PICK i \in DOMAIN intake :
        regs' = Append(regs, [h |-> intake[i].h, spk |-> intake[i].spk,
                              status |-> "pending", root |-> 0])
  BY DEF RegisterPush
<1>2. intake[i] \in Ask
  BY ElementOfSeq, LenProperties
<1> DEFINE r == [h |-> intake[i].h, spk |-> intake[i].spk, status |-> "pending", root |-> 0]
<1>3. r \in Reg /\ r.h = intake[i].h /\ r.spk = intake[i].spk /\ r.status = "pending"
  BY <1>2 DEF Ask, Reg, Status
<1> HIDE DEF r
<1>4. PICK L \in Nat : L = Len(regs) /\ DOMAIN regs = 1..L
  BY LenProperties
<1>5. /\ regs' = Append(regs, r) /\ regs' \in Seq(Reg) /\ Len(regs') = L + 1
      /\ \A j \in 1..L : regs'[j] = regs[j]
      /\ regs'[L + 1] = r
  BY <1>1, <1>3, <1>4, AppendProperties DEF r
<1>6. DOMAIN regs' = 1..(L + 1) /\ L + 1 \in 1..(L + 1) /\ \A j \in 1..L : j \in 1..(L + 1)
  BY <1>4, <1>5, LenProperties
<1>7. RegsKept
  BY <1>4, <1>5, <1>6 DEF RegsKept
<1>8. \A j \in 1..L : IsFirst(j)' <=> IsFirst(j)
  <2> SUFFICES ASSUME NEW j \in 1..L
               PROVE  IsFirst(j)' <=> IsFirst(j)
    OBVIOUS
  <2>1. \A k \in 1..(j - 1) : k \in 1..L /\ regs'[k] = regs[k]
    BY <1>5
  <2>2. regs'[j] = regs[j]
    BY <1>5
  <2> QED
    BY <2>1, <2>2, Zenon DEF IsFirst
<1>9. IsFirst(L + 1)' <=> \A j \in 1..L : regs[j].h # r.h
  <2>1. (L + 1) - 1 = L
    OBVIOUS
  <2>2. regs'[L + 1] = r /\ \A j \in 1..L : regs'[j] = regs[j]
    BY <1>5
  <2> QED
    BY <2>1, <2>2, Zenon DEF IsFirst
<1>10. FirstsExist'
  <2> SUFFICES ASSUME NEW k \in 1..(L + 1)
               PROVE  \E j \in 1..(L + 1) : regs'[j].h = regs'[k].h /\ IsFirst(j)'
    BY <1>6 DEF FirstsExist
  <2>1. CASE k \in 1..L
    BY <1>4, <1>5, <1>6, <1>8, <2>1 DEF FirstsExist
  <2>2. CASE k = L + 1 /\ \E j \in 1..L : regs[j].h = r.h
    <3>1. PICK j \in 1..L : regs[j].h = r.h
      BY <2>2
    <3>2. PICK g \in 1..L : regs[g].h = regs[j].h /\ IsFirst(g)
      BY <1>4, <3>1 DEF FirstsExist
    <3> QED
      BY <1>5, <1>6, <1>8, <2>2, <3>1, <3>2
  <2>3. CASE k = L + 1 /\ \A j \in 1..L : regs[j].h # r.h
    BY <1>6, <1>9, <2>3
  <2> QED
    BY <1>4, <2>1, <2>2, <2>3
<1>11. ASSUME NEW n \in Names
       PROVE  /\ AskedFor(n)' = IF n = r.h THEN AskedFor(n) \cup {r.spk} ELSE AskedFor(n)
              /\ StatusOf(n)' = IF n = r.h /\ StatusOf(n) = "none" THEN "pending"
                                ELSE StatusOf(n)
  <2>1. AskedFor(n)' = IF n = r.h THEN AskedFor(n) \cup {r.spk} ELSE AskedFor(n)
    BY <1>4, <1>5, <1>6 DEF AskedFor
  <2>2. FirstOf(n)' = {j \in 1..L : regs[j].h = n /\ IsFirst(j)}
                        \cup {j \in {L + 1} : r.h = n /\ IsFirst(j)'}
    BY <1>4, <1>5, <1>6, <1>8 DEF FirstOf
  <2>3. CASE n = r.h /\ \A j \in 1..L : regs[j].h # r.h
    <3>1. FirstOf(n) = {} /\ FirstOf(n)' = {L + 1}
      BY <1>4, <1>9, <2>2, <2>3 DEF FirstOf
    <3>2. StatusOf(n) = "none" /\ StatusOf(n)' = "pending"
      BY <1>3, <1>5, <3>1 DEF StatusOf
    <3> QED
      BY <2>1, <2>3, <3>2
  <2>4. CASE n = r.h /\ \E j \in 1..L : regs[j].h = r.h
    <3>1. PICK g \in FirstOf(n) : g \in 1..L
      BY <1>4, <2>4 DEF FirstsExist, FirstOf
    <3>2. FirstOf(n) = {g} /\ StatusOf(n) = regs[g].status /\ regs[g] \in Reg
      BY <1>4, <3>1, OneFirst, ElementOfSeq, LenProperties
    <3>3. FirstOf(n)' = {g}
      BY <1>4, <1>9, <2>2, <2>4, <3>2 DEF FirstOf
    <3>4. StatusOf(n)' = regs[g].status
      BY <1>5, <3>1, <3>3 DEF StatusOf
    <3>5. regs[g].status # "none"
      BY <3>2 DEF Reg, Status
    <3> QED
      BY <2>1, <3>2, <3>4, <3>5
  <2>5. CASE n # r.h
    <3>1. FirstOf(n)' = FirstOf(n)
      BY <1>4, <2>2, <2>5 DEF FirstOf
    <3>2. CASE FirstOf(n) = {}
      BY <2>1, <2>5, <3>1, <3>2 DEF StatusOf
    <3>3. CASE FirstOf(n) # {}
      <4>1. PICK g \in FirstOf(n) : g \in 1..L
        BY <1>4, <3>3 DEF FirstOf
      <4>2. FirstOf(n) = {g} /\ StatusOf(n) = regs[g].status
        BY <4>1, OneFirst
      <4>3. StatusOf(n)' = regs[g].status
        BY <1>5, <3>1, <4>1, <4>2 DEF StatusOf
      <4> QED
        BY <2>1, <2>5, <4>2, <4>3
    <3> QED
      BY <3>2, <3>3
  <2> QED
    BY <2>3, <2>4, <2>5
<1>12. PICK a \in Ask : a.h = r.h /\ a.spk = r.spk
  BY <1>2, <1>3
<1>13. \A n \in Names :
         /\ AskedFor(n)' = IF n = a.h THEN AskedFor(n) \cup {a.spk} ELSE AskedFor(n)
         /\ StatusOf(n)' = IF n = a.h /\ StatusOf(n) = "none" THEN "pending"
                           ELSE StatusOf(n)
  BY <1>11, <1>12
<1> QED
  BY <1>7, <1>10, <1>13

\* Statuses are rewritten in place: first registrations stay first, and only
\* their statuses are a name's.
LEMMA RewriteMoves ==
    ASSUME RegInv, FirstsExist, DOMAIN regs' = DOMAIN regs, RegsKept
    PROVE  /\ FirstsExist'
           /\ \A n \in Names : AskedFor(n)' = AskedFor(n)
           /\ \A n \in Names : StatusOf(n)' # StatusOf(n) =>
                \E i \in DOMAIN regs : /\ regs[i].h = n /\ IsFirst(i)
                                      /\ StatusOf(n) = regs[i].status
                                      /\ StatusOf(n)' = regs'[i].status
<1> USE DEF RegInv, RegType
<1>1. PICK L \in Nat : DOMAIN regs = 1..L
  BY LenProperties
<1>2. \A i \in 1..L : regs'[i].h = regs[i].h /\ regs'[i].spk = regs[i].spk
  BY <1>1 DEF RegsKept
<1>3. \A i \in 1..L : IsFirst(i)' <=> IsFirst(i)
  <2> SUFFICES ASSUME NEW i \in 1..L
               PROVE  IsFirst(i)' <=> IsFirst(i)
    OBVIOUS
  <2>1. \A k \in 1..(i - 1) : k \in 1..L /\ regs'[k].h = regs[k].h
    BY <1>2
  <2>2. regs'[i].h = regs[i].h
    BY <1>2
  <2> QED
    BY <2>1, <2>2, Zenon DEF IsFirst
<1>4. FirstsExist' /\ \A n \in Names : AskedFor(n)' = AskedFor(n) /\ FirstOf(n)' = FirstOf(n)
  <2>1. DOMAIN regs' = 1..L
    BY <1>1
  <2>2. FirstsExist'
    BY <1>1, <1>2, <1>3, <2>1 DEF FirstsExist
  <2>3. \A n \in Names : AskedFor(n)' = AskedFor(n)
    BY <1>1, <1>2, <2>1 DEF AskedFor
  <2>4. \A n \in Names : FirstOf(n)' = FirstOf(n)
    BY <1>1, <1>2, <1>3, <2>1 DEF FirstOf
  <2> QED
    BY <2>2, <2>3, <2>4
<1>5. ASSUME NEW n \in Names, StatusOf(n)' # StatusOf(n)
      PROVE  \E i \in DOMAIN regs : /\ regs[i].h = n /\ IsFirst(i)
                                    /\ StatusOf(n) = regs[i].status
                                    /\ StatusOf(n)' = regs'[i].status
  <2>1. FirstOf(n) # {}
    BY <1>4, <1>5 DEF StatusOf
  <2>2. PICK i \in FirstOf(n) : TRUE
    BY <2>1
  <2>3. FirstOf(n) = {i} /\ StatusOf(n) = regs[i].status
    BY <2>2, OneFirst
  <2>4. StatusOf(n)' = regs'[i].status
    BY <1>4, <2>3 DEF StatusOf
  <2> QED
    BY <2>2, <2>3, <2>4 DEF FirstOf
<1> QED
  BY <1>4, <1>5

\* A task's part in the cycle becomes x, whose outcomes are earned by then.
LEMMA SyncStays ==
    ASSUME RegInv, SyncOK, RegsKept, held \subseteq held', NEW x \in Sync,
           OutOK(x.out)', ToldOK(x.told)', \A p \in Tasks : sync'[p] \in {sync[p], x}
    PROVE  SyncOK'
<1> SUFFICES ASSUME NEW p \in Tasks, NEW s \in Sync, sync'[p] = s
             PROVE  OutOK(s.out)' /\ ToldOK(s.told)'
  BY DEF SyncOK
<1>1. CASE s = x
  BY <1>1
<1>2. CASE s = sync[p]
  <2>1. OutOK(s.out) /\ ToldOK(s.told) /\ s.out \in Outcomes /\ s.told \in SUBSET Handles
    BY <1>2 DEF SyncOK, Sync
  <2> QED
    BY <2>1, EarnedStays
<1> QED
  BY <1>1, <1>2

LEMMA NoSyncOK ==
    NoSync \in Sync /\ OutOK(NoSync.out)' /\ ToldOK(NoSync.told)'
<1>1. NoSync \in Sync /\ NoSync.told = {} /\ \A n \in Names : NoSync.out[n] = "none"
  BY SyncTypes DEF NoOutcome
<1> QED
  BY <1>1 DEF OutOK, ToldOK

LEMMA AckOrEndStays ==
    ASSUME RegInv, SyncOK, RegsKept, held \subseteq held', NEW p \in Tasks, NEW s \in Sync,
           OutOK(s.out)', ToldOK(s.told)',
           AckOrEnd(p, s) \/ SetSync(p, s) \/ SetSync(p, [s EXCEPT !.pc = "stage"])
    PROVE  SyncOK'
<1>1. PICK x \in Sync : x.out = s.out /\ x.told = s.told /\ (SetSync(p, x) \/ SetSync(p, NoSync))
  <2>1. CASE SetSync(p, s)
    BY <2>1
  <2>2. CASE SetSync(p, [s EXCEPT !.pc = "stage"])
    <3> DEFINE x == [s EXCEPT !.pc = "stage"]
    <3>1. x \in Sync /\ x.out = s.out /\ x.told = s.told
      BY DEF Sync
    <3> QED
      BY <2>2, <3>1
  <2>3. CASE AckOrEnd(p, s)
    <3> DEFINE x == [s EXCEPT !.pc = "ack", !.todo = {}]
    <3>1. x \in Sync /\ x.out = s.out /\ x.told = s.told
      BY DEF Sync
    <3>2. SetSync(p, x) \/ SetSync(p, NoSync)
      BY <2>3 DEF AckOrEnd
    <3> QED
      BY <3>1, <3>2
  <2> QED
    BY <2>1, <2>2, <2>3
<1>2. CASE SetSync(p, x)
  <2>1. OutOK(x.out)' /\ ToldOK(x.told)'
    BY <1>1
  <2>2. \A q \in Tasks : sync'[q] \in {sync[q], x}
    BY <1>2 DEF SetSync, RegInv, RegType
  <2> QED
    BY <2>1, <2>2, SyncStays
<1>3. CASE SetSync(p, NoSync)
  <2>1. \A q \in Tasks : sync'[q] \in {sync[q], NoSync}
    BY <1>3 DEF SetSync, RegInv, RegType
  <2> QED
    BY <2>1, NoSyncOK, SyncStays
<1> QED
  BY <1>1, <1>2, <1>3

\* A pull's outcomes: names that are none are rejected.
LEMMA PullStays ==
    ASSUME RegInv, SyncOK, RegsKept, held \subseteq held', NEW p \in Tasks, Pull(p)
    PROVE  SyncOK'
<1> DEFINE good == {i \in Pending : regs[i].h \in Handles}
           bad == {regs[i].h : i \in Pending \ good}
           out == [n \in Names |-> IF n \in bad THEN "rejected" ELSE "none"]
<1>1. PICK s : s = [NoSync EXCEPT !.todo = good, !.out = out]
  OBVIOUS
<1>2. DOMAIN regs \subseteq Nat /\ \A i \in DOMAIN regs : regs[i].h \in Names
  <2>1. regs \in Seq(Reg) /\ DOMAIN regs = 1..Len(regs) /\ Len(regs) \in Nat
    BY LenProperties DEF RegInv, RegType
  <2>2. \A i \in DOMAIN regs : regs[i] \in Reg
    BY <2>1, ElementOfSeq
  <2> QED
    BY <2>1, <2>2 DEF Reg
<1>3. good \subseteq Nat /\ out \in Outcomes /\ bad \subseteq BadNames
  BY <1>2 DEF Pending, Outcomes, Names
<1>4. s \in Sync /\ s.out = out /\ s.told = {}
  BY <1>1, <1>3 DEF Sync, NoSync
<1>5. \A n \in Names : s.out[n] # "none" => s.out[n] = "rejected" /\ n \in BadNames
  BY <1>3, <1>4
<1>6. OutOK(s.out)' /\ ToldOK(s.told)'
  BY <1>4, <1>5 DEF OutOK, ToldOK, EarnedNow
<1>7. AckOrEnd(p, s) \/ SetSync(p, [s EXCEPT !.pc = "stage"])
  BY <1>1 DEF Pull
<1> QED
  BY <1>4, <1>6, <1>7, AckOrEndStays

\* A staged request earns "staged", a skipped one what its row says.
LEMMA StageStays ==
    ASSUME RegInv, TableInv, SyncOK, RegsKept, HeldNow \subseteq held, Remember,
           NEW p \in Tasks, StageOne(p)
    PROVE  SyncOK'
<1> USE DEF RegInv, RegType
<1>1. PICK i \in sync[p].todo :
        LET a == regs[i]
            s == [sync[p] EXCEPT !.todo = @ \ {i},
                    !.out[a.h] = IF ~Exists(a.h) THEN "staged"
                                 ELSE IF @ = "none" THEN OutcomeOf(a) ELSE @]
        IN /\ IF Exists(a.h) THEN UNCHANGED rows ELSE Stage(a.h, a.spk)
           /\ IF s.todo = {} THEN AckOrEnd(p, s) ELSE SetSync(p, s)
  BY DEF StageOne
<1>2. PICK a : a = regs[i]
  OBVIOUS
<1>3. PICK o : o = IF ~Exists(a.h) THEN "staged"
                   ELSE IF sync[p].out[a.h] = "none" THEN OutcomeOf(a) ELSE sync[p].out[a.h]
  OBVIOUS
<1>4. PICK s : s = [sync[p] EXCEPT !.todo = @ \ {i}, !.out[a.h] = o]
  OBVIOUS
<1>5. i \in DOMAIN regs /\ a.h \in Handles
  BY <1>2, Zenon DEF TodoInv
<1>6. a \in Reg
  BY <1>2, <1>5, ElementOfSeq, LenProperties
<1>7. a.spk \in Spks /\ a.h \in Names
  BY <1>6 DEF Reg
<1>8. sync[p] \in Sync /\ sync[p].out \in Outcomes /\ OutOK(sync[p].out)
      /\ ToldOK(sync[p].told) /\ sync[p].told \in SUBSET Handles
  BY DEF Sync, SyncOK
<1>9. o \in {"none", "staged", "committed", "rejected"}
  BY <1>3, <1>7, <1>8 DEF OutcomeOf, Outcomes
<1>10. s \in Sync /\ s.told = sync[p].told /\ s.out = [sync[p].out EXCEPT ![a.h] = o]
  BY <1>4, <1>8, <1>9 DEF Sync, Outcomes
<1>11. held \subseteq held' /\ HeldNow' \subseteq held'
  BY DEF Remember
<1>12. a.spk \in AskedFor(a.h)'
  BY <1>2, <1>5 DEF AskedFor, RegsKept
<1>13. o # "none" => EarnedNow(a.h, o)'
  <2>1. CASE ~Exists(a.h)
    <3>1. rows'[a.h].spk = a.spk /\ a.spk # NoSpk
      BY <1>1, <1>2, <1>5, <1>7, <2>1, RowTypes DEF Stage, TableInv, TableType
    <3>2. <<a.h, a.spk>> \in held'
      BY <1>5, <1>11, <3>1 DEF HeldNow, Exists
    <3> QED
      BY <1>3, <1>12, <2>1, <3>2 DEF EarnedNow
  <2>2. CASE Exists(a.h) /\ sync[p].out[a.h] # "none"
    <3>1. EarnedNow(a.h, o)
      BY <1>3, <1>7, <1>8, <2>2 DEF OutOK
    <3> QED
      BY <1>3, <1>7, <1>9, <1>11, <2>2, <3>1, EarnedStays
  <2>3. CASE Exists(a.h) /\ sync[p].out[a.h] = "none"
    <3>1. o = OutcomeOf(a)
      BY <1>3, <2>3
    <3>2. <<a.h, rows[a.h].spk>> \in held' /\ rows[a.h].spk \in Spks
      BY <1>5, <1>11, <2>3 DEF HeldNow, Exists, TableInv, TableType, Row
    <3> QED
      BY <1>12, <3>1, <3>2 DEF OutcomeOf, EarnedNow
  <2> QED
    BY <2>1, <2>2, <2>3
<1>14. OutOK(s.out)' /\ ToldOK(s.told)'
  <2>1. ToldOK(s.told)' /\ OutOK(sync[p].out)
    BY <1>8, <1>10, <1>11, EarnedStays
  <2>2. \A n \in Names : s.out[n] = IF n = a.h THEN o ELSE sync[p].out[n]
    BY <1>8, <1>10 DEF Outcomes
  <2>3. \A n \in Names : sync[p].out[n] # "none" =>
          EarnedNow(n, sync[p].out[n]) /\ sync[p].out[n] \in {"staged", "committed", "rejected"}
    BY <1>8, <2>1 DEF OutOK, Outcomes
  <2>4. ASSUME NEW n \in Names, NEW v, v = s.out[n], v # "none"
        PROVE  EarnedNow(n, v)'
    <3>1. CASE n = a.h
      BY <1>13, <2>2, <2>4, <3>1
    <3>2. CASE n # a.h
      BY <1>11, <2>2, <2>3, <2>4, <3>2, EarnedStays
    <3> QED
      BY <3>1, <3>2
  <2> QED
    BY <2>1, <2>4 DEF OutOK
<1>15. AckOrEnd(p, s) \/ SetSync(p, s)
  BY <1>1, <1>2, <1>3, <1>4
<1> QED
  BY <1>10, <1>11, <1>14, <1>15, AckOrEndStays

\* What the other steps of a task leave in its hands and on its way.
LEMMA AsideStays ==
    ASSUME RegInv, TableInv, SyncOK, LateOK, RegsKept, HeldNow \subseteq held, Remember,
           NEW p \in Tasks, SyncAside(p)
    PROVE  SyncOK' /\ LateOK'
<1> USE DEF RegInv, RegType
<1>1. held \subseteq held'
  BY DEF Remember
<1>2. /\ sync[p] \in Sync /\ sync[p].out \in Outcomes /\ OutOK(sync[p].out)
      /\ ToldOK(sync[p].told) /\ sync[p].told \in SUBSET Handles
  BY DEF Sync, SyncOK
<1>3. \A out \in Outcomes : OutOK(out) => OutOK(out)'
  BY <1>1, EarnedStays
<1>4. late' \subseteq late \cup {sync[p].out} => LateOK'
  BY <1>2, <1>3 DEF LateOK
<1>5. CASE SetSync(p, NoSync) /\ late' \subseteq late \cup {sync[p].out}
  <2>1. SyncOK'
    BY <1>1, <1>5, AckOrEndStays, NoSyncOK
  <2> QED
    BY <1>4, <1>5, <2>1
<1>6. CASE PullFails(p)
  <2>1. UNCHANGED <<sync, late>>
    BY <1>6 DEF PullFails, regVars
  <2>2. SyncOK'
    BY <1>1, <2>1, NoSyncOK, SyncStays
  <2> QED
    BY <1>4, <2>1, <2>2
<1>7. CASE StageFails(p)
  <2>1. PICK s : s = [sync[p] EXCEPT !.out = [n \in Names |-> IF n \in BadNames THEN @[n]
                                                            ELSE "none"]]
    OBVIOUS
  <2>2. /\ s \in Sync /\ s.told = sync[p].told
        /\ \A n \in Names : s.out[n] \in {sync[p].out[n], "none"}
    BY <1>2, <2>1 DEF Sync, Outcomes
  <2>3. ToldOK(s.told)'
    BY <1>1, <1>2, <2>2, EarnedStays
  <2>4. OutOK(s.out)
    BY <1>2, <2>2 DEF OutOK
  <2>5. OutOK(s.out)'
    BY <1>3, <2>2, <2>4 DEF Sync
  <2> QED
    BY <1>1, <1>4, <1>7, <2>1, <2>2, <2>3, <2>5, AckOrEndStays DEF StageFails
<1>8. CASE NotifyRead(p)
  <2>1. PICK i \in DOMAIN commits :
          LET told == {h \in Handles : rows[h].idx = i}
          IN SetSync(p, [NoSync EXCEPT !.pc = "notify", !.told = told,
                                       !.root = commits[i].id])
    BY <1>8 DEF NotifyRead, HandlesOf
  <2>2. PICK s : s = [NoSync EXCEPT !.pc = "notify", !.told = {h \in Handles : rows[h].idx = i},
                                    !.root = commits[i].id]
    OBVIOUS
  <2>3. DOMAIN commits = 1..Len(commits) /\ Len(commits) \in Nat /\ commits[i] \in Commit
    BY LenProperties, ElementOfSeq DEF TableInv, TableType
  <2>4. commits[i].id \in Nat
    BY <2>3, Zenon DEF Commit
  <2>5. s \in Sync /\ s.out = NoSync.out /\ s.told = {h \in Handles : rows[h].idx = i}
    BY <2>2, <2>4, SyncTypes DEF Sync, NoSync
  <2>6. \A h \in s.told : <<h, rows[h].spk>> \in held /\ rows[h].spk \in Spks
    <3>1. \A h \in s.told : h \in Handles /\ rows[h].idx # 0
      BY <2>3, <2>5
    <3>2. \A h \in s.told : Exists(h)
      BY <3>1, RowTypes DEF TableInv, NoRows
    <3> QED
      BY <3>1, <3>2 DEF HeldNow, Exists, TableInv, TableType, Row
  <2>7. ToldOK(s.told)' /\ OutOK(s.out)'
    BY <1>1, <2>5, <2>6, NoSyncOK DEF ToldOK
  <2> QED
    BY <1>1, <1>4, <1>8, <2>1, <2>2, <2>5, <2>7, AckOrEndStays DEF NotifyRead
<1> QED
  BY <1>5, <1>6, <1>7, <1>8 DEF SyncAside, SendAck, AckFails, NotifySend, SyncDropped

\* Every step keeps the list of registrations and the first of each name.
LEMMA RegsStay ==
    ASSUME LoopInv, ReqInv, LoopNext
    PROVE  RegsKept /\ FirstsExist'
<1> USE DEF LoopInv, ReqInv
<1>1. CASE UNCHANGED regs
  <2>1. RegsKept /\ DOMAIN regs' = DOMAIN regs
    BY <1>1 DEF RegsKept
  <2> QED
    BY <2>1, RewriteMoves
<1>2. CASE RegisterPush
  BY <1>2, PushMoves
<1>3. CASE \/ \E out \in Outcomes : AckHandles(out)
           \/ \E told \in SUBSET Handles, root \in Nat : Committed(told, root)
  BY <1>3, RegsRewritten, RewriteMoves
<1> QED
  BY <1>1, <1>2, <1>3, RegsMove

LEMMA ReqInvStep ==
    ASSUME LoopInv, ReqInv, LoopNext
    PROVE  ReqInv'
<1> USE DEF LoopInv
<1>1. Remember /\ held \subseteq held' /\ HeldNow' \subseteq held'
  BY DEF LoopNext, Remember
<1>2. RegsKept /\ FirstsExist'
  BY RegsStay
<1>3. HeldNow \subseteq held /\ SyncOK /\ LateOK
  BY DEF ReqInv
<1>4. \A out \in Outcomes : OutOK(out) => OutOK(out)'
  BY <1>1, <1>2, EarnedStays
<1>5. late' \subseteq late => LateOK'
  BY <1>3, <1>4 DEF LateOK, RegInv, RegType
<1>6. (\A p \in Tasks : sync'[p] \in {sync[p], NoSync}) => SyncOK'
  BY <1>1, <1>2, <1>3, NoSyncOK, SyncStays
<1>7. ASSUME NEW p \in Tasks, SyncMove(p)
      PROVE  SyncOK' /\ LateOK'
  <2>1. CASE Pull(p)
    BY <1>1, <1>2, <1>3, <1>5, <2>1, PullStays DEF Pull
  <2>2. CASE StageOne(p)
    BY <1>1, <1>2, <1>3, <1>5, <2>2, StageStays DEF StageOne
  <2>3. CASE SyncAside(p)
    BY <1>1, <1>2, <1>3, <2>3, AsideStays
  <2> QED
    BY <1>7, <2>1, <2>2, <2>3 DEF SyncMove
<1>8. ASSUME UNCHANGED regVars
      PROVE  SyncOK' /\ LateOK'
  BY <1>5, <1>6, <1>8 DEF regVars
<1>9. ASSUME RegistryStep
      PROVE  SyncOK' /\ LateOK'
  <2>1. UNCHANGED sync /\ late' \subseteq late
    BY <1>9 DEF RegistryStep, RegisterCheck, RegisterPush, LateAck
  <2> QED
    BY <1>5, <1>6, <2>1
<1>10. ASSUME Restart
       PROVE  SyncOK' /\ LateOK'
  <2>1. UNCHANGED late /\ \A p \in Tasks : sync'[p] = NoSync
    BY <1>10 DEF Restart
  <2> QED
    BY <1>5, <1>6, <2>1
<1>11. SyncOK' /\ LateOK'
  BY <1>7, <1>8, <1>9, <1>10, Kinds
<1> QED
  BY <1>1, <1>2, <1>11 DEF ReqInv

LEMMA ReqInvInit ==
    ASSUME LoopInit
    PROVE  ReqInv
<1> USE DEF LoopInit, TableInit, RegInit
<1>1. HeldNow \subseteq held
  BY RowTypes DEF HeldNow, Exists
<1>2. NoSync.told = {} /\ \A n \in Names : NoSync.out[n] = "none"
  BY SyncTypes DEF NoOutcome
<1>3. SyncOK
  BY <1>2 DEF SyncOK, OutOK, ToldOK
<1>4. LateOK /\ FirstsExist
  BY DEF LateOK, FirstsExist
<1> QED
  BY <1>1, <1>3, <1>4 DEF ReqInv

-----------------------------------------------------------------------------
(* Each step is one of the promise's, or none.                             *)
LEMMA EarnedAgrees ==
    \A n \in Names : \A o : EarnedNow(n, o) => Requests!Earned(n, o)
  BY DEF EarnedNow, Requests!Earned, Requests!HeldForAsker, Requests!HeldForOther

Statuses == [n \in Names |-> StatusOf(n)]
Askers   == [n \in Names |-> AskedFor(n)]

\* The registry's list moves, and nothing new is held.
LEMMA PushIsAsk ==
    ASSUME RegInv, FirstsExist, RegisterPush, held' = held
    PROVE  \E n \in Names, s \in Spks : Requests!Ask(n, s)
<1>1. PICK r \in Ask : \A n \in Names :
        /\ AskedFor(n)' = IF n = r.h THEN AskedFor(n) \cup {r.spk} ELSE AskedFor(n)
        /\ StatusOf(n)' = IF n = r.h /\ StatusOf(n) = "none" THEN "pending"
                          ELSE StatusOf(n)
  BY PushMoves
<1>2. r.h \in Names /\ r.spk \in Spks
  BY DEF Ask
<1>3. Askers' = [Askers EXCEPT ![r.h] = @ \cup {r.spk}]
  BY <1>1, <1>2 DEF Askers
<1>4. Statuses' = [Statuses EXCEPT ![r.h] = IF @ = "none" THEN "pending" ELSE @]
  BY <1>1, <1>2 DEF Statuses
<1>5. Requests!Ask(r.h, r.spk)
  BY <1>3, <1>4 DEF Requests!Ask, Statuses, Askers
<1> QED
  BY <1>2, <1>5

LEMMA AckIsSettle ==
    ASSUME RegInv, FirstsExist, held' = held, NEW out \in Outcomes, OutOK(out), AckHandles(out)
    PROVE  Requests!Settle
<1>1. RegsKept /\ DOMAIN regs' = DOMAIN regs
  BY RegsRewritten
<1>2. Askers' = Askers
  BY <1>1, RewriteMoves DEF Askers
<1>3. ASSUME NEW n \in Names, StatusOf(n)' # StatusOf(n)
      PROVE  StatusOf(n) = "pending" /\ EarnedNow(n, out[n]) /\ StatusOf(n)' = out[n]
  <2>1. PICK i \in DOMAIN regs : /\ regs[i].h = n /\ IsFirst(i)
                                /\ StatusOf(n) = regs[i].status
                                /\ StatusOf(n)' = regs'[i].status
    BY <1>1, <1>3, RewriteMoves
  <2>2. regs[i] \in Reg
    BY <2>1, ElementOfSeq, LenProperties DEF RegInv, RegType
  <2>3. regs[i].status = "pending" /\ out[n] # "none" /\ regs'[i].status = out[n]
    BY <1>3, <2>1, <2>2 DEF AckHandles, Reg
  <2> QED
    BY <2>1, <2>3 DEF OutOK
<1>4. \A n \in Names : Statuses'[n] # Statuses[n] =>
        Statuses[n] = "pending" /\ Requests!Earned(n, Statuses'[n])
  BY <1>3, EarnedAgrees DEF Statuses
<1> QED
  BY <1>2, <1>4 DEF Requests!Settle, Statuses, Askers

LEMMA CommittedIsNotify ==
    ASSUME RegInv, FirstsExist, held' = held, NEW told \in SUBSET Handles, NEW root \in Nat,
           ToldOK(told), Committed(told, root)
    PROVE  Requests!Notify
<1>1. RegsKept /\ DOMAIN regs' = DOMAIN regs
  BY RegsRewritten
<1>2. Askers' = Askers
  BY <1>1, RewriteMoves DEF Askers
<1>3. ASSUME NEW n \in Names, StatusOf(n)' # StatusOf(n)
      PROVE  /\ StatusOf(n) # "none" /\ StatusOf(n)' = "committed"
             /\ \E t \in Spks : <<n, t>> \in held
  <2>1. PICK i \in DOMAIN regs : /\ regs[i].h = n /\ IsFirst(i)
                                /\ StatusOf(n) = regs[i].status
                                /\ StatusOf(n)' = regs'[i].status
    BY <1>1, <1>3, RewriteMoves
  <2>2. regs[i] \in Reg
    BY <2>1, ElementOfSeq, LenProperties DEF RegInv, RegType
  <2>3. n \in told /\ regs'[i].status = "committed"
    BY <1>3, <2>1, <2>2 DEF Committed, Reg
  <2> QED
    BY <2>1, <2>2, <2>3 DEF ToldOK, Reg, Status
<1>4. \A n \in Names : Statuses'[n] # Statuses[n] =>
        /\ Statuses[n] # "none" /\ Statuses'[n] = "committed"
        /\ \E t \in Spks : <<n, t>> \in held
  BY <1>3 DEF Statuses
<1> QED
  BY <1>2, <1>4 DEF Requests!Notify, Statuses, Askers

LEMMA RequestStep ==
    ASSUME LoopInv, ReqInv, LoopNext
    PROVE  [Requests!ReqNext]_(Requests!requests)
<1> USE DEF LoopInv, ReqInv
<1>1. \/ held' = held
      \/ \E h \in Handles, s \in Spks : held' = held \cup {<<h, s>>}
  BY RegsMove, HeldMoves DEF LoopNext
<1>2. KeysStay => held' = held
  BY DEF KeysStay, LoopNext, Remember, HeldNow, Exists
<1>3. UNCHANGED regs => Statuses' = Statuses /\ Askers' = Askers
  BY DEF Statuses, Askers, StatusOf, FirstOf, IsFirst, AskedFor
<1>4. CASE UNCHANGED regs /\ held' = held
  BY <1>3, <1>4 DEF Requests!requests, Statuses, Askers
<1>5. CASE UNCHANGED regs /\ \E h \in Handles, s \in Spks : held' = held \cup {<<h, s>>}
  <2>1. PICK h \in Handles, s \in Spks : held' = held \cup {<<h, s>>}
    BY <1>5
  <2>2. h \in Names /\ h \notin BadNames
    BY TableAssumption DEF Names
  <2>3. Requests!Hold(h, s)
    BY <1>3, <1>5, <2>1, <2>2 DEF Requests!Hold, Statuses, Askers
  <2> QED
    BY <2>2, <2>3 DEF Requests!ReqNext
<1>6. CASE KeysStay /\ RegisterPush
  BY <1>2, <1>6, PushIsAsk DEF Requests!ReqNext
<1>7. CASE KeysStay /\ \E out \in Outcomes : OutOK(out) /\ AckHandles(out)
  BY <1>2, <1>7, AckIsSettle DEF Requests!ReqNext
<1>8. CASE KeysStay /\ \E told \in SUBSET Handles, root \in Nat :
                         ToldOK(told) /\ Committed(told, root)
  BY <1>2, <1>8, CommittedIsNotify DEF Requests!ReqNext
<1> QED
  BY <1>1, <1>4, <1>5, <1>6, <1>7, <1>8, RegsMove

\* The registry, the cycle against it and the space keep the promise of
\* HandleRequests: outcomes are earned and settle once, for any number of
\* askers, duplicate registrations, overlapping syncs, lost and late acks
\* and restarts (ack_handles, sync_space, notify_registry).
THEOREM RequestsAreKept ==
    LoopSpec => ImplementsRequests
<1>1. LoopInit => Requests!ReqInit
  <2> SUFFICES ASSUME LoopInit
               PROVE  Requests!ReqInit
    OBVIOUS
  <2>1. \A n \in Names : StatusOf(n) = "none" /\ AskedFor(n) = {}
    BY DEF LoopInit, RegInit, StatusOf, FirstOf, AskedFor
  <2> QED
    BY <2>1 DEF Requests!ReqInit, LoopInit
<1>2. LoopInv /\ ReqInv /\ [LoopNext]_loopVars => ReqInv' /\ [Requests!ReqNext]_(Requests!requests)
  <2>1. ASSUME LoopInv, ReqInv, UNCHANGED loopVars
        PROVE  ReqInv' /\ UNCHANGED Requests!requests
    <3>1. UNCHANGED <<rows, regs, sync, late, held>>
      BY <2>1 DEF loopVars, table, regVars
    <3>2. \A n : StatusOf(n)' = StatusOf(n) /\ AskedFor(n)' = AskedFor(n)
      BY <3>1 DEF StatusOf, FirstOf, IsFirst, AskedFor
    <3>3. RegsKept
      BY <3>1 DEF RegsKept
    <3>4. SyncOK'
      BY <2>1, <3>1, <3>3, NoSyncOK, SyncStays DEF LoopInv, ReqInv
    <3>5. \A out \in Outcomes : OutOK(out) => OutOK(out)'
      BY <3>1, <3>3, EarnedStays
    <3>6. LateOK'
      BY <2>1, <3>1, <3>5 DEF LoopInv, RegInv, RegType, ReqInv, LateOK
    <3>7. FirstsExist' /\ (HeldNow \subseteq held)'
      BY <2>1, <3>1 DEF ReqInv, FirstsExist, IsFirst, HeldNow, Exists
    <3> QED
      BY <3>1, <3>2, <3>4, <3>6, <3>7 DEF ReqInv, Requests!requests
  <2> QED
    BY <2>1, ReqInvStep, RequestStep
<1> QED
  BY <1>1, <1>2, ReqInvInit, LoopInvariant, PTL
  DEF LoopSpec, ImplementsRequests, Requests!RequestsSpec

-----------------------------------------------------------------------------
(* What whoever asked gets from it.                                        *)

\* The promise of HandleRequests, told of the registry and the space.
Answers == INSTANCE HandleRequestsProofs WITH
    status <- [n \in Names |-> StatusOf(n)],
    asked <- [n \in Names |-> AskedFor(n)]

\* The promise of HandleRequestsProofs is the one that is kept.
LEMMA PromiseIsTheAnswers == LoopSpec => Answers!RequestsSpec
<1>1. Requests!ReqInit <=> Answers!ReqInit
  BY DEF Requests!ReqInit, Answers!ReqInit
<1>2. Requests!ReqNext <=> Answers!ReqNext
  BY DEF Requests!ReqNext, Answers!ReqNext, Requests!Ask, Answers!Ask,
         Requests!Hold, Answers!Hold, Requests!Settle, Answers!Settle,
         Requests!Notify, Answers!Notify, Requests!Earned, Answers!Earned,
         Requests!HeldForAsker, Answers!HeldForAsker,
         Requests!HeldForOther, Answers!HeldForOther
<1>3. [Requests!ReqNext]_(Requests!requests) => [Answers!ReqNext]_(Answers!requests)
  BY <1>2 DEF Requests!requests, Answers!requests
<1> QED
  BY <1>1, <1>2, <1>3, RequestsAreKept, PTL
     DEF ImplementsRequests, Requests!RequestsSpec, Answers!RequestsSpec

\* What GET /status says of a name is so: the space has held a name that is
\* staged for one of those who asked, a name that is rejected for somebody
\* else unless it is no name, and one that is committed at all.
StatusIsEarned ==
    \A n \in Names :
        /\ StatusOf(n) = "staged" => \E s \in AskedFor(n) : <<n, s>> \in held
        /\ StatusOf(n) = "rejected" =>
             n \in BadNames \/ \E s \in AskedFor(n) : \E t \in Spks \ {s} : <<n, t>> \in held
        /\ StatusOf(n) = "committed" => \E t \in Spks : <<n, t>> \in held

\* THEOREM.  ... whenever it is asked, whatever acks and notifications were
\* lost, late, or of syncs that overlapped.
THEOREM StatusesAreEarned == LoopSpec => []StatusIsEarned
<1>1. Answers!AnswerInv => StatusIsEarned
  BY DEF Answers!AnswerInv, Answers!OutcomesEarned, Answers!HeldForAsker,
         Answers!HeldForOther, Answers!HeldOnce, StatusIsEarned
<1> QED
  BY <1>1, PromiseIsTheAnswers, Answers!AnswersAreEarned, PTL

\* THEOREM.  A name that was answered is never pending again, and one that is
\* committed is committed for ever (ack_handles asks for "pending", and
\* nothing else but a notification writes a status).
THEOREM AnswersStand ==
    ASSUME NEW n \in Names
    PROVE  LoopSpec =>
             /\ [](StatusOf(n) = "committed" => [](StatusOf(n) = "committed"))
             /\ [](StatusOf(n) \in {"staged", "rejected", "committed"}
                     => [](StatusOf(n) \in {"staged", "rejected", "committed"}))
<1> DEFINE C == StatusOf(n) = "committed"
           S == StatusOf(n) \in {"staged", "rejected", "committed"}
<1>1. [Answers!AnswersStay]_(Answers!requests) => (C => C') /\ (S => S')
  <2>1. CASE Answers!AnswersStay
    BY <2>1 DEF Answers!AnswersStay
  <2>2. CASE UNCHANGED Answers!requests
    <3>1. [m \in Names |-> StatusOf(m)]' = [m \in Names |-> StatusOf(m)]
      BY <2>2 DEF Answers!requests
    <3>2. StatusOf(n)' = StatusOf(n)
      BY <3>1
    <3> QED
      BY <3>2
  <2> QED
    BY <2>1, <2>2
<1> HIDE DEF C, S
<1>2. LoopSpec => [](C => []C) /\ [](S => []S)
  BY <1>1, PromiseIsTheAnswers, Answers!AnswersAreKept, PTL
<1> QED
  BY <1>2 DEF C, S

-----------------------------------------------------------------------------
(***************************************************************************)
(* The promise to owners (HandleLedger).  A row never names a commitment   *)
(* that is not there, so a commitment that is inserted binds exactly the   *)
(* rows it was made of besides those bound before; and only the operator's *)
(* own handlers move rows between commitments.                             *)
(***************************************************************************)
IdxInv == \A h \in Handles : rows[h].idx <= Len(commits)

\* The tree of commitment t, and the list of roots, of any rows and commitments.
Bound(r, t) == [h \in Handles |-> IF r[h].idx \in 1..t THEN r[h].spk ELSE NoSpk]
View(r, c)  == [t \in DOMAIN c |-> [root |-> Bound(r, t), sealed |-> c[t].sent]]

Entry == [root : [Handles -> Spks \cup {NoSpk}], sealed : BOOLEAN]

\* The fields of an entry, and the entry that is sealed.
LEMMA EntryFields ==
    ASSUME NEW e, NEW a, NEW b, e = [root |-> a, sealed |-> b]
    PROVE  e.root = a /\ e.sealed = b
<1>1. e.root = a
  BY Zenon
<1>2. e.sealed = b
  BY Zenon
<1> QED
  BY <1>1, <1>2

LEMMA SealedEntry ==
    ASSUME NEW e \in Entry
    PROVE  [e EXCEPT !.sealed = TRUE] = [root |-> e.root, sealed |-> TRUE]
<1> DEFINE x == [e EXCEPT !.sealed = TRUE]
           y == [root |-> e.root, sealed |-> TRUE]
<1>1. x \in Entry /\ x.root = e.root /\ x.sealed = TRUE
  BY DEF Entry
<1>2. y \in Entry /\ y.root = e.root /\ y.sealed = TRUE
  BY DEF Entry
<1> HIDE DEF x, y
<1>3. x = y
  BY <1>1, <1>2 DEF Entry
<1> QED
  BY <1>3 DEF x, y

LEMMA ViewIsSeq ==
    ASSUME NEW r \in [Handles -> Row], NEW c \in Seq(Commit)
    PROVE  /\ Len(c) \in Nat /\ DOMAIN c = 1..Len(c)
           /\ View(r, c) \in Seq(Entry) /\ Len(View(r, c)) = Len(c)
           /\ DOMAIN View(r, c) = 1..Len(c)
           /\ \A t \in 1..Len(c) : View(r, c)[t] = [root |-> Bound(r, t), sealed |-> c[t].sent]
           /\ \A t \in 1..Len(c) : View(r, c)[t] \in Entry
           /\ View(r, c) # <<>> <=> Len(c) > 0
           /\ Len(c) > 0 => Last(View(r, c)) = View(r, c)[Len(c)]
<1>1. Len(c) \in Nat /\ DOMAIN c = 1..Len(c)
  BY LenProperties
<1>2. \A t \in 1..Len(c) : [root |-> Bound(r, t), sealed |-> c[t].sent] \in Entry
  <2> SUFFICES ASSUME NEW t \in 1..Len(c)
               PROVE  Bound(r, t) \in [Handles -> Spks \cup {NoSpk}] /\ c[t].sent \in BOOLEAN
    BY DEF Entry
  <2>1. c[t] \in Commit
    BY <1>1, ElementOfSeq
  <2> QED
    BY <2>1 DEF Bound, Row, Commit
<1>3. /\ View(r, c) \in [1..Len(c) -> Entry]
      /\ \A t \in 1..Len(c) : View(r, c)[t] = [root |-> Bound(r, t), sealed |-> c[t].sent]
  BY <1>1, <1>2 DEF View
<1>4. View(r, c) \in Seq(Entry) /\ Len(View(r, c)) = Len(c)
  BY <1>1, <1>3
<1>5. View(r, c) # <<>> <=> Len(c) > 0
  BY <1>1, <1>4, EmptySeq
<1>6. Last(View(r, c)) = View(r, c)[Len(c)]
  BY <1>4 DEF Last
<1> QED
  BY <1>1, <1>3, <1>4, <1>5, <1>6

\* No row of a commitment changes its place or key and none joins one, and the
\* commitments stay, sent or not.
TreesStay ==
    /\ Len(commits') = Len(commits)
    /\ \A t \in DOMAIN commits : commits'[t].sent = commits[t].sent
    /\ \A h \in Handles :
         \/ rows'[h].idx = rows[h].idx /\ rows'[h].spk = rows[h].spk
         \/ rows'[h].idx = 0 /\ rows[h].idx = 0

LEMMA StayingKeeps ==
    ASSUME TableType, TableType', IdxInv, TreesStay
    PROVE  IdxInv' /\ View(rows', commits') = View(rows, commits)
<1>1. rows \in [Handles -> Row] /\ commits \in Seq(Commit)
      /\ rows' \in [Handles -> Row] /\ commits' \in Seq(Commit)
  BY DEF TableType
<1>2. DOMAIN commits' = DOMAIN commits
  BY <1>1, LenProperties DEF TreesStay
<1>3. \A t \in DOMAIN commits : Bound(rows', t) = Bound(rows, t)
  BY <1>1 DEF Bound, TreesStay
<1>4. View(rows', commits') = View(rows, commits)
  BY <1>2, <1>3 DEF View, TreesStay
<1>5. IdxInv'
  <2>1. Len(commits) \in Nat
    BY <1>1, LenProperties
  <2> QED
    BY <2>1 DEF IdxInv, TreesStay
<1> QED
  BY <1>4, <1>5

\* A commit extends the list by the tree of the rows it takes.
LEMMA CommitLocalExtends ==
    ASSUME TableInv, TableType', IdxInv, CommitLocal
    PROVE  IdxInv' /\ Ledger!Extend
<1> USE DEF TableInv, TableType, Newest
<1> DEFINE n == Len(commits)
           tree == Bound(rows', n + 1)
           entry == [root |-> tree, sealed |-> FALSE]
<1>1. PICK S \in (SUBSET {h \in Handles : IsStaged(h)}) \ {{}} :
        rows' = [h \in Handles |-> IF h \in S THEN [rows[h] EXCEPT !.idx = n + 1]
                                              ELSE rows[h]]
  BY DEF CommitLocal
<1>2. /\ n \in Nat /\ DOMAIN commits = 1..n
      /\ \A h \in Handles : rows[h].idx \in Nat /\ rows[h].idx <= n
  BY LenProperties DEF Row, IdxInv
<1>3. /\ Len(commits') = n + 1 /\ DOMAIN commits' = 1..(n + 1)
      /\ \A t \in 1..n : commits'[t] = commits[t]
      /\ commits'[n + 1].sent = FALSE
  BY <1>2 DEF CommitLocal
<1>4. \A h \in Handles :
        /\ h \in S => rows[h].idx = 0 /\ rows'[h].idx = n + 1 /\ rows'[h].spk = rows[h].spk
                      /\ rows[h].spk # NoSpk
        /\ h \notin S => rows'[h] = rows[h]
  BY <1>1 DEF IsStaged, Exists, Row
<1>5. IdxInv'
  BY <1>2, <1>3, <1>4 DEF IdxInv
<1>6. \A t \in 1..n : Bound(rows', t) = Bound(rows, t)
  BY <1>2, <1>4 DEF Bound
<1>7. tree \in [Handles -> Spks \cup {NoSpk}]
  BY DEF Bound, Row
<1> HIDE DEF n, tree
<1>8. View(rows', commits') = Append(View(rows, commits), entry)
  <2>1. /\ View(rows', commits') \in Seq(Entry) /\ Len(View(rows', commits')) = n + 1
        /\ \A t \in 1..(n + 1) : View(rows', commits')[t] =
             [root |-> Bound(rows', t), sealed |-> commits'[t].sent]
    BY <1>3, ViewIsSeq DEF n
  <2>2. /\ View(rows, commits) \in Seq(Entry) /\ Len(View(rows, commits)) = n
        /\ \A t \in 1..n : View(rows, commits)[t] =
             [root |-> Bound(rows, t), sealed |-> commits[t].sent]
    BY ViewIsSeq DEF n
  <2>3. entry \in Entry
    BY <1>7 DEF Entry
  <2>4. View(rows', commits')[n + 1] = entry
    <3>1. View(rows', commits')[n + 1] =
            [root |-> Bound(rows', n + 1), sealed |-> commits'[n + 1].sent]
      BY <1>2, <2>1
    <3> QED
      BY <1>3, <3>1, Zenon DEF tree
  <2>5. \A t \in 1..n : View(rows', commits')[t] = View(rows, commits)[t]
    BY <1>2, <1>3, <1>6, <2>1, <2>2
  <2> HIDE DEF entry
  <2>6. /\ Append(View(rows, commits), entry) \in Seq(Entry)
        /\ Len(Append(View(rows, commits), entry)) = n + 1
        /\ Append(View(rows, commits), entry)[n + 1] = entry
        /\ \A t \in 1..n : Append(View(rows, commits), entry)[t] = View(rows, commits)[t]
    BY <1>2, <2>2, <2>3, AppendProperties
  <2> QED
    BY <1>2, <2>1, <2>4, <2>5, <2>6, SeqEqual
<1>9. View(rows, commits) # <<>> => Ledger!Grows(Last(View(rows, commits)).root, tree)
  <2> SUFFICES ASSUME n > 0
               PROVE  Ledger!Grows(Bound(rows, n), tree)
    <3>1. View(rows, commits) # <<>> => n > 0
      BY ViewIsSeq DEF n
    <3>2. n > 0 => Last(View(rows, commits)) = View(rows, commits)[n]
      BY ViewIsSeq DEF n
    <3>3. n > 0 => View(rows, commits)[n].root = Bound(rows, n)
      <4>1. n > 0 => View(rows, commits)[n] = [root |-> Bound(rows, n), sealed |-> commits[n].sent]
        BY <1>2, ViewIsSeq DEF n
      <4> QED
        BY <4>1
    <3> QED
      BY <3>1, <3>2, <3>3
  <2>1. \A h \in Handles : Bound(rows, n)[h] # NoSpk => tree[h] = Bound(rows, n)[h]
    BY <1>2, <1>4 DEF Bound, tree
  <2>2. PICK h \in S : h \in Handles
    BY <1>1
  <2>3. Bound(rows, n)[h] = NoSpk /\ tree[h] # NoSpk
    BY <1>2, <1>4, <2>2 DEF Bound, tree
  <2> QED
    BY <2>1, <2>2, <2>3 DEF Ledger!Grows
<1>10. Ledger!Extend
  BY <1>7, <1>8, <1>9 DEF Ledger!Extend, Ledger!LedgerTree, Ledger!Last, Last, View, TreeOf, InTree, Bound
<1> QED
  BY <1>5, <1>10

\* A rollback withdraws the last root, unsealed.
LEMMA RollbackWithdraws ==
    ASSUME TableInv, TableType', IdxInv, RollbackLocal
    PROVE  IdxInv' /\ Ledger!Withdraw
<1> USE DEF TableInv, TableType, Newest
<1> DEFINE n == Len(commits)
           now == View(rows, commits)
           then == View(rows', commits')
<1>1. /\ rows' = [h \in Handles |-> IF rows[h].idx = n
                                    THEN [rows[h] EXCEPT !.idx = 0] ELSE rows[h]]
      /\ commits' = Front(commits) /\ n > 0 /\ ~commits[n].sent
  BY DEF RollbackLocal
<1>2. /\ n \in Nat /\ DOMAIN commits = 1..n
      /\ \A h \in Handles : rows[h].idx \in Nat /\ rows[h].idx <= n
  BY LenProperties DEF Row, IdxInv
<1>3. /\ Len(commits') = n - 1 /\ \A t \in 1..(n - 1) : commits'[t] = commits[t]
  BY <1>1, FrontKeeps
<1>4. \A h \in Handles :
        IF rows[h].idx = n THEN rows'[h].idx = 0 ELSE rows'[h] = rows[h]
  BY <1>1 DEF Row
<1>5. IdxInv'
  BY <1>1, <1>2, <1>3, <1>4 DEF IdxInv
<1>6. \A t \in 1..(n - 1) : Bound(rows', t) = Bound(rows, t)
  BY <1>2, <1>4 DEF Bound
<1>7. /\ now \in Seq(Entry) /\ Len(now) = n /\ now # <<>> /\ Last(now) = now[n]
      /\ \A t \in 1..n : now[t] = [root |-> Bound(rows, t), sealed |-> commits[t].sent]
  BY <1>1, ViewIsSeq
<1>8. /\ then \in Seq(Entry) /\ Len(then) = n - 1
      /\ \A t \in 1..(n - 1) : then[t] =
           [root |-> Bound(rows', t), sealed |-> commits'[t].sent]
  BY <1>3, ViewIsSeq
<1> HIDE DEF n, now, then
<1>9. \A t \in 1..(n - 1) : then[t] = now[t]
  BY <1>2, <1>3, <1>6, <1>7, <1>8
<1>10. then = Front(now)
  <2>1. /\ Front(now) \in Seq(Entry) /\ Len(Front(now)) = n - 1
        /\ \A t \in 1..(n - 1) : Front(now)[t] = now[t]
    BY <1>1, <1>7, FrontKeeps
  <2> QED
    BY <1>8, <1>9, <2>1, SeqEqual
<1>11. ~Last(now).sealed
  <2>1. now[n] = [root |-> Bound(rows, n), sealed |-> commits[n].sent]
    BY <1>1, <1>2, <1>7
  <2>2. now[n].sealed = commits[n].sent
    BY <2>1, EntryFields, Zenon
  <2>3. ~now[n].sealed
    BY <1>1, <2>2, Zenon
  <2> QED
    BY <1>7, <2>3, Zenon
<1>12. Ledger!Withdraw
  BY <1>7, <1>10, <1>11
     DEF Ledger!Withdraw, Ledger!Last, Last, Ledger!Front, Front, View, TreeOf, InTree,
         Bound, now, then
<1> QED
  BY <1>5, <1>12

\* A broadcast seals the last root.
LEMMA BroadcastSeals ==
    ASSUME TableInv, TableType', IdxInv, Broadcast
    PROVE  IdxInv' /\ Ledger!Seal
<1> USE DEF TableInv, TableType, Newest
<1> DEFINE n == Len(commits)
           now == View(rows, commits)
           then == View(rows', commits')
           sealed == [now[n] EXCEPT !.sealed = TRUE]
<1>1. rows' = rows /\ n > 0 /\ commits' = [commits EXCEPT ![n].sent = TRUE]
  BY DEF Broadcast
<1>2. n \in Nat /\ DOMAIN commits = 1..n
  BY LenProperties
<1>3. commits[n] \in Commit
  BY <1>1, <1>2, ElementOfSeq
<1>4. /\ Len(commits') = n /\ commits'[n].sent = TRUE
      /\ \A t \in 1..n : t # n => commits'[t] = commits[t]
  BY <1>1, <1>2, <1>3, LenProperties DEF Commit
<1>5. IdxInv'
  BY <1>1, <1>4 DEF IdxInv
<1>6. /\ now \in Seq(Entry) /\ Len(now) = n /\ now # <<>> /\ DOMAIN now = 1..n
      /\ \A t \in 1..n : now[t] = [root |-> Bound(rows, t), sealed |-> commits[t].sent]
  BY <1>1, ViewIsSeq
<1>7. /\ then \in Seq(Entry) /\ Len(then) = n
      /\ \A t \in 1..n : then[t] = [root |-> Bound(rows, t), sealed |-> commits'[t].sent]
  BY <1>1, <1>4, ViewIsSeq
<1> HIDE DEF n, now, then
<1>8. now[n] = [root |-> Bound(rows, n), sealed |-> commits[n].sent]
      /\ then[n] = [root |-> Bound(rows, n), sealed |-> TRUE]
  <2>1. now[n] = [root |-> Bound(rows, n), sealed |-> commits[n].sent]
    BY <1>1, <1>2, <1>6
  <2>2. then[n] = [root |-> Bound(rows, n), sealed |-> commits'[n].sent]
    <3>1. n \in 1..n
      BY <1>1, <1>2
    <3> QED
      BY <1>7, <3>1, Zenon
  <2>3. then[n] = [root |-> Bound(rows, n), sealed |-> TRUE]
    BY <1>4, <2>2, Zenon
  <2> QED
    BY <2>1, <2>3
<1>9. sealed \in Entry /\ then[n] = sealed
  <2>1. then[n] \in Entry
    BY <1>1, <1>2, <1>7, ElementOfSeq
  <2>2. sealed = [root |-> Bound(rows, n), sealed |-> TRUE]
    <3>1. now[n].root = Bound(rows, n)
      BY <1>8, EntryFields
    <3>2. now[n] \in Entry
      BY <1>1, <1>2, <1>6, ElementOfSeq
    <3> QED
      BY <3>1, <3>2, SealedEntry
  <2>3. then[n] = sealed
    BY <1>8, <2>2, Zenon
  <2> QED
    BY <2>1, <2>3
<1> HIDE DEF sealed
<1>10. then = [now EXCEPT ![n] = sealed]
  <2>1. \A t \in 1..n : t # n => then[t] = now[t]
    BY <1>4, <1>6, <1>7
  <2>2. [now EXCEPT ![n] = sealed] \in Seq(Entry)
        /\ Len([now EXCEPT ![n] = sealed]) = n
    BY <1>1, <1>2, <1>6, <1>9, ExceptSeq
  <2> QED
    BY <1>2, <1>6, <1>7, <1>9, <2>1, <2>2, SeqEqual
<1>11. Ledger!Seal
  BY <1>6, <1>10
     DEF Ledger!Seal, View, TreeOf, InTree, Bound, now, then, sealed
<1> QED
  BY <1>5, <1>11

\* Every other step leaves the trees alone.
RowsAside ==
    \A h \in Handles :
        \/ rows'[h].idx = rows[h].idx /\ rows'[h].spk = rows[h].spk
        \/ rows'[h].idx = 0 /\ rows[h].idx = 0

LEMMA CommitsSame ==
    ASSUME RowsAside, UNCHANGED commits
    PROVE  TreesStay
  BY DEF RowsAside, TreesStay

LEMMA StageAside ==
    ASSUME TableInv, NEW h \in Handles, NEW s \in Spks, ~Exists(h), Stage(h, s)
    PROVE  RowsAside
<1>1. rows[h].idx = 0
  BY RowTypes DEF TableInv, NoRows
<1>2. /\ rows'[h].idx = 0
      /\ \A g \in Handles : g # h => rows'[g] = rows[g]
  BY RowTypes DEF Stage, TableInv, TableType
<1> QED
  BY <1>1, <1>2 DEF RowsAside

LEMMA TableAside ==
    ASSUME TableInv, AddRequest \/ RemoveStaged \/ SaveReceipt \/ Confirm
    PROVE  TreesStay
<1> USE DEF TableInv, TableType
<1>1. CASE AddRequest
  <2>1. PICK h \in Handles, s \in Spks : ~Exists(h) /\ Stage(h, s)
    BY <1>1 DEF AddRequest, Budget
  <2> QED
    BY <1>1, <2>1, StageAside, CommitsSame DEF AddRequest
<1>2. CASE RemoveStaged
  BY <1>2, RowTypes, CommitsSame DEF RemoveStaged, RowsAside, IsStaged
<1>3. CASE SaveReceipt
  <2>1. PICK i \in DOMAIN commits : commits' = [commits EXCEPT ![i].proofs = @ + 1]
    BY <1>3 DEF SaveReceipt
  <2>2. commits[i] \in Commit
    BY ElementOfSeq, LenProperties
  <2>3. [commits[i] EXCEPT !.proofs = @ + 1].sent = commits[i].sent
    BY <2>2 DEF Commit
  <2>4. Len(commits') = Len(commits)
    BY <2>1, LenProperties
  <2>5. \A t \in DOMAIN commits : commits'[t].sent = commits[t].sent
    BY <2>1, <2>3, LenProperties
  <2>6. RowsAside
    BY <1>3 DEF SaveReceipt, RowsAside
  <2> QED
    BY <2>4, <2>5, <2>6 DEF TreesStay, RowsAside
<1>4. CASE Confirm
  BY <1>4, CommitsSame DEF Confirm, table, RowsAside
<1> QED
  BY <1>1, <1>2, <1>3, <1>4

LEMMA PublishAside ==
    ASSUME TableInv, NEW p \in Tasks, PublishStep(p) \/ UserPublish(p)
    PROVE  TreesStay
<1> USE DEF TableInv, TableType
<1>1. CASE PublishStamp(p)
  <2>1. /\ commits' = [i \in DOMAIN commits |-> IF commits[i].id = job[p].id
                                                THEN [commits[i] EXCEPT !.marked = TRUE]
                                                ELSE commits[i]]
        /\ rows' = rows
    BY <1>1 DEF PublishStamp
  <2>2. \A i \in DOMAIN commits : commits[i] \in Commit
    BY ElementOfSeq, LenProperties
  <2>3. \A i \in DOMAIN commits : commits'[i].sent = commits[i].sent
    BY <2>1, <2>2, CommitFields
  <2>4. commits' \in [DOMAIN commits -> Commit]
    BY <2>1, <2>2, CommitFields
  <2>5. Len(commits') = Len(commits)
    BY <2>4, SameDomain, LenProperties
  <2> QED
    BY <2>1, <2>3, <2>5 DEF TreesStay
<1>2. CASE UNCHANGED <<rows, commits>>
  BY <1>2, CommitsSame DEF RowsAside
<1>3. CASE UNCHANGED commits /\ \E t : ResetStale(t)
  <2>1. RowsAside
    <3> SUFFICES ASSUME NEW h \in Handles
                 PROVE  rows'[h].idx = rows[h].idx /\ rows'[h].spk = rows[h].spk
      BY DEF RowsAside
    <3>1. rows[h] \in Row
      OBVIOUS
    <3>2. rows'[h] = rows[h] \/ rows'[h] = [rows[h] EXCEPT !.pub = "no", !.at = 0]
      BY <1>3, Zenon DEF ResetStale
    <3> QED
      BY <3>1, <3>2 DEF Row
  <2> QED
    BY <1>3, <2>1, CommitsSame
<1>4. CASE UNCHANGED commits /\ \E S, pub, at : Mark(S, pub, at)
  <2>1. RowsAside
    <3> SUFFICES ASSUME NEW h \in Handles
                 PROVE  rows'[h].idx = rows[h].idx /\ rows'[h].spk = rows[h].spk
      BY DEF RowsAside
    <3>1. rows[h] \in Row
      OBVIOUS
    <3>2. PICK S, pub, at : Mark(S, pub, at)
      BY <1>4
    <3>3. rows'[h] = rows[h] \/ rows'[h] = [rows[h] EXCEPT !.pub = pub, !.at = at]
      BY <3>2, Zenon DEF Mark
    <3> QED
      BY <3>1, <3>3 DEF Row
  <2> QED
    BY <1>4, <2>1, CommitsSame
<1>5. PublishStep(p) => \/ PublishStamp(p)
                        \/ UNCHANGED <<rows, commits>>
                        \/ UNCHANGED commits /\ \E t : ResetStale(t)
                        \/ UNCHANGED commits /\ \E S, pub, at : Mark(S, pub, at)
  BY Zenon DEF PublishStep, PublishReset, PublishSelect, PublishIssue, PublishSend,
     PublishSendFails, PublishMarkTemp, PublishMarkFinal, PublishLeft, PublishNewest, table
<1>6. UserPublish(p) => \/ PublishStep(p) \/ UNCHANGED <<rows, commits>>
                        \/ UNCHANGED commits /\ \E t : ResetStale(t)
  BY Zenon DEF UserPublish, UserBegin, Begin, PublishDropped, PipelineAsk, PipelineReset,
     table
<1> QED
  BY <1>1, <1>2, <1>3, <1>4, <1>5, <1>6

LEMMA SyncAsideOfTrees ==
    ASSUME TableInv, RegInv, NEW p \in Tasks, SyncMove(p)
    PROVE  TreesStay
<1>1. CASE StageOne(p)
  <2>1. PICK i \in sync[p].todo :
          IF Exists(regs[i].h) THEN UNCHANGED rows ELSE Stage(regs[i].h, regs[i].spk)
    BY <1>1 DEF StageOne
  <2>2. regs[i].h \in Handles /\ regs[i].spk \in Spks
    <3>1. i \in DOMAIN regs /\ regs[i].h \in Handles
      BY Zenon DEF RegInv, TodoInv
    <3>2. regs[i] \in Reg
      BY <3>1, ElementOfSeq, LenProperties DEF RegInv, RegType
    <3> QED
      BY <3>1, <3>2 DEF Reg
  <2>3. RowsAside
    BY <2>1, <2>2, StageAside DEF RowsAside
  <2> QED
    BY <1>1, <2>3, CommitsSame DEF StageOne
<1>2. CASE Pull(p) \/ SyncAside(p)
  <2>1. UNCHANGED <<rows, commits>>
    BY <1>2, Zenon
    DEF Pull, SyncAside, StageFails, SendAck, AckFails, PullFails, NotifyRead, NotifySend,
        SyncDropped, table
  <2> QED
    BY <2>1, CommitsSame DEF RowsAside
<1> QED
  BY <1>1, <1>2 DEF SyncMove

\* Only the operator's commits, rollbacks and broadcasts move the list.
LEMMA TreesMove ==
    ASSUME LoopInv, LoopNext
    PROVE  TreesStay \/ CommitLocal \/ RollbackLocal \/ Broadcast
<1> USE DEF LoopInv
<1>1. Loop \in Tasks /\ Users \subseteq Tasks
  BY DEF Tasks
<1>2. CASE LoopSync
  <2>1. SyncMove(Loop)
    BY <1>2 DEF LoopSync, SyncMove, SyncStep, SyncAside
  <2> QED
    BY <1>1, <2>1, SyncAsideOfTrees
<1>3. CASE LoopPublish
  <2>1. CASE LoopBegin
    BY <2>1, CommitsSame DEF LoopBegin, Begin, table, RowsAside
  <2>2. CASE PublishStep(Loop)
    BY <1>1, <2>2, PublishAside
  <2> QED
    BY <1>3, <2>1, <2>2 DEF LoopPublish
<1>4. CASE \E p \in Users : UserStep(p)
  <2>1. PICK p \in Users : UserStep(p)
    BY <1>4
  <2>2. CASE UserPublish(p)
    BY <1>1, <2>2, PublishAside
  <2>3. CASE UserSync(p)
    <3>1. SyncMove(p)
      BY <2>3 DEF UserSync, UserPull, SyncStep, SyncMove, SyncAside
    <3> QED
      BY <1>1, <3>1, SyncAsideOfTrees
  <2> QED
    BY <2>1, <2>2, <2>3 DEF UserStep
<1>5. CASE SpaceStep
  BY <1>5, TableAside DEF SpaceStep, TableNext
<1>6. CASE RegistryStep
  BY <1>6, CommitsSame
  DEF RegistryStep, RegisterCheck, RegisterPush, LateAck, table, RowsAside
<1>7. CASE Restart
  BY <1>7, CommitsSame DEF Restart, table, RowsAside
<1> QED
  BY <1>2, <1>3, <1>4, <1>5, <1>6, <1>7 DEF LoopNext, Step, LoopStep

LEMMA LedgerStep ==
    ASSUME LoopInv, LoopInv', IdxInv, [LoopNext]_loopVars
    PROVE  IdxInv' /\ (Ledger!LedgerNext \/ View(rows', commits') = View(rows, commits))
<1>1. TableInv /\ TableType /\ TableType'
  BY DEF LoopInv, TableInv
<1>2. CASE TreesStay
  BY <1>1, <1>2, StayingKeeps
<1>3. CASE CommitLocal
  BY <1>1, <1>3, CommitLocalExtends DEF Ledger!LedgerNext
<1>4. CASE RollbackLocal
  BY <1>1, <1>4, RollbackWithdraws DEF Ledger!LedgerNext
<1>5. CASE Broadcast
  BY <1>1, <1>5, BroadcastSeals DEF Ledger!LedgerNext
<1>6. CASE UNCHANGED loopVars
  <2>1. TreesStay
    BY <1>6, CommitsSame DEF loopVars, table, RowsAside
  <2> QED
    BY <1>1, <2>1, StayingKeeps
<1> QED
  BY <1>2, <1>3, <1>4, <1>5, <1>6, TreesMove

\* THEOREM (LoopKeepsLedger).  Whatever the registry's users, the loop, the
\* publishers, lost messages and restarts do beside the operator, the
\* commitments are a list of roots as HandleLedger promises it: each binds
\* what the one before it binds, to the same keys, and a sent one stays.
THEOREM LedgerIsKept ==
    LoopSpec => LoopKeepsLedger
<1> DEFINE view == [t \in DOMAIN commits |-> [root |-> TreeOf(t), sealed |-> commits[t].sent]]
<1>1. view = View(rows, commits)
  BY DEF View, Bound, TreeOf, InTree
<1>2. view' = View(rows', commits')
  BY DEF View, Bound, TreeOf, InTree
<1>3. LoopInit => IdxInv /\ Ledger!LedgerInit
  <2> SUFFICES ASSUME LoopInit
               PROVE  IdxInv /\ view = <<>>
    BY DEF Ledger!LedgerInit
  <2>1. commits = <<>> /\ \A h \in Handles : rows[h].idx = 0
    BY RowTypes DEF LoopInit, TableInit
  <2> QED
    BY <2>1 DEF IdxInv
<1>4. LoopInv /\ LoopInv' /\ IdxInv /\ [LoopNext]_loopVars =>
        IdxInv' /\ [Ledger!LedgerNext]_view
  <2> HIDE DEF view
  <2> QED
    BY <1>1, <1>2, LedgerStep
<1> QED
  BY <1>3, <1>4, LoopInvariant, PTL DEF LoopSpec, LoopKeepsLedger, Ledger!LedgerSpec

\* The promise to owners, told of the rows and the commitments.
Owners == INSTANCE HandleLedgerProofs WITH
    ledger <- [t \in DOMAIN commits |-> [root |-> TreeOf(t), sealed |-> commits[t].sent]]

\* The list of HandleLedgerProofs is the one that is kept.
LEMMA LedgerIsTheOwners == LoopSpec => Owners!LedgerSpec
<1>1. Ledger!LedgerInit <=> Owners!LedgerInit
  BY DEF Ledger!LedgerInit, Owners!LedgerInit
<1>2. Ledger!LedgerNext <=> Owners!LedgerNext
  BY DEF Ledger!LedgerNext, Owners!LedgerNext, Ledger!Extend, Owners!Extend,
         Ledger!Withdraw, Owners!Withdraw, Ledger!Seal, Owners!Seal,
         Ledger!Grows, Owners!Grows, Ledger!LedgerTree, Owners!LedgerTree,
         Ledger!Last, Owners!Last, Ledger!Front, Owners!Front
<1> QED
  BY <1>1, <1>2, LedgerIsKept, PTL
     DEF LoopKeepsLedger, Ledger!LedgerSpec, Owners!LedgerSpec

\* A sent commitment binds the name to the key.
BoundTo(h, s) == \E t \in DOMAIN commits : commits[t].sent /\ InTree(h, t) /\ rows[h].spk = s

\* THEOREM.  Once a commitment that was sent binds a name to a key, the row of
\* the name has that key for ever, whoever registers the name again, and
\* whatever is synced, published, removed or rolled back (add_request,
\* sync_space, publish_certs, rollback_local).
THEOREM BoundNamesKeepTheirKeys ==
    ASSUME NEW h \in Handles, NEW s \in Spks
    PROVE  LoopSpec => [](BoundTo(h, s) => [](BoundTo(h, s) /\ rows[h].spk = s))
<1> DEFINE view == [t \in DOMAIN commits |-> [root |-> TreeOf(t), sealed |-> commits[t].sent]]
<1>1. BoundTo(h, s) <=> Owners!Owned(h, s)
  <2>1. s # NoSpk
    BY TableAssumption
  <2>2. \A t : TreeOf(t)[h] = s <=> InTree(h, t) /\ rows[h].spk = s
    BY <2>1 DEF TreeOf
  <2> QED
    BY <2>2 DEF BoundTo, Owners!Owned
<1>2. [Owners!OwnedGrows]_view /\ Owners!Owned(h, s) => Owners!Owned(h, s)'
  <2>1. Owners!OwnedGrows /\ Owners!Owned(h, s) => Owners!Owned(h, s)'
    BY DEF Owners!OwnedGrows
  <2>2. Owners!Owned(h, s) <=> \E t \in DOMAIN view : view[t].sealed /\ view[t].root[h] = s
    BY DEF Owners!Owned
  <2>3. Owners!Owned(h, s)' <=>
          \E t \in DOMAIN view' : view'[t].sealed /\ view'[t].root[h] = s
    BY DEF Owners!Owned
  <2> HIDE DEF view
  <2>4. view' = view /\ Owners!Owned(h, s) => Owners!Owned(h, s)'
    BY <2>2, <2>3
  <2> QED
    BY <2>1, <2>4
<1>3. BoundTo(h, s) => rows[h].spk = s
  BY DEF BoundTo
<1> QED
  BY <1>1, <1>2, <1>3, LedgerIsTheOwners, Owners!OwnersKeep, PTL

-----------------------------------------------------------------------------
(* Declined batches.                                                       *)

\* What next_batch_size allows never promises more than the budget's share
\* of the relay's limit.
LEMMA BudgetShare ==
    100 * SizeBudget <= RelayMax * BudgetPercent
<1>1. RelayMax * BudgetPercent \in Nat
  BY PublishingAssumption
<1> QED
  BY <1>1, Quotient DEF SizeBudget

LEMMA TimesMono ==
    ASSUME NEW a \in Nat, NEW b \in Nat, NEW c \in Nat, a <= b
    PROVE  c * a <= c * b
  BY SMT

\* A declined batch is followed by a smaller one, unless it was so small that
\* the budget's share of it and the root's certificate still fills it: with
\* RELAY_BUDGET_PERCENT = 85, from six handles on (next_batch_size after
\* record_message_size).
THEOREM DeclinedBatchShrinks ==
    ASSUME NEW n \in Nat, n >= 2, Oversized(Message(n)),
           BudgetPercent * (n + 1) <= 100 * n
    PROVE  BatchSize(Message(n), BatchCeiling) < n
<1> DEFINE b == RootSize + n * CertSize
           q == ((n + 1) * SizeBudget) \div b
<1>1. /\ Message(n) = [certs |-> n + 1, bytes |-> b]
      /\ b \in Nat /\ b > RelayMax /\ RelayMax \in Nat \ {0} /\ b > 0
  BY PublishingAssumption DEF Message, Oversized
<1>2. Message(n).certs = n + 1 /\ Message(n).bytes = b
  BY <1>1
<1>3. SizeBudget \in Nat /\ (n + 1) * SizeBudget \in Nat
  BY BudgetType
<1> HIDE DEF b
<1>4. q \in Nat /\ b * q <= (n + 1) * SizeBudget
  BY <1>1, <1>3, Quotient
<1> HIDE DEF q
<1>5. q < n
  <2> SUFFICES ASSUME n <= q
               PROVE  FALSE
    BY <1>4
  <2> DEFINE k == BudgetPercent * (n + 1)
  <2>1. k \in Nat \ {0} /\ k <= 100 * n
    BY PublishingAssumption
  <2>2. b * n <= b * q
    BY <1>1, <1>4, TimesMono
  <2>3. (n + 1) * (100 * SizeBudget) <= (n + 1) * (RelayMax * BudgetPercent)
    BY <1>1, <1>3, BudgetShare, TimesMono, PublishingAssumption
  <2>4. (n + 1) * (RelayMax * BudgetPercent) = k * RelayMax
    BY <1>1, PublishingAssumption
  <2> HIDE DEF k
  <2>5. k * RelayMax < k * b
    BY <1>1, <2>1
  <2>6. b * k <= b * (100 * n)
    BY <1>1, <2>1, TimesMono
  <2>7. b * (100 * n) = 100 * (b * n) /\ k * b = b * k
        /\ (n + 1) * (100 * SizeBudget) = 100 * ((n + 1) * SizeBudget)
    BY <1>1, <1>3, <2>1
  <2> DEFINE u == b * n
             v == b * q
             w == (n + 1) * SizeBudget
  <2>8. u \in Nat /\ v \in Nat /\ w \in Nat
    BY <1>1, <1>3, <1>4
  <2>9. 100 * w < 100 * u
    BY <1>1, <1>3, <2>1, <2>3, <2>4, <2>5, <2>6, <2>7
  <2> QED
    BY <1>4, <2>2, <2>8, <2>9
<1>6. BatchSize(Message(n), BatchCeiling) =
        AtLeast(AtMost(AtLeast(q, 1), BatchCeiling), 1)
  BY <1>1, <1>2 DEF BatchSize, q
<1>7. BatchCeiling \in Nat \ {0}
  BY PublishingAssumption
<1> QED
  BY <1>4, <1>5, <1>6, <1>7 DEF AtLeast, AtMost

=============================================================================
