----------------------------- MODULE ProvingProofs -----------------------------
(***************************************************************************)
(* Receipts end up where they belong, for any number of handlers, jobs,    *)
(* commitments, losses, panics and restarts.                               *)
(***************************************************************************)
EXTENDS Proving, ProverServerProofs

-----------------------------------------------------------------------------
(***************************************************************************)
(* Rows as sequences.  The facts are about any two tables, so that they    *)
(* can be used for the table before a step and the one after it.           *)
(***************************************************************************)
UptoIn(rs, i) == {rs[k].id : k \in 2..i}

\* Ids grow with idx, and the next one is above them all.
Numbered(rs, n) ==
    /\ \A i \in DOMAIN rs : rs[i].id < n
    /\ \A i, k \in DOMAIN rs : i < k => rs[i].id < rs[k].id

\* What has to be proved before the i-th commitment is, and before its fold.
ReadyIn(rs, i, fold) ==
    /\ \A k \in 2..(i - 1) : rs[k].step # {}
    /\ fold => i >= 3 /\ rs[i].step # {} /\ \A k \in 3..(i - 1) : rs[k].agg # {}

\* If its row still is there, the receipt for r proves what it is to prove, and
\* nothing is missing before it.
FitsIn(rs, n, r) ==
    /\ r.id < n
    /\ \A i \in DOMAIN rs : rs[i].id = r.id =>
         /\ i >= 2
         /\ r.covers = IF r.fold THEN UptoIn(rs, i) ELSE {r.id}
         /\ ReadyIn(rs, i, r.fold)

ReceiptsFitIn(rs) ==
    \A i \in DOMAIN rs :
        /\ rs[i].step \in {{}, {rs[i].id}}
        /\ rs[i].agg \in {{}, UptoIn(rs, i)}

InOrderIn(rs) ==
    \A i \in DOMAIN rs :
        /\ rs[i].step # {} => i >= 2 /\ \A k \in 2..i : rs[k].step # {}
        /\ rs[i].agg # {} => /\ i >= 3
                             /\ \A k \in 2..i : rs[k].step # {}
                             /\ \A k \in 3..i : rs[k].agg # {}

\* The second row is the first one later: the same commitment, no proof lost.
Follows(row, old) ==
    /\ row.id = old.id
    /\ old.step # {} => row.step # {}
    /\ old.agg # {} => row.agg # {}

\* Both have the same ids as far as both go; what ts has more is above n.
Extends(ts, rs, n) ==
    \A i \in DOMAIN ts : ts[i].id < n => i \in DOMAIN rs /\ Follows(ts[i], rs[i])

LEMMA SeqDomain ==
  ASSUME NEW rs \in Seq(Row)
  PROVE  /\ Len(rs) \in Nat /\ DOMAIN rs = 1..Len(rs)
         /\ \A i \in DOMAIN rs : rs[i] \in Row /\ rs[i].id \in Ids
                                  /\ rs[i].id \in Nat /\ rs[i].id # 0
<1>1. Len(rs) \in Nat /\ DOMAIN rs = 1..Len(rs) /\ \A i \in DOMAIN rs : rs[i] \in Row
  OBVIOUS
<1>2. \A row \in Row : row.id \in Ids
  BY DEF Row
<1>3. \A id \in Ids : id \in Nat /\ id # 0
  BY ProvingBounds DEF Ids
<1> QED BY <1>1, <1>2, <1>3

LEMMA SameUpto ==
  ASSUME NEW rs \in Seq(Row), NEW ts \in Seq(Row), NEW n \in Nat,
         Numbered(rs, n), NEW m \in Nat, Numbered(ts, m), Extends(ts, rs, n),
         NEW i \in DOMAIN ts, ts[i].id < n
  PROVE  /\ i \in DOMAIN rs /\ ts[i].id = rs[i].id /\ UptoIn(ts, i) = UptoIn(rs, i)
         /\ \A k \in 2..i : k \in DOMAIN ts /\ Follows(ts[k], rs[k])
<1>1. i \in DOMAIN rs /\ ts[i].id = rs[i].id
  BY DEF Extends, Follows
<1>2. ASSUME NEW k \in 2..i PROVE k \in DOMAIN ts /\ Follows(ts[k], rs[k])
  <2>1. k \in DOMAIN ts /\ k <= i
    BY SeqDomain
  <2>2. ts[k].id < n
    <3>1. k = i \/ ts[k].id < ts[i].id
      BY <2>1, SeqDomain DEF Numbered
    <3> QED BY <3>1, <2>1, SeqDomain
  <2> QED BY <2>1, <2>2 DEF Extends
<1>3. UptoIn(ts, i) = UptoIn(rs, i)
  BY <1>2 DEF UptoIn, Follows
<1> QED BY <1>1, <1>2, <1>3

\* A request keeps fitting when rows are updated, appended or deleted.
LEMMA FitsKept ==
  ASSUME NEW rs \in Seq(Row), NEW ts \in Seq(Row), NEW n \in Nat,
         Numbered(rs, n), NEW m \in Nat, n <= m, Numbered(ts, m), Extends(ts, rs, n),
         NEW r \in Request, FitsIn(rs, n, r)
  PROVE  FitsIn(ts, m, r)
<1>1. r.id \in Nat
  <2>1. r.id \in {0} \cup Ids
    BY DEF Request
  <2> QED BY <2>1, ProvingBounds DEF Ids
<1>2. r.id < m
  BY <1>1 DEF FitsIn
<1>3. ASSUME NEW i \in DOMAIN ts, ts[i].id = r.id
      PROVE  /\ i >= 2 /\ r.covers = IF r.fold THEN UptoIn(ts, i) ELSE {r.id}
             /\ ReadyIn(ts, i, r.fold)
  <2>1. ts[i].id < n
    BY <1>3 DEF FitsIn
  <2>2. /\ i \in DOMAIN rs /\ ts[i].id = rs[i].id /\ UptoIn(ts, i) = UptoIn(rs, i)
        /\ \A k \in 2..i : Follows(ts[k], rs[k])
    BY <2>1, SameUpto
  <2>3. /\ i >= 2 /\ r.covers = IF r.fold THEN UptoIn(rs, i) ELSE {r.id}
        /\ ReadyIn(rs, i, r.fold)
    BY <1>3, <2>2 DEF FitsIn
  <2>4. /\ i \in 2..i /\ \A k \in 2..(i - 1) : k \in 2..i
        /\ \A k \in 3..(i - 1) : k \in 2..i
    BY <2>3, SeqDomain
  <2>5. \A k \in 2..i : /\ rs[k].step # {} => ts[k].step # {}
                        /\ rs[k].agg # {} => ts[k].agg # {}
    BY <2>2 DEF Follows
  <2>6. ReadyIn(ts, i, r.fold)
    BY <2>3, <2>4, <2>5 DEF ReadyIn
  <2> QED BY <2>2, <2>3, <2>6
<1> QED BY <1>2, <1>3 DEF FitsIn
-----------------------------------------------------------------------------
(***************************************************************************)
(* The inductive invariant: every request in flight fits the table, in the *)
(* hands of a handler as under a job of the server, and a handler's job    *)
(* was submitted for the request it holds.                                 *)
(***************************************************************************)
LedgerInv == sending \subseteq issued /\ acked \subseteq issued

TableInv == Numbered(rows, nextId) /\ ReceiptsFitIn(rows) /\ InOrderIn(rows)

WorkInv == \A j \in Jobs : FitsIn(rows, nextId, work[j])

HandlerOK(p) ==
    /\ pc[p] \in WithReq => FitsIn(rows, nextId, my[p].req)
    /\ my[p].job # NoJob => /\ my[p].job \in issued
                           /\ Slot(work[my[p].job]) = Slot(my[p].req)

HandlerInv == \A p \in Pollers : HandlerOK(p)

ProvingInv ==
    ProvingTypeOK /\ LedgerInv /\ TableInv /\ WorkInv /\ HandlerInv /\ KeyNamesItsJob
-----------------------------------------------------------------------------
\* What get_next_proving_request hands out is a request, and fits.
LEMMA NextReqTyped ==
  ASSUME ProvingTypeOK, NEW r \in NextReq
  PROVE  r \in Request /\ r.id \in Ids /\ r # NoReq
<1>1. rows \in Seq(Row)
  BY DEF ProvingTypeOK
<1>2. \A i \in DOMAIN rows : rows[i] \in Row /\ rows[i].id \in Ids /\ rows[i].id # 0
  BY <1>1, SeqDomain
<1>3. \A row \in Row : row.step \in SUBSET Ids /\ row.agg \in SUBSET Ids
  BY DEF Row
<1>4. \A i \in DOMAIN rows : i >= 3 => i - 1 \in DOMAIN rows
  BY <1>1, SeqDomain
<1>5. CASE StepsDue # {}
  <2>1. PICK i \in DOMAIN rows : r = StepOf(i)
    BY <1>5 DEF NextReq, First, StepsDue
  <2> QED BY <2>1, <1>2 DEF StepOf, Request, NoReq
<1>6. CASE StepsDue = {}
  <2>1. PICK i \in DOMAIN rows : i >= 3 /\ r = FoldOf(i)
    BY <1>6 DEF NextReq, First, FoldsDue
  <2>2. Acc(i - 1) \in SUBSET Ids /\ rows[i].step \in SUBSET Ids
    BY <2>1, <1>2, <1>3, <1>4 DEF Acc
  <2> QED BY <2>1, <2>2, <1>2 DEF FoldOf, Request, NoReq
<1> QED BY <1>5, <1>6

LEMMA NextReqFits ==
  ASSUME ProvingTypeOK, TableInv, NEW r \in NextReq
  PROVE  FitsIn(rows, nextId, r)
<1>1. rows \in Seq(Row)
  BY DEF ProvingTypeOK
<1>2. /\ Len(rows) \in Nat /\ DOMAIN rows = 1..Len(rows)
      /\ \A i \in DOMAIN rows : rows[i].id \in Nat /\ rows[i].id < nextId
  BY <1>1, SeqDomain DEF TableInv, Numbered
<1>3. \A i, k \in DOMAIN rows : rows[i].id = rows[k].id => i = k
  BY <1>1, <1>2, SeqDomain DEF TableInv, Numbered
<1>4. CASE StepsDue # {}
  <2>1. PICK i \in DOMAIN rows : /\ i >= 2 /\ r = StepOf(i)
                                /\ \A k \in StepsDue : i <= k
    BY <1>4 DEF NextReq, First, StepsDue
  <2>2. \A k \in 2..(i - 1) : k \in DOMAIN rows /\ k >= 2 /\ ~(i <= k)
    BY <2>1, <1>2
  <2>3. ReadyIn(rows, i, FALSE)
    BY <2>1, <2>2 DEF ReadyIn, StepsDue
  <2> QED BY <2>1, <2>3, <1>2, <1>3 DEF StepOf, FitsIn
<1>5. CASE StepsDue = {}
  <2>1. PICK i \in DOMAIN rows : /\ i >= 3 /\ r = FoldOf(i)
                                /\ \A k \in FoldsDue : i <= k
    BY <1>5 DEF NextReq, First, FoldsDue
  <2>2. i - 1 \in DOMAIN rows /\ i - 1 >= 2 /\ i \in Nat
    BY <2>1, <1>2
  <2>3. rows[i].step = {rows[i].id} /\ rows[i - 1].step = {rows[i - 1].id}
    BY <1>5, <2>1, <2>2 DEF TableInv, ReceiptsFitIn, StepsDue
  <2>4. Acc(i - 1) = UptoIn(rows, i - 1)
    <3>1. CASE i = 3
      <4>1. UptoIn(rows, 2) = {rows[2].id}
        BY DEF UptoIn
      <4> QED BY <3>1, <4>1, <2>3 DEF Acc
    <3>2. CASE i # 3
      <4>1. i - 1 \notin FoldsDue
        BY <2>1, <2>2
      <4>2. rows[i - 1].agg = UptoIn(rows, i - 1)
        BY <4>1, <3>2, <2>1, <2>2 DEF TableInv, ReceiptsFitIn, FoldsDue
      <4> QED BY <4>2, <3>2, <2>1, <2>2 DEF Acc
    <3> QED BY <3>1, <3>2
  <2>5. 2..i = (2..(i - 1)) \cup {i}
    BY <2>2
  <2>6. UptoIn(rows, i) = UptoIn(rows, i - 1) \cup {rows[i].id}
    BY <2>5 DEF UptoIn
  <2>7. ReadyIn(rows, i, TRUE)
    <3>1. \A k \in 2..i : rows[k].step # {}
      <4>1. \A k \in 2..i : k \in DOMAIN rows /\ k >= 2
        BY <1>2, <2>2
      <4> QED BY <1>5, <4>1 DEF StepsDue
    <3>2. \A k \in 3..(i - 1) : k \in DOMAIN rows /\ k >= 3 /\ ~(i <= k)
      BY <2>1, <1>2
    <3>3. \A k \in 3..(i - 1) : rows[k].agg # {}
      BY <2>1, <3>2 DEF FoldsDue
    <3>4. i \in 2..i /\ \A k \in 2..(i - 1) : k \in 2..i
      BY <2>2
    <3> QED BY <2>1, <3>1, <3>3, <3>4 DEF ReadyIn
  <2>8. /\ r.id = rows[i].id /\ r.fold /\ r.fold \in BOOLEAN
        /\ r.covers = Acc(i - 1) \cup rows[i].step
    BY <2>1 DEF FoldOf
  <2>9. r.covers = UptoIn(rows, i)
    BY <2>3, <2>4, <2>6, <2>8
  <2>10. \A k \in DOMAIN rows : rows[k].id = r.id => k = i
    BY <2>8, <1>3
  <2>11. r.id < nextId /\ i >= 2
    BY <2>1, <2>8, <1>2
  <2> QED BY <2>7, <2>8, <2>9, <2>10, <2>11 DEF FitsIn, ReadyIn
<1> QED BY <1>4, <1>5
-----------------------------------------------------------------------------
(***************************************************************************)
(* What a step does to the table.                                          *)
(***************************************************************************)
\* The proofs a table shares with one that has them in order are in order, if
\* its other rows have none.
LEMMA SameOrder ==
  ASSUME NEW rs \in Seq(Row), NEW ts \in Seq(Row), InOrderIn(rs),
         \A i \in DOMAIN ts : i \in DOMAIN rs =>
            ts[i].step = rs[i].step /\ ts[i].agg = rs[i].agg,
         \A i \in DOMAIN ts : i \notin DOMAIN rs => ts[i].step = {} /\ ts[i].agg = {}
  PROVE  InOrderIn(ts)
<1>1. Len(ts) \in Nat /\ DOMAIN ts = 1..Len(ts) /\ Len(rs) \in Nat /\ DOMAIN rs = 1..Len(rs)
  OBVIOUS
<1>2. ASSUME NEW i \in DOMAIN ts, i \in DOMAIN rs, NEW k \in 2..i
      PROVE  ts[k].step = rs[k].step /\ ts[k].agg = rs[k].agg
  BY <1>1, <1>2
<1>3. \A i \in Nat : \A k \in 3..i : k \in 2..i
  OBVIOUS
<1>4. ASSUME NEW i \in DOMAIN ts, ts[i].step # {} \/ ts[i].agg # {}
      PROVE  /\ i \in DOMAIN rs /\ i \in Nat
             /\ ts[i].step = rs[i].step /\ ts[i].agg = rs[i].agg
  BY <1>1, <1>4
<1>5. ASSUME NEW i \in DOMAIN ts, ts[i].step # {}
      PROVE  i >= 2 /\ \A k \in 2..i : ts[k].step # {}
  <2>1. i \in DOMAIN rs /\ rs[i].step # {}
    BY <1>4, <1>5
  <2> QED BY <2>1, <1>2 DEF InOrderIn
<1>6. ASSUME NEW i \in DOMAIN ts, ts[i].agg # {}
      PROVE  /\ i >= 3 /\ \A k \in 2..i : ts[k].step # {}
             /\ \A k \in 3..i : ts[k].agg # {}
  <2>1. i \in DOMAIN rs /\ i \in Nat /\ rs[i].agg # {}
    BY <1>4, <1>6
  <2> QED BY <2>1, <1>2, <1>3 DEF InOrderIn
<1> QED BY <1>5, <1>6 DEF InOrderIn

\* Rows updated in place, or the last ones deleted.
LEMMA SameIds ==
  ASSUME NEW rs \in Seq(Row), NEW ts \in Seq(Row), NEW n \in Nat, Numbered(rs, n),
         \A i \in DOMAIN ts : i \in DOMAIN rs /\ Follows(ts[i], rs[i])
  PROVE  /\ Numbered(ts, n) /\ Extends(ts, rs, n)
         /\ \A i \in DOMAIN ts : UptoIn(ts, i) = UptoIn(rs, i)
<1>1. Numbered(ts, n)
  BY DEF Numbered, Follows
<1>2. Extends(ts, rs, n)
  BY DEF Extends
<1>3. \A i \in DOMAIN ts : ts[i].id < n
  BY <1>1 DEF Numbered
<1> QED BY <1>1, <1>2, <1>3, SameUpto

LEMMA NewRow ==
  ASSUME NEW rs \in Seq(Row), NEW n \in Nat, Numbered(rs, n), ReceiptsFitIn(rs),
         InOrderIn(rs), NEW row \in Row, row.id = n, row.step = {}, row.agg = {}
  PROVE  LET ts == Append(rs, row)
         IN  /\ Numbered(ts, n + 1) /\ Extends(ts, rs, n)
             /\ ReceiptsFitIn(ts) /\ InOrderIn(ts)
<1> DEFINE ts == Append(rs, row)
<1>1. /\ ts \in Seq(Row) /\ Len(rs) \in Nat
      /\ DOMAIN rs = 1..Len(rs) /\ DOMAIN ts = 1..(Len(rs) + 1)
      /\ \A i \in DOMAIN rs : ts[i] = rs[i]
      /\ ts[Len(rs) + 1] = row
  BY AppendAt
<1>2. \A i \in DOMAIN ts : i \in DOMAIN rs \/ i = Len(rs) + 1
  BY <1>1
<1>3. \A i \in DOMAIN rs : rs[i].id \in Nat /\ rs[i].id < n
  BY SeqDomain DEF Numbered
<1> HIDE DEF ts
<1>4. \A i \in DOMAIN ts : ts[i].id \in Nat /\ ts[i].id < n + 1
  BY <1>1, <1>2, <1>3
<1>5. ASSUME NEW i \in DOMAIN ts, NEW k \in DOMAIN ts, i < k PROVE ts[i].id < ts[k].id
  <2>1. i \in DOMAIN rs
    BY <1>1, <1>5
  <2>2. CASE k \in DOMAIN rs
    BY <2>1, <2>2, <1>1, <1>5 DEF Numbered
  <2>3. CASE k = Len(rs) + 1
    BY <2>1, <2>3, <1>1, <1>3
  <2> QED BY <2>2, <2>3, <1>2
<1>6. Numbered(ts, n + 1)
  BY <1>4, <1>5 DEF Numbered
<1>7. Extends(ts, rs, n)
  BY <1>1, <1>2 DEF Extends, Follows
<1>8. \A i \in DOMAIN rs : UptoIn(ts, i) = UptoIn(rs, i)
  BY <1>1, <1>3, <1>6, <1>7, SameUpto
<1>9. ReceiptsFitIn(ts)
  BY <1>1, <1>2, <1>8 DEF ReceiptsFitIn
<1>10. InOrderIn(ts)
  <2>1. \A i \in DOMAIN ts : i \in DOMAIN rs => ts[i].step = rs[i].step /\ ts[i].agg = rs[i].agg
    BY <1>1
  <2>2. \A i \in DOMAIN ts : i \notin DOMAIN rs => ts[i].step = {} /\ ts[i].agg = {}
    BY <1>1, <1>2
  <2> QED BY <2>1, <2>2, <1>1, SameOrder
<1> QED BY <1>6, <1>7, <1>9, <1>10 DEF ts

\* A receipt that fits is put where it belongs.
LEMMA StoredFits ==
  ASSUME NEW rs \in Seq(Row), NEW ts \in Seq(Row), NEW n \in Nat,
         Numbered(rs, n), ReceiptsFitIn(rs), InOrderIn(rs),
         NEW r \in Request, FitsIn(rs, n, r), DOMAIN ts = DOMAIN rs,
         \A i \in DOMAIN rs :
            ts[i] = IF rs[i].id = r.id THEN StoredIn(rs[i], r) ELSE rs[i]
  PROVE  Numbered(ts, n) /\ Extends(ts, rs, n) /\ ReceiptsFitIn(ts) /\ InOrderIn(ts)
<1>1. \A i \in DOMAIN rs :
         /\ StoredIn(rs[i], r).id = rs[i].id
         /\ StoredIn(rs[i], r).step = IF r.fold THEN rs[i].step ELSE r.covers
         /\ StoredIn(rs[i], r).agg = IF r.fold THEN r.covers ELSE rs[i].agg
  <2>1. \A i \in DOMAIN rs : rs[i] \in Row
    BY SeqDomain
  <2> QED BY <2>1 DEF StoredIn, Row
<1> DEFINE mine(i) == rs[i].id = r.id
<1>2. \A i \in DOMAIN ts :
         /\ i \in DOMAIN rs /\ ts[i].id = rs[i].id
         /\ ts[i].step = IF mine(i) /\ ~r.fold THEN r.covers ELSE rs[i].step
         /\ ts[i].agg = IF mine(i) /\ r.fold THEN r.covers ELSE rs[i].agg
  BY <1>1
<1>5. \A i \in DOMAIN rs : mine(i) => i >= 2 /\ r.covers # {} /\ ReadyIn(rs, i, r.fold)
  <2>1. ASSUME NEW i \in DOMAIN rs, mine(i) PROVE r.covers # {}
    <3>1. i >= 2 /\ r.covers = IF r.fold THEN UptoIn(rs, i) ELSE {r.id}
      BY <2>1 DEF FitsIn
    <3>2. rs[i].id \in UptoIn(rs, i)
      <4>1. i \in 2..i
        BY <3>1, SeqDomain
      <4> QED BY <4>1 DEF UptoIn
    <3> QED BY <3>1, <3>2
  <2> QED BY <2>1 DEF FitsIn
<1>6. \A i \in DOMAIN ts : i \in DOMAIN rs /\ Follows(ts[i], rs[i])
  BY <1>2, <1>5 DEF Follows
<1>3. /\ Numbered(ts, n) /\ Extends(ts, rs, n)
      /\ \A i \in DOMAIN ts : UptoIn(ts, i) = UptoIn(rs, i)
  BY <1>6, SameIds
<1>4. ASSUME NEW i \in DOMAIN ts
      PROVE  ts[i].step \in {{}, {ts[i].id}} /\ ts[i].agg \in {{}, UptoIn(ts, i)}
  <2>1. rs[i].step \in {{}, {rs[i].id}} /\ rs[i].agg \in {{}, UptoIn(rs, i)}
    BY DEF ReceiptsFitIn
  <2>2. CASE rs[i].id = r.id
    <3>1. r.covers = IF r.fold THEN UptoIn(rs, i) ELSE {r.id}
      BY <2>2 DEF FitsIn
    <3> QED BY <2>1, <2>2, <3>1, <1>1, <1>3
  <2>3. CASE rs[i].id # r.id
    BY <2>1, <2>3, <1>3
  <2> QED BY <2>2, <2>3
<1>7. InOrderIn(ts)
  <2> HIDE DEF mine
  <2>1. ASSUME NEW i \in DOMAIN ts, ts[i].step # {} \/ ts[i].agg # {}
        PROVE  /\ i >= 2 /\ \A k \in 2..(i - 1) : ts[k].step # {}
               /\ ts[i].agg # {} => /\ i >= 3 /\ ts[i].step # {}
                                    /\ \A k \in 3..(i - 1) : ts[k].agg # {}
    <3>1. /\ i \in Nat /\ \A k \in 2..i : k \in DOMAIN ts
          /\ \A k \in 2..(i - 1) : k \in 2..i
          /\ \A k \in 3..(i - 1) : k \in 2..i /\ k \in 3..i
          /\ i >= 2 => i \in 2..i
      BY SeqDomain
    <3>2. \A k \in 2..i : /\ rs[k].step # {} => ts[k].step # {}
                          /\ rs[k].agg # {} => ts[k].agg # {}
      BY <3>1, <1>6 DEF Follows
    <3>3. CASE mine(i)
      <4>1. i \in DOMAIN rs /\ i >= 2 /\ ReadyIn(rs, i, r.fold)
        BY <3>3, <1>2, <1>5
      <4>2. \A k \in 2..(i - 1) : ts[k].step # {}
        BY <4>1, <3>1, <3>2 DEF ReadyIn
      <4>3. CASE r.fold
        <5>1. i >= 3 /\ rs[i].step # {} /\ \A k \in 3..(i - 1) : rs[k].agg # {}
          BY <4>1, <4>3 DEF ReadyIn
        <5> QED BY <4>1, <4>2, <5>1, <3>1, <3>2
      <4>4. CASE ~r.fold
        <5>1. ts[i].agg = rs[i].agg
          BY <4>4, <1>2
        <5>2. ts[i].agg # {} => /\ i >= 3 /\ rs[i].step # {}
                               /\ \A k \in 3..i : rs[k].agg # {}
          BY <5>1, <4>1, <3>1 DEF InOrderIn
        <5> QED BY <4>1, <4>2, <5>2, <3>1, <3>2
      <4> QED BY <4>3, <4>4
    <3>4. CASE ~mine(i)
      <4>1. i \in DOMAIN rs /\ ts[i].step = rs[i].step /\ ts[i].agg = rs[i].agg
        BY <3>4, <1>2
      <4>2. i >= 2 /\ \A k \in 2..i : rs[k].step # {}
        BY <2>1, <4>1, <3>1 DEF InOrderIn
      <4>3. ts[i].agg # {} => i >= 3 /\ \A k \in 3..i : rs[k].agg # {}
        BY <4>1 DEF InOrderIn
      <4> QED BY <4>1, <4>2, <4>3, <3>1, <3>2
    <3> QED BY <3>3, <3>4
  <2>2. ASSUME NEW i \in DOMAIN ts, NEW k
        PROVE  /\ k \in 2..i => k = i \/ k \in 2..(i - 1)
               /\ k \in 3..i => k = i \/ k \in 3..(i - 1)
    BY SeqDomain
  <2> QED BY <2>1, <2>2 DEF InOrderIn
<1> QED BY <1>3, <1>4, <1>7 DEF ReceiptsFitIn
-----------------------------------------------------------------------------
(***************************************************************************)
(* What a step does to the locals of the handler that takes it.            *)
(***************************************************************************)
Returns(p)  == pc'[p] = "idle" /\ my'[p] = Nothing
GoesOn(p)   == /\ my'[p] = my[p] /\ pc[p] \in PCs
               /\ pc'[p] \in WithReq => pc[p] \in WithReq
               /\ pc'[p] \in WithJob => pc[p] \in WithJob \/ my[p].job # NoJob
Asks(p)     == /\ pc'[p] \notin WithJob
               /\ \E r \in NextReq : my'[p] = [req |-> r, job |-> NoJob]
Notes(p)    == /\ pc'[p] \notin WithReq
               /\ my'[p].req \in Request /\ my'[p] = [req |-> my'[p].req, job |-> NoJob]
Finds(p)    == /\ pc[p] \in WithReq
               /\ keys[Slot(my[p].req)] # NoJob
               /\ my'[p] = [req |-> my[p].req, job |-> keys[Slot(my[p].req)]]
Submits(p)  == /\ pc[p] \in WithReq
               /\ \E j \in Jobs : /\ j \notin issued /\ issued' = issued \cup {j}
                                  /\ work' = [work EXCEPT ![j] = my[p].req]
                                  /\ my'[p] = [req |-> my[p].req, job |-> j]

Moves(p) ==
    /\ pc'[p] \in PCs
    /\ pc' = [pc EXCEPT ![p] = pc'[p]]
    /\ my' = [my EXCEPT ![p] = my'[p]]
    /\ Returns(p) \/ GoesOn(p) \/ Asks(p) \/ Notes(p) \/ Finds(p) \/ Submits(p)
    /\ Submits(p) \/ UNCHANGED work

\* The three ways a handler is left: at another label, with other locals, idle.
LEMMA Labels ==
  ASSUME ProvingTypeOK, NEW p \in Pollers, NEW label
  PROVE  /\ On(p, label) =>
              /\ pc' = [pc EXCEPT ![p] = pc'[p]] /\ pc'[p] = label
              /\ my' = [my EXCEPT ![p] = my'[p]] /\ my'[p] = my[p]
         /\ Done(p) =>
              /\ pc' = [pc EXCEPT ![p] = pc'[p]] /\ my' = [my EXCEPT ![p] = my'[p]]
              /\ Returns(p)
<1>1. pc \in [Pollers -> PCs] /\ my \in [Pollers -> Local]
  BY DEF ProvingTypeOK
<1>2. my[p] = [req |-> my[p].req, job |-> my[p].job]
  BY <1>1 DEF Local
<1> QED BY <1>1, <1>2 DEF With, On, Done, Goto, Returns, Nothing

LEMMA WithLocals ==
  ASSUME ProvingTypeOK, NEW p \in Pollers, NEW label, NEW r, NEW j, With(p, label, r, j)
  PROVE  /\ pc' = [pc EXCEPT ![p] = pc'[p]] /\ pc'[p] = label
         /\ my' = [my EXCEPT ![p] = my'[p]] /\ my'[p] = [req |-> r, job |-> j]
<1>1. pc \in [Pollers -> PCs] /\ my \in [Pollers -> Local]
  BY DEF ProvingTypeOK
<1> QED BY <1>1 DEF With, Goto

\* Which labels stand for a request, and which for a job as well.
LEMMA LabelSets ==
  /\ \A l \in {"find", "stop", "submit", "save", "tip"} :
       l \in PCs /\ l \in WithReq /\ l \notin WithJob
  /\ \A l \in {"status", "drop", "receipt", "pulling", "clear", "wait", "cancel"} :
       l \in PCs /\ l \in WithReq /\ l \in WithJob
  /\ \A l \in {"idle", "insert", "send", "unroll", "forget",
             "compress", "last", "snark", "seal"} :
       l \in PCs /\ l \notin WithReq /\ l \notin WithJob
  BY DEF PCs, WithReq, WithJob

LEMMA HandlerMoves ==
  ASSUME ProvingTypeOK, NEW p \in Pollers, Handle(p) \/ Lose(p)
  PROVE  Moves(p)
<1>1. pc[p] \in PCs /\ NoReq \in Request /\ my[p] \in Local
  BY DEF ProvingTypeOK, NoReq, Request
<1>2. ASSUME Done(p), UNCHANGED work PROVE Moves(p)
  BY <1>2, Labels, LabelSets DEF Moves, Returns
<1>3. ASSUME NEW label \in PCs, On(p, label), UNCHANGED work,
             label \in WithReq => pc[p] \in WithReq,
             label \in WithJob => pc[p] \in WithJob \/ my[p].job # NoJob
      PROVE  Moves(p)
  <2>1. /\ pc' = [pc EXCEPT ![p] = pc'[p]] /\ pc'[p] = label
        /\ my' = [my EXCEPT ![p] = my'[p]] /\ my'[p] = my[p]
    BY <1>3, Labels
  <2>2. GoesOn(p)
    BY <1>1, <1>3, <2>1 DEF GoesOn
  <2> QED BY <1>3, <2>1, <2>2 DEF Moves
<1>4. ASSUME NEW r, r \in Request, NEW label \in PCs, label \notin WithReq,
             With(p, label, r, NoJob), UNCHANGED work
      PROVE  Moves(p)
  <2>1. /\ pc' = [pc EXCEPT ![p] = pc'[p]] /\ pc'[p] = label
        /\ my' = [my EXCEPT ![p] = my'[p]] /\ my'[p] = [req |-> r, job |-> NoJob]
    BY <1>4, WithLocals
  <2>2. Notes(p)
    BY <1>4, <2>1 DEF Notes
  <2> QED BY <1>4, <2>1, <2>2 DEF Moves
<1>5. \A i \in DOMAIN rows : rows[i].id \in Ids
  BY SeqDomain DEF ProvingTypeOK
<1>6. rows # <<>> => Last(rows).id \in Ids
  <2>1. rows # <<>> => Len(rows) \in DOMAIN rows
    BY DEF ProvingTypeOK
  <2> QED BY <2>1, <1>5 DEF Last
<1>7. CASE Begin(p)
  <2>1. PICK r \in NextReq, label \in {"find", "stop", "submit", "save"} :
           With(p, label, r, NoJob)
    BY <1>7 DEF Begin
  <2>2. /\ pc' = [pc EXCEPT ![p] = pc'[p]] /\ pc'[p] = label
        /\ my' = [my EXCEPT ![p] = my'[p]] /\ my'[p] = [req |-> r, job |-> NoJob]
    BY <2>1, WithLocals
  <2>3. Asks(p)
    BY <2>2, LabelSets DEF Asks
  <2> QED BY <1>7, <2>2, <2>3, LabelSets DEF Begin, Moves
<1>8. CASE FindKey(p)
  <2>1. CASE keys[Slot(my[p].req)] = NoJob
    BY <1>8, <2>1, <1>2 DEF FindKey
  <2>2. CASE keys[Slot(my[p].req)] # NoJob
    <3>1. PICK label \in {"status", "cancel"} :
             With(p, label, my[p].req, keys[Slot(my[p].req)])
      BY <1>8, <2>2 DEF FindKey
    <3>2. /\ pc' = [pc EXCEPT ![p] = pc'[p]] /\ pc'[p] = label
          /\ my' = [my EXCEPT ![p] = my'[p]]
          /\ my'[p] = [req |-> my[p].req, job |-> keys[Slot(my[p].req)]]
      BY <3>1, WithLocals
    <3>3. Finds(p)
      BY <1>8, <2>2, <3>2, LabelSets DEF FindKey, Finds
    <3> QED BY <1>8, <3>2, <3>3, LabelSets DEF FindKey, Moves
  <2> QED BY <2>1, <2>2
<1>9. CASE Push(p)
  <2>1. PICK j \in Jobs : /\ Submit(j) /\ With(p, "wait", my[p].req, j)
                          /\ work' = [work EXCEPT ![j] = my[p].req]
    BY <1>9 DEF Push
  <2>2. /\ pc' = [pc EXCEPT ![p] = pc'[p]] /\ pc'[p] = "wait"
        /\ my' = [my EXCEPT ![p] = my'[p]] /\ my'[p] = [req |-> my[p].req, job |-> j]
    BY <2>1, WithLocals
  <2>3. Submits(p)
    BY <1>9, <2>1, <2>2, LabelSets DEF Push, Submit, Submits
  <2> QED BY <2>2, <2>3, LabelSets DEF Moves
<1>10. CASE SnarkLast(p)
  <2>1. CASE rows = <<>>
    BY <1>10, <2>1, <1>3, LabelSets DEF SnarkLast
  <2>2. CASE rows # <<>>
    <3>1. [my[p].req EXCEPT !.id = Last(rows).id] \in Request
      BY <2>2, <1>6, <1>1 DEF Request, Local
    <3> QED BY <1>10, <2>2, <3>1, <1>4, LabelSets DEF SnarkLast
  <2> QED BY <2>1, <2>2
<1>11. CASE AskTip(p)
  <2>1. [NoReq EXCEPT !.covers = tip] \in Request
    BY DEF ProvingTypeOK, NoReq, Request
  <2> QED BY <1>11, <2>1, <1>4, LabelSets DEF AskTip
<1>12. CASE BroadcastCheck(p)
  <2>1. [NoReq EXCEPT !.id = Last(rows).id] \in Request
    BY <1>12, <1>6 DEF NoReq, Request, BroadcastCheck
  <2> QED BY <1>12, <2>1, <1>4, LabelSets DEF BroadcastCheck
<1>13. CASE RollbackBegin(p)
  <2>1. PICK r \in NextReq \cup {NoReq} : With(p, "unroll", r, NoJob)
    BY <1>13 DEF RollbackBegin
  <2>2. r \in Request
    BY <2>1, <1>1, NextReqTyped
  <2> QED BY <1>13, <2>1, <2>2, <1>4, LabelSets DEF RollbackBegin
<1>14. CASE SaveReceipt(p)
  BY <1>14, <1>2, <1>3, LabelSets DEF SaveReceipt, Saved
<1>15. CASE SaveTip(p)
  BY <1>15, <1>2, <1>3, LabelSets DEF SaveTip, Saved
<1>16. CASE AskStatus(p)
  BY <1>16, <1>2, <1>3, LabelSets DEF AskStatus
<1>17. CASE AskReceipt(p)
  BY <1>17, <1>2, <1>3, LabelSets DEF AskReceipt
<1>18. CASE TakeReceipt(p)
  BY <1>18, <1>2, <1>3, LabelSets DEF TakeReceipt
<1>19. CASE CancelSend(p)
  BY <1>19, <1>2, <1>3, LabelSets DEF CancelSend
<1>20. CASE DropKey(p) \/ PushStore(p) \/ PushFails(p) \/ Lose(p)
  BY <1>20, <1>2 DEF DropKey, PushStore, PushFails, Lose
<1>21. CASE Compress(p)
  BY <1>21, <1>2, <1>3, LabelSets DEF Compress
<1>22. CASE SnarkRow(p)
  BY <1>22, <1>3, LabelSets DEF SnarkRow
<1>23. CASE CommitCheck(p)
  BY <1>23, <1>3, LabelSets DEF CommitCheck
<1>24. CASE RollbackRow(p)
  BY <1>24, <1>2, <1>3, LabelSets DEF RollbackRow
<1>25. CASE SnarkTip(p) \/ CommitRow(p) \/ BroadcastStore(p) \/ RollbackForget(p)
  BY <1>25, <1>2 DEF SnarkTip, CommitRow, BroadcastStore, RollbackForget
<1> QED
  BY <1>7, <1>8, <1>9, <1>10, <1>11, <1>12, <1>13, <1>14, <1>15, <1>16, <1>17,
     <1>18, <1>19, <1>20, <1>21, <1>22, <1>23, <1>24, <1>25 DEF Handle, Poll
-----------------------------------------------------------------------------
(***************************************************************************)
(* The step, conjunct by conjunct.                                         *)
(***************************************************************************)
\* The receipt a handler is about to save fits the request it holds.
LEMMA ProvedFits ==
  ASSUME ProvingInv, NEW p \in Pollers, pc[p] \in WithReq
  PROVE  /\ Proved(p) \in Request /\ FitsIn(rows, nextId, Proved(p))
         /\ Slot(Proved(p)) = Slot(my[p].req)
<1>1. my[p] \in Local /\ work \in [Jobs -> Request] /\ HandlerOK(p)
  BY DEF ProvingInv, ProvingTypeOK, HandlerInv
<1>2. CASE my[p].job = NoJob
  BY <1>1, <1>2 DEF Proved, HandlerOK, Local
<1>3. CASE my[p].job # NoJob
  <2>1. my[p].job \in Jobs
    BY <1>1, <1>3 DEF Local
  <2> QED BY <1>1, <1>3, <2>1 DEF Proved, HandlerOK, ProvingInv, WorkInv
<1> QED BY <1>2, <1>3

LEMMA UpdatedRows ==
  ASSUME NEW rs \in Seq(Row), NEW ts, DOMAIN ts = DOMAIN rs,
         ts = [i \in DOMAIN rs |-> ts[i]], \A i \in DOMAIN rs : ts[i] \in Row
  PROVE  ts \in Seq(Row)
<1>1. Len(rs) \in Nat /\ DOMAIN rs = 1..Len(rs)
  OBVIOUS
<1> QED BY <1>1

LEMMA TableStep ==
  ASSUME ProvingInv, NEW p \in Pollers, Handle(p) \/ Lose(p)
  PROVE  /\ rows' \in Seq(Row) /\ nextId' \in 1..(MaxId + 1) /\ nextId <= nextId'
         /\ Numbered(rows', nextId') /\ ReceiptsFitIn(rows') /\ InOrderIn(rows')
         /\ Extends(rows', rows, nextId)
<1>1. /\ rows \in Seq(Row) /\ nextId \in 1..(MaxId + 1) /\ nextId \in Nat
      /\ Numbered(rows, nextId) /\ ReceiptsFitIn(rows) /\ InOrderIn(rows)
  BY ProvingBounds DEF ProvingInv, ProvingTypeOK, TableInv
<1>2. CASE UNCHANGED table
  <2>1. Extends(rows, rows, nextId)
    BY DEF Extends, Follows
  <2> QED BY <1>1, <1>2, <2>1 DEF table
<1>3. ASSUME UNCHANGED nextId, rows' \in Seq(Row), DOMAIN rows' = DOMAIN rows,
             \A i \in DOMAIN rows : /\ rows'[i].id = rows[i].id
                                   /\ rows'[i].step = rows[i].step
                                   /\ rows'[i].agg = rows[i].agg
      PROVE  /\ nextId <= nextId' /\ Numbered(rows', nextId')
             /\ ReceiptsFitIn(rows') /\ InOrderIn(rows') /\ Extends(rows', rows, nextId)
  <2>1. /\ Numbered(rows', nextId) /\ Extends(rows', rows, nextId)
        /\ \A i \in DOMAIN rows' : UptoIn(rows', i) = UptoIn(rows, i)
    <3>1. \A i \in DOMAIN rows' : i \in DOMAIN rows /\ Follows(rows'[i], rows[i])
      BY <1>3 DEF Follows
    <3> QED BY <1>1, <1>3, <3>1, SameIds
  <2>2. ReceiptsFitIn(rows')
    BY <1>1, <1>3, <2>1 DEF ReceiptsFitIn
  <2>3. InOrderIn(rows')
    BY <1>1, <1>3, SameOrder
  <2> QED BY <1>1, <1>3, <2>1, <2>2, <2>3
<1>4. CASE SaveReceipt(p)
  <2>1. CASE UNCHANGED rows
    BY <1>2, <1>4, <2>1 DEF SaveReceipt, table
  <2>2. CASE ~UNCHANGED rows
    <3>1. /\ Proved(p) \in Request /\ FitsIn(rows, nextId, Proved(p))
          /\ Proved(p).id = my[p].req.id
      BY <1>4, LabelSets, ProvedFits DEF SaveReceipt, Slot
    <3>2. /\ UNCHANGED nextId
          /\ rows' = [i \in DOMAIN rows |-> IF rows[i].id = Proved(p).id
                                           THEN StoredIn(rows[i], Proved(p)) ELSE rows[i]]
      BY <1>4, <2>2, <3>1 DEF SaveReceipt
    <3>3. \A i \in DOMAIN rows : rows[i] \in Row /\ StoredIn(rows[i], Proved(p)) \in Row
      <4>1. \A i \in DOMAIN rows : rows[i] \in Row
        BY <1>1, SeqDomain
      <4>2. Proved(p).covers \in SUBSET Ids
        BY <3>1 DEF Request
      <4> QED BY <4>1, <4>2 DEF StoredIn, Row
    <3>4. rows' \in Seq(Row)
      BY <1>1, <3>2, <3>3, UpdatedRows
    <3> QED BY <1>1, <3>1, <3>2, <3>4, StoredFits
  <2> QED BY <2>1, <2>2
<1>5. CASE SnarkRow(p)
  <2>1. \A i \in DOMAIN rows : rows[i] \in Row
    BY <1>1, SeqDomain
  <2>2. my[p].req.covers \in SUBSET Ids
    BY DEF ProvingInv, ProvingTypeOK, Local, Request
  <2>3. /\ UNCHANGED nextId /\ DOMAIN rows' = DOMAIN rows
        /\ rows' = [i \in DOMAIN rows |-> rows'[i]]
        /\ \A i \in DOMAIN rows :
              rows'[i] = IF rows[i].id = my[p].req.id
                         THEN [rows[i] EXCEPT !.snark = my[p].req.covers] ELSE rows[i]
    BY <1>5 DEF SnarkRow
  <2>4. \A i \in DOMAIN rows : /\ rows'[i] \in Row /\ rows'[i].id = rows[i].id
                               /\ rows'[i].step = rows[i].step
                               /\ rows'[i].agg = rows[i].agg
    BY <2>1, <2>2, <2>3 DEF Row
  <2>5. rows' \in Seq(Row)
    BY <1>1, <2>3, <2>4, UpdatedRows
  <2> QED BY <1>1, <1>3, <2>3, <2>4, <2>5
<1>6. CASE BroadcastStore(p)
  <2>1. \A i \in DOMAIN rows : rows[i] \in Row
    BY <1>1, SeqDomain
  <2>2. /\ UNCHANGED nextId /\ DOMAIN rows' = DOMAIN rows
        /\ rows' = [i \in DOMAIN rows |-> rows'[i]]
        /\ \A i \in DOMAIN rows :
              rows'[i] = IF rows[i].id = my[p].req.id
                         THEN [rows[i] EXCEPT !.sent = TRUE] ELSE rows[i]
    BY <1>6 DEF BroadcastStore
  <2>3. \A i \in DOMAIN rows : /\ rows'[i] \in Row /\ rows'[i].id = rows[i].id
                               /\ rows'[i].step = rows[i].step
                               /\ rows'[i].agg = rows[i].agg
    <3>1. ASSUME NEW r \in Row
          PROVE  /\ [r EXCEPT !.sent = TRUE] \in Row
                 /\ [r EXCEPT !.sent = TRUE].id = r.id
                 /\ [r EXCEPT !.sent = TRUE].step = r.step
                 /\ [r EXCEPT !.sent = TRUE].agg = r.agg
      BY DEF Row
    <3> QED
      BY <2>1, <2>2, <3>1
  <2>4. rows' \in Seq(Row)
    BY <1>1, <2>2, <2>3, UpdatedRows
  <2> QED BY <1>1, <1>3, <2>2, <2>3, <2>4
<1>7. CASE CommitRow(p)
  <2> DEFINE row == [id |-> nextId, step |-> {}, agg |-> {}, snark |-> {}, sent |-> FALSE]
  <2>1. nextId \in Ids /\ nextId' = nextId + 1 /\ rows' = Append(rows, row)
    BY <1>1, <1>7, ProvingBounds DEF CommitRow, Ids
  <2>2. row \in Row /\ row.id = nextId /\ row.step = {} /\ row.agg = {}
    BY <2>1 DEF Row
  <2> HIDE DEF row
  <2>3. rows' \in Seq(Row)
    BY <1>1, <2>1, <2>2, AppendAt
  <2>4. nextId' \in 1..(MaxId + 1) /\ nextId <= nextId'
    BY <2>1, <1>1, ProvingBounds DEF Ids
  <2> QED BY <1>1, <2>1, <2>2, <2>3, <2>4, NewRow
<1>8. CASE RollbackRow(p)
  <2>1. CASE UNCHANGED rows
    BY <1>2, <1>8, <2>1 DEF RollbackRow, table
  <2>2. CASE ~UNCHANGED rows
    <3>1. /\ UNCHANGED nextId /\ rows # <<>>
          /\ rows' = SubSeq(rows, 1, Len(rows) - 1)
      BY <1>8, <2>2 DEF RollbackRow
    <3>2. /\ rows' \in Seq(Row) /\ DOMAIN rows' = 1..(Len(rows) - 1)
          /\ \A i \in DOMAIN rows' : i \in DOMAIN rows /\ rows'[i] = rows[i]
      BY <1>1, <3>1
    <3>3. /\ Numbered(rows', nextId) /\ Extends(rows', rows, nextId)
          /\ \A i \in DOMAIN rows' : UptoIn(rows', i) = UptoIn(rows, i)
      <4>1. \A i \in DOMAIN rows' : i \in DOMAIN rows /\ Follows(rows'[i], rows[i])
        BY <3>2 DEF Follows
      <4> QED BY <1>1, <3>2, <4>1, SameIds
    <3>4. ReceiptsFitIn(rows')
      BY <1>1, <3>2, <3>3 DEF ReceiptsFitIn
    <3>5. InOrderIn(rows')
      BY <1>1, <3>2, SameOrder
    <3> QED BY <1>1, <3>1, <3>2, <3>3, <3>4, <3>5
  <2> QED BY <2>1, <2>2
<1>9. ASSUME ~SaveReceipt(p), ~SnarkRow(p), ~BroadcastStore(p), ~CommitRow(p), ~RollbackRow(p)
      PROVE  UNCHANGED table
  BY <1>9 DEF Handle, Poll, Lose, Begin, FindKey, AskStatus, DropKey, AskReceipt,
     TakeReceipt, SaveTip, Push, PushStore, PushFails, CancelSend, AskTip, Compress,
     SnarkLast, SnarkTip, CommitCheck, BroadcastCheck, RollbackBegin, RollbackForget
<1> QED BY <1>2, <1>4, <1>5, <1>6, <1>7, <1>8, <1>9

\* Ids once issued or acknowledged by the server stay so.
LEMMA LedgerStep ==
  ASSUME LedgerInv, [ServerNext]_pvars
  PROVE  LedgerInv' /\ issued \subseteq issued' /\ acked \subseteq acked'
<1> USE DEF LedgerInv, history, mishaps
<1>1. CASE UNCHANGED pvars
  BY <1>1 DEF pvars
<1>2. CASE \E j \in Jobs : Submit(j) \/ Enqueue(j) \/ Abandon(j) \/ Cancel(j)
  BY <1>2 DEF Submit, Enqueue, Abandon, Cancel
<1>3. CASE \E c \in Pollers : ReceiptCheck(c) \/ ReceiptPull(c) \/ ReceiptAbandon(c)
  BY <1>3 DEF ReceiptCheck, ReceiptPull, ReceiptAbandon
<1>4. CASE WorkerStep \/ WorkerPanic \/ Restart
  BY <1>4 DEF WorkerStep, WorkerRecv, WorkerMark, WorkerFinish, WorkerPanic, Restart
<1> QED BY <1>1, <1>2, <1>3, <1>4 DEF ServerNext

\* The handlers talk to the server of ProverServer and to nothing else.
LEMMA ServedStep ==
  ASSUME ProvingTypeOK, [ProvingNext]_allvars
  PROVE  [ServerNext]_pvars
<1>1. ASSUME NEW p \in Pollers, Handle(p) \/ Lose(p) PROVE [ServerNext]_pvars
  <2>1. CASE Push(p)
    BY <2>1 DEF Push, ServerNext
  <2>2. CASE CancelSend(p)
    <3>1. my[p].job \in Jobs
      BY <2>2, LabelSets DEF CancelSend, ProvingTypeOK
    <3> QED BY <2>2, <3>1 DEF CancelSend, ServerNext
  <2>3. CASE AskReceipt(p)
    BY <2>3 DEF AskReceipt, ServerNext
  <2>4. CASE TakeReceipt(p)
    BY <2>4 DEF TakeReceipt, ServerNext
  <2>5. CASE Lose(p)
    BY <2>5 DEF Lose, ServerNext
  <2>6. ASSUME ~Push(p), ~CancelSend(p), ~AskReceipt(p), ~TakeReceipt(p), ~Lose(p)
        PROVE  UNCHANGED pvars
    BY <1>1, <2>6 DEF Handle, Poll, Begin, FindKey, AskStatus, DropKey, SaveReceipt,
       SaveTip, PushStore, PushFails, AskTip, Compress, SnarkLast, SnarkRow, SnarkTip,
       CommitCheck, CommitRow, BroadcastCheck, BroadcastStore, RollbackBegin,
       RollbackRow, RollbackForget
  <2> QED BY <2>1, <2>2, <2>3, <2>4, <2>5, <2>6
<1>2. CASE Serve
  BY <1>2 DEF Serve, ServerNext
<1>3. CASE UNCHANGED allvars
  BY <1>3 DEF allvars
<1> QED BY <1>1, <1>2, <1>3 DEF ProvingNext

\* Requests in flight still fit the table, and a handler's job is its own.
LEMMA HandlerStep ==
  ASSUME ProvingInv, LedgerInv', issued \subseteq issued', work' \in [Jobs -> Request],
         NEW p \in Pollers, Handle(p) \/ Lose(p)
  PROVE  WorkInv' /\ HandlerInv'
<1>1. Moves(p) /\ pc \in [Pollers -> PCs] /\ my \in [Pollers -> Local]
  BY HandlerMoves DEF ProvingInv, ProvingTypeOK
<1>2. /\ rows' \in Seq(Row) /\ nextId' \in Nat /\ nextId <= nextId'
      /\ Numbered(rows', nextId') /\ Extends(rows', rows, nextId)
  BY TableStep, ProvingBounds
<1>3. /\ rows \in Seq(Row) /\ nextId \in Nat /\ Numbered(rows, nextId)
      /\ work \in [Jobs -> Request] /\ keys \in [Slots -> Jobs \cup {NoJob}]
  BY ProvingBounds DEF ProvingInv, ProvingTypeOK, TableInv
<1>4. \A r \in Request : FitsIn(rows, nextId, r) => FitsIn(rows', nextId', r)
  BY <1>2, <1>3, FitsKept
<1>5. \A q \in Pollers : my[q] \in Local /\ my[q].req \in Request /\ HandlerOK(q)
  BY <1>1 DEF ProvingInv, HandlerInv, Local
<1>6. \A j \in Jobs : work[j] \in Request /\ FitsIn(rows, nextId, work[j])
  BY <1>3 DEF ProvingInv, WorkInv
<1>7. \A j \in Jobs : j \in issued => work'[j] = work[j]
  BY <1>1, <1>3 DEF Moves, Submits
<1>8. \A q \in Pollers : my[q].job # NoJob => my[q].job \in Jobs
  BY <1>5 DEF Local
<1>9. ASSUME NEW j \in Jobs PROVE FitsIn(rows', nextId', work'[j])
  <2>1. CASE work'[j] = work[j]
    BY <2>1, <1>4, <1>6
  <2>2. CASE work'[j] # work[j]
    <3>1. work'[j] = my[p].req /\ pc[p] \in WithReq
      BY <1>1, <1>3, <2>2 DEF Moves, Submits
    <3> QED BY <3>1, <1>4, <1>5 DEF HandlerOK
  <2> QED BY <2>1, <2>2
<1>10. ASSUME NEW q \in Pollers
       PROVE  /\ pc'[q] \in WithReq => FitsIn(rows', nextId', my'[q].req)
              /\ my'[q].job # NoJob => /\ my'[q].job \in issued'
                                      /\ Slot(work'[my'[q].job]) = Slot(my'[q].req)
  <2>1. CASE pc'[q] = pc[q] /\ my'[q] = my[q]
    BY <2>1, <1>4, <1>5, <1>7, <1>8 DEF HandlerOK
  <2>2. CASE q # p
    BY <2>1, <2>2, <1>1 DEF Moves
  <2>3. CASE q = p
    <3>1. CASE Returns(p)
      BY <2>3, <3>1, LabelSets DEF Returns, Nothing
    <3>2. CASE GoesOn(p)
      BY <2>3, <3>2, <1>4, <1>5, <1>7, <1>8 DEF GoesOn, HandlerOK
    <3>3. CASE Asks(p)
      <4>1. PICK r \in NextReq : my'[p] = [req |-> r, job |-> NoJob]
        BY <3>3 DEF Asks
      <4>2. r \in Request /\ FitsIn(rows, nextId, r)
        BY <4>1, NextReqTyped, NextReqFits DEF ProvingInv
      <4> QED BY <2>3, <4>1, <4>2, <1>4
    <3>4. CASE Notes(p)
      <4>1. my'[p].job = NoJob
        BY <3>4 DEF Notes
      <4> QED BY <2>3, <3>4, <4>1 DEF Notes
    <3>5. CASE Finds(p)
      <4> DEFINE s == Slot(my[p].req)
      <4>1. keys[s] # NoJob /\ my'[p] = [req |-> my[p].req, job |-> keys[s]]
        BY <3>5 DEF Finds
      <4>2. s \in Slots
        <5>1. my[p].req.id \in Ids
          BY <3>5 DEF Finds, ProvingInv, ProvingTypeOK
        <5>2. my[p].req.fold \in BOOLEAN
          BY <1>5 DEF Request
        <5> QED BY <5>1, <5>2 DEF Slot, Slots
      <4>3. keys[s] \in Jobs /\ keys[s] \in issued /\ Slot(work[keys[s]]) = s
        BY <4>1, <4>2, <1>3 DEF ProvingInv, KeyNamesItsJob, LedgerInv
      <4> HIDE DEF s
      <4>4. my'[p].req = my[p].req /\ my'[p].job = keys[s]
        BY <4>1
      <4>5. FitsIn(rows', nextId', my[p].req)
        BY <3>5, <1>4, <1>5 DEF Finds, HandlerOK
      <4>6. s = Slot(my[p].req)
        BY DEF s
      <4> QED BY <2>3, <4>3, <4>4, <4>5, <4>6, <1>7
    <3>6. CASE Submits(p)
      <4>1. PICK j \in Jobs : /\ issued' = issued \cup {j}
                             /\ work' = [work EXCEPT ![j] = my[p].req]
                             /\ my'[p] = [req |-> my[p].req, job |-> j]
        BY <3>6 DEF Submits
      <4>2. work'[j] = my[p].req /\ my'[p].req = my[p].req /\ my'[p].job = j
        BY <4>1, <1>3
      <4>3. FitsIn(rows', nextId', my[p].req)
        BY <3>6, <1>4, <1>5 DEF Submits, HandlerOK
      <4> QED BY <2>3, <4>1, <4>2, <4>3
    <3> QED BY <1>1, <3>1, <3>2, <3>3, <3>4, <3>5, <3>6 DEF Moves
  <2> QED BY <2>2, <2>3
<1> QED BY <1>9, <1>10 DEF WorkInv, HandlerInv, HandlerOK

\* A handler keeps what it needs at its label.
LEMMA LocalsStep ==
  ASSUME ProvingInv, NEW p \in Pollers, Handle(p) \/ Lose(p)
  PROVE  /\ pc' \in [Pollers -> PCs] /\ my' \in [Pollers -> Local]
         /\ work' \in [Jobs -> Request]
         /\ \A q \in Pollers : /\ pc'[q] \in WithJob => my'[q].job \in Jobs
                               /\ pc'[q] \in WithReq => my'[q].req.id \in Ids
<1>1. /\ pc \in [Pollers -> PCs] /\ my \in [Pollers -> Local]
      /\ work \in [Jobs -> Request] /\ keys \in [Slots -> Jobs \cup {NoJob}]
      /\ \A q \in Pollers : /\ pc[q] \in WithJob => my[q].job \in Jobs
                            /\ pc[q] \in WithReq => my[q].req.id \in Ids
  BY DEF ProvingInv, ProvingTypeOK
<1>2. Moves(p)
  BY HandlerMoves DEF ProvingInv
<1>3. /\ my[p] \in Local /\ my[p].req \in Request /\ my[p].job \in Jobs \cup {NoJob}
      /\ my[p].req.fold \in BOOLEAN
  BY <1>1 DEF Local, Request
<1>4. /\ my'[p] \in Local
      /\ pc'[p] \in WithJob => my'[p].job \in Jobs
      /\ pc'[p] \in WithReq => my'[p].req.id \in Ids
  <2>1. CASE Returns(p)
    <3>1. Nothing \in Local
      BY DEF Nothing, NoReq, Local, Request
    <3> QED BY <2>1, <3>1, LabelSets DEF Returns
  <2>2. CASE GoesOn(p)
    BY <2>2, <1>1, <1>3 DEF GoesOn
  <2>3. CASE Asks(p)
    <3>1. PICK r \in NextReq : my'[p] = [req |-> r, job |-> NoJob]
      BY <2>3 DEF Asks
    <3>2. r \in Request /\ r.id \in Ids
      BY <3>1, NextReqTyped DEF ProvingInv
    <3> QED BY <2>3, <3>1, <3>2 DEF Asks, Local
  <2>4. CASE Notes(p)
    <3>1. pc'[p] \notin WithReq /\ pc'[p] \notin WithJob
      BY <2>4 DEF Notes, WithReq
    <3>2. PICK r \in Request : my'[p] = [req |-> r, job |-> NoJob]
      BY <2>4 DEF Notes
    <3> QED BY <3>1, <3>2 DEF Local
  <2>5. CASE Finds(p)
    <3>1. my[p].req.id \in Ids
      BY <2>5, <1>1 DEF Finds
    <3>2. Slot(my[p].req) \in Slots
      BY <3>1, <1>3 DEF Slot, Slots
    <3>3. PICK j \in Jobs : my'[p] = [req |-> my[p].req, job |-> j]
      BY <2>5, <3>2, <1>1 DEF Finds
    <3> QED BY <3>1, <3>3, <1>3 DEF Local
  <2>6. CASE Submits(p)
    <3>1. my[p].req.id \in Ids
      BY <2>6, <1>1 DEF Submits
    <3>2. PICK j \in Jobs : my'[p] = [req |-> my[p].req, job |-> j]
      BY <2>6 DEF Submits
    <3> QED BY <3>1, <3>2, <1>3 DEF Local
  <2> QED BY <1>2, <2>1, <2>2, <2>3, <2>4, <2>5, <2>6 DEF Moves
<1>5. work' \in [Jobs -> Request]
  BY <1>1, <1>2, <1>3 DEF Moves, Submits
<1>6. \A q \in Pollers : q # p => pc'[q] = pc[q] /\ my'[q] = my[q]
  BY <1>1, <1>2 DEF Moves
<1>7. pc' \in [Pollers -> PCs]
  BY <1>1, <1>2 DEF Moves
<1>8. my' \in [Pollers -> Local]
  BY <1>1, <1>2, <1>4 DEF Moves
<1> QED BY <1>1, <1>4, <1>5, <1>6, <1>7, <1>8

LEMMA TypesStep ==
  ASSUME ProvingInv, NEW p \in Pollers, Handle(p) \/ Lose(p)
  PROVE  ProvingTypeOK'
<1>1. /\ rows \in Seq(Row) /\ tip \in SUBSET Ids /\ tipSnark \in SUBSET Ids
      /\ keys \in [Slots -> Jobs \cup {NoJob}] /\ my \in [Pollers -> Local]
      /\ losses \in 0..MaxLosses
  BY DEF ProvingInv, ProvingTypeOK
<1>2. my[p].req \in Request /\ my[p].req.covers \in SUBSET Ids
  BY <1>1 DEF Local, Request
<1>3. tip' \in SUBSET Ids
  <2>1. CASE SaveTip(p)
    <3>1. Proved(p) \in Request
      BY <2>1, LabelSets, ProvedFits DEF SaveTip
    <3> QED BY <2>1, <3>1 DEF SaveTip, Request
  <2>2. CASE ~SaveTip(p)
    BY <1>1, <2>2 DEF Handle, Poll, Lose, Begin, FindKey, AskStatus, DropKey, AskReceipt,
       TakeReceipt, SaveReceipt, Push, PushStore, PushFails, CancelSend, AskTip, Compress,
       SnarkLast, SnarkRow, SnarkTip, CommitCheck, CommitRow, BroadcastCheck,
       BroadcastStore, RollbackBegin, RollbackRow, RollbackForget, tips
  <2> QED BY <2>1, <2>2
<1>4. tipSnark' \in SUBSET Ids
  BY <1>1, <1>2 DEF Handle, Poll, Lose, Begin, FindKey, AskStatus, DropKey, AskReceipt,
     TakeReceipt, SaveReceipt, SaveTip, Push, PushStore, PushFails, CancelSend, AskTip,
     Compress, SnarkLast, SnarkRow, SnarkTip, CommitCheck, CommitRow, BroadcastCheck,
     BroadcastStore, RollbackBegin, RollbackRow, RollbackForget, tips
<1>5. losses' \in 0..MaxLosses
  <2>1. losses' = losses \/ (losses < MaxLosses /\ losses' = losses + 1)
    BY DEF Handle, Lose, Poll, Begin, FindKey, AskStatus, DropKey, AskReceipt,
       TakeReceipt, SaveReceipt, SaveTip, Push, PushStore, PushFails, CancelSend,
       AskTip, Compress, SnarkLast, SnarkRow, SnarkTip, CommitCheck, CommitRow,
       BroadcastCheck, BroadcastStore, RollbackBegin, RollbackRow, RollbackForget
  <2>2. losses \in Nat
    BY <1>1, ProvingBounds
  <2> QED BY <1>1, <2>1, <2>2, ProvingBounds
<1>6. keys' \in [Slots -> Jobs \cup {NoJob}]
  <2>1. CASE PushStore(p)
    <3>1. my[p].job \in Jobs
      BY <2>1, LabelSets DEF PushStore, ProvingInv, ProvingTypeOK
    <3> QED BY <1>1, <2>1, <3>1 DEF PushStore, SetKey
  <2>2. CASE DropKey(p)
    BY <1>1, <2>2 DEF DropKey, SetKey
  <2>3. CASE RollbackForget(p)
    BY <1>1, <2>3 DEF RollbackForget
  <2>4. CASE ~PushStore(p) /\ ~DropKey(p) /\ ~RollbackForget(p)
    BY <1>1, <2>4 DEF Handle, Poll, Lose, Begin, FindKey, AskStatus, AskReceipt,
       TakeReceipt, SaveReceipt, SaveTip, Push, PushFails, CancelSend, AskTip, Compress,
       SnarkLast, SnarkRow, SnarkTip, CommitCheck, CommitRow, BroadcastCheck,
       BroadcastStore, RollbackBegin, RollbackRow
  <2> QED BY <2>1, <2>2, <2>3, <2>4
<1>7. rows' \in Seq(Row) /\ nextId' \in 1..(MaxId + 1)
  BY TableStep
<1>8. /\ pc' \in [Pollers -> PCs] /\ my' \in [Pollers -> Local]
      /\ work' \in [Jobs -> Request]
      /\ \A q \in Pollers : /\ pc'[q] \in WithJob => my'[q].job \in Jobs
                            /\ pc'[q] \in WithReq => my'[q].req.id \in Ids
  BY LocalsStep
<1> QED BY <1>3, <1>4, <1>5, <1>6, <1>7, <1>8 DEF ProvingTypeOK

\* Keys change in three places; only push_to_prover puts a job under one.
LEMMA KeysStep ==
  ASSUME ProvingInv, LedgerInv', acked \subseteq acked',
         NEW p \in Pollers, Handle(p) \/ Lose(p)
  PROVE  KeyNamesItsJob'
<1>1. /\ keys \in [Slots -> Jobs \cup {NoJob}] /\ work \in [Jobs -> Request]
      /\ my \in [Pollers -> Local] /\ acked \subseteq issued
  BY DEF ProvingInv, ProvingTypeOK, LedgerInv
<1>2. \A j \in Jobs : j \in issued => work'[j] = work[j]
  <2>1. Moves(p)
    BY HandlerMoves DEF ProvingInv
  <2> QED BY <2>1, <1>1 DEF Moves, Submits
<1>3. SUFFICES ASSUME NEW s \in Slots, keys'[s] # NoJob
               PROVE  keys'[s] \in acked' /\ Slot(work'[keys'[s]]) = s
  BY DEF KeyNamesItsJob, Slot
<1>4. CASE keys'[s] = keys[s]
  <2>1. keys[s] \in Jobs /\ keys[s] \in acked /\ Slot(work[keys[s]]) = s
    BY <1>1, <1>3, <1>4 DEF ProvingInv, KeyNamesItsJob
  <2> QED BY <1>1, <1>2, <1>4, <2>1
<1>5. CASE keys'[s] # keys[s]
  <2>1. PushStore(p)
    <3>1. ~DropKey(p) /\ ~RollbackForget(p)
      BY <1>1, <1>3, <1>5 DEF DropKey, RollbackForget, SetKey
    <3> QED
      BY <1>5, <3>1 DEF Handle, Poll, Lose, Begin, FindKey, AskStatus, AskReceipt,
         TakeReceipt, SaveReceipt, SaveTip, Push, PushFails, CancelSend, AskTip,
         Compress, SnarkLast, SnarkRow, SnarkTip, CommitCheck, CommitRow,
         BroadcastCheck, BroadcastStore, RollbackBegin, RollbackRow
  <2>2. my[p].job \in acked /\ keys' = [keys EXCEPT ![Slot(my[p].req)] = my[p].job]
        /\ my[p].job \in Jobs
    BY <2>1, LabelSets DEF PushStore, SetKey, ProvingInv, ProvingTypeOK
  <2>3. s = Slot(my[p].req) /\ keys'[s] = my[p].job
    BY <1>1, <1>5, <2>2
  <2>4. Slot(work[my[p].job]) = Slot(my[p].req)
    BY <1>3, <2>3 DEF ProvingInv, HandlerInv, HandlerOK
  <2> QED BY <1>1, <1>2, <2>2, <2>3, <2>4
<1> QED BY <1>4, <1>5
-----------------------------------------------------------------------------
LEMMA ProvingInvInit == ProvingInit => ProvingInv
<1> SUFFICES ASSUME ProvingInit PROVE ProvingInv
  OBVIOUS
<1>1. /\ rows = <<>> /\ nextId = 1 /\ tip = {} /\ tipSnark = {}
      /\ keys = [s \in Slots |-> NoJob] /\ work = [j \in Jobs |-> NoReq]
      /\ pc = [p \in Pollers |-> "idle"] /\ my = [p \in Pollers |-> Nothing]
      /\ losses = 0 /\ sending = {} /\ acked = {}
  BY DEF ProvingInit, ServerInit, history
<1>2. NoReq \in Request /\ Nothing \in Local
  BY DEF NoReq, Nothing, Request, Local
<1>3. ProvingTypeOK
  <2>1. rows \in Seq(Row) /\ 1 \in 1..(MaxId + 1) /\ 0 \in 0..MaxLosses
    BY <1>1, ProvingBounds
  <2>2. pc \in [Pollers -> PCs] /\ \A p \in Pollers : pc[p] = "idle"
    BY <1>1, LabelSets
  <2> QED BY <1>1, <1>2, <2>1, <2>2, LabelSets DEF ProvingTypeOK
<1>4. LedgerInv
  BY <1>1 DEF LedgerInv
<1>5. TableInv
  BY <1>1 DEF TableInv, Numbered, ReceiptsFitIn, InOrderIn
<1>6. WorkInv
  <2>1. \A j \in Jobs : work[j].id = 0
    BY <1>1 DEF NoReq
  <2>2. DOMAIN rows = {} /\ nextId = 1
    BY <1>1
  <2>3. ASSUME NEW j \in Jobs PROVE work[j].id < nextId
    <3>1. work[j].id = 0 /\ 0 < nextId
      BY <1>1, <2>1
    <3> QED BY <3>1
  <2> QED BY <2>2, <2>3 DEF WorkInv, FitsIn
<1>7. HandlerInv
  BY <1>1, LabelSets DEF HandlerInv, HandlerOK, Nothing
<1>8. KeyNamesItsJob
  BY <1>1 DEF KeyNamesItsJob
<1> QED BY <1>3, <1>4, <1>5, <1>6, <1>7, <1>8 DEF ProvingInv

LEMMA ProvingInvStep == ProvingInv /\ [ProvingNext]_allvars => ProvingInv'
<1> SUFFICES ASSUME ProvingInv, [ProvingNext]_allvars PROVE ProvingInv'
  OBVIOUS
<1>1. [ServerNext]_pvars
  BY ServedStep DEF ProvingInv
<1>2. LedgerInv' /\ issued \subseteq issued' /\ acked \subseteq acked'
  BY <1>1, LedgerStep DEF ProvingInv
<1>3. ASSUME NEW p \in Pollers, Handle(p) \/ Lose(p) PROVE ProvingInv'
  <2>1. ProvingTypeOK'
    BY <1>3, TypesStep
  <2>2. TableInv'
    BY <1>3, TableStep DEF TableInv
  <2>3. work' \in [Jobs -> Request]
    BY <2>1 DEF ProvingTypeOK
  <2>4. WorkInv' /\ HandlerInv'
    BY <1>2, <1>3, <2>3, HandlerStep
  <2>5. KeyNamesItsJob'
    BY <1>2, <1>3, KeysStep
  <2> QED BY <1>2, <2>1, <2>2, <2>4, <2>5 DEF ProvingInv
<1>4. ASSUME UNCHANGED subs PROVE ProvingInv'
  <2>1. /\ rows' = rows /\ nextId' = nextId /\ tip' = tip /\ tipSnark' = tipSnark
        /\ keys' = keys /\ work' = work /\ pc' = pc /\ my' = my /\ losses' = losses
    BY <1>4 DEF subs, table, tips
  <2>2. ProvingTypeOK' /\ TableInv' /\ WorkInv'
    BY <2>1 DEF ProvingInv, ProvingTypeOK, TableInv, WorkInv
  <2>3. HandlerInv'
    BY <1>2, <2>1 DEF ProvingInv, HandlerInv, HandlerOK
  <2>4. KeyNamesItsJob'
    BY <1>2, <2>1 DEF ProvingInv, KeyNamesItsJob
  <2> QED BY <1>2, <2>2, <2>3, <2>4 DEF ProvingInv
<1> QED BY <1>3, <1>4 DEF ProvingNext, Serve, allvars

LEMMA ProvingInvariant == ProvingSpec => []ProvingInv
  BY ProvingInvInit, ProvingInvStep, PTL DEF ProvingSpec
-----------------------------------------------------------------------------
\* Types: a handler that needs a job or a request has one.
THEOREM ProvingTypes == ProvingSpec => []ProvingTypeOK
<1>1. ProvingInv => ProvingTypeOK
  BY DEF ProvingInv
<1> QED BY <1>1, ProvingInvariant, PTL

\* A receipt is only ever stored on the commitment it proves.
THEOREM ReceiptsWhereTheyBelong == ProvingSpec => []ReceiptsFit
<1>1. ProvingInv => ReceiptsFit
  BY DEF ProvingInv, TableInv, ReceiptsFitIn, ReceiptsFit, UptoIn, Upto
<1> QED BY <1>1, ProvingInvariant, PTL

\* However late its receipt comes, no commitment is proved before the ones it
\* builds on, nor folded before the fold it continues.
THEOREM ProofsComeInOrder == ProvingSpec => []ProofsInOrder
<1>1. ProvingInv => ProofsInOrder
  BY DEF ProvingInv, TableInv, InOrderIn, ProofsInOrder
<1> QED BY <1>1, ProvingInvariant, PTL

\* A job key leads to an accepted job for the proof the key names.
THEOREM KeysNameTheirJobs == ProvingSpec => []KeyNamesItsJob
<1>1. ProvingInv => KeyNamesItsJob
  BY DEF ProvingInv
<1> QED BY <1>1, ProvingInvariant, PTL

\* The handlers use the server as ProverServer lets its clients: its safety
\* theorems hold of the whole.
THEOREM ServerServed == ProvingSpec => ServerInit /\ [][ServerNext]_pvars
<1>1. ProvingInit => ServerInit
  BY DEF ProvingInit
<1>2. ProvingInv /\ [ProvingNext]_allvars => [ServerNext]_pvars
  BY ServedStep DEF ProvingInv
<1> QED BY <1>1, <1>2, ProvingInvariant, PTL DEF ProvingSpec
-----------------------------------------------------------------------------
(***************************************************************************)
(* The chain of proofs.  In a table whose receipts fit and come in order,  *)
(* a link is proved exactly when the receipt is there.                     *)
(***************************************************************************)
Shown(row)  == [step |-> row.step # {}, agg |-> row.agg # {}, sent |-> row.sent]
LinksOf(rs) == [i \in DOMAIN rs |-> Shown(rs[i])]
LinksIn(rs) == [i \in DOMAIN rs |-> [step |-> rs[i].step = {rs[i].id},
                                     agg  |-> i >= 2 /\ rs[i].agg = UptoIn(rs, i),
                                     sent |-> rs[i].sent]]

LEMMA LinksShown ==
  ASSUME NEW rs \in Seq(Row), ReceiptsFitIn(rs), InOrderIn(rs)
  PROVE  LinksIn(rs) = LinksOf(rs)
<1>1. ASSUME NEW i \in DOMAIN rs
      PROVE  [step |-> rs[i].step = {rs[i].id}, agg |-> i >= 2 /\ rs[i].agg = UptoIn(rs, i),
              sent |-> rs[i].sent] = Shown(rs[i])
  <2>1. /\ rs[i].step \in {{}, {rs[i].id}} /\ rs[i].agg \in {{}, UptoIn(rs, i)}
        /\ rs[i].agg # {} => i >= 3
    BY DEF ReceiptsFitIn, InOrderIn
  <2>2. i \in Nat /\ (i >= 2 => i \in 2..i) /\ (i >= 3 => i >= 2)
    BY SeqDomain
  <2>3. i >= 2 => UptoIn(rs, i) # {}
    BY <2>2 DEF UptoIn
  <2>4. (rs[i].step = {rs[i].id}) = (rs[i].step # {})
    BY <2>1
  <2>5. (i >= 2 /\ rs[i].agg = UptoIn(rs, i)) = (rs[i].agg # {})
    BY <2>1, <2>2, <2>3
  <2> QED BY <2>4, <2>5, Zenon DEF Shown
<1> QED BY <1>1, Zenon DEF LinksIn, LinksOf

LEMMA ShownParts ==
  ASSUME NEW row
  PROVE  /\ Shown(row).step <=> row.step # {}
         /\ Shown(row).agg <=> row.agg # {}
         /\ Shown(row).sent = row.sent
<1>1. /\ Shown(row).step = (row.step # {}) /\ Shown(row).agg = (row.agg # {})
      /\ Shown(row).sent = row.sent
  BY Zenon DEF Shown
<1> QED BY <1>1, Zenon

LEMMA ShownSame ==
  ASSUME NEW row, NEW old, row.step = old.step, row.agg = old.agg, row.sent = old.sent
  PROVE  Shown(row) = Shown(old)
  BY Zenon DEF Shown

\* A row gains a step, a fold, or is sent.
LEMMA ShownTakes ==
  ASSUME NEW row, NEW old
  PROVE  /\ row.step # {} /\ row.agg = old.agg /\ row.sent = old.sent
              => Shown(row) = [Shown(old) EXCEPT !.step = TRUE]
         /\ row.step = old.step /\ row.agg # {} /\ row.sent = old.sent
              => Shown(row) = [Shown(old) EXCEPT !.agg = TRUE]
         /\ row.step = old.step /\ row.agg = old.agg /\ row.sent = TRUE
              => Shown(row) = [Shown(old) EXCEPT !.sent = TRUE]
<1> DEFINE yes == TRUE
           x == old.step # {}
           y == old.agg # {}
           z == old.sent
<1>1. Shown(old) = [step |-> x, agg |-> y, sent |-> z]
  BY Zenon DEF Shown
<1>2. row.step # {} /\ row.agg = old.agg /\ row.sent = old.sent
        => Shown(row) = [step |-> yes, agg |-> y, sent |-> z]
  <2>1. row.step # {} => (row.step # {}) = TRUE
    OBVIOUS
  <2> QED BY <2>1, Zenon DEF Shown
<1>3. row.step = old.step /\ row.agg # {} /\ row.sent = old.sent
        => Shown(row) = [step |-> x, agg |-> yes, sent |-> z]
  <2>1. row.agg # {} => (row.agg # {}) = TRUE
    OBVIOUS
  <2> QED BY <2>1, Zenon DEF Shown
<1>4. row.step = old.step /\ row.agg = old.agg /\ row.sent = TRUE
        => Shown(row) = [step |-> x, agg |-> y, sent |-> yes]
  BY Zenon DEF Shown
<1> HIDE DEF x, y, z, yes
<1>5. /\ [step |-> yes, agg |-> y, sent |-> z] = [Shown(old) EXCEPT !.step = yes]
      /\ [step |-> x, agg |-> yes, sent |-> z] = [Shown(old) EXCEPT !.agg = yes]
      /\ [step |-> x, agg |-> y, sent |-> yes] = [Shown(old) EXCEPT !.sent = yes]
  BY <1>1
<1> QED BY <1>2, <1>3, <1>4, <1>5, Zenon DEF yes

LEMMA LinksOfAre ==
  ASSUME NEW rs \in Seq(Row)
  PROVE  /\ Len(rs) \in Nat /\ DOMAIN rs = 1..Len(rs) /\ DOMAIN LinksOf(rs) = 1..Len(rs)
         /\ LinksOf(rs) \in Seq(Chain!Entry) /\ Len(LinksOf(rs)) = Len(rs)
         /\ \A i \in 1..Len(rs) : rs[i] \in Row /\ LinksOf(rs)[i] = Shown(rs[i])
<1>1. Len(rs) \in Nat /\ DOMAIN rs = 1..Len(rs) /\ \A i \in 1..Len(rs) : rs[i] \in Row
  OBVIOUS
<1>2. \A row \in Row : Shown(row) \in Chain!Entry
  BY DEF Row, Shown, Chain!Entry
<1>3. LinksOf(rs) \in [1..Len(rs) -> Chain!Entry]
  BY <1>1, <1>2 DEF LinksOf
<1>4. \A i \in 1..Len(rs) : LinksOf(rs)[i] = Shown(rs[i])
  BY <1>1 DEF LinksOf
<1> QED BY <1>1, <1>3, <1>4

LEMMA SameLinks ==
  ASSUME NEW rs \in Seq(Row), NEW ts, DOMAIN ts = DOMAIN rs,
         \A i \in DOMAIN rs : Shown(ts[i]) = Shown(rs[i])
  PROVE  LinksOf(ts) = LinksOf(rs)
  BY DEF LinksOf

LEMMA OneLink ==
  ASSUME NEW rs \in Seq(Row), NEW ts, DOMAIN ts = DOMAIN rs, NEW i \in DOMAIN rs, NEW l,
         \A j \in DOMAIN rs : j # i => ts[j] = rs[j],
         Shown(ts[i]) = l
  PROVE  LinksOf(ts) = [LinksOf(rs) EXCEPT ![i] = l]
<1>1. LinksOf(ts) = [j \in DOMAIN rs |-> Shown(ts[j])]
  BY DEF LinksOf
<1>2. LinksOf(rs) = [j \in DOMAIN rs |-> Shown(rs[j])]
  BY DEF LinksOf
<1> QED BY <1>1, <1>2

\* A receipt that fits is stored: the next proof of the chain, or one it has.
LEMMA StoredIsProof ==
  ASSUME NEW i \in DOMAIN rows, NEW r \in Request, rows \in Seq(Row), rows' \in Seq(Row),
         DOMAIN rows' = DOMAIN rows, Links = LinksOf(rows), Links' = LinksOf(rows'),
         i >= 2, r.covers # {}, ReadyIn(rows, i, r.fold),
         rows'[i] = StoredIn(rows[i], r), \A j \in DOMAIN rows : j # i => rows'[j] = rows[j]
  PROVE  Chain!ChainNext \/ UNCHANGED Links
<1>1. /\ Len(rows) \in Nat /\ DOMAIN rows = 1..Len(rows) /\ DOMAIN Links = DOMAIN rows
      /\ \A j \in DOMAIN rows : rows[j] \in Row /\ Links[j] = Shown(rows[j])
  BY LinksOfAre
<1>2. \A j \in DOMAIN rows : /\ Links[j].step <=> rows[j].step # {}
                             /\ Links[j].agg <=> rows[j].agg # {}
  <2> SUFFICES ASSUME NEW j \in DOMAIN rows
               PROVE  /\ Links[j].step <=> rows[j].step # {}
                      /\ Links[j].agg <=> rows[j].agg # {}
    OBVIOUS
  <2>1. Links[j] = Shown(rows[j])
    BY <1>1
  <2> QED BY <2>1, ShownParts
<1>3. /\ \A j \in 2..(i - 1) : j \in DOMAIN rows
      /\ \A j \in 3..(i - 1) : j \in DOMAIN rows
  BY <1>1
<1>4. Chain!StepsBefore(i)
  BY <1>2, <1>3 DEF ReadyIn, Chain!StepsBefore
<1>5. CASE ~r.fold
  <2>1. /\ rows'[i].step = r.covers /\ rows'[i].agg = rows[i].agg
        /\ rows'[i].sent = rows[i].sent
    BY <1>1, <1>5 DEF StoredIn, Row
  <2>2. Shown(rows'[i]) = [Links[i] EXCEPT !.step = TRUE]
    <3>1. Shown(rows'[i]) = [Shown(rows[i]) EXCEPT !.step = TRUE]
      <4>1. rows'[i].step # {} /\ rows'[i].agg = rows[i].agg /\ rows'[i].sent = rows[i].sent
        BY <2>1
      <4> QED BY <4>1, ShownTakes, Zenon
    <3>2. Links[i] = Shown(rows[i])
      BY <1>1
    <3> QED BY <3>1, <3>2
  <2>3. Links' = [Links EXCEPT ![i] = [Links[i] EXCEPT !.step = TRUE]]
    BY <2>2, OneLink
  <2>4. CASE Links[i].step
    <3>1. Shown(rows'[i]) = Shown(rows[i])
      <4>1. rows[i].step # {}
        BY <1>2, <2>4
      <4>2. (rows'[i].step # {}) = (rows[i].step # {})
        BY <2>1, <4>1
      <4> QED BY <2>1, <4>2, Zenon DEF Shown
    <3>2. LinksOf(rows') = LinksOf(rows)
      BY <3>1, SameLinks
    <3> QED BY <3>2
  <2>5. CASE ~Links[i].step
    BY <1>1, <1>4, <2>3, <2>5 DEF Chain!ProveStep, Chain!ChainNext
  <2> QED BY <2>4, <2>5
<1>6. CASE r.fold
  <2>1. /\ rows'[i].agg = r.covers /\ rows'[i].step = rows[i].step
        /\ rows'[i].sent = rows[i].sent
    BY <1>1, <1>6 DEF StoredIn, Row
  <2>2. Shown(rows'[i]) = [Links[i] EXCEPT !.agg = TRUE]
    <3>1. Shown(rows'[i]) = [Shown(rows[i]) EXCEPT !.agg = TRUE]
      <4>1. rows'[i].agg # {} /\ rows'[i].step = rows[i].step /\ rows'[i].sent = rows[i].sent
        BY <2>1
      <4> QED BY <4>1, ShownTakes, Zenon
    <3>2. Links[i] = Shown(rows[i])
      BY <1>1
    <3> QED BY <3>1, <3>2
  <2>3. Links' = [Links EXCEPT ![i] = [Links[i] EXCEPT !.agg = TRUE]]
    BY <2>2, OneLink
  <2>4. CASE Links[i].agg
    <3>1. Shown(rows'[i]) = Shown(rows[i])
      <4>1. rows[i].agg # {}
        BY <1>2, <2>4
      <4>2. (rows'[i].agg # {}) = (rows[i].agg # {})
        BY <2>1, <4>1
      <4> QED BY <2>1, <4>2, Zenon DEF Shown
    <3>2. LinksOf(rows') = LinksOf(rows)
      BY <3>1, SameLinks
    <3> QED BY <3>2
  <2>5. CASE ~Links[i].agg
    <3>1. i >= 3 /\ rows[i].step # {} /\ \A j \in 3..(i - 1) : rows[j].agg # {}
      BY <1>6 DEF ReadyIn
    <3>2. Links[i].step /\ Chain!FoldsBefore(i)
      BY <1>2, <1>3, <3>1 DEF Chain!FoldsBefore
    <3> QED BY <1>1, <1>4, <2>3, <2>5, <3>1, <3>2 DEF Chain!ProveFold, Chain!ChainNext
  <2> QED BY <2>4, <2>5
<1> QED BY <1>5, <1>6

LEMMA AppendIs ==
  ASSUME NEW S, NEW s \in Seq(S), NEW e \in S
  PROVE  /\ Append(s, e) = [j \in 1..(Len(s) + 1) |-> Append(s, e)[j]]
         /\ \A j \in 1..Len(s) : Append(s, e)[j] = s[j]
         /\ Append(s, e)[Len(s) + 1] = e
<1>1. Append(s, e) \in Seq(S) /\ Len(Append(s, e)) = Len(s) + 1
  OBVIOUS
<1>2. \A t \in Seq(S) : t = [j \in 1..Len(t) |-> t[j]]
  OBVIOUS
<1>3. Append(s, e) = [j \in 1..(Len(s) + 1) |-> Append(s, e)[j]]
  BY <1>1, <1>2
<1> QED BY <1>3

LEMMA RowsKeepChain ==
  ASSUME ProvingInv, NEW p \in Pollers, Handle(p) \/ Lose(p)
  PROVE  Chain!ChainNext \/ UNCHANGED Links
<1>1. /\ rows \in Seq(Row) /\ nextId \in Nat /\ Numbered(rows, nextId)
      /\ ReceiptsFitIn(rows) /\ InOrderIn(rows)
  BY ProvingBounds DEF ProvingInv, ProvingTypeOK, TableInv
<1>2. rows' \in Seq(Row) /\ ReceiptsFitIn(rows') /\ InOrderIn(rows')
  BY TableStep
<1>3. Links = LinksOf(rows) /\ Links' = LinksOf(rows')
  <2>1. Links = LinksIn(rows) /\ Links' = LinksIn(rows')
    BY Zenon DEF Links, Link, LinksIn, Upto, UptoIn
  <2> QED BY <1>1, <1>2, <2>1, LinksShown
<1>4. /\ Len(rows) \in Nat /\ DOMAIN rows = 1..Len(rows)
      /\ DOMAIN Links = 1..Len(rows) /\ Len(Links) = Len(rows)
      /\ Links \in Seq(Chain!Entry)
      /\ \A i \in DOMAIN rows : rows[i] \in Row /\ Links[i] = Shown(rows[i])
  BY <1>1, <1>3, LinksOfAre
<1>5. \A i, k \in DOMAIN rows : rows[i].id = rows[k].id => i = k
  <2>1. \A i \in DOMAIN rows : i \in Nat /\ rows[i].id \in Nat
    BY <1>1, SeqDomain
  <2> QED BY <1>1, <2>1 DEF Numbered
<1>6. CASE UNCHANGED rows
  BY <1>3, <1>6
<1>7. CASE SaveReceipt(p) /\ ~UNCHANGED rows
  <2>1. /\ Proved(p) \in Request /\ FitsIn(rows, nextId, Proved(p))
        /\ Proved(p).id = my[p].req.id
    BY <1>7, LabelSets, ProvedFits DEF SaveReceipt, Slot
  <2>2. rows' = [i \in DOMAIN rows |-> IF rows[i].id = Proved(p).id
                                       THEN StoredIn(rows[i], Proved(p)) ELSE rows[i]]
    BY <1>7, <2>1 DEF SaveReceipt
  <2>3. PICK i \in DOMAIN rows : rows[i].id = Proved(p).id
    <3>1. ASSUME \A i \in DOMAIN rows : rows[i].id # Proved(p).id PROVE rows' = rows
      BY <1>1, <2>2, <3>1
    <3> QED BY <1>7, <3>1
  <2>4. /\ i >= 2 /\ ReadyIn(rows, i, Proved(p).fold)
        /\ Proved(p).covers = IF Proved(p).fold THEN UptoIn(rows, i) ELSE {Proved(p).id}
    BY <2>1, <2>3 DEF FitsIn
  <2>5. Proved(p).covers # {}
    <3>1. i \in 2..i
      BY <1>1, <2>4, SeqDomain
    <3>2. rows[i].id \in UptoIn(rows, i)
      BY <3>1 DEF UptoIn
    <3> QED BY <2>4, <3>2
  <2>6. /\ DOMAIN rows' = DOMAIN rows /\ rows'[i] = StoredIn(rows[i], Proved(p))
        /\ \A j \in DOMAIN rows : j # i => rows'[j] = rows[j]
    BY <2>2, <2>3, <1>5
  <2> QED BY <1>1, <1>2, <1>3, <2>1, <2>4, <2>5, <2>6, StoredIsProof
<1>8. CASE SnarkRow(p)
  <2>1. /\ DOMAIN rows' = DOMAIN rows
        /\ \A i \in DOMAIN rows :
              rows'[i] = IF rows[i].id = my[p].req.id
                         THEN [rows[i] EXCEPT !.snark = my[p].req.covers] ELSE rows[i]
    BY <1>8 DEF SnarkRow
  <2>2. \A i \in DOMAIN rows : /\ rows'[i].step = rows[i].step
                               /\ rows'[i].agg = rows[i].agg
                               /\ rows'[i].sent = rows[i].sent
    BY <2>1, <1>4 DEF Row
  <2>3. \A i \in DOMAIN rows : Shown(rows'[i]) = Shown(rows[i])
    BY <2>2, ShownSame
  <2> QED BY <1>1, <1>3, <2>1, <2>3, SameLinks
<1>9. CASE BroadcastStore(p)
  <2>1. /\ DOMAIN rows' = DOMAIN rows
        /\ rows' = [i \in DOMAIN rows |->
                      IF rows[i].id = my[p].req.id THEN [rows[i] EXCEPT !.sent = TRUE] ELSE rows[i]]
    BY <1>9 DEF BroadcastStore
  <2>2. CASE \A i \in DOMAIN rows : rows[i].id # my[p].req.id
    <3>1. rows' = rows
      BY <1>1, <2>1, <2>2
    <3> QED BY <1>3, <3>1
  <2>3. CASE \E i \in DOMAIN rows : rows[i].id = my[p].req.id
    <3>1. PICK i \in DOMAIN rows : rows[i].id = my[p].req.id
      BY <2>3
    <3>2. /\ rows'[i] = [rows[i] EXCEPT !.sent = TRUE]
          /\ \A j \in DOMAIN rows : j # i => rows'[j] = rows[j]
      BY <2>1, <3>1, <1>5
    <3>3. CASE rows[i].sent
      <4>1. rows'[i] = rows[i]
        BY <1>4, <3>2, <3>3 DEF Row
      <4>2. \A j \in DOMAIN rows : Shown(rows'[j]) = Shown(rows[j])
        BY <3>2, <4>1
      <4> QED BY <1>1, <1>3, <2>1, <4>2, SameLinks
    <3>4. CASE ~rows[i].sent
      <4>1. /\ rows'[i].step = rows[i].step /\ rows'[i].agg = rows[i].agg
            /\ rows'[i].sent = TRUE
        BY <1>4, <3>2 DEF Row
      <4>2. Shown(rows'[i]) = [Shown(rows[i]) EXCEPT !.sent = TRUE]
        BY <4>1, ShownTakes
      <4>3. Shown(rows'[i]) = [Links[i] EXCEPT !.sent = TRUE]
        BY <1>4, <4>2
      <4>4. Links' = [Links EXCEPT ![i] = [Links[i] EXCEPT !.sent = TRUE]]
        <5> DEFINE l == [Links[i] EXCEPT !.sent = TRUE]
        <5>1. Shown(rows'[i]) = l
          BY <4>3
        <5> HIDE DEF l
        <5>2. LinksOf(rows') = [LinksOf(rows) EXCEPT ![i] = l]
          <6>1. /\ rows \in Seq(Row) /\ DOMAIN rows' = DOMAIN rows
                /\ \A j \in DOMAIN rows : j # i => rows'[j] = rows[j]
            BY <1>1, <2>1, <3>2
          <6> QED BY <3>1, <5>1, <6>1, OneLink
        <5> QED BY <1>3, <5>2 DEF l
      <4>5. ~Links[i].sent
        <5>1. Links[i] = Shown(rows[i])
          BY <1>4
        <5> QED BY <3>4, <5>1, ShownParts
      <4> QED BY <1>4, <4>4, <4>5 DEF Chain!Send, Chain!ChainNext
    <3> QED BY <3>3, <3>4
  <2> QED BY <2>2, <2>3
<1>10. CASE CommitRow(p)
  <2> DEFINE n == Len(rows)
             row == [id |-> nextId, step |-> {}, agg |-> {}, snark |-> {}, sent |-> FALSE]
  <2>1. rows' = Append(rows, row)
    BY <1>10 DEF CommitRow
  <2>2. Shown(row) = Chain!New
    <3>1. (row.step # {}) = FALSE /\ (row.agg # {}) = FALSE
      OBVIOUS
    <3>2. row.sent = FALSE
      BY Zenon
    <3> HIDE DEF row
    <3> QED BY <3>1, <3>2, Zenon DEF Shown, Chain!New
  <2> HIDE DEF row
  <2>3. /\ DOMAIN rows' = 1..(n + 1) /\ rows'[n + 1] = row
        /\ \A i \in 1..n : rows'[i] = rows[i]
    BY <1>1, <2>1
  <2>4. Links' = [i \in 1..(n + 1) |-> Shown(rows'[i])]
    BY <1>3, <2>3 DEF LinksOf
  <2>5. Links \in Seq(Chain!Entry) /\ Chain!New \in Chain!Entry
    BY <1>4 DEF Chain!New, Chain!Entry
  <2> DEFINE more == Append(Links, Chain!New)
  <2>6. /\ more = [i \in 1..(n + 1) |-> more[i]]
        /\ \A i \in 1..n : more[i] = Links[i]
        /\ more[n + 1] = Chain!New
    <3> DEFINE new == Chain!New
    <3>1. Links \in Seq(Chain!Entry) /\ new \in Chain!Entry
      BY <2>5
    <3> HIDE DEF new
    <3>2. /\ Append(Links, new) = [j \in 1..(Len(Links) + 1) |-> Append(Links, new)[j]]
          /\ \A j \in 1..Len(Links) : Append(Links, new)[j] = Links[j]
          /\ Append(Links, new)[Len(Links) + 1] = new
      BY <3>1, AppendIs
    <3> QED BY <1>4, <3>2 DEF new
  <2> HIDE DEF more, n
  <2>7. n \in Nat /\ \A i \in 1..n : Links[i] = Shown(rows[i])
    BY <1>4 DEF n
  <2>8. \A i \in 1..(n + 1) : i = n + 1 \/ i \in 1..n
    BY <2>7
  <2>9. \A i \in 1..(n + 1) : Shown(rows'[i]) = more[i]
    BY <2>2, <2>3, <2>6, <2>7, <2>8
  <2>10. Links' = more
    BY <2>4, <2>6, <2>9
  <2> QED BY <2>10 DEF more, Chain!Commit, Chain!ChainNext
<1>11. CASE RollbackRow(p) /\ ~UNCHANGED rows
  <2> DEFINE n == Len(rows)
  <2>1. rows # <<>> /\ ~Last(rows).sent /\ rows' = SubSeq(rows, 1, n - 1)
    BY <1>11 DEF RollbackRow
  <2>2. /\ n \in DOMAIN rows /\ n - 1 \in Nat /\ DOMAIN rows' = 1..(n - 1)
        /\ \A i \in 1..(n - 1) : i \in DOMAIN rows /\ rows'[i] = rows[i]
    BY <1>1, <2>1
  <2>3. Links' = [i \in 1..(n - 1) |-> Links[i]]
    <3>1. Links' = [i \in 1..(n - 1) |-> Shown(rows'[i])]
      BY <1>3, <2>2 DEF LinksOf
    <3>2. \A i \in 1..(n - 1) : Shown(rows'[i]) = Links[i]
      BY <1>4, <2>2
    <3> QED BY <3>1, <3>2
  <2>4. Links' = Chain!Front(Links)
    BY <1>4, <2>2, <2>3 DEF Chain!Front
  <2>5. Links # <<>> /\ ~Chain!Last(Links).sent
    <3>1. Links # <<>> /\ Chain!Last(Links) = Shown(rows[n])
      BY <1>4, <2>2 DEF Chain!Last
    <3>2. ~rows[n].sent
      BY <2>1 DEF Last
    <3> QED BY <3>1, <3>2, ShownParts
  <2> QED BY <2>4, <2>5 DEF Chain!Withdraw, Chain!ChainNext
<1>12. ASSUME ~SaveReceipt(p), ~SnarkRow(p), ~BroadcastStore(p), ~CommitRow(p), ~RollbackRow(p)
       PROVE  UNCHANGED rows
  BY <1>12 DEF table, Handle, Poll, Lose, Begin, FindKey, AskStatus, DropKey, AskReceipt,
     TakeReceipt, SaveTip, Push, PushStore, PushFails, CancelSend, AskTip, Compress,
     SnarkLast, SnarkTip, CommitCheck, BroadcastCheck, RollbackBegin, RollbackForget
<1> QED BY <1>6, <1>7, <1>8, <1>9, <1>10, <1>11, <1>12

\* Between a request and its receipt anything may happen to the table, and
\* still the commitments are a chain of proofs, as LocalSpace takes them to be.
THEOREM PipelineKeepsChain == ProvingSpec => ImplementsChain
<1>1. ProvingInit => Chain!ChainInit
  BY DEF ProvingInit, Chain!ChainInit, Links
<1>2. ProvingInv /\ [ProvingNext]_allvars => Chain!ChainNext \/ UNCHANGED Links
  <2> SUFFICES ASSUME ProvingInv, [ProvingNext]_allvars
               PROVE  Chain!ChainNext \/ UNCHANGED Links
    OBVIOUS
  <2>1. ASSUME NEW p \in Pollers, Handle(p) \/ Lose(p)
        PROVE  Chain!ChainNext \/ UNCHANGED Links
    BY <2>1, RowsKeepChain
  <2>2. CASE Serve \/ UNCHANGED allvars
    <3>1. UNCHANGED rows
      BY <2>2 DEF Serve, allvars, subs, table
    <3> QED BY <3>1 DEF Links, Link, Upto
  <2> QED BY <2>1, <2>2 DEF ProvingNext
<1>3. ProvingInv /\ [ProvingNext]_allvars => [Chain!ChainNext]_Links
  BY <1>2
<1> QED
  BY <1>1, <1>3, ProvingInvariant, PTL DEF ProvingSpec, ImplementsChain, Chain!ChainSpec
=============================================================================
