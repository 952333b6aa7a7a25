-------------------------- MODULE HandleLedgerProofs --------------------------
(***************************************************************************)
(* What the promise of HandleLedger means for the owner of a handle, for   *)
(* any handles and keys: the first key a handle is bound to is its only    *)
(* one, in every later root, and once the root is sealed it is so for      *)
(* ever.  Every specification shown to implement HandleLedger inherits it. *)
(***************************************************************************)
EXTENDS HandleLedger, SequenceTheorems, TLAPS

\* A sealed root binds the handle to the key: the owner can prove it.
Owned(h, s) ==
    \E i \in DOMAIN ledger : ledger[i].sealed /\ ledger[i].root[h] = s

\* What a root binds, each later root binds alike, and no root comes twice.
FirstKeyWins ==
    \A i, j \in DOMAIN ledger : i < j => Grows(ledger[i].root, ledger[j].root)

Entry == [root : LedgerTree, sealed : BOOLEAN]
LedgerInv == ledger \in Seq(Entry) /\ FirstKeyWins

-----------------------------------------------------------------------------
\* Growing is transitive: a handle bound in the middle root stays bound, and
\* the middle root itself differs from the last one at some handle.
LEMMA GrowsOn ==
    ASSUME NEW a \in LedgerTree, NEW b \in LedgerTree, NEW c \in LedgerTree,
           Grows(a, b), Grows(b, c)
    PROVE  Grows(a, c)
<1>1. PICK h \in Handles : b[h] # c[h]
  BY DEF Grows, LedgerTree
<1>2. b[h] = NoSpk
  BY <1>1 DEF Grows
<1>3. a[h] = NoSpk /\ c[h] # NoSpk
  BY <1>1, <1>2 DEF Grows
<1>. QED  BY <1>3 DEF Grows

LEMMA ExtendKeeps ==
    ASSUME LedgerInv, Extend
    PROVE  LedgerInv'
<1>1. PICK tree \in LedgerTree :
        /\ ledger # <<>> => Grows(Last(ledger).root, tree)
        /\ ledger' = Append(ledger, [root |-> tree, sealed |-> FALSE])
  BY DEF Extend
<1>. DEFINE new == [root |-> tree, sealed |-> FALSE]
<1>2. ledger \in Seq(Entry) /\ new \in Entry
  BY DEF LedgerInv, Entry
<1>3. /\ ledger' \in Seq(Entry)
      /\ DOMAIN ledger' = 1..(Len(ledger) + 1)
      /\ \A i \in DOMAIN ledger : ledger'[i] = ledger[i]
      /\ ledger'[Len(ledger) + 1].root = tree
  BY <1>1, <1>2
<1>4. ASSUME NEW i \in DOMAIN ledger', NEW j \in DOMAIN ledger', i < j
      PROVE  Grows(ledger'[i].root, ledger'[j].root)
  <2>1. i \in DOMAIN ledger /\ ledger'[i] = ledger[i] /\ Len(ledger) \in Nat
    BY <1>2, <1>3, <1>4
  <2>2. CASE j # Len(ledger) + 1
    <3>1. j \in DOMAIN ledger /\ ledger'[j] = ledger[j]
      BY <1>2, <1>3, <1>4, <2>2
    <3>. QED  BY <2>1, <3>1, <1>4 DEF LedgerInv, FirstKeyWins
  <2>3. CASE j = Len(ledger) + 1
    <3>1. ledger # <<>> /\ Last(ledger) = ledger[Len(ledger)] /\ Len(ledger) \in DOMAIN ledger
      BY <2>1, <1>2 DEF Last
    <3>2. Grows(ledger[Len(ledger)].root, tree)
      BY <1>1, <3>1
    <3>3. CASE i = Len(ledger)
      BY <3>2, <3>3, <2>1, <2>3, <1>3
    <3>4. CASE i < Len(ledger)
      <4>1. Grows(ledger[i].root, ledger[Len(ledger)].root)
        BY <2>1, <3>1, <3>4 DEF LedgerInv, FirstKeyWins
      <4>2. ledger[i] \in Entry /\ ledger[Len(ledger)] \in Entry
        BY <1>2, <2>1, <3>1, ElementOfSeq
      <4>3. ledger[i].root \in LedgerTree /\ ledger[Len(ledger)].root \in LedgerTree
        BY <4>2 DEF Entry
      <4>. QED  BY <4>1, <4>3, <3>2, <2>1, <2>3, <1>3, GrowsOn
    <3>. QED  BY <3>3, <3>4, <2>1, <1>2
  <2>. QED  BY <2>2, <2>3
<1>. QED  BY <1>3, <1>4 DEF LedgerInv, FirstKeyWins

LEMMA WithdrawKeeps ==
    ASSUME LedgerInv, Withdraw
    PROVE  LedgerInv'
<1>1. ledger \in Seq(Entry) /\ ledger # <<>>
  BY DEF LedgerInv, Withdraw
<1>2. ledger' = [i \in 1..(Len(ledger) - 1) |-> ledger[i]]
  BY <1>1 DEF Withdraw, Front
<1>3. /\ ledger' \in Seq(Entry)
      /\ DOMAIN ledger' \subseteq DOMAIN ledger
      /\ \A i \in DOMAIN ledger' : ledger'[i] = ledger[i]
  BY <1>1, <1>2
<1>. QED  BY <1>3 DEF LedgerInv, FirstKeyWins

LEMMA SealKeeps ==
    ASSUME LedgerInv, Seal
    PROVE  LedgerInv'
<1>1. ledger \in Seq(Entry) /\ Len(ledger) \in DOMAIN ledger
  BY DEF LedgerInv, Seal
<1>. DEFINE last == ledger[Len(ledger)]
            sealed == [last EXCEPT !.sealed = TRUE]
<1>2. last \in Entry
  BY <1>1, ElementOfSeq
<1>3. sealed \in Entry /\ sealed.root = last.root
  BY <1>2 DEF Entry
<1>4. ledger' = [ledger EXCEPT ![Len(ledger)] = sealed]
  BY DEF Seal
<1>. HIDE DEF sealed
<1>5. /\ ledger' \in Seq(Entry)
      /\ DOMAIN ledger' = DOMAIN ledger
      /\ \A i \in DOMAIN ledger : ledger'[i].root = ledger[i].root
  BY <1>1, <1>3, <1>4
<1>. QED  BY <1>5 DEF LedgerInv, FirstKeyWins

LEMMA LedgerKeeps ==
    ASSUME LedgerInv, [LedgerNext]_ledger
    PROVE  LedgerInv'
<1>1. CASE Extend    BY <1>1, ExtendKeeps
<1>2. CASE Withdraw  BY <1>2, WithdrawKeeps
<1>3. CASE Seal      BY <1>3, SealKeeps
<1>4. CASE UNCHANGED ledger
  BY <1>4 DEF LedgerInv, FirstKeyWins
<1>. QED  BY <1>1, <1>2, <1>3, <1>4 DEF LedgerNext

-----------------------------------------------------------------------------
\* A sealed root is not withdrawn, and keeps its bindings: only the last one
\* can go, and only before it is sealed.
LEMMA OwnedStays ==
    ASSUME LedgerInv, [LedgerNext]_ledger, NEW h, NEW s, Owned(h, s)
    PROVE  Owned(h, s)'
<1>1. ledger \in Seq(Entry)
  BY DEF LedgerInv
<1>2. PICK i \in DOMAIN ledger : ledger[i].sealed /\ ledger[i].root[h] = s
  BY DEF Owned
<1>3. CASE Extend
  <2>1. PICK new : ledger' = Append(ledger, new)
    BY <1>3 DEF Extend
  <2>2. i \in DOMAIN ledger' /\ ledger'[i] = ledger[i]
    BY <1>1, <2>1
  <2>. QED  BY <2>2, <1>2 DEF Owned
<1>4. CASE Withdraw
  <2>1. i # Len(ledger)
    BY <1>1, <1>2, <1>4 DEF Withdraw, Last
  <2>2. ledger' = [k \in 1..(Len(ledger) - 1) |-> ledger[k]]
    BY <1>1, <1>4 DEF Withdraw, Front
  <2>3. i \in DOMAIN ledger' /\ ledger'[i] = ledger[i]
    BY <1>1, <2>1, <2>2
  <2>. QED  BY <2>3, <1>2 DEF Owned
<1>5. CASE Seal
  <2>1. i \in DOMAIN ledger' /\ ledger'[i].sealed /\ ledger'[i].root = ledger[i].root
    BY <1>1, <1>2, <1>5 DEF Seal, Entry
  <2>. QED  BY <2>1, <1>2 DEF Owned
<1>6. CASE UNCHANGED ledger
  BY <1>6 DEF Owned
<1>. QED  BY <1>3, <1>4, <1>5, <1>6 DEF LedgerNext

\* The last root binds whatever a sealed root binds, to the same key.
LEMMA LastBinds ==
    ASSUME LedgerInv, NEW h \in Handles, NEW s, s # NoSpk, Owned(h, s)
    PROVE  ledger # <<>> /\ Last(ledger).root[h] = s
<1>1. ledger \in Seq(Entry)
  BY DEF LedgerInv
<1>2. PICK i \in DOMAIN ledger : ledger[i].root[h] = s
  BY DEF Owned
<1>3. Last(ledger) = ledger[Len(ledger)] /\ Len(ledger) \in DOMAIN ledger /\ i <= Len(ledger)
  BY <1>1, <1>2 DEF Last
<1>4. CASE i < Len(ledger)
  <2>1. Grows(ledger[i].root, ledger[Len(ledger)].root)
    BY <1>3, <1>4 DEF LedgerInv, FirstKeyWins
  <2>. QED  BY <2>1, <1>2, <1>3 DEF Grows
<1>. QED  BY <1>1, <1>2, <1>3, <1>4

-----------------------------------------------------------------------------
\* THEOREM.  Each root binds what every root before it binds, and more: the
\* first key of a handle is its key in all later roots.
THEOREM FirstKeyAlwaysWins == LedgerSpec => []LedgerInv
<1>1. LedgerInit => LedgerInv
  BY DEF LedgerInit, LedgerInv, FirstKeyWins
<1>2. LedgerInv /\ [LedgerNext]_ledger => LedgerInv'
  BY LedgerKeeps
<1>. QED  BY <1>1, <1>2, PTL DEF LedgerSpec

\* THEOREM.  No step unbinds what a sealed root binds, and the last root always
\* binds it to the same key.
OwnedGrows  == \A h \in Handles, s \in Spks : Owned(h, s) => Owned(h, s)'
OwnedIsLast ==
    \A h \in Handles, s \in Spks : s # NoSpk /\ Owned(h, s) =>
        ledger # <<>> /\ Last(ledger).root[h] = s

THEOREM OwnersKeep == LedgerSpec => [][OwnedGrows]_ledger /\ []OwnedIsLast
<1>1. LedgerInv /\ [LedgerNext]_ledger => [OwnedGrows]_ledger
  BY OwnedStays DEF OwnedGrows
<1>2. LedgerInv => OwnedIsLast
  BY LastBinds DEF OwnedIsLast
<1>. QED  BY <1>1, <1>2, FirstKeyAlwaysWins, PTL DEF LedgerSpec

\* THEOREM.  So what a sealed root binds is bound for ever: an owner never
\* loses a handle on chain.
THEOREM OwnedForEver ==
    ASSUME NEW h \in Handles, NEW s \in Spks
    PROVE  LedgerSpec => [](Owned(h, s) => []Owned(h, s))
<1>1. [OwnedGrows]_ledger /\ Owned(h, s) => Owned(h, s)'
  BY DEF OwnedGrows, Owned
<1>. QED  BY <1>1, OwnersKeep, PTL
=============================================================================
