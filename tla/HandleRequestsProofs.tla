------------------------- MODULE HandleRequestsProofs -------------------------
(***************************************************************************)
(* What the promise of HandleRequests means for whoever asked, for any     *)
(* names, keys and order of events: the status of a name is earned at      *)
(* every moment, not only when it was set, and an answer is not taken      *)
(* back.  Every specification shown to implement HandleRequests inherits   *)
(* it.                                                                     *)
(***************************************************************************)
EXTENDS HandleRequests, TLAPS

Asked(n) == asked[n] # {}
HeldOnce(n) == \E t \in Spks : <<n, t>> \in held

\* What each status says of the name, whenever it is read.
OutcomesEarned ==
    \A n \in Names :
        /\ status[n] \in {"none", "pending", "staged", "committed", "rejected"}
        /\ status[n] = "none" <=> ~Asked(n)
        /\ status[n] = "staged" => HeldForAsker(n)
        /\ status[n] = "rejected" => n \in BadNames \/ HeldForOther(n)
        /\ status[n] = "committed" => HeldOnce(n)

\* What is no name is never held.
Typed == /\ DOMAIN status = Names
         /\ asked \in [Names -> SUBSET Spks]
         /\ \A n \in BadNames, t \in Spks : <<n, t>> \notin held

AnswerInv == Typed /\ OutcomesEarned

\* An answer is not taken back, but for a notification that the name is
\* committed; who asked and what was held is not forgotten.
AnswersStay ==
    /\ held \subseteq held'
    /\ \A n \in Names :
         /\ asked[n] \subseteq asked'[n]
         /\ status[n] = "pending" => status'[n] # "none"
         /\ status[n] \in {"staged", "rejected", "committed"} =>
              status'[n] \in {status[n], "committed"}

-----------------------------------------------------------------------------
LEMMA StepAnswers ==
    ASSUME Typed, ReqNext
    PROVE  AnswersStay
<1>1. ASSUME NEW n \in Names, NEW s \in Spks, Ask(n, s)
      PROVE  AnswersStay
  BY <1>1 DEF Ask, AnswersStay, Typed
<1>2. ASSUME NEW n \in Names, NEW s \in Spks, Hold(n, s)
      PROVE  AnswersStay
  BY <1>2 DEF Hold, AnswersStay, Typed
<1>3. CASE Settle
  <2>1. ASSUME NEW n \in Names, status'[n] # status[n]
        PROVE  status[n] = "pending" /\ status'[n] \in {"staged", "committed", "rejected"}
    BY <1>3, <2>1 DEF Settle, Earned
  <2>. QED  BY <1>3, <2>1 DEF Settle, AnswersStay, Typed
<1>4. CASE Notify
  BY <1>4 DEF Notify, AnswersStay, Typed
<1>. QED  BY <1>1, <1>2, <1>3, <1>4 DEF ReqNext

LEMMA StepTypes ==
    ASSUME AnswerInv, ReqNext
    PROVE  Typed'
<1>1. ASSUME NEW n \in Names, NEW s \in Spks, Ask(n, s) \/ Hold(n, s)
      PROVE  Typed'
  BY <1>1 DEF Ask, Hold, AnswerInv, Typed
<1>2. CASE Settle
  BY <1>2 DEF Settle, Earned, AnswerInv, Typed
<1>3. CASE Notify
  BY <1>3 DEF Notify, AnswerInv, Typed
<1>. QED  BY <1>1, <1>2, <1>3 DEF ReqNext

\* Whoever held or asked still does, so what was earned stays earned; and a
\* status that changes is earned when it does.
LEMMA StepEarns ==
    ASSUME AnswerInv, ReqNext, Typed'
    PROVE  OutcomesEarned'
<1>a. AnswersStay
  BY StepAnswers DEF AnswerInv
<1>. SUFFICES ASSUME NEW n \in Names
              PROVE  /\ status'[n] \in {"none", "pending", "staged", "committed", "rejected"}
                     /\ status'[n] = "none" <=> asked'[n] = {}
                     /\ status'[n] = "staged" => HeldForAsker(n)'
                     /\ status'[n] = "rejected" => n \in BadNames \/ HeldForOther(n)'
                     /\ status'[n] = "committed" => HeldOnce(n)'
  BY DEF OutcomesEarned, Asked
<1>1. /\ HeldForAsker(n) => HeldForAsker(n)'
      /\ HeldForOther(n) => HeldForOther(n)'
      /\ HeldOnce(n) => HeldOnce(n)'
  BY <1>a DEF AnswersStay, HeldForAsker, HeldForOther, HeldOnce
<1>2. status'[n] \in {"none", "pending", "staged", "committed", "rejected"}
  <2>1. status[n] \in {"none", "pending", "staged", "committed", "rejected"}
    BY DEF AnswerInv, OutcomesEarned
  <2>2. \A m \in Names, s \in Spks : Ask(m, s) => status'[n] \in {status[n], "pending"}
    BY DEF Ask, AnswerInv, Typed
  <2>3. \A m \in Names, s \in Spks : Hold(m, s) => status'[n] = status[n]
    BY DEF Hold
  <2>4. Settle => status'[n] \in {status[n], "staged", "committed", "rejected"}
    BY DEF Settle, Earned
  <2>5. Notify => status'[n] \in {status[n], "committed"}
    BY DEF Notify
  <2>. QED  BY <2>1, <2>2, <2>3, <2>4, <2>5 DEF ReqNext
<1>3. CASE status'[n] = status[n] /\ UNCHANGED asked
  BY <1>1, <1>2, <1>3 DEF AnswerInv, OutcomesEarned, Asked
<1>4. ASSUME NEW m \in Names, NEW s \in Spks, Ask(m, s)
      PROVE  /\ status'[n] = "none" <=> asked'[n] = {}
             /\ status'[n] # "pending" => status'[n] = status[n]
  <2>1. /\ asked'[n] = IF n = m THEN asked[n] \cup {s} ELSE asked[n]
        /\ status'[n] = IF n = m /\ status[n] = "none" THEN "pending" ELSE status[n]
    BY <1>4 DEF Ask, AnswerInv, Typed
  <2>. QED  BY <2>1 DEF AnswerInv, OutcomesEarned, Asked
<1>5. ASSUME Settle, status'[n] # status[n]
      PROVE  /\ UNCHANGED <<asked, held>> /\ status[n] = "pending"
             /\ Earned(n, status'[n])
  BY <1>5 DEF Settle
<1>6. ASSUME Notify, status'[n] # status[n]
      PROVE  /\ UNCHANGED <<asked, held>> /\ status[n] # "none"
             /\ status'[n] = "committed" /\ HeldOnce(n)
  BY <1>6 DEF Notify, HeldOnce
<1>7. CASE \E m \in Names, s \in Spks : Ask(m, s)
  BY <1>1, <1>2, <1>4, <1>7 DEF AnswerInv, OutcomesEarned
<1>8. CASE \E m \in Names, s \in Spks : Hold(m, s)
  BY <1>3, <1>8 DEF Hold
<1>9. CASE Settle
  <2>1. HeldForAsker(n) => HeldOnce(n)
    BY DEF HeldForAsker, HeldOnce, AnswerInv, Typed
  <2>. QED  BY <1>1, <1>2, <1>3, <1>5, <1>9, <2>1 DEF Settle, Earned, AnswerInv, OutcomesEarned, Asked
<1>10. CASE Notify
  BY <1>1, <1>2, <1>3, <1>6, <1>10 DEF Notify, AnswerInv, OutcomesEarned, Asked
<1>. QED  BY <1>7, <1>8, <1>9, <1>10 DEF ReqNext

LEMMA AnswersKept ==
    ASSUME AnswerInv, [ReqNext]_requests
    PROVE  AnswerInv'
<1>1. CASE ReqNext
  BY <1>1, StepTypes, StepEarns DEF AnswerInv
<1>2. CASE UNCHANGED requests
  BY <1>2 DEF requests, AnswerInv, Typed, OutcomesEarned, Asked, HeldForAsker,
              HeldForOther, HeldOnce
<1>. QED  BY <1>1, <1>2

-----------------------------------------------------------------------------
\* THEOREM.  Whenever a status is read it is earned: "none" only of a name that
\* nobody asked for, "staged" of one held for an asker, "rejected" of no name
\* or of one held for somebody else, "committed" of one that was held.
THEOREM AnswersAreEarned == RequestsSpec => []AnswerInv
<1>1. ReqInit => AnswerInv
  BY DEF ReqInit, AnswerInv, Typed, OutcomesEarned, Asked
<1>2. AnswerInv /\ [ReqNext]_requests => AnswerInv'
  BY AnswersKept
<1>. QED  BY <1>1, <1>2, PTL DEF RequestsSpec

\* THEOREM.  No step takes an answer back, or forgets who asked for what.
THEOREM AnswersAreKept == RequestsSpec => [][AnswersStay]_requests
<1>1. AnswerInv /\ [ReqNext]_requests => [AnswersStay]_requests
  BY StepAnswers DEF AnswerInv
<1>. QED  BY <1>1, AnswersAreEarned, PTL DEF RequestsSpec

\* THEOREM.  So a name that is committed is committed for ever, and one that is
\* answered at all never becomes pending again.
THEOREM AnsweredForEver ==
    ASSUME NEW n \in Names
    PROVE  RequestsSpec =>
             /\ [](status[n] = "committed" => [](status[n] = "committed"))
             /\ [](status[n] \in {"staged", "rejected", "committed"}
                     => [](status[n] \in {"staged", "rejected", "committed"}))
<1>1. [AnswersStay]_requests =>
        /\ status[n] = "committed" => (status[n] = "committed")'
        /\ status[n] \in {"staged", "rejected", "committed"}
             => (status[n] \in {"staged", "rejected", "committed"})'
  BY DEF AnswersStay, requests
<1>. QED  BY <1>1, AnswersAreKept, PTL
=============================================================================
