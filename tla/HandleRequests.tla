---------------------------- MODULE HandleRequests ----------------------------
(***************************************************************************)
(* What REGISTRY.md promises whoever asks for a handle: GET /status of a   *)
(* name, seen beside what the operator's space has ever held.  A request   *)
(* leaves "pending" once and with an outcome that was earned: "staged" or  *)
(* "committed" when the space held the name for one of its askers,         *)
(* "rejected" when it held it for somebody else or the name is no name.    *)
(* Only a notification about a held name changes a settled request.        *)
(***************************************************************************)
CONSTANTS Names, BadNames, Spks

VARIABLES status, asked, held

requests == <<status, asked, held>>

ReqInit ==
    /\ status = [n \in Names |-> "none"]
    /\ asked = [n \in Names |-> {}]
    /\ held = {}

Ask(n, s) ==
    /\ asked' = [asked EXCEPT ![n] = @ \cup {s}]
    /\ status' = [status EXCEPT ![n] = IF @ = "none" THEN "pending" ELSE @]
    /\ UNCHANGED held

Hold(n, s) ==
    /\ n \notin BadNames
    /\ held' = held \cup {<<n, s>>}
    /\ UNCHANGED <<status, asked>>

HeldForAsker(n) == \E s \in asked[n] : <<n, s>> \in held
HeldForOther(n) == \E s \in asked[n] : \E t \in Spks \ {s} : <<n, t>> \in held

Earned(n, outcome) ==
    IF outcome = "rejected" THEN n \in BadNames \/ HeldForOther(n)
    ELSE outcome \in {"staged", "committed"} /\ HeldForAsker(n)

\* One acknowledgement settles any number of names.
Settle ==
    /\ \A n \in Names : status'[n] # status[n] =>
         status[n] = "pending" /\ Earned(n, status'[n])
    /\ DOMAIN status' = Names
    /\ UNCHANGED <<asked, held>>

Notify ==
    /\ \A n \in Names : status'[n] # status[n] =>
         /\ status[n] # "none" /\ status'[n] = "committed"
         /\ \E t \in Spks : <<n, t>> \in held
    /\ DOMAIN status' = Names
    /\ UNCHANGED <<asked, held>>

ReqNext ==
    \/ \E n \in Names, s \in Spks : Ask(n, s) \/ Hold(n, s)
    \/ Settle \/ Notify

RequestsSpec == ReqInit /\ [][ReqNext]_requests
=============================================================================
