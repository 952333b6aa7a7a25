------------------------------ MODULE LocalTable ------------------------------
(***************************************************************************)
(* LocalSpace, seen as the table that publishing and the registry meet:    *)
(* while nothing fails and requests come one at a time, its handlers do    *)
(* what SpaceTable takes for one step each.                                *)
(*                                                                         *)
(* A commit happens when its row is inserted: the rows it will mark are    *)
(* already its own.  A rollback happens when its rows are staged again:    *)
(* the commitment still to be deleted is gone.  A broadcast happens when   *)
(* the wallet sends.  SpaceTable does not know of parking; LocalSpace does *)
(* not know of publishing.                                                 *)
(***************************************************************************)
EXTENDS LocalSpaceProps

Committing == \E p \in Operators : pc[p] \in {"cm_tree", "cm_mark"}
Deleting   == \E p \in Operators : pc[p] = "rb_delete"

TableIdx(h) ==
    IF handles[h].root # NoRoot THEN handles[h].idx + 1
    ELSE IF Committing /\ Eligible(h) THEN Len(commitments)
    ELSE 0
TableRows ==
    [h \in Handles |-> [spk |-> handles[h].spk, idx |-> TableIdx(h), pub |-> "no", at |-> 0]]

Present == IF Deleting THEN Front(commitments) ELSE commitments
Proofs(c) == IF c.agg THEN 2 ELSE IF c.step THEN 1 ELSE 0
TableCommits ==
    [i \in DOMAIN Present |-> [id |-> Present[i].id, proofs |-> Proofs(Present[i]),
                               sent |-> Present[i].root \in sent, marked |-> FALSE]]

TableTip == IF Known(onchain)
            THEN CHOOSE i \in DOMAIN commitments : commitments[i].root = onchain
            ELSE 0

Budget(commits) == [commits |-> commits, requests |-> 0, regs |-> 0, faults |-> 0,
                    names |-> Handles, spks |-> Spks, relay |-> FALSE]
TableLeft == Budget((MaxId + 1) - nextId)

Table == INSTANCE SpaceTable WITH
    BadNames <- {}, Users <- {}, Loop <- NoRoot, Budgets <- {Budget(MaxId)},
    rows <- TableRows, commits <- TableCommits, tip <- TableTip, left <- TableLeft

\* The handlers of app.rs, each with its awaits, do to the tables what
\* SpaceTable says of them as a whole, until a fault cuts one short.
ImplementsTable ==
    /\ Table!TableInit
    /\ [][crashes' = 0 /\ aborts' = 0 =>
            [Table!TableNext]_<<TableRows, TableCommits, nextId, TableTip>>]_vars
=============================================================================
