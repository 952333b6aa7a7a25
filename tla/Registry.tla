------------------------------- MODULE Registry -------------------------------
(***************************************************************************)
(* The registry (examples/registry-server) and the cycle of subs against   *)
(* it (subs/src/routes/registry.rs): pull the pending handles of a space,  *)
(* stage them, acknowledge their outcomes, and notify what was committed.  *)
(*                                                                         *)
(* Each exchange may be lost, and one that timed out at subs may still     *)
(* reach the registry later.  The registry keeps its list in memory and is *)
(* taken not to restart.                                                   *)
(***************************************************************************)
EXTENDS SpaceTable

VARIABLES
    regs,     \* AppState.registrations
    intake,   \* registrations between the duplicate check and the push
    sync,     \* per task: where its sync or notify is, and its locals
    late      \* acks that timed out at subs and are still on their way

regVars == <<regs, intake, sync, late>>

Status == {"pending", "staged", "committed", "rejected"}
Ask    == [h: Names, spk: Spks]
Reg    == [h: Names, spk: Spks, status: Status, root: Nat]

\* Of the outcomes of one ack for a name the first decides: outcomes has it.
Outcomes == [Names -> {"none", "staged", "committed", "rejected"}]
NoOutcome == [n \in Names |-> "none"]

\* todo: the pulled registrations still to stage, by their places in the
\* list, which only grows; told, root: what notify read (root is the
\* commitment's row id).
Sync == [pc: {"idle", "stage", "ack", "notify"}, todo: SUBSET Nat, out: Outcomes,
         told: SUBSET Handles, root: Nat]
NoSync == [pc |-> "idle", todo |-> {}, out |-> NoOutcome, told |-> {}, root |-> 0]

RegType ==
    /\ regs \in Seq(Reg)
    /\ intake \in Seq(Ask)
    /\ sync \in [Tasks -> Sync]
    /\ late \subseteq Outcomes

RegInit ==
    /\ regs = <<>> /\ intake = <<>>
    /\ sync = [p \in Tasks |-> NoSync]
    /\ late = {}

SetSync(p, s) == sync' = [sync EXCEPT ![p] = s]
-----------------------------------------------------------------------------
(***************************************************************************)
(* The registry's handlers.                                                *)
(***************************************************************************)
\* register_handle: the duplicate check under the read lock ...
RegisterCheck ==
    /\ Spend("regs")
    /\ \E n \in left.names, s \in left.spks :
         /\ \A i \in DOMAIN regs : regs[i].h # n
         /\ intake' = Append(intake, [h |-> n, spk |-> s])
    /\ UNCHANGED <<table, tip, regs, sync, late>>

\* ... and the push under the write lock, in any order.
RegisterPush ==
    /\ \E i \in DOMAIN intake :
         /\ regs' = Append(regs, [h |-> intake[i].h, spk |-> intake[i].spk,
                                  status |-> "pending", root |-> 0])
         /\ intake' = RemoveAt(intake, i)
    /\ UNCHANGED <<table, tip, left, sync, late>>

\* find(|r| r.handle == handle): only the first registration of a name.
IsFirst(i) == \A j \in 1..(i - 1) : regs[j].h # regs[i].h

\* ack_handles
AckHandles(out) ==
    regs' = [i \in DOMAIN regs |->
               IF IsFirst(i) /\ regs[i].status = "pending" /\ out[regs[i].h] # "none"
               THEN [regs[i] EXCEPT !.status = out[regs[i].h]] ELSE regs[i]]

\* committed: whatever the registration's status, and whoever asked.
Committed(names, root) ==
    regs' = [i \in DOMAIN regs |->
               IF IsFirst(i) /\ regs[i].h \in names
               THEN [regs[i] EXCEPT !.status = "committed", !.root = root] ELSE regs[i]]
-----------------------------------------------------------------------------
(***************************************************************************)
(* sync_space                                                              *)
(***************************************************************************)
Pending == {i \in DOMAIN regs : regs[i].status = "pending"}

\* Where a sync goes when its requests are dealt with.
AckOrEnd(p, s) == SetSync(p, IF s.out = NoOutcome THEN NoSync
                             ELSE [s EXCEPT !.pc = "ack", !.todo = {}])

\* GET /pending, then the names are parsed: "invalid" is settled at once.
Pull(p) ==
    /\ sync[p].pc = "idle"
    /\ LET good == {i \in Pending : regs[i].h \in Handles}
           bad  == {regs[i].h : i \in Pending \ good}
           s == [NoSync EXCEPT !.todo = good,
                               !.out = [n \in Names |-> IF n \in bad THEN "rejected"
                                                        ELSE "none"]]
       IN IF good = {} THEN AckOrEnd(p, s) ELSE SetSync(p, [s EXCEPT !.pc = "stage"])
    /\ UNCHANGED <<table, tip, regs, intake, late>>

\* Mutant: only the row's existence is looked at, not its key.
OutcomeBlind(a) == IF rows[a.h].idx > 0 THEN "committed" ELSE "staged"

\* add_request's answer, as the ack words it.
OutcomeOf(a) ==
    IF rows[a.h].spk # a.spk THEN "rejected"
    ELSE IF rows[a.h].idx > 0 THEN "committed" ELSE "staged"

\* Mutant: what is skipped gets no outcome.
StageOneSilent(p) ==
    /\ sync[p].pc = "stage"
    /\ \E i \in sync[p].todo :
       LET a == regs[i]
           s == [sync[p] EXCEPT !.todo = @ \ {i},
                   !.out[a.h] = IF ~Exists(a.h) THEN "staged" ELSE @]
       IN /\ \A j \in sync[p].todo : i <= j
          /\ IF Exists(a.h) THEN UNCHANGED rows ELSE Stage(a.h, a.spk)
          /\ IF s.todo = {} THEN AckOrEnd(p, s) ELSE SetSync(p, s)
    /\ UNCHANGED <<commits, nextId, tip, left, regs, intake, late>>

\* One request of add_requests.  What was added is acknowledged before what
\* was skipped.
StageOne(p) ==
    /\ sync[p].pc = "stage"
    /\ \E i \in sync[p].todo :
       LET a == regs[i]
           s == [sync[p] EXCEPT !.todo = @ \ {i},
                   !.out[a.h] = IF ~Exists(a.h) THEN "staged"
                                ELSE IF @ = "none" THEN OutcomeOf(a) ELSE @]
       IN /\ \A j \in sync[p].todo : i <= j
          /\ IF Exists(a.h) THEN UNCHANGED rows ELSE Stage(a.h, a.spk)
          /\ IF s.todo = {} THEN AckOrEnd(p, s) ELSE SetSync(p, s)
    /\ UNCHANGED <<commits, nextId, tip, left, regs, intake, late>>

\* add_requests fails, at its start or midway: its handles get no outcome.
StageFails(p) ==
    /\ sync[p].pc = "stage"
    /\ Spend("faults")
    /\ AckOrEnd(p, [sync[p] EXCEPT !.out = [n \in Names |-> IF n \in BadNames THEN @[n]
                                                            ELSE "none"]])
    /\ UNCHANGED <<table, tip, regs, intake, late>>

SendAck(p) ==
    /\ sync[p].pc = "ack"
    /\ AckHandles(sync[p].out)
    /\ SetSync(p, NoSync)
    /\ UNCHANGED <<table, tip, left, intake, late>>

\* The ack is lost, or times out and stays on its way.
AckFails(p) ==
    /\ sync[p].pc = "ack"
    /\ Spend("faults")
    /\ late' \in {late, late \cup {sync[p].out}}
    /\ SetSync(p, NoSync)
    /\ UNCHANGED <<table, tip, regs, intake>>

LateAck ==
    /\ \E out \in late : AckHandles(out) /\ late' = late \ {out}
    /\ UNCHANGED <<table, tip, left, intake, sync>>

\* GET /pending fails: the space is left alone in this pass.
PullFails(p) ==
    /\ sync[p].pc = "idle"
    /\ Spend("faults")
    /\ UNCHANGED <<table, tip, regVars>>

SyncStep(p) == StageOne(p) \/ StageFails(p) \/ SendAck(p) \/ AckFails(p)
-----------------------------------------------------------------------------
(***************************************************************************)
(* POST /registry/sync and /registry/notify of the operator.               *)
(***************************************************************************)
UserPull(p) == Pull(p) /\ Spend("requests")

\* list_handles_by_commitment
HandlesOf(i) == {h \in Handles : rows[h].idx = i}

\* notify_registry reads the handles of a root, whatever became of it ...
NotifyRead(p) ==
    /\ sync[p].pc = "idle"
    /\ Spend("requests")
    /\ \E i \in DOMAIN commits :
         LET told == HandlesOf(i)
         IN told # {} /\ SetSync(p, [NoSync EXCEPT !.pc = "notify", !.told = told,
                                                  !.root = commits[i].id])
    /\ UNCHANGED <<table, tip, regs, intake, late>>

\* ... and then posts them.
NotifySend(p) ==
    /\ sync[p].pc = "notify"
    /\ Committed(sync[p].told, sync[p].root)
    /\ SetSync(p, NoSync)
    /\ UNCHANGED <<table, tip, left, intake, late>>

\* The handler is dropped, or its exchange fails.
SyncDropped(p) ==
    /\ sync[p].pc # "idle"
    /\ SetSync(p, NoSync)
    /\ UNCHANGED <<table, tip, left, regs, intake, late>>

UserSync(p) ==
    \/ UserPull(p) \/ SyncStep(p) \/ NotifyRead(p) \/ NotifySend(p) \/ SyncDropped(p)
=============================================================================
