------------------------------ MODULE Publishing ------------------------------
(***************************************************************************)
(* publish_certs of core/src/app.rs: certificates of a space's handles are *)
(* issued, sent to the relays in batches sized by the last message, and    *)
(* the rows marked "temp" or "final" by what was read before all that.     *)
(* The registry loop publishes over and over; a user's request, or the     *)
(* pipeline view's reset of stale marks, may run between any two steps.    *)
(***************************************************************************)
EXTENDS SpaceTable

CONSTANTS
    RootSize, CertSize,   \* bytes of the root certificate, of one handle's
    RelayMax,       \* RELAY_MAX_MESSAGE_BYTES
    BudgetPercent,  \* RELAY_BUDGET_PERCENT
    AssumedBatch,   \* ASSUMED_BATCH
    BatchCeiling    \* PUBLISH_BATCH_SIZE

ASSUME PublishingAssumption ==
    /\ Handles \subseteq Nat     \* numbered in the order of their names
    /\ {RootSize, CertSize, RelayMax, BudgetPercent, AssumedBatch, BatchCeiling}
         \subseteq Nat \ {0}
    /\ BudgetPercent <= 100

VARIABLES
    net,     \* certificates the relays have taken
    last,    \* Operator.last_message: what the last message measured
    job      \* per publisher: where it is, and its locals

pubVars == <<net, last, job>>

PubPCs == {"idle", "reset", "select", "issue", "send", "temp", "final",
           "left", "newest", "stamp", "stale"}

Cert == [h: Handles, spk: Spks, kind: {"temp", "final"}]

\* at: the tip read first; only: the caller's list, {} for none; batch: the
\* rows selected; ready: those of them with an idx the tip covered then; id:
\* a commitment to stamp.
Job == [pc: PubPCs, at: Nat, only: SUBSET Handles, limit: Nat,
        batch: SUBSET Handles, ready: SUBSET Handles, certs: SUBSET Cert, id: Nat]
NoJob == [pc |-> "idle", at |-> 0, only |-> {}, limit |-> 0, batch |-> {},
          ready |-> {}, certs |-> {}, id |-> 0]
NoMessage == [certs |-> 0, bytes |-> 0]

PubType ==
    /\ TableType
    /\ net \subseteq Cert
    /\ last \in [certs: Nat, bytes: Nat]
    /\ job \in [Tasks -> Job]

PubInit ==
    /\ net = {}
    /\ last = NoMessage
    /\ job = [p \in Tasks |-> NoJob]

At(p, label) == job[p].pc = label
Set(p, j)    == job' = [job EXCEPT ![p] = j]
Goto(p, label) == Set(p, [job[p] EXCEPT !.pc = label])
Stop(p)      == Set(p, NoJob)
-----------------------------------------------------------------------------
(***************************************************************************)
(* Batch sizes.                                                            *)
(***************************************************************************)
AtLeast(n, m) == IF n < m THEN m ELSE n
AtMost(n, m)  == IF n > m THEN m ELSE n

SizeBudget == (RelayMax * BudgetPercent) \div 100

\* Mutant: the relay's whole limit is aimed at.
BatchSizeNoBudget(m, ceiling) ==
    AtLeast(AtMost(IF m.certs > 0 /\ m.bytes > 0
                   THEN AtLeast((m.certs * RelayMax) \div m.bytes, 1)
                   ELSE AssumedBatch, ceiling), 1)

\* next_batch_size: certificates per byte of the last message, applied to the
\* budget.  The measured count includes the root certificate.
BatchSize(m, ceiling) ==
    AtLeast(AtMost(IF m.certs > 0 /\ m.bytes > 0
                   THEN AtLeast((m.certs * SizeBudget) \div m.bytes, 1)
                   ELSE AssumedBatch, ceiling), 1)

\* A message of n handles and the root, as build_message serializes it.
Message(n) == [certs |-> n + 1, bytes |-> RootSize + n * CertSize]
Oversized(m) == m.bytes > RelayMax
-----------------------------------------------------------------------------
(***************************************************************************)
(* publish_certs, one action per critical section or exchange.             *)
(***************************************************************************)
\* get_live_space: the tip is read, and the commitment it is the root of.
Begin(p, only) ==
    /\ At(p, "idle") /\ left.relay
    /\ Set(p, [NoJob EXCEPT !.pc = "reset", !.at = tip, !.only = only])
    /\ UNCHANGED <<table, tip, net, last>>

\* Without a relay client publish_certs fails at once.
LoopBegin ==
    /\ IF left.relay THEN Begin(Loop, {}) ELSE UNCHANGED <<table, tip, pubVars>>
    /\ UNCHANGED left
UserBegin(p) == Spend("requests") /\ \E S \in SUBSET Handles : Begin(p, S)

\* reset_stale_temp_certs, of a tip or of none.
ResetStale(t) ==
    rows' = [h \in Handles |->
               IF rows[h].pub = "temp" /\ rows[h].at # t
               THEN [rows[h] EXCEPT !.pub = "no", !.at = 0] ELSE rows[h]]

PublishReset(p) ==
    /\ At(p, "reset")
    /\ ResetStale(job[p].at)
    /\ Goto(p, "select")
    /\ UNCHANGED <<commits, nextId, tip, net, last, left>>

\* HandleSelector::Unpublished, before its limit.
Unpublished(t) ==
    {h \in Handles : /\ Exists(h)
                     /\ \/ rows[h].pub = "no"
                        \/ rows[h].pub = "temp" /\ InTree(h, t)}

\* ORDER BY name LIMIT n.
FirstByName(S, n) == {h \in S : Cardinality({g \in S : g < h}) < n}

\* Mutant: every committed handle of the batch is taken for final.
PublishSelectAnyIdx(p) ==
    /\ At(p, "select")
    /\ LET limit == IF job[p].only = {} THEN BatchSize(last, BatchCeiling)
                                        ELSE BatchCeiling
           found == IF job[p].only = {} THEN Unpublished(job[p].at)
                                        ELSE {h \in job[p].only : Exists(h)}
           batch == FirstByName(found, limit)
       IN IF batch = {}
          THEN Stop(p)
          ELSE Set(p, [job[p] EXCEPT !.pc = "issue", !.only = {}, !.limit = limit,
                         !.batch = batch, !.ready = {h \in batch : rows[h].idx # 0}])
    /\ UNCHANGED <<table, tip, net, last, left>>

PublishSelect(p) ==
    /\ At(p, "select")
    /\ LET limit == IF job[p].only = {} THEN BatchSize(last, BatchCeiling)
                                        ELSE BatchCeiling
           found == IF job[p].only = {} THEN Unpublished(job[p].at)
                                        ELSE {h \in job[p].only : Exists(h)}
           batch == FirstByName(found, limit)
       IN IF batch = {}
          THEN Stop(p)
          ELSE Set(p, [job[p] EXCEPT !.pc = "issue", !.only = {}, !.limit = limit,
                         !.batch = batch, !.ready = {h \in batch : InTree(h, job[p].at)}])
    /\ UNCHANGED <<table, tip, net, last, left>>

\* issue_cert proves the binding in the tip's tree, issue_temp_cert signs the
\* row's key and proves its absence from the tip's tree.
FinalCert(h) == [h |-> h, spk |-> rows[h].spk, kind |-> "final"]
TempCert(h)  == [h |-> h, spk |-> rows[h].spk, kind |-> "temp"]

\* LiveSpaceInfo::issue_cert: final when the handle is in the tip's tree.
CertOf(h) == IF InTree(h, tip) THEN FinalCert(h) ELSE TempCert(h)

\* get_receipt: the root certificate of the tip carries its last proof.
RootIssuable == tip > 0 => commits[tip].proofs = Needs(tip)

\* issue_certs reads the live tip again.
PublishIssue(p) ==
    /\ At(p, "issue")
    /\ IF RootIssuable /\ \A h \in job[p].batch : Exists(h)
       THEN Set(p, [job[p] EXCEPT !.pc = "send", !.certs = {CertOf(h) : h \in job[p].batch}])
       ELSE Stop(p)
    /\ UNCHANGED <<table, tip, net, last, left>>

AfterSend(p) == IF job[p].batch = job[p].ready THEN "final" ELSE "temp"
Sent(p) == Set(p, [job[p] EXCEPT !.pc = AfterSend(p), !.certs = {}])

\* Mutant: a declined batch is marked like a sent one.
PublishSendMarks(p) ==
    /\ At(p, "send")
    /\ LET m == Message(Cardinality(job[p].batch))
       IN /\ last' = m
          /\ net' = IF Oversized(m) THEN net ELSE net \cup job[p].certs
          /\ Sent(p)
    /\ UNCHANGED <<table, tip, left>>

\* submit_certs, then record_message_size: measured whether sent or declined.
PublishSend(p) ==
    /\ At(p, "send")
    /\ LET m == Message(Cardinality(job[p].batch))
       IN /\ last' = m
          /\ IF Oversized(m)
             THEN Stop(p) /\ UNCHANGED net
             ELSE Sent(p) /\ net' = net \cup job[p].certs
    /\ UNCHANGED <<table, tip, left>>

\* The chain proof or the broadcast fails; some relay may have the message.
PublishSendFails(p) ==
    /\ At(p, "send")
    /\ Spend("faults")
    /\ \/ UNCHANGED net
       \/ ~Oversized(Message(Cardinality(job[p].batch))) /\ net' = net \cup job[p].certs
    /\ Stop(p)
    /\ UNCHANGED <<table, tip, last>>

\* mark_handles_published goes by name, whatever row has it now.
Mark(S, pub, at) ==
    rows' = [h \in Handles |-> IF h \in S /\ Exists(h)
                               THEN [rows[h] EXCEPT !.pub = pub, !.at = at]
                               ELSE rows[h]]

PublishMarkTemp(p) ==
    /\ At(p, "temp")
    /\ Mark(job[p].batch \ job[p].ready, "temp", job[p].at)
    /\ IF job[p].ready = {} THEN Stop(p) ELSE Goto(p, "final")
    /\ UNCHANGED <<commits, nextId, tip, net, last, left>>

PublishMarkFinal(p) ==
    /\ At(p, "final")
    /\ Mark(job[p].ready, "final", 0)
    /\ Set(p, [NoJob EXCEPT !.pc = "left", !.at = job[p].at, !.limit = job[p].limit])
    /\ UNCHANGED <<commits, nextId, tip, net, last, left>>

\* "If no more committed handles need publishing": the first page is read.
PublishLeft(p) ==
    /\ At(p, "left")
    /\ IF \A h \in FirstByName(Unpublished(job[p].at), job[p].limit) : rows[h].idx = 0
       THEN Set(p, [NoJob EXCEPT !.pc = "newest"]) ELSE Stop(p)
    /\ UNCHANGED <<table, tip, net, last, left>>

PublishNewest(p) ==
    /\ At(p, "newest")
    /\ IF Newest > 0 /\ ~commits[Newest].marked
       THEN Set(p, [NoJob EXCEPT !.pc = "stamp", !.id = commits[Newest].id])
       ELSE Stop(p)
    /\ UNCHANGED <<table, tip, net, last, left>>

\* mark_commitment_published, by row id.
PublishStamp(p) ==
    /\ At(p, "stamp")
    /\ commits' = [i \in DOMAIN commits |-> IF commits[i].id = job[p].id
                                            THEN [commits[i] EXCEPT !.marked = TRUE]
                                            ELSE commits[i]]
    /\ Stop(p)
    /\ UNCHANGED <<rows, nextId, tip, net, last, left>>

PublishStep(p) ==
    \/ PublishReset(p) \/ PublishSelect(p) \/ PublishIssue(p)
    \/ PublishSend(p) \/ PublishSendFails(p)
    \/ PublishMarkTemp(p) \/ PublishMarkFinal(p)
    \/ PublishLeft(p) \/ PublishNewest(p) \/ PublishStamp(p)
-----------------------------------------------------------------------------
(***************************************************************************)
(* The pipeline view polls: get_pipeline_status resets stale marks when    *)
(* the newest commitment is the tip.                                       *)
(***************************************************************************)
PipelineAsk(p) ==
    /\ At(p, "idle")
    /\ Newest > 0 /\ commits[Newest].sent /\ tip = Newest
    /\ Spend("requests")
    /\ Set(p, [NoJob EXCEPT !.pc = "stale", !.at = Newest])
    /\ UNCHANGED <<table, tip, net, last>>

PipelineReset(p) ==
    /\ At(p, "stale")
    /\ ResetStale(job[p].at)
    /\ Stop(p)
    /\ UNCHANGED <<commits, nextId, tip, net, last, left>>

\* A request's future is dropped at an await: its client went away.
PublishDropped(p) ==
    /\ ~At(p, "idle")
    /\ Stop(p)
    /\ UNCHANGED <<table, tip, net, last, left>>

UserPublish(p) ==
    \/ UserBegin(p) \/ PublishStep(p) \/ PublishDropped(p)
    \/ PipelineAsk(p) \/ PipelineReset(p)
=============================================================================
