----------------------------- MODULE RegistryLoop -----------------------------
(***************************************************************************)
(* registry_loop of subs/src/background.rs, which in every pass first      *)
(* syncs with the registry and then publishes one batch, beside the        *)
(* operator's own requests, the proofs, the chain and the registry's       *)
(* users.  What the operator's space and its certificates must keep, and   *)
(* what the registry's users are promised.                                 *)
(***************************************************************************)
EXTENDS Publishing, Registry

VARIABLES
    turn,   \* which half of its pass the loop is in
    held    \* history: the handles ever held, and by whom

loopVars == <<table, tip, left, pubVars, regVars, turn, held>>

LoopInit ==
    /\ TableInit /\ PubInit /\ RegInit
    /\ turn = "sync" /\ held = {}

\* sync_once: a failed sync is logged, and the pass goes on to publish.
LoopSync ==
    /\ turn = "sync"
    /\ (Pull(Loop) /\ UNCHANGED left) \/ PullFails(Loop) \/ SyncStep(Loop)
    /\ turn' = IF sync'[Loop].pc = "idle" THEN "publish" ELSE "sync"
    /\ UNCHANGED pubVars

LoopPublish ==
    /\ turn = "publish"
    /\ LoopBegin \/ PublishStep(Loop)
    /\ turn' = IF job'[Loop].pc = "idle" THEN "sync" ELSE "publish"
    /\ UNCHANGED regVars

LoopStep == LoopSync \/ LoopPublish

UserStep(p) ==
    \/ UserPublish(p) /\ UNCHANGED regVars
    \/ UserSync(p) /\ UNCHANGED pubVars

\* subs dies and starts again; the measurement is not persisted.
Restart ==
    /\ Spend("faults")
    /\ last' = NoMessage
    /\ job' = [p \in Tasks |-> NoJob]
    /\ sync' = [p \in Tasks |-> NoSync]
    /\ turn' = "sync"
    /\ UNCHANGED <<table, tip, net, regs, intake, late>>

SpaceStep    == TableNext /\ UNCHANGED <<pubVars, regVars>>
RegistryStep == (RegisterCheck \/ RegisterPush \/ LateAck) /\ UNCHANGED pubVars

Step ==
    \/ LoopStep
    \/ (\E p \in Users : UserStep(p)) /\ UNCHANGED turn
    \/ (SpaceStep \/ RegistryStep) /\ UNCHANGED turn
    \/ Restart

HeldNow  == {<<h, rows[h].spk>> : h \in {g \in Handles : Exists(g)}}
Remember == held' = held \cup HeldNow'

LoopNext == Step /\ Remember

\* The loop is a task of its own that always gets on; nothing else need.
LoopSpec == LoopInit /\ [][LoopNext]_loopVars /\ WF_loopVars(LoopStep /\ Remember)
-----------------------------------------------------------------------------
\* Types; a task works on one registration after another and publishes what
\* it selected.
LoopTypeOK == TableType /\ PubType /\ RegType /\ turn \in {"sync", "publish"}
              /\ held \subseteq Handles \X Spks

\* A row marked final is final: the relays hold a final certificate for its
\* name and key, and the tip's tree contains it (publish_certs decides on
\* the tip and the rows it read before it built and sent the batch).
FinalIsProvable ==
    \A h \in Handles : rows[h].pub = "final" =>
        /\ InTree(h, tip)
        /\ [h |-> h, spk |-> rows[h].spk, kind |-> "final"] \in net

\* No final certificate on the relays is ever contradicted by the space: its
\* handle stays committed, under the tip, with the certified key.
CertsHold ==
    \A c \in net : c.kind = "final" =>
        rows[c.h].spk = c.spk /\ InTree(c.h, tip)

\* Nothing is marked that was not sent: a handle whose batch was declined or
\* failed is selected again (publish_certs after submit_certs).
MarkedWasSent ==
    \A h \in Handles : rows[h].pub # "no" => \E c \in net : c.h = h

\* The tree of commitment t, and the commitments as the promised list of roots.
TreeOf(t) == [h \in Handles |-> IF InTree(h, t) THEN rows[h].spk ELSE NoSpk]
Ledger == INSTANCE HandleLedger WITH
    ledger <- [t \in DOMAIN commits |-> [root |-> TreeOf(t), sealed |-> commits[t].sent]]

\* Owners are promised the same here as of LocalSpace, though the registry's
\* users, the loop and the publishers write the rows as well: no staging,
\* reset or marking reaches what a commitment binds, and what is sealed stays.
LoopKeepsLedger == Ledger!LedgerSpec

\* When the space rests, certificates settle: whatever races, faults and
\* declined batches came before, every row ends up marked with what the tip
\* allows.  Needs a root certificate to issue.
Settled(h) == Exists(h) => rows[h].pub = IF InTree(h, tip) THEN "final" ELSE "temp"
Settles ==
    left.relay /\ (<>[][~SpaceStep]_loopVars) =>
        <>[](RootIssuable => \A h \in Handles : Settled(h))
-----------------------------------------------------------------------------
\* A name's status is that of its first registration.
FirstOf(n) == {i \in DOMAIN regs : regs[i].h = n /\ IsFirst(i)}
StatusOf(n) == IF FirstOf(n) = {} THEN "none"
               ELSE regs[CHOOSE i \in FirstOf(n) : TRUE].status
AskedFor(n) == {regs[i].spk : i \in {j \in DOMAIN regs : regs[j].h = n}}

Requests == INSTANCE HandleRequests WITH
    status <- [n \in Names |-> StatusOf(n)],
    asked <- [n \in Names |-> AskedFor(n)]

\* The registry and the cycle against it keep the promise: outcomes are
\* earned and settle once, though acks are lost, late, or of two syncs that
\* overlap, and though two users register one name at once.
ImplementsRequests == Requests!RequestsSpec

\* Every name that was registered gets its answer, whatever was lost.
Answered == \A n \in Names : StatusOf(n) = "pending" ~> StatusOf(n) # "pending"
=============================================================================
