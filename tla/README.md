# A TLA+ model of subs

`subs` lets the operator of a space create handles off-chain: it collects
requests, adds them to a Merkle tree, commits the tree's root to Bitcoin, proves
that each root only adds handles to the one before, and hands certificates to
the handles' owners. This directory models the parts of it whose correctness
depends on order: which step runs between which two others, what is on disk when
the process dies, and what a client was told in the meantime.

- [The system](#the-system)
- [Modules](#modules)
- [How the model corresponds to the code](#how-the-model-corresponds-to-the-code)
- [What each run checks](#what-each-run-checks)
- [Findings](#findings)
- [What is proved](#what-is-proved)
- [What is only model-checked, and what is not modelled](#what-is-only-model-checked-and-what-is-not-modelled)
- [Plan](#plan)

## The system

| Component | State it keeps | Operations | Talks to |
|---|---|---|---|
| **Local space** (`core/src/core.rs`, `core/src/storage.rs`) | one SQLite file (`handles`, `commitments`, `receipts`, `chain`) and one spacedb tree with its snapshots | stage, park, remove, commit locally, roll back, consistency check | operator |
| **Operator** (`core/src/app.rs`) | the map of loaded spaces, the last message size per space | the above per space; broadcast, bump, status; issue and publish certificates | `spaced` (wallet and chain, RPC), fabric relays |
| **Proving pipeline** (`core.rs`, `subs/src/background.rs`, `subs/src/routes/proving.rs`) | receipts, tip receipt, groth16 tip, job keys in the settings store | next request, push, poll, cancel, fulfil, compress, save SNARK | prover server |
| **Prover server** (`prover/src/server.rs`) | job map (memory only), bounded channel, one worker | submit, cancel, status, receipt | RISC Zero |
| **Registry sync** (`subs/src/routes/registry.rs`, `background.rs`) | none of its own | pull, stage, ack, notify, every two seconds | a registry (`examples/registry-server`) |
| **Publishing** (`app.rs` `publish_certs`) | `publish_status` columns, last message size | select, issue, measure, send, mark | relays |
| **HTTP server, UI, settings, logs, console** (`subs/src`) | settings | routes to the operator | all of the above |
| **Prover CLI, zkVM calls, tools, test rig** | none that lasts | one-shot | |

How they interact. HTTP handlers, the proving loop and the registry loop all
call one `Operator` concurrently. Each storage method takes the mutex of the
space's only SQLite connection inside one `spawn_blocking` closure, and each
tree access takes the mutex of its database; **no lock spans a handler**, so
between two such sections any other handler runs. axum drops a handler's future
when the client disconnects, so a handler may also stop there for good.

What is hard, and what would make each part correct:

- *Local space.* Table and tree are two stores written one after the other, in
  one order for the first commitment and the other for the rest; the batch that
  goes into the tree and the rows marked committed are read at different times.
  Correct: table and tree agree, committed rows are provable, the commitments
  are one chain that only grows, nothing broadcast is lost.
- *Broadcast.* The transaction leaves before its txid is stored. Correct: what
  was sent is remembered and never rolled back; what is recorded was sent.
- *Prover server.* Handlers and worker meet in a map and a channel. Correct: an
  accepted job ends, its receipt leaves once, a cancel holds.
- *Proving pipeline.* A receipt comes back minutes after its request, when its
  commitment may be gone. Correct: a receipt is attached only to the commitment
  it proves, and a pushed request ends or can be pushed again.
- *Publishing.* Status is derived from a tip read before a network exchange.
  Correct: a handle marked final has been published under a confirmed root; the
  batch shrinks until it fits; every unpublished handle is eventually published.
- *Registry.* Lost acks are repaired by pulling again. Correct: a settled
  outcome is the true one, and pulling twice changes nothing.

`PROJECT.json` lists every component with its status, and every hazard at its
line with the properties that watch it.

## Modules

| Module | What it is |
|---|---|
| `HandleLedger` | Abstract specification: what README.md of the repository promises to owners of handles. A list of roots; each binds what the one before binds, to the same keys, and more; the last may be withdrawn until it is sealed. |
| `HandleLedgerProofs` | TLAPS proofs of what that promise means for the owner of a handle, drawn on by whatever implements it. |
| `ProofChain` | Abstract specification: what the proving pipeline does to a space. Per commitment its step proof, its fold and its broadcast: proofs stay and come in order, and only the newest commitment goes, unsent. |
| `LocalSpace` | One space, step by step: staging, parking, local commits, rollback, receipts, broadcast and bump, crash, dropped handlers, start-up. |
| `LocalSpaceProps` | Its properties, and the refinement mapping to `HandleLedger`. |
| `MCLocalSpace` | Symmetry sets for TLC. |
| `LocalSpaceProofs` | TLAPS proofs about `LocalSpace`, for any number of concurrent requests. |
| `OneRequestProofs` | TLAPS proofs about `LocalSpace` and `Pipeline` for requests that come one at a time, and the proof that `LocalSpace` then implements `HandleLedger`. |
| `ProverServer` | The job map, channel and worker of `subs-prover`, with its properties. |
| `MCProverServer` | The TLC instance. |
| `ProverServerProofs` | TLAPS proofs about `ProverServer`. |
| `Proving` | The operator's side of proving, composed with `ProverServer` (it `EXTENDS` it): requests, job keys, push, poll, cancel, the proving loop, fulfilment by hand, tip and SNARK. |
| `MCProving` | The TLC instances. |
| `ProvingProofs` | TLAPS proofs about `Proving`, on top of those about the server. |
| `Pipeline` | The read side (it `EXTENDS` `LocalSpace`): pipeline steps, next proof, commit status, space counts, as the UI shows them. |
| `SpaceTable` | The space once more, with every handler of the operator as one step: what publishing and the registry meet. |
| `Publishing` | `publish_certs` over `SpaceTable`, step by step. |
| `Registry` | The example registry and the sync cycle against it, over `SpaceTable`. |
| `RegistryLoop` | `Publishing` and `Registry` composed with the loop that runs both, with the properties and the refinement mappings to `HandleLedger` and `HandleRequests`. |
| `LocalTable` | `LocalSpace` seen as `SpaceTable`: the refinement mapping between the two. |
| `LocalTableProofs` | TLAPS proof that `LocalSpace`, one request at a time and until a fault, implements `SpaceTable`. |
| `HandleRequests` | Abstract specification: what REGISTRY.md promises whoever asks for a handle. |
| `HandleRequestsProofs` | TLAPS proofs of what that promise means for whoever asks. |
| `MCRegistryLoop` | The TLC instances. |
| `RegistryLoopProofs` | TLAPS proofs about `RegistryLoop`. |

`ProofChain` is where two models of one table meet. `LocalSpace` has commits, rollbacks
and broadcasts in detail and takes a receipt for one step (`SaveStepReceipt`,
`SaveFoldReceipt`); `Proving` has requests, jobs and receipts in detail and takes those
handlers for one or two steps. Both implement `ProofChain`, so what either leaves out
does nothing to the commitments that the other does not know of.

`SpaceTable` is what `LocalSpace` does when requests come one at a time and none
is cut short; `LocalTable` states that and `LocalTableProofs` proves it. Beyond it
some of the findings are steps of `LocalSpace` that `SpaceTable` does not have. So
`RegistryLoop` shows that publishing and syncing add no trouble of their own, over
a space whose handlers end.

## How the model corresponds to the code

**`LocalSpace`.** `handles` and `commitments` are the two tables; a handle whose
`spk` is `NoSpk` has no row, a commitment's `idx` is its position, and the
columns that hold receipts and the txid are present or not. `snaps` are the
tree's snapshots. A Merkle root identifies the tree it hashes, so **roots are
trees** in the model: a total function from handles to keys. `pc` and `req` are
the position and the locals of each concurrent request. The model clears a local
after its last use, which loses nothing and joins states that differ in nothing
that is read again.

One action is one critical section: a storage call, a tree access, or one RPC.
For instance `commit_local` is `CommitBegin` (health check), `CommitCheck`
(`can_commit_local`), `CommitList` (`list_staged_handles`), `CommitInput`
(`prepare_zk_input`: is there a commitment yet), `CommitValidate` (exclusion proof
over the tree of that moment, checked by `guest::run`), `CommitRow`
(`add_commitment`), `CommitTree` (the write transaction), `CommitMark`
(`commit_staged_handles`); the first commitment goes `CommitTree0`, `CommitRow0`,
`CommitMark`. Four readings are taken at one instant although the code awaits
inside them: the last row, staged count and RPC answer of `can_commit_local`;
the health check; `get_commit_status` with the start of a bump; and the reads
of `get_next_proving_request`. A closure already handed to `spawn_blocking`
finishes even when the future that awaits it is dropped, which is the same as
stopping just after it.

`rollback_last_commitment` runs two statements under one lock. They are two
steps here (`RollbackUnstage`, `RollbackDelete`), because a crash may fall
between them; `SqliteFree` keeps every other SQLite access out.

External: the guest (`Excludes`), and `spaced` with the chain (`Confirm`,
`Finalize`): what the wallet sent confirms at most once, in any order, and may
never confirm.

Constants choose the discipline a run assumes: how many requests interleave
(`Operators`), who else stages (`Stagers`, the registry loop), who parks
(`Parkers`), and which start-up runs (`BootLoadsAll`: the unchecked
`load_all_spaces` of `main.rs`).

**`ProverServer`.** `jobs` is `ServerState.jobs`, `queue` the channel, `sending`
the submissions waiting in `send().await`, `worker` the state of `run_worker`,
`pulling` what each receipt poller saw between its two locks. `issued`, `acked`,
`stopped` and `delivered` are history: ids generated, submissions answered 202,
cancels answered 200, receipts sent. The kind of a job, its input and its
progress counters are left out: no guard reads them. `WorkerPanic` ends the
worker's task and drops the receiver, after which `send` fails at once and is
answered 202 all the same, as in the code.

**`Proving`.** `rows` is the table `commitments` by `idx`, reduced to the row's
id, its three receipt columns and whether it was broadcast; `nextId` is the
AUTOINCREMENT, which never gives an id twice. A receipt is the set of
commitments whose transition it proves, so a step receipt is `{id}`, a fold is
the union of what it folds, and a mismatch can be seen. `tip` and `tipSnark` are
the two columns of `chain`; `keys` are the settings `job:space:id:kind`; `work`
remembers what each job of the server was submitted with; `pc` and `my` are each
handler's position and locals, between two exchanges. `Pollers` of the server
are the handlers here, and `Loop` among them is `proving_loop`.

| Code | Actions |
|---|---|
| `proving_loop`, `poll_job`, `poll_prover` | `Begin`, `FindKey`, `AskStatus`, `AskReceipt`, `TakeReceipt`, `SaveReceipt`, `SaveTip`, `DropKey` |
| `push_to_prover` | `Begin`, `Push`, `PushStore` or `PushFails` |
| `cancel_proving` | `Begin`, `FindKey`, `CancelSend`, `DropKey` |
| `get_next` and `fulfill` (a prover run by hand) | `Begin`, `SaveReceipt`, `SaveTip` |
| `get_compress_input`, `save_snark` | `AskTip`, `Compress`, `SnarkLast`, `SnarkRow`, `SnarkTip` |
| `rollback_local` of the routes | `RollbackBegin`, `RollbackRow`, `RollbackForget` |
| `can_commit_local` and `add_commitment`; `Operator::commit` | `CommitCheck`, `CommitRow`; `BroadcastCheck`, `BroadcastStore` |
| a dropped handler, a broken connection, the death of `subs` | `Lose` |
| what the server does by itself | `Serve` |

Commits, broadcasts and the table's part of a rollback are in detail in
`LocalSpace`; here they are only what they do to `rows`, on a chain that has
finalized whatever was broadcast. Two differences between the pollers are kept:
only the loop deletes the key of a job the server does not know, and the loop
does nothing but poll.

**`Pipeline`.** Each operator is one value the code computes: `NextProof` is
`get_next_proving_request`, `Current` the step `get_pipeline_status` stops at,
`StepState` what the page shows for each step, `CommitStatus` the commit-status
answer, `HasPending` the flag that hides the commit button, `StagedCount` and the
others the counts of `get_space_status`. The code takes the lock for each read;
here a view is one instant.

**`SpaceTable`, `Publishing`.** `rows` and `commits` are the two tables with the
columns publishing reads: `pub` and `at` are `publish_status` and
`published_temp_at_tip`, `idx` is `commitment_idx + 1`, `marked` is `published_at`,
`proofs` counts the receipts a root certificate needs. `tip` is the commitment
whose root the chain shows. The name tree is not a variable: with handlers taken
whole, a handle is in commitment *t*'s tree exactly when its row's `idx` is in
`1..t` (`InTree`). `job` is each publisher's position and locals, `net` the
certificates relays have taken, `last` the measured message.

| Code | Actions |
|---|---|
| `publish_certs`: `get_live_space`, `reset_stale_temp_certs`, the selection with `next_batch_size` | `Begin`, `PublishReset`, `PublishSelect` |
| ... `issue_certs`, `submit_certs` with `record_message_size` | `PublishIssue`, `PublishSend` or `PublishSendFails` |
| ... `mark_handles_published`, the check for what is left, `mark_commitment_published` | `PublishMarkTemp`, `PublishMarkFinal`, `PublishLeft`, `PublishNewest`, `PublishStamp` |
| the reset in `get_pipeline_status` | `PipelineAsk`, `PipelineReset` |
| a dropped request | `PublishDropped` |

A certificate is its handle, key and kind; an absence or inclusion proof is what
`issue_cert` makes it from. `issue_certs` is one step, although it builds one
certificate after another: it reads the tip once, and a final certificate does
not change while the tip stands. Message bytes are affine in the number of
certificates. `remaining` is only reported and left out.

**`Registry`.** `regs` is the registry's list; `intake` holds registrations between
the read lock of the duplicate check and the write lock of the push; `sync` is the
position and locals of each sync or notification; `late` are acknowledgements
that timed out at `subs` and may still arrive.

| Code | Actions |
|---|---|
| `register_handle`; `ack_handles`; `committed` | `RegisterCheck`, `RegisterPush`; `AckHandles`; `Committed` |
| `sync_space`: pull and parse, `add_requests` one by one, the ack | `Pull`, `StageOne`, `SendAck` |
| a pull, a staging or an ack that fails; an ack that comes late | `PullFails`, `StageFails`, `AckFails`; `LateAck` |
| `notify_registry` | `NotifyRead`, `NotifySend` |
| a dropped request | `SyncDropped` |

The registry keeps its list in memory and is taken not to restart: if it does,
every request is gone and nothing in `subs` could know. Two spellings of one
name share an outcome in `sync_space`; whether two spellings exist is the
`SName` parser's business, which is not part of the repository.

**`RegistryLoop`.** `turn` is which half of its pass `registry_loop` is in: it syncs,
then publishes one batch, for ever. Beside it run the operator's requests
(`Users`, with several steps each), the handlers of `SpaceTable`, the registry's
users, and a restart of `subs`. `held` is history: which keys the space ever held
for a name.

## What each run checks

| Run | Instance | Shows |
|---|---|---|
| `SpaceFaults` | 3 handles, 1 key, 1 request at a time, 3 commitments, 1 crash, 1 dropped handler, unchecked start-up | `TypeOK`; every committed row is provable (`CommittedRowsProvable`); without a failure table and tree agree (`TreeMatchesTable`); a recorded txid was sent (`TxidWasSent`); the pipeline view offers what the handlers accept (`PipelineAgrees`); until a fault the handlers do, step by step, what `SpaceTable` takes for one step each (`ImplementsTable`); with faults too, proofs stay and come in order (`ImplementsChain`) |
| `SpaceLedger` | 2 handles, 2 keys, 1 request, 3 commitments, 2 crashes, checked start-up | the newest commitment names the tree (`TreeIsLastRoot`), the tree binds what any broadcast commitment binds (`BroadcastIsServed`), commitments chain (`PrevRootChain`), the space implements `HandleLedger` (`ImplementsLedger`) |
| `SpaceRaces` | 2 handles, 1 key, 2 requests interleaved, 2 commitments | no commitment rebinds a handle of its parent (`ExtendsPrev`); nothing broadcast is deleted or changed (`BroadcastKept`); the commitments implement `ProofChain` (`ImplementsChain`) |
| `ProverJobs` | 4 jobs, channel of 2, 2 pollers, 1 panic, 1 restart | `ServerTypeOK`, `ReceiptWhenComplete`, `DeliveredOnce`, `CancelHolds`, `NoneForgotten`, `EndedStays`, and under fairness `JobsEnd` |
| `ProofDelivery` | 3 commitments, 2 jobs, the loop and one other handler, 1 loss | `ProvingTypeOK`; a receipt is stored only on the commitment it proves (`ReceiptsFit`); nothing is proved before what it builds on (`ProofsInOrder`); a key leads to a job for its own proof (`KeyNamesItsJob`); the commitments implement `ProofChain` (`ImplementsChain`) |
| `ProofPolling` | 2 commitments, 2 jobs, the loop and one other handler, 1 loss, 1 panic, 1 restart | a pushed proof is collected or its key freed (`PushedIsCollected`), under fairness |
| `RegistryLoop` | 2 handles, 1 bad name, 2 keys, the loop and 1 user; five instances, below | `LoopTypeOK`; a final row is provable and sent (`FinalIsProvable`); no certificate is contradicted (`CertsHold`); nothing is marked unsent (`MarkedWasSent`); the commitments implement `HandleLedger` beside all of it (`LoopKeepsLedger`); the registry keeps its promise (`ImplementsRequests`); under fairness certificates settle (`Settles`) and requests are answered (`Answered`) |
| `ProofSnark` | 4 commitment ids, 1 job, no faults | refutes what a root certificate is said to carry, see Findings |
| `SpaceBoot`, `SpaceSent`, `SpaceStaging`, `SpacePark` | 2 handles, 1 key, 2 commitments | each refutes one statement of the repository, see Findings |

*Bounds.* Three commitments are needed for the third kind of commitment row:
the first has no proof, the second a step, the third a step and a fold. Two
handles can disagree, and three let one be committed, one staged and one parked.
Two keys let two requests compete for a handle. Two interleaved requests show
every pairwise race; with two requests the two-commitment bound keeps a broken
first commit and a later one in reach. One crash reaches every single-fault
state, and two reach a crash during the clean-up after a crash. `MaxId`,
`MaxCrashes`, `MaxAborts`, `MaxPanics` and `MaxRestarts` are guards of the
actions they bound. In `ProverJobs` a channel of two (100 in the code) fills
with one job in the worker's hand and one waiting in `send`. Symmetry is used
only in runs without liveness, over sets the specification never tells apart.
In `Proving` the third commitment is the first that is folded; two jobs let a
proof be pushed twice, or two proofs be under way, with the rest proved by hand. One handler besides the loop
shows each race of two; the theorems below cover any number of them, and the
server's faults that `ProofDelivery` leaves out. `ProofPolling` takes one fault of each
kind, and only the first proof: its steps do not depend on which proof it is.

In `RegistryLoop` the budgets are part of the initial state (`left`), so that one run
checks five instances whose behaviours do not mix: two commitments published by
the loop with one fault; one commitment with a concurrent request of the
operator (a publish, a sync, a notification or the view's reset); both halves of
the loop with a registration; two registrations of one name with different
keys, a concurrent request and a fault, without relays; and a name that is none.
Each of them holds every race of two for its subject, and the proofs cover all
of them mixed, without bounds; only the two liveness properties rest on the five.
A root certificate of 30 and handle certificates of 50 against a limit of 100
make a batch of two too large and of one fit, so that the first batch of a run is
declined and the next, sized by it at 85 %, is sent.

*Deadlock* is not checked: a bounded instance stops when its bounds are used up,
and a server with nothing to do waits.

*What single-request runs do not say.* `TreeMatchesTable`, `TreeIsLastRoot`,
`PrevRootChain`, `CommittedRowsProvable`, `ImplementsLedger` and `ImplementsTable` are checked for
one operator request at a time, as the UI issues them. The code does not enforce
that discipline; `SpaceStaging` shows the first of them failing as soon as the
registry loop stages during a commit, and the hazards list the rest.
`SpaceRaces` says what survives without it.

*Fairness.* `LocalSpace` has none: its properties are safety. `ProverServer`
assumes weak fairness of the worker's three steps: tokio schedules a task that
can move, and a proof ends, well or not. Nothing is assumed of clients. `JobsEnd`
therefore is about submissions that were answered 202 and a worker that lives:
a submission whose client leaves while the channel is full stays pending for
ever, and after a panic so does everything. `Proving` adds weak fairness of the
loop's next step: `proving_loop` is an endless loop that sleeps and polls, and
each of its requests is answered or fails. It assumes the prover endpoint stays
configured. `PushedIsCollected` excepts a dead worker and jobs that were told to
stop: the loop polls a job reported `cancelled` for ever if its key was left
behind. It says nothing about pushing again: nothing in the code does that by
itself, although `background.rs:46-47` says the loop does.

`RegistryLoop` assumes weak fairness of the loop's next step and nothing else:
`registry_loop` is a spawned task that sleeps two seconds between passes; its
exchanges with the registry time out after ten, and those with the chain and the
relays are assumed to end, well or not. `Settles` is about a space
that rests from some point on (no staging, commit, proof or confirmation) and has
the receipts for its root certificate: then every row ends up marked temporary or
final, as the tip allows. Faults are finite in number, so that the loop's retries
get through; a user's request may stop anywhere for ever.

Every property of a passing run has a mutant in `PROJECT.json`: a definition of
the code replaced by a plausible bug, under which TLC refutes the property.

## Findings

1. **A crashed rollback is not finished at start-up** (`SpaceBoot`). `core.rs:549`
   relies on the start-up consistency check; `main.rs:186` opens every space with
   `load_all_spaces`, which does not run it, and `load_or_create_space` then
   returns early because the space is loaded.
2. **A commitment that was broadcast can be rolled back** (`SpaceSent`). The
   wallet sends at `app.rs:1118`, the txid is stored at `app.rs:1152`; in between a
   crash or a rollback sees an unsent commitment.
3. **A handle staged during a commit is marked committed** (`SpaceStaging`) under
   a root that does not contain it: `commit_staged_handles` (`storage.rs:655`)
   marks what is staged then, not what was in the batch.
4. **A SNARK is stored on the wrong commitment** (`ProofSnark`).
   `save_groth16_receipt` (`core.rs:989`) takes the last commitment, whatever was
   compressed, and a rollback leaves the tip receipt of what it removes. After
   the third commitment is folded and rolled back, the second gets a SNARK of
   both, and its root certificate (`get_receipt`, `core.rs:676`) proves a root
   that was withdrawn.
   No rollback is needed either: with rollbacks taken out of the model the property
   still fails, when the tip is compressed after the next commitment was made,
   which then carries the SNARK of the one before it.
5. **Parking by filter rewrites every row** (`SpacePark`): the statement built at
   `storage.rs:805` has no `WHERE`.

### Observations

Met while modelling; no run is spent on them, or no document says otherwise.

- `published_at` is set on the commitment that is last when publishing ends
  (`app.rs:1819`), although the certificates just published may all belong to
  earlier ones, and one made meanwhile may have none published: `storage.rs:67`
  ("When final certs for this commitment were published") is not kept. And a
  request dropped between marking the last rows final and this point leaves it
  unset for ever: nothing is left to publish.
- `remaining = total - count` (`app.rs:1827`) underflows when rows vanish or are
  published by someone else between the two counts; a debug build panics.
- A duplicate registration that slips between the two locks (`registry-server
  main.rs:282`) stays pending for ever and is pulled and acknowledged in every cycle.
- `committed` of the registry ignores the registration's status and key: a rejected
  request becomes committed when the name commits for somebody else. "On-chain"
  is told of a commitment that may be local only, and be rolled back.
- A final row can be overwritten as temporary by a slower publisher; the next pass
  repairs it (`Settles`). A rollback keeps `publish_status`; so does it.
- From the third commitment on, broadcasting asks for the step proof only while
  a root certificate asks for the fold: between the two nothing can be published.
- Removing staged handles by filter (`storage.rs:846`) builds `DELETE FROM handles
  AND ...`, a syntax error: it fails and changes nothing.
- `push_to_prover` is called by nobody but the user, although `background.rs:46-47`
  says the loop pushes.

## What is proved

TLAPS proves these for every value of the constants; the assumptions are the
named `ASSUME`s of the modules, which TLC also evaluates.

*`HandleLedgerProofs`.* `LedgerInv` says that each root of the ledger grows from every
root before it, not only from the last (`FirstKeyAlwaysWins`): growing is
transitive. From it, what a sealed root binds to a handle is bound by a sealed root
for ever (`OwnedForEver`) and by the last root (`OwnersKeep`). The module is
`INSTANCE`d where a specification is shown to implement `HandleLedger`, so that the
owners' guarantee is proved once and holds there.

*`LocalSpaceProofs`.* The inductive invariant is `BaseInv`: the type invariant,
that a space that is not loaded has no request in the middle of its steps
(`Unloaded`: only start-up writes then), that a request between the two
statements of a rollback still faces the same last commitment, unsent
(`DeleteHoldsLock`), and that a request carrying a root past validation carries a
tree (`CarriesRoot`). `DeleteHoldsLock` is why it is needed: `RollbackDelete`
deletes by position and tests nothing, so that it deletes no broadcast
commitment follows only from what was true under the lock before it.

- `TypeInvariant`: `Spec => []TypeOK`.
- `BroadcastsAreKept`: `Spec => BroadcastKept`, by one lemma per action that
  writes `commitments`.
- `CommitmentsGrow`: `Spec => []ExtendsPrev`, from `GrowthInv`, which adds that a
  request between `CommitValidate` and `CommitRow` carries a base and a root that
  extends it (`CarriesProof`).

- `SpaceKeepsChain`: `Spec => ImplementsChain`. A row is seen as its proofs and its
  broadcast (`Link`), and each writer of `commitments` adds, withdraws, proves or
  sends one or leaves them alone (`CommitmentSteps`). That a txid, which the code
  stores by id, reaches one row only rests on ids that grow along the table
  (`IdsGrow`), which is inductive by itself.

The last three hold for any number of interleaved requests, crashes and dropped
handlers: they are the guarantees that do not depend on anyone's discipline.

*`OneRequestProofs`.* What holds when requests come one at a time and nobody else
stages (`OneAtATime`); where it is needed, also `CheckedBoot`: no handler is cut
short while the process lives, and if it may die, `main.rs` does not open spaces
unchecked. Handles, keys, commitments and crashes are unbounded. Three invariants,
each a part about the tables and a part about the locals at each label:

- `RowInv` needs no assumption about faults. From `list_staged_handles` to
  `commit_staged_handles` the staged rows *are* the batch (`RowLocals`), so the root
  that is marked binds every row it is marked on; ids are not reused, and only the
  first commitment has no `prev_root` (`Numbered`), the fact from which the pipeline
  view, which goes by the index, and the handlers, which go by `prev_root`, come to
  the same answer. From it: `RowsAreProvable`, `TxidsWereSent`, `PipelineFollows` (for a
  finite set of handles: its counts are cardinalities).
- `TreeInv` aligns the two stores. The commitments are the newest snapshots, one
  for one (`InStep`); they are ahead by one unsent row (`Ahead`) from `add_commitment`
  to the tree's write, from the tree's rollback to the row's deletion, and after a
  crash between those until the checked start-up deletes that row. Snapshots older
  than the first commitment's are first commitments that died before their row.
  `TreeIsLastRoot` alone is not inductive because it says nothing of the snapshot
  *before* the last, which a rollback uncovers. From it: `TreesAgree`,
  `CommitmentsChain`, and `LedgerIsImplemented`: every step of the space is a step of
  `HandleLedger` or leaves its ledger alone. The roots are also nested (`Nested`), so
  the tree binds what any broadcast root binds (`BroadcastsAreServed`), and with
  `OwnersKeep`, through the refinement: `OwnersKeepTheirHandles`, a key that a
  broadcast commitment binds to a handle is bound by one for ever, and by the tree
  whenever the space is served between requests.
- `TableInv`, without faults, says which rows each root binds: those committed by
  it or earlier, with the rows' keys (`Binds`), during a commit also the batch. It
  has to speak of every commitment and not of the last, again because of the
  rollback. From it: `TableAgrees`.

The findings are what happens without these assumptions: `SpaceStaging` drops
`OneAtATime`, `SpaceBoot` the checked start-up, `SpaceSent` has a crash. With them
the refuted statements hold: `CheckedBootFinishes` proves `CrashedRollbackIsFinished`,
and `SentUntilAFault` (in `LocalTableProofs`) proves `SentIsKnown` until a fault.

*`LocalTableProofs`.* `TableIsImplemented`, from `OneAtATime`: until a crash or a
dropped handler, every step of `LocalSpace` is a step of `SpaceTable` or leaves its
variables alone. Each handler takes effect at one of its steps: a commit when its
row is inserted (the rows it will mark count as its own from there on), a rollback
when its rows are staged again (the commitment still to be deleted counts as
gone), a broadcast when the wallet sends, the others when they write. At that step
`SpaceTable` tests what the handler tested several steps earlier, so the proof needs
`FoundInv`, on top of `RowInv` and `TableInv`: what an earlier step found still holds
(the handle is absent, something is staged, the last commitment is proved and
final, its broadcast is allowed). Two facts about the table carry it: of the
commitments only the last can be on its way to the chain and not yet final
(`SentFits`), and its proofs come in order (`ProofsFit`). The first is also why the
rows a rollback stages again are never those of a commitment that was sent.

*`ProverServerProofs`.* The inductive invariant is `ServerInv`: what the map says
of each job against what was promised about it (`JobsInv`), the status of the job
in the worker's hand (`HandInv`), and that a job passes through the channel once
(`ChannelInv`), without which a job could be started twice and its outcome
overwritten. From it: `ServerTypes`, `ReceiptsAreComplete`, `PulledOnce`,
`CancelsHold`, `NoJobForgotten`, `EndedJobsStay`.

*`ProvingProofs`.* The inductive invariant is `ProvingInv`. What must be shown is
that a receipt that comes back long after its request still fits the table, and
the argument is `FitsIn`: every request ever handed out, in a handler's locals or
submitted with a job, names an id below the next one, and *if* a row has that id
now, the request covers what a proof for that row must cover, and what must be
proved before it is (`ReadyIn`). A step keeps this
because ids only grow along the table (`Numbered`) and are not reused, so the
commitments before a row cannot change while the row stands, and no proof that is
stored is taken away (`Extends`, `Follows`, `FitsKept`).
`HandlerInv` and `KeyNamesItsJob` tie a handler's job to its request, so that the
receipt of one is only ever saved for the other. `HandlerMoves` reduces the
actions to six ways a handler's locals can change. From it: `ProvingTypes`,
`ReceiptsWhereTheyBelong`, `ProofsComeInOrder`, `KeysNameTheirJobs`; and `ServerServed`: every step of
the composition is a step of `ServerNext` or leaves the server alone, so that the
safety theorems of `ProverServerProofs` hold of the server the operator talks to.
`PipelineKeepsChain` is the refinement of `ProofChain`: a receipt that `FitsIn` the table
when it is stored is the next proof of the chain or one it already has
(`StoredIsProof`), since a stored receipt of the right column proves what the
column is for (`ReceiptsFit`); a rollback looks at the broadcast again under the
lock, and every other action leaves the rows alone. A request pushed twice, or
answered late, is thus the stutter or the single step that `LocalSpace` has for it.

*`RegistryLoopProofs`.* The inductive invariant is `LoopInv`, three parts of types
and what makes them hold. `TableInv`: a label without a row has nothing else
either, and the commitment the chain shows was sent, so that no rollback reaches
it (`TipSent`); from it, every step of the space keeps what is in the tip's tree
(`TreeKept`). `RegInv`: what a sync pulled stays where it was in the list. `PubInv`:
what each publisher carries between two steps is still true when it acts on it:
its tip is not ahead of the chain's, the rows it will mark final are in that
tip's tree, and what it is about to mark was sent. This is the answer to the
stale reads of `publish_certs`: the tip may move on, but what it covers does not
shrink. From it: `LoopTypes`, `FinalMarksHold`, `CertificatesHold`, `MarkedWereSent`.

`RequestsAreKept` shows that every step is a step of `HandleRequests` or leaves its
variables alone, with `ReqInv`: what the space holds now it has held (`HeldNow`),
and the outcomes carried by a sync or a late ack were earned (`SyncOK`, `LateOK`),
which stays true because `held` and the askers of a name only grow.
`StatusesAreEarned` and `AnswersStand` draw on that: what `GET /status` says is so, and
an answer is not taken back. They are `HandleRequestsProofs` (its `AnswerInv`:
each outcome is earned by a key the space has held) told of the registry's list.

`LedgerIsKept` shows the same of `HandleLedger`: the commitments of `SpaceTable`, read
through the rows, implement it. `IdxInv` says that no row names a commitment that
is not there, without which a commitment made after a rollback would bind rows it
was not made of. `TreesMove` says that nobody but the operator's commit, rollback
and broadcast moves a row between commitments or changes the key of one that has
a commitment: the publishers, the view, the syncs and the registry's users all
write rows, and `TreesStay` holds of each of them. `BoundNamesKeepTheirKeys` is what
the owner gets: a key bound by a sent commitment is the row's key for ever; and
`CertificatesHoldForEver` what the holder of a final certificate gets.

`DeclinedBatchShrinks` is about `next_batch_size` alone, for all sizes: after a
declined batch of *n* the next is smaller if `BudgetPercent * (n + 1) <= 100 * n`,
at 85 % from six handles on.

## What is only model-checked, and what is not modelled

Every invariant and step property the passing runs check is also a theorem. Only
checked by TLC: `JobsEnd`, `PushedIsCollected`, `Settles` and `Answered`, since liveness
is beyond this prover.

Not modelled: exporting certificates and resolving handles, which change no state;
a restart of the registry; the progress counters of the prover (relaxed atomics
read one by one, shown and used for nothing else); proving estimates and a change of the configured prover; the UI, its read-only views and
proxies; settings, logs, authentication; RISC Zero, spacedb's format, SQLite
itself and Bitcoin, which appear only through what the code asks of them; the
conversion and diagnostic tools, which run while nothing else does.

## Plan

Written in order of what a failure would cost: the space and its ledger (handles
lost or bound twice), the prover server, the proving pipeline, then publishing
and the registry. What is left:
a change of the configured prover or registry while requests are out.
