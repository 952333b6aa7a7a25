----------------------------- MODULE ProverServer -----------------------------
(***************************************************************************)
(* prover/src/server.rs: the HTTP server that proves.  Jobs live in one    *)
(* map behind one RwLock and their ids in a bounded channel read by one    *)
(* worker.  A step of this module is one locked section, one send or one   *)
(* recv; between two of them a handler awaits, so any other may run, and   *)
(* the future of a handler whose client has gone is dropped there.         *)
(*                                                                         *)
(* What a job asks for and how far it has come are left out: no guard      *)
(* reads them.                                                             *)
(***************************************************************************)
EXTENDS Naturals, Sequences

CONSTANTS
    Jobs,          \* the ids Uuid::new_v4 may return
    NoJob,
    Pollers,       \* concurrent GET /jobs/:id/receipt
    QueueCap,      \* bound of the channel: 100 in run_server
    MaxPanics,     \* bound: proofs that panic
    MaxRestarts    \* bound: deaths of the server process

ASSUME NoJobIsFresh == NoJob \notin Jobs
ASSUME QueueHasRoom == QueueCap \in Nat \ {0}
ASSUME ServerBounds == MaxPanics \in Nat /\ MaxRestarts \in Nat

VARIABLES
    jobs,       \* ServerState.jobs
    queue,      \* the channel
    sending,    \* submissions whose send().await has not returned
    worker,     \* run_worker: where it is, with which job
    pulling,    \* per poller: the job it saw complete
    issued,     \* ids ever returned by Uuid::new_v4
    acked,      \* submissions answered 202
    stopped,    \* cancels answered 200
    delivered,  \* per job: how many times its receipt was sent
    panics, restarts

history  == <<issued, acked, stopped, delivered>>
mishaps  == <<panics, restarts>>
pvars    == <<jobs, queue, sending, worker, pulling, history, mishaps>>
-----------------------------------------------------------------------------
\* "absent": the map has no such key.
Statuses == {"absent", "pending", "processing", "complete", "failed", "cancelled"}
Terminal == {"complete", "failed", "cancelled"}

Job    == [status: Statuses, receipt: BOOLEAN, cancel: BOOLEAN]
Absent == [status |-> "absent", receipt |-> FALSE, cancel |-> FALSE]
Worker == [at: {"recv", "mark", "prove", "dead"}, job: Jobs \cup {NoJob}]

Status(j) == jobs[j].status
Alive     == worker.at # "dead"
Receiving == [at |-> "recv", job |-> NoJob]
-----------------------------------------------------------------------------
(***************************************************************************)
(* POST /prove and POST /compress: insert under the lock, then wait for    *)
(* room in the channel.                                                    *)
(***************************************************************************)
Submit(j) ==
    /\ j \notin issued
    /\ jobs' = [jobs EXCEPT ![j] = [Absent EXCEPT !.status = "pending"]]
    /\ sending' = sending \cup {j}
    /\ issued' = issued \cup {j}
    /\ UNCHANGED <<queue, worker, pulling, acked, stopped, delivered, mishaps>>

\* Mutant: a full channel is skipped (try_send) and the answer still is 202.
EnqueueOrDrop(j) ==
    /\ j \in sending
    /\ sending' = sending \ {j}
    /\ acked' = acked \cup {j}
    /\ queue' = IF Len(queue) < QueueCap /\ Alive THEN Append(queue, j) ELSE queue
    /\ UNCHANGED <<jobs, worker, pulling, issued, stopped, delivered, mishaps>>

\* Mutant: an unbounded channel.
EnqueueUnbounded(j) ==
    /\ j \in sending
    /\ sending' = sending \ {j}
    /\ acked' = acked \cup {j}
    /\ \/ Alive /\ queue' = Append(queue, j)
       \/ ~Alive /\ UNCHANGED queue
    /\ UNCHANGED <<jobs, worker, pulling, issued, stopped, delivered, mishaps>>

\* With the worker gone send() fails at once: logged, and answered 202.
Enqueue(j) ==
    /\ j \in sending
    /\ sending' = sending \ {j}
    /\ acked' = acked \cup {j}
    /\ \/ Alive /\ Len(queue) < QueueCap /\ queue' = Append(queue, j)
       \/ ~Alive /\ UNCHANGED queue
    /\ UNCHANGED <<jobs, worker, pulling, issued, stopped, delivered, mishaps>>

\* The client goes away while send() waits: the job stays in the map.
Abandon(j) ==
    /\ j \in sending
    /\ sending' = sending \ {j}
    /\ UNCHANGED <<jobs, queue, worker, pulling, history, mishaps>>
-----------------------------------------------------------------------------
(***************************************************************************)
(* POST /jobs/:id/cancel and GET /jobs/:id/receipt.                        *)
(***************************************************************************)
\* Mutant: a running job is told apart only by its status.
CancelPendingOnly(j) ==
    /\ j \in acked
    /\ Status(j) \in {"pending", "processing"}
    /\ jobs' = [jobs EXCEPT ![j].status = "cancelled"]
    /\ stopped' = stopped \cup {j}
    /\ UNCHANGED <<queue, sending, worker, pulling, issued, acked, delivered, mishaps>>

Cancel(j) ==
    /\ j \in acked
    /\ Status(j) \in {"pending", "processing"}
    /\ jobs' = [jobs EXCEPT ![j].cancel = TRUE,
                            ![j].status = IF @ = "pending" THEN "cancelled" ELSE @]
    /\ stopped' = stopped \cup {j}
    /\ UNCHANGED <<queue, sending, worker, pulling, issued, acked, delivered, mishaps>>

\* The status is checked under the read lock ...
ReceiptCheck(c) ==
    /\ pulling[c] = NoJob
    /\ \E j \in acked : Status(j) = "complete" /\ pulling' = [pulling EXCEPT ![c] = j]
    /\ UNCHANGED <<jobs, queue, sending, worker, history, mishaps>>

\* Mutant: the receipt is copied and the job left for a later clean-up.
ReceiptCopy(c) ==
    /\ pulling[c] # NoJob
    /\ pulling' = [pulling EXCEPT ![c] = NoJob]
    /\ delivered' = [delivered EXCEPT ![pulling[c]] =
                       IF jobs[pulling[c]].receipt THEN @ + 1 ELSE @]
    /\ UNCHANGED <<jobs, queue, sending, worker, issued, acked, stopped, mishaps>>

\* ... and the job removed under the write lock, if it still is there.
ReceiptPull(c) ==
    /\ pulling[c] # NoJob
    /\ pulling' = [pulling EXCEPT ![c] = NoJob]
    /\ jobs' = [jobs EXCEPT ![pulling[c]] = Absent]
    /\ delivered' = [delivered EXCEPT ![pulling[c]] =
                       IF jobs[pulling[c]].receipt THEN @ + 1 ELSE @]
    /\ UNCHANGED <<queue, sending, worker, issued, acked, stopped, mishaps>>

ReceiptAbandon(c) ==
    /\ pulling[c] # NoJob
    /\ pulling' = [pulling EXCEPT ![c] = NoJob]
    /\ UNCHANGED <<jobs, queue, sending, worker, history, mishaps>>
-----------------------------------------------------------------------------
(***************************************************************************)
(* run_worker.                                                             *)
(***************************************************************************)
WorkerRecv ==
    /\ worker.at = "recv"
    /\ queue # <<>>
    /\ worker' = [at |-> "mark", job |-> Head(queue)]
    /\ queue' = Tail(queue)
    /\ UNCHANGED <<jobs, sending, pulling, history, mishaps>>

\* Mutant: cancel_requested is not looked at before starting.
WorkerMarkAny ==
    /\ worker.at = "mark"
    /\ jobs' = [jobs EXCEPT ![worker.job].status = "processing"]
    /\ worker' = [worker EXCEPT !.at = "prove"]
    /\ UNCHANGED <<queue, sending, pulling, history, mishaps>>

\* A job cancelled while queued, or unknown, is never started.
WorkerMark ==
    /\ worker.at = "mark"
    /\ LET j == worker.job
           skip == Status(j) = "absent" \/ jobs[j].cancel
       IN \/ skip /\ worker' = Receiving /\ UNCHANGED jobs
          \/ /\ ~skip
             /\ jobs' = [jobs EXCEPT ![j].status = "processing"]
             /\ worker' = [worker EXCEPT !.at = "prove"]
    /\ UNCHANGED <<queue, sending, pulling, history, mishaps>>

\* Mutant: the receipt is stored before cancel_requested is looked at.
FinishedStores(job, ok) ==
    CASE job.cancel -> [job EXCEPT !.status = "cancelled", !.receipt = ok]
      [] ~job.cancel /\ ok -> [job EXCEPT !.status = "complete", !.receipt = TRUE]
      [] ~job.cancel /\ ~ok -> [job EXCEPT !.status = "failed"]

\* Mutant: the receipt of a cancelled job is dropped, its status left alone.
FinishedKeepStatus(job, ok) ==
    CASE job.cancel -> job
      [] ~job.cancel /\ ok -> [job EXCEPT !.status = "complete", !.receipt = TRUE]
      [] ~job.cancel /\ ~ok -> [job EXCEPT !.status = "failed"]

\* The record of a job whose proof ended, well or not.
Finished(job, ok) ==
    CASE job.cancel -> [job EXCEPT !.status = "cancelled"]
      [] ~job.cancel /\ ok -> [job EXCEPT !.status = "complete", !.receipt = TRUE]
      [] ~job.cancel /\ ~ok -> [job EXCEPT !.status = "failed"]

WorkerFinish ==
    /\ worker.at = "prove"
    /\ worker' = Receiving
    /\ \E ok \in BOOLEAN :
         jobs' = [jobs EXCEPT ![worker.job] =
                    IF Status(worker.job) = "absent" THEN @ ELSE Finished(@, ok)]
    /\ UNCHANGED <<queue, sending, pulling, history, mishaps>>

\* A panic inside the prover ends the worker's task: the receiver is dropped.
WorkerPanic ==
    /\ worker.at = "prove"
    /\ panics < MaxPanics
    /\ panics' = panics + 1
    /\ worker' = [at |-> "dead", job |-> NoJob]
    /\ queue' = <<>>
    /\ UNCHANGED <<jobs, sending, pulling, history, restarts>>

\* The process dies and is started again: nothing was on disk.
Restart ==
    /\ restarts < MaxRestarts
    /\ restarts' = restarts + 1
    /\ jobs' = [j \in Jobs |-> Absent]
    /\ queue' = <<>>
    /\ sending' = {}
    /\ worker' = Receiving
    /\ pulling' = [c \in Pollers |-> NoJob]
    /\ UNCHANGED <<history, panics>>
-----------------------------------------------------------------------------
ServerInit ==
    /\ jobs = [j \in Jobs |-> Absent]
    /\ queue = <<>>
    /\ sending = {}
    /\ worker = Receiving
    /\ pulling = [c \in Pollers |-> NoJob]
    /\ issued = {} /\ acked = {} /\ stopped = {}
    /\ delivered = [j \in Jobs |-> 0]
    /\ panics = 0 /\ restarts = 0

WorkerStep == WorkerRecv \/ WorkerMark \/ WorkerFinish

ServerNext ==
    \/ \E j \in Jobs : Submit(j) \/ Enqueue(j) \/ Abandon(j) \/ Cancel(j)
    \/ \E c \in Pollers : ReceiptCheck(c) \/ ReceiptPull(c) \/ ReceiptAbandon(c)
    \/ WorkerStep \/ WorkerPanic \/ Restart

\* The worker's task is scheduled whenever it can move, and a proof ends.
ServerSpec == ServerInit /\ [][ServerNext]_pvars /\ WF_pvars(WorkerStep)
-----------------------------------------------------------------------------
\* Every variable has its type.
ServerTypeOK ==
    /\ jobs \in [Jobs -> Job]
    /\ queue \in Seq(Jobs) /\ Len(queue) <= QueueCap
    /\ sending \subseteq issued /\ acked \subseteq issued /\ stopped \subseteq issued
    /\ worker \in Worker /\ (worker.at \in {"mark", "prove"} => worker.job \in Jobs)
    /\ pulling \in [Pollers -> Jobs \cup {NoJob}]
    /\ issued \subseteq Jobs
    /\ delivered \in [Jobs -> Nat]
    /\ panics \in 0..MaxPanics /\ restarts \in 0..MaxRestarts

\* A job has a receipt exactly when it is complete, and a poller that saw it
\* complete finds it so or gone: get_job_receipt never answers 500.
ReceiptWhenComplete ==
    /\ \A j \in Jobs : jobs[j].receipt <=> Status(j) = "complete"
    /\ \A c \in Pollers :
         pulling[c] # NoJob => Status(pulling[c]) \in {"complete", "absent"}

\* However many poll, a receipt is pulled at most once (get_job_receipt checks
\* under one lock and removes under another).
DeliveredOnce == \A j \in Jobs : delivered[j] <= 1

\* A cancel that was answered 200 holds: its job's receipt is neither kept
\* nor sent, whatever the worker was doing (cancel_job, run_worker).
CancelHolds ==
    \A j \in stopped : delivered[j] = 0 /\ Status(j) # "complete"

\* A job that ended stays as it ended until it is removed; in particular one
\* cancelled while queued never starts (cancel_job, run_worker).
EndedStep ==
    \A j \in Jobs : Status(j) \in Terminal => Status(j)' \in {Status(j), "absent"}
EndedStays == [][EndedStep]_pvars

\* While the worker lives, a submission answered 202 that is still pending is
\* in the channel or in the worker's hand: it cannot be lost in between.
NoneForgotten ==
    \A j \in acked : Alive /\ Status(j) = "pending" =>
        \/ \E i \in DOMAIN queue : queue[i] = j
        \/ worker = [at |-> "mark", job |-> j]

\* A submission answered 202 ends, unless the worker dies: behind any number
\* of other jobs, cancelled ones included.
JobsEnd ==
    \A j \in Jobs :
        j \in acked /\ Alive ~> Status(j) \in Terminal \cup {"absent"} \/ ~Alive
=============================================================================
