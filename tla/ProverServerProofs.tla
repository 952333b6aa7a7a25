-------------------------- MODULE ProverServerProofs --------------------------
(***************************************************************************)
(* The safety of the prover server, for any number of jobs and pollers,    *)
(* any bound of the channel and any number of panics and restarts.         *)
(***************************************************************************)
EXTENDS ProverServer, SequenceTheorems, TLAPS

\* What the map says of a job, against what was promised about it.
JobOK(j) ==
    /\ jobs[j].receipt <=> Status(j) = "complete"
    /\ jobs[j].cancel => Status(j) \in {"processing", "cancelled"}
    /\ Status(j) = "cancelled" => jobs[j].cancel
    /\ delivered[j] <= 1
    /\ Status(j) # "absent" => delivered[j] = 0 /\ j \in issued
    /\ j \notin issued => delivered[j] = 0
    /\ j \in stopped => delivered[j] = 0 /\ (Status(j) = "absent" \/ jobs[j].cancel)

JobsInv ==
    /\ \A j \in Jobs : JobOK(j)
    /\ \A c \in Pollers :
         pulling[c] # NoJob => /\ Status(pulling[c]) \in {"complete", "absent"}
                               /\ pulling[c] \in issued

\* The job the worker holds has left the channel, and waits or runs.
HandInv ==
    /\ worker.at = "mark" => Status(worker.job) \in {"pending", "cancelled"}
    /\ worker.at = "prove" => Status(worker.job) = "processing"
    /\ worker.at \in {"mark", "prove"} => worker.job \notin sending

\* A job goes through the channel once.
ChannelInv ==
    /\ \A j \in sending : Status(j) = "pending" /\ j \notin acked
    /\ \A i \in DOMAIN queue :
         /\ Status(queue[i]) \in {"pending", "cancelled"}
         /\ queue[i] \notin sending
         /\ worker.at \in {"mark", "prove"} => queue[i] # worker.job
    /\ \A i, k \in DOMAIN queue : queue[i] = queue[k] => i = k

ServerInv == ServerTypeOK /\ JobsInv /\ HandInv /\ ChannelInv /\ NoneForgotten

-----------------------------------------------------------------------------
\* What send and recv do to the channel, index by index.
LEMMA AppendAt ==
  ASSUME NEW S, NEW s \in Seq(S), NEW e \in S
  PROVE  /\ Append(s, e) \in Seq(S)
         /\ Len(Append(s, e)) = Len(s) + 1
         /\ DOMAIN Append(s, e) = 1..(Len(s) + 1)
         /\ DOMAIN s = 1..Len(s)
         /\ \A i \in 1..Len(s) : Append(s, e)[i] = s[i]
         /\ Append(s, e)[Len(s) + 1] = e
  OBVIOUS

LEMMA TailAt ==
  ASSUME NEW S, NEW s \in Seq(S), s # <<>>
  PROVE  /\ Tail(s) \in Seq(S)
         /\ Len(Tail(s)) = Len(s) - 1
         /\ Len(s) \in Nat /\ Len(s) >= 1
         /\ DOMAIN Tail(s) = 1..(Len(s) - 1)
         /\ DOMAIN s = 1..Len(s)
         /\ \A i \in 1..(Len(s) - 1) : Tail(s)[i] = s[i + 1]
         /\ Head(s) = s[1] /\ Head(s) \in S
  OBVIOUS

LEMMA InvInit == ServerInit => ServerInv
  BY NoJobIsFresh, QueueHasRoom, ServerBounds DEF ServerInit, ServerInv,
     ServerTypeOK, JobsInv, JobOK, HandInv, ChannelInv, NoneForgotten, Status, Absent,
     Receiving, Job, Statuses, Worker, Alive

LEMMA InvStep == ServerInv /\ [ServerNext]_pvars => ServerInv'
<1> SUFFICES ASSUME ServerInv, [ServerNext]_pvars PROVE ServerInv'
  OBVIOUS
<1> USE NoJobIsFresh, QueueHasRoom, ServerBounds
<1>1. ASSUME NEW j \in Jobs, Submit(j) PROVE ServerInv'
  <2>a. /\ j \in Jobs /\ j \notin issued /\ Status(j) = "absent" /\ delivered[j] = 0
        /\ j \notin stopped
    BY <1>1 DEF ServerInv, ServerTypeOK, JobsInv, JobOK, Submit
  <2>c. /\ \A x \in Jobs : x # j => jobs'[x] = jobs[x]
        /\ jobs'[j] = [status |-> "pending", receipt |-> FALSE, cancel |-> FALSE]
        /\ issued' = issued \cup {j} /\ UNCHANGED <<pulling, stopped, delivered>>
    BY <1>1 DEF ServerInv, ServerTypeOK, Submit, Absent
  <2>1. ServerTypeOK'
    BY <1>1 DEF ServerInv, ServerTypeOK, Submit, Absent, history, mishaps, Job, Statuses, Worker
  <2>2. JobsInv'
    <3>1. \A x \in Jobs : x # j => JobOK(x)'
      BY <2>c DEF ServerInv, JobsInv, JobOK, Status
    <3>2. JobOK(j)'
      BY <2>a, <2>c DEF JobOK, Status
    <3>3. \A c \in Pollers : pulling[c] # NoJob => pulling[c] # j
      BY <2>a DEF ServerInv, JobsInv
    <3> QED BY <3>1, <3>2, <3>3, <2>a, <2>c DEF ServerInv, ServerTypeOK, JobsInv, Status
  <2>3. HandInv'
    BY <1>1 DEF ServerInv, ServerTypeOK, JobsInv, JobOK, HandInv, ChannelInv, Submit, Absent, history, mishaps, Status, Job, Statuses, Worker
  <2>4. ChannelInv'
    BY <1>1 DEF ServerInv, ServerTypeOK, JobsInv, JobOK, HandInv, ChannelInv, Submit, Absent, history, mishaps, Status, Job, Statuses, Worker
  <2>5. NoneForgotten'
    BY <1>1 DEF ServerInv, ServerTypeOK, JobsInv, JobOK, HandInv, ChannelInv, NoneForgotten, Submit, Absent, history, mishaps, Status, Job, Statuses, Worker, Alive
  <2> QED BY <2>1, <2>2, <2>3, <2>4, <2>5 DEF ServerInv
<1>2. ASSUME NEW j \in Jobs, Enqueue(j) PROVE ServerInv'
  <2> DEFINE q == Append(queue, j)
  <2>a. /\ queue \in Seq(Jobs) /\ j \in sending
        /\ q \in Seq(Jobs) /\ Len(q) = Len(queue) + 1
        /\ DOMAIN q = 1..(Len(queue) + 1) /\ DOMAIN queue = 1..Len(queue)
        /\ \A i \in 1..Len(queue) : q[i] = queue[i]
        /\ q[Len(queue) + 1] = j
        /\ Len(queue) \in Nat
    BY <1>2, AppendAt DEF ServerInv, ServerTypeOK, Enqueue
  <2>b. \/ queue' = queue /\ ~Alive
        \/ queue' = q /\ Len(queue) < QueueCap /\ Alive
    BY <1>2 DEF Enqueue
  <2> HIDE DEF q
  <2>1. ServerTypeOK'
    <3>1. queue' \in Seq(Jobs) /\ Len(queue') <= QueueCap
      BY <2>a, <2>b DEF ServerInv, ServerTypeOK
    <3> QED BY <3>1, <1>2 DEF ServerInv, ServerTypeOK, Enqueue, mishaps
  <2>2. JobsInv'
    BY <1>2 DEF ServerInv, ServerTypeOK, JobsInv, JobOK, HandInv, Enqueue, history, mishaps, Status, Job, Statuses, Worker
  <2>3. HandInv'
    BY <1>2 DEF ServerInv, ServerTypeOK, JobsInv, JobOK, HandInv, ChannelInv, Enqueue, history, mishaps, Status, Job, Statuses, Worker
  <2>4. ChannelInv'
    <3>1. \A i \in DOMAIN queue : queue[i] # j
      BY <2>a, <1>2 DEF ServerInv, ChannelInv
    <3>2. \A i, k \in DOMAIN queue' : queue'[i] = queue'[k] => i = k
      BY <3>1, <2>a, <2>b DEF ServerInv, ChannelInv
    <3>3. \A i \in DOMAIN queue' : queue'[i] = j \/ \E k \in DOMAIN queue : queue'[i] = queue[k]
      BY <2>a, <2>b
    <3>4. j \notin sending' /\ Status(j) = "pending"
          /\ (worker.at \in {"mark", "prove"} => worker.job # j)
      BY <1>2 DEF Enqueue, ServerInv, ChannelInv, HandInv
    <3>5. sending' \subseteq sending /\ acked' = acked \cup {j} /\ UNCHANGED <<jobs, worker>>
      BY <1>2 DEF Enqueue
    <3>6. \A x \in sending' : Status(x)' = "pending" /\ x \notin acked'
      BY <3>4, <3>5 DEF ServerInv, ChannelInv, Status
    <3>7. \A i \in DOMAIN queue' :
            /\ jobs'[queue'[i]].status \in {"pending", "cancelled"}
            /\ queue'[i] \notin sending'
            /\ worker'.at \in {"mark", "prove"} => queue'[i] # worker'.job
      BY <3>3, <3>4, <3>5 DEF ServerInv, ChannelInv, Status
    <3> QED BY <3>2, <3>6, <3>7 DEF ChannelInv, Status
  <2>5. NoneForgotten'
    <3>1. \A i \in DOMAIN queue : queue' = q => i \in DOMAIN queue' /\ queue'[i] = queue[i]
      BY <2>a
    <3>2. queue' = q => Len(queue) + 1 \in DOMAIN queue' /\ queue'[Len(queue) + 1] = j
      BY <2>a
    <3>3. acked' = acked \cup {j} /\ UNCHANGED <<jobs, worker>>
      BY <1>2 DEF Enqueue
    <3>4. CASE queue' = queue /\ ~Alive
      BY <3>3, <3>4 DEF NoneForgotten, Alive
    <3>5. CASE queue' = q
      BY <3>1, <3>2, <3>3, <3>5 DEF ServerInv, NoneForgotten, Alive, Status
    <3> QED BY <2>b, <3>4, <3>5
  <2> QED BY <2>1, <2>2, <2>3, <2>4, <2>5 DEF ServerInv
<1>3. ASSUME NEW j \in Jobs, Abandon(j) PROVE ServerInv'
  <2>1. ServerTypeOK'
    BY <1>3 DEF ServerInv, ServerTypeOK, Abandon, history, mishaps, Job, Statuses, Worker
  <2>2. JobsInv'
    BY <1>3 DEF ServerInv, ServerTypeOK, JobsInv, JobOK, HandInv, Abandon, history, mishaps, Status, Job, Statuses, Worker
  <2>3. HandInv'
    BY <1>3 DEF ServerInv, ServerTypeOK, JobsInv, JobOK, HandInv, ChannelInv, Abandon, history, mishaps, Status, Job, Statuses, Worker
  <2>4. ChannelInv'
    BY <1>3 DEF ServerInv, ServerTypeOK, JobsInv, JobOK, HandInv, ChannelInv, Abandon, history, mishaps, Status, Job, Statuses, Worker
  <2>5. NoneForgotten'
    BY <1>3 DEF ServerInv, ServerTypeOK, JobsInv, JobOK, HandInv, ChannelInv, NoneForgotten, Abandon, history, mishaps, Status, Job, Statuses, Worker, Alive
  <2> QED BY <2>1, <2>2, <2>3, <2>4, <2>5 DEF ServerInv
<1>4. ASSUME NEW j \in Jobs, Cancel(j) PROVE ServerInv'
  <2>a. /\ \A x \in Jobs : x # j => jobs'[x] = jobs[x]
        /\ jobs[j] \in Job /\ jobs'[j] \in Job
        /\ jobs' \in [Jobs -> Job]
    <3>1. jobs[j] \in Job /\ jobs \in [Jobs -> Job]
      BY DEF ServerInv, ServerTypeOK
    <3>2. jobs' = [jobs EXCEPT ![j] =
                     [jobs[j] EXCEPT !.cancel = TRUE,
                                     !.status = IF @ = "pending" THEN "cancelled" ELSE @]]
      BY <1>4, <3>1 DEF Cancel, Job
    <3> QED BY <3>1, <3>2 DEF Job, Statuses
  <2>b. j \in acked
    BY <1>4 DEF Cancel
  <2>1. ServerTypeOK'
    BY <1>4, <2>a, <2>b DEF ServerInv, ServerTypeOK, Cancel, mishaps
  <2>2. JobsInv'
    BY <1>4 DEF ServerInv, ServerTypeOK, JobsInv, JobOK, HandInv, Cancel, history, mishaps, Status, Job, Statuses, Worker
  <2>3. HandInv'
    BY <1>4 DEF ServerInv, ServerTypeOK, JobsInv, JobOK, HandInv, ChannelInv, Cancel, history, mishaps, Status, Job, Statuses, Worker
  <2>4. ChannelInv'
    BY <1>4 DEF ServerInv, ServerTypeOK, JobsInv, JobOK, HandInv, ChannelInv, Cancel, history, mishaps, Status, Job, Statuses, Worker
  <2>5. NoneForgotten'
    BY <1>4 DEF ServerInv, ServerTypeOK, JobsInv, JobOK, HandInv, ChannelInv, NoneForgotten, Cancel, history, mishaps, Status, Job, Statuses, Worker, Alive
  <2> QED BY <2>1, <2>2, <2>3, <2>4, <2>5 DEF ServerInv
<1>5. ASSUME NEW c \in Pollers, ReceiptCheck(c) PROVE ServerInv'
  <2>1. ServerTypeOK'
    BY <1>5 DEF ServerInv, ServerTypeOK, ReceiptCheck, history, mishaps, Job, Statuses, Worker
  <2>2. JobsInv'
    BY <1>5 DEF ServerInv, ServerTypeOK, JobsInv, JobOK, HandInv, ReceiptCheck, history, mishaps, Status, Job, Statuses, Worker
  <2>3. HandInv'
    BY <1>5 DEF ServerInv, ServerTypeOK, JobsInv, JobOK, HandInv, ChannelInv, ReceiptCheck, history, mishaps, Status, Job, Statuses, Worker
  <2>4. ChannelInv'
    BY <1>5 DEF ServerInv, ServerTypeOK, JobsInv, JobOK, HandInv, ChannelInv, ReceiptCheck, history, mishaps, Status, Job, Statuses, Worker
  <2>5. NoneForgotten'
    BY <1>5 DEF ServerInv, ServerTypeOK, JobsInv, JobOK, HandInv, ChannelInv, NoneForgotten, ReceiptCheck, history, mishaps, Status, Job, Statuses, Worker, Alive
  <2> QED BY <2>1, <2>2, <2>3, <2>4, <2>5 DEF ServerInv
<1>6. ASSUME NEW c \in Pollers, ReceiptPull(c) PROVE ServerInv'
  <2>1. ServerTypeOK'
    BY <1>6 DEF ServerInv, ServerTypeOK, ReceiptPull, Absent, history, mishaps, Job, Statuses, Worker
  <2>2. JobsInv'
    BY <1>6 DEF ServerInv, ServerTypeOK, JobsInv, JobOK, HandInv, ReceiptPull, Absent, history, mishaps, Status, Job, Statuses, Worker
  <2>3. HandInv'
    BY <1>6 DEF ServerInv, ServerTypeOK, JobsInv, JobOK, HandInv, ChannelInv, ReceiptPull, Absent, history, mishaps, Status, Job, Statuses, Worker
  <2>4. ChannelInv'
    BY <1>6 DEF ServerInv, ServerTypeOK, JobsInv, JobOK, HandInv, ChannelInv, ReceiptPull, Absent, history, mishaps, Status, Job, Statuses, Worker
  <2>5. NoneForgotten'
    BY <1>6 DEF ServerInv, ServerTypeOK, JobsInv, JobOK, HandInv, ChannelInv, NoneForgotten, ReceiptPull, Absent, history, mishaps, Status, Job, Statuses, Worker, Alive
  <2> QED BY <2>1, <2>2, <2>3, <2>4, <2>5 DEF ServerInv
<1>7. ASSUME NEW c \in Pollers, ReceiptAbandon(c) PROVE ServerInv'
  <2>1. ServerTypeOK'
    BY <1>7 DEF ServerInv, ServerTypeOK, ReceiptAbandon, history, mishaps, Job, Statuses, Worker
  <2>2. JobsInv'
    BY <1>7 DEF ServerInv, ServerTypeOK, JobsInv, JobOK, HandInv, ReceiptAbandon, history, mishaps, Status, Job, Statuses, Worker
  <2>3. HandInv'
    BY <1>7 DEF ServerInv, ServerTypeOK, JobsInv, JobOK, HandInv, ChannelInv, ReceiptAbandon, history, mishaps, Status, Job, Statuses, Worker
  <2>4. ChannelInv'
    BY <1>7 DEF ServerInv, ServerTypeOK, JobsInv, JobOK, HandInv, ChannelInv, ReceiptAbandon, history, mishaps, Status, Job, Statuses, Worker
  <2>5. NoneForgotten'
    BY <1>7 DEF ServerInv, ServerTypeOK, JobsInv, JobOK, HandInv, ChannelInv, NoneForgotten, ReceiptAbandon, history, mishaps, Status, Job, Statuses, Worker, Alive
  <2> QED BY <2>1, <2>2, <2>3, <2>4, <2>5 DEF ServerInv
<1>8. ASSUME WorkerRecv PROVE ServerInv'
  <2>a. /\ queue \in Seq(Jobs) /\ queue # <<>> /\ queue' = Tail(queue)
        /\ worker' = [at |-> "mark", job |-> Head(queue)] /\ worker.at = "recv"
        /\ UNCHANGED <<jobs, sending, acked>>
    BY <1>8 DEF ServerInv, ServerTypeOK, WorkerRecv, history
  <2>b. /\ Len(queue) \in Nat /\ Len(queue) >= 1
        /\ DOMAIN queue = 1..Len(queue) /\ DOMAIN queue' = 1..(Len(queue) - 1)
        /\ \A i \in 1..(Len(queue) - 1) : queue'[i] = queue[i + 1]
        /\ Head(queue) = queue[1]
    BY <2>a, TailAt
  <2>1. ServerTypeOK'
    BY <1>8 DEF ServerInv, ServerTypeOK, WorkerRecv, history, mishaps, Job, Statuses, Worker
  <2>2. JobsInv'
    BY <1>8 DEF ServerInv, ServerTypeOK, JobsInv, JobOK, HandInv, WorkerRecv, history, mishaps, Status, Job, Statuses, Worker
  <2>3. HandInv'
    BY <1>8 DEF ServerInv, ServerTypeOK, JobsInv, JobOK, HandInv, ChannelInv, WorkerRecv, history, mishaps, Status, Job, Statuses, Worker
  <2>4. ChannelInv'
    <3>1. \A i \in DOMAIN queue' :
            i + 1 \in DOMAIN queue /\ queue'[i] = queue[i + 1] /\ queue[i + 1] # queue[1]
      BY <2>b DEF ServerInv, ChannelInv
    <3>2. \A i, k \in DOMAIN queue' : queue'[i] = queue'[k] => i = k
      <4> SUFFICES ASSUME NEW i \in DOMAIN queue', NEW k \in DOMAIN queue',
                          queue'[i] = queue'[k]
                   PROVE  i = k
        OBVIOUS
      <4>1. i \in Nat /\ k \in Nat
        BY <2>b
      <4>2. i + 1 = k + 1
        BY <3>1 DEF ServerInv, ChannelInv
      <4> QED BY <4>1, <4>2
    <3> QED BY <3>1, <3>2, <2>a, <2>b DEF ServerInv, ChannelInv, Status
  <2>5. NoneForgotten'
    <3> SUFFICES ASSUME NEW j \in acked, Status(j) = "pending"
                 PROVE  \/ \E i \in DOMAIN queue' : queue'[i] = j
                        \/ worker' = [at |-> "mark", job |-> j]
      BY <2>a DEF NoneForgotten, Status
    <3>1. PICK i \in DOMAIN queue : queue[i] = j
      BY <2>a DEF ServerInv, NoneForgotten, Alive
    <3>2. CASE i = 1
      BY <3>1, <3>2, <2>a, <2>b
    <3>3. CASE i # 1
      <4>1. i - 1 \in DOMAIN queue' /\ (i - 1) + 1 = i
        BY <3>3, <2>b
      <4> QED BY <4>1, <3>1, <2>b
    <3> QED BY <3>2, <3>3
  <2> QED BY <2>1, <2>2, <2>3, <2>4, <2>5 DEF ServerInv
<1>9. ASSUME WorkerMark PROVE ServerInv'
  <2>j. PICK j \in Jobs : worker.job = j
    BY <1>9 DEF ServerInv, ServerTypeOK, WorkerMark
  <2>a. /\ j \in Jobs /\ jobs[j] \in Job /\ jobs \in [Jobs -> Job]
        /\ Status(j) \in {"pending", "cancelled"}
        /\ worker = [at |-> "mark", job |-> j]
    BY <1>9, <2>j DEF ServerInv, ServerTypeOK, HandInv, WorkerMark, Worker
  <2>b. UNCHANGED <<queue, sending, pulling, issued, acked, stopped, delivered, panics, restarts>>
    BY <1>9 DEF WorkerMark, history, mishaps
  <2>c. \/ /\ jobs[j].cancel
           /\ UNCHANGED jobs
           /\ worker' = [at |-> "recv", job |-> NoJob]
        \/ /\ ~jobs[j].cancel
           /\ jobs' = [jobs EXCEPT ![j] = [jobs[j] EXCEPT !.status = "processing"]]
           /\ worker' = [at |-> "prove", job |-> j]
    BY <1>9, <2>a, <2>j DEF WorkerMark, Receiving, Status
  <2>d. /\ jobs' \in [Jobs -> Job]
        /\ \A x \in Jobs : x # j => jobs'[x] = jobs[x]
        /\ jobs'[j].receipt = jobs[j].receipt /\ jobs'[j].cancel = jobs[j].cancel
        /\ jobs[j].cancel => jobs'[j].status = jobs[j].status
        /\ ~jobs[j].cancel => jobs'[j].status = "processing"
    BY <2>a, <2>c DEF Job, Statuses
  <2>1. ServerTypeOK'
    BY <2>a, <2>b, <2>c, <2>d DEF ServerInv, ServerTypeOK, Worker
  <2>2. JobsInv'
    <3>1. \A x \in Jobs : x # j => JobOK(x)'
      BY <2>b, <2>d DEF ServerInv, JobsInv, JobOK, Status
    <3>2. JobOK(j)'
      BY <2>a, <2>b, <2>d DEF ServerInv, JobsInv, JobOK, Status
    <3>3. \A c \in Pollers :
            pulling[c] # NoJob => pulling[c] # j /\ pulling[c] \in Jobs
      BY <2>a DEF ServerInv, ServerTypeOK, JobsInv
    <3> QED BY <3>1, <3>2, <3>3, <2>b, <2>d DEF ServerInv, JobsInv, Status
  <2>3. HandInv'
    BY <2>a, <2>b, <2>c, <2>d DEF ServerInv, HandInv, Status
  <2>4. ChannelInv'
    <3>1. j \notin sending /\ \A i \in DOMAIN queue : queue[i] # j /\ queue[i] \in Jobs
      BY <2>a DEF ServerInv, ServerTypeOK, HandInv, ChannelInv
    <3>2. sending \subseteq Jobs
      BY DEF ServerInv, ServerTypeOK
    <3> QED BY <3>1, <3>2, <2>a, <2>b, <2>c, <2>d DEF ServerInv, ChannelInv, Status
  <2>5. NoneForgotten'
    <3>1. acked \subseteq Jobs /\ (jobs[j].cancel => Status(j) # "pending")
      BY <2>a DEF ServerInv, ServerTypeOK, JobsInv, JobOK
    <3> QED BY <3>1, <2>a, <2>b, <2>c, <2>d DEF ServerInv, NoneForgotten, Status, Alive
  <2> QED BY <2>1, <2>2, <2>3, <2>4, <2>5 DEF ServerInv
<1>10. ASSUME WorkerFinish PROVE ServerInv'
  <2>j. PICK j \in Jobs : worker.job = j
    BY <1>10 DEF ServerInv, ServerTypeOK, WorkerFinish
  <2>a. /\ j \in Jobs /\ jobs[j] \in Job /\ jobs \in [Jobs -> Job]
        /\ Status(j) = "processing" /\ worker = [at |-> "prove", job |-> j]
    BY <1>10, <2>j DEF ServerInv, ServerTypeOK, HandInv, WorkerFinish, Worker
  <2>b. /\ UNCHANGED <<queue, sending, pulling, issued, acked, stopped, delivered, panics, restarts>>
        /\ worker' = [at |-> "recv", job |-> NoJob]
    BY <1>10 DEF WorkerFinish, Receiving, history, mishaps
  <2>c. PICK ok \in BOOLEAN : jobs' = [jobs EXCEPT ![j] = Finished(jobs[j], ok)]
    BY <1>10, <2>a, <2>j DEF WorkerFinish, Status
  <2>d. /\ jobs' \in [Jobs -> Job]
        /\ \A x \in Jobs : x # j => jobs'[x] = jobs[x]
        /\ jobs'[j].cancel = jobs[j].cancel
        /\ jobs[j].cancel => jobs'[j].status = "cancelled" /\ jobs'[j].receipt = jobs[j].receipt
        /\ ~jobs[j].cancel => \/ jobs'[j].status = "complete" /\ jobs'[j].receipt
                              \/ jobs'[j].status = "failed" /\ jobs'[j].receipt = jobs[j].receipt
    <3>1. Finished(jobs[j], ok) \in Job
      BY <2>a DEF Finished, Job, Statuses
    <3>2. jobs' \in [Jobs -> Job] /\ (\A x \in Jobs : x # j => jobs'[x] = jobs[x])
          /\ jobs'[j] = Finished(jobs[j], ok)
      BY <2>a, <2>c, <3>1
    <3> QED BY <3>2, <2>a DEF Finished, Job
  <2>1. ServerTypeOK'
    BY <2>b, <2>d DEF ServerInv, ServerTypeOK, Worker
  <2>2. JobsInv'
    <3>1. \A x \in Jobs : x # j => JobOK(x)'
      BY <2>b, <2>d DEF ServerInv, JobsInv, JobOK, Status
    <3>2. JobOK(j)'
      BY <2>a, <2>b, <2>d DEF ServerInv, JobsInv, JobOK, Status
    <3>3. \A c \in Pollers :
            pulling[c] # NoJob => pulling[c] # j /\ pulling[c] \in Jobs
      BY <2>a DEF ServerInv, ServerTypeOK, JobsInv
    <3> QED BY <3>1, <3>2, <3>3, <2>b, <2>d DEF ServerInv, JobsInv, Status
  <2>3. HandInv'
    BY <2>b DEF HandInv
  <2>4. ChannelInv'
    <3>1. j \notin sending /\ \A i \in DOMAIN queue : queue[i] # j /\ queue[i] \in Jobs
      BY <2>a DEF ServerInv, ServerTypeOK, HandInv, ChannelInv
    <3>2. sending \subseteq Jobs
      BY DEF ServerInv, ServerTypeOK
    <3> QED BY <3>1, <3>2, <2>b, <2>d DEF ServerInv, ChannelInv, Status
  <2>5. NoneForgotten'
    <3>1. acked \subseteq Jobs
      BY DEF ServerInv, ServerTypeOK
    <3> QED BY <3>1, <2>a, <2>b, <2>d DEF ServerInv, NoneForgotten, Status, Alive
  <2> QED BY <2>1, <2>2, <2>3, <2>4, <2>5 DEF ServerInv
<1>11. ASSUME WorkerPanic PROVE ServerInv'
  <2>1. ServerTypeOK'
    BY <1>11 DEF ServerInv, ServerTypeOK, WorkerPanic, history, mishaps, Job, Statuses, Worker
  <2>2. JobsInv'
    BY <1>11 DEF ServerInv, ServerTypeOK, JobsInv, JobOK, HandInv, WorkerPanic, history, mishaps, Status, Job, Statuses, Worker
  <2>3. HandInv'
    BY <1>11 DEF ServerInv, ServerTypeOK, JobsInv, JobOK, HandInv, ChannelInv, WorkerPanic, history, mishaps, Status, Job, Statuses, Worker
  <2>4. ChannelInv'
    BY <1>11 DEF ServerInv, ServerTypeOK, JobsInv, JobOK, HandInv, ChannelInv, WorkerPanic, history, mishaps, Status, Job, Statuses, Worker
  <2>5. NoneForgotten'
    BY <1>11 DEF ServerInv, ServerTypeOK, JobsInv, JobOK, HandInv, ChannelInv, NoneForgotten, WorkerPanic, history, mishaps, Status, Job, Statuses, Worker, Alive
  <2> QED BY <2>1, <2>2, <2>3, <2>4, <2>5 DEF ServerInv
<1>12. ASSUME Restart PROVE ServerInv'
  <2>1. ServerTypeOK'
    BY <1>12 DEF ServerInv, ServerTypeOK, Restart, Absent, Receiving, history, mishaps, Job, Statuses, Worker
  <2>2. JobsInv'
    BY <1>12 DEF ServerInv, ServerTypeOK, JobsInv, JobOK, HandInv, Restart, Absent, Receiving, history, mishaps, Status, Job, Statuses, Worker
  <2>3. HandInv'
    BY <1>12 DEF ServerInv, ServerTypeOK, JobsInv, JobOK, HandInv, ChannelInv, Restart, Absent, Receiving, history, mishaps, Status, Job, Statuses, Worker
  <2>4. ChannelInv'
    BY <1>12 DEF ServerInv, ServerTypeOK, JobsInv, JobOK, HandInv, ChannelInv, Restart, Absent, Receiving, history, mishaps, Status, Job, Statuses, Worker
  <2>5. NoneForgotten'
    BY <1>12 DEF ServerInv, ServerTypeOK, JobsInv, JobOK, HandInv, ChannelInv, NoneForgotten, Restart, Absent, Receiving, history, mishaps, Status, Job, Statuses, Worker, Alive
  <2> QED BY <2>1, <2>2, <2>3, <2>4, <2>5 DEF ServerInv
<1>13. CASE UNCHANGED pvars
  BY <1>13 DEF pvars, history, mishaps, ServerInv, ServerTypeOK, JobsInv, JobOK, HandInv,
     ChannelInv, NoneForgotten, Status, Alive
<1> QED
  BY <1>1, <1>2, <1>3, <1>4, <1>5, <1>6, <1>7, <1>8, <1>9, <1>10, <1>11, <1>12, <1>13
     DEF ServerNext, WorkerStep

-----------------------------------------------------------------------------
\* A step changes the status of one job, and only of one that has not ended;
\* a pull removes one that is complete, a restart all of them.
LEMMA StepKeepsEnded == ServerInv /\ [ServerNext]_pvars => EndedStep
<1> SUFFICES ASSUME ServerInv, [ServerNext]_pvars, NEW j \in Jobs,
                    Status(j) \in Terminal
             PROVE  Status(j)' \in {Status(j), "absent"}
  BY DEF EndedStep
<1> USE DEF Status, Terminal
<1>a. jobs \in [Jobs -> Job] /\ j \in issued
  BY DEF ServerInv, ServerTypeOK, JobsInv, JobOK
<1>1. ASSUME NEW k \in Jobs, Submit(k) PROVE Status(j)' = Status(j)
  BY <1>1, <1>a DEF Submit
<1>2. ASSUME NEW k \in Jobs, Enqueue(k) \/ Abandon(k) PROVE Status(j)' = Status(j)
  BY <1>2 DEF Enqueue, Abandon
<1>3. ASSUME NEW k \in Jobs, Cancel(k) PROVE Status(j)' = Status(j)
  <2>1. CASE k = j
    BY <1>3, <2>1 DEF Cancel
  <2>2. CASE k # j
    BY <1>3, <1>a, <2>2 DEF Cancel
  <2> QED BY <2>1, <2>2
<1>4. ASSUME NEW c \in Pollers, ReceiptCheck(c) \/ ReceiptAbandon(c)
      PROVE  Status(j)' = Status(j)
  BY <1>4 DEF ReceiptCheck, ReceiptAbandon
<1>5. ASSUME NEW c \in Pollers, ReceiptPull(c) PROVE Status(j)' \in {Status(j), "absent"}
  BY <1>5, <1>a DEF ReceiptPull, Absent
<1>6. CASE WorkerRecv \/ WorkerPanic
  BY <1>6 DEF WorkerRecv, WorkerPanic
<1>7. CASE WorkerMark
  <2>1. jobs[worker.job].cancel \/ worker.job # j
    BY <1>7 DEF WorkerMark, ServerInv, HandInv, JobsInv, JobOK, ServerTypeOK
  <2> QED BY <1>7, <1>a, <2>1 DEF WorkerMark
<1>8. CASE WorkerFinish
  <2>1. worker.job # j
    BY <1>8 DEF WorkerFinish, ServerInv, HandInv
  <2> QED BY <1>8, <1>a, <2>1 DEF WorkerFinish
<1>9. CASE Restart
  BY <1>9 DEF Restart, Absent
<1>10. CASE UNCHANGED pvars
  BY <1>10 DEF pvars
<1> QED
  BY <1>1, <1>2, <1>3, <1>4, <1>5, <1>6, <1>7, <1>8, <1>9, <1>10
     DEF ServerNext, WorkerStep
-----------------------------------------------------------------------------
\* The invariant the theorems below are read off.
LEMMA ServerInvariant == ServerSpec => []ServerInv
  BY InvInit, InvStep, PTL DEF ServerSpec

\* Types, and the bound of the channel: a submission waits when it is full.
THEOREM ServerTypes == ServerSpec => []ServerTypeOK
<1>1. ServerInv => ServerTypeOK
  BY DEF ServerInv
<1> QED BY <1>1, ServerInvariant, PTL

\* get_job_receipt finds a receipt in every job it saw complete and removes:
\* its answer 500 is unreachable.
THEOREM ReceiptsAreComplete == ServerSpec => []ReceiptWhenComplete
<1>1. ServerInv => ReceiptWhenComplete
  BY DEF ServerInv, JobsInv, JobOK, ReceiptWhenComplete
<1> QED BY <1>1, ServerInvariant, PTL

\* "so it is only pulled once" (server.rs): for any number of pollers.
THEOREM PulledOnce == ServerSpec => []DeliveredOnce
<1>1. ServerInv => DeliveredOnce
  BY DEF ServerInv, JobsInv, JobOK, DeliveredOnce
<1> QED BY <1>1, ServerInvariant, PTL

\* No receipt of a job is kept or sent after its cancel was answered 200.
THEOREM CancelsHold == ServerSpec => []CancelHolds
<1>1. ServerInv => CancelHolds
  BY DEF ServerInv, ServerTypeOK, JobsInv, JobOK, CancelHolds
<1> QED BY <1>1, ServerInvariant, PTL

\* An accepted job is not lost between the map and the channel.
THEOREM NoJobForgotten == ServerSpec => []NoneForgotten
<1>1. ServerInv => NoneForgotten
  BY DEF ServerInv
<1> QED BY <1>1, ServerInvariant, PTL

\* What a client was told of a job that ended stays true until it is removed.
THEOREM EndedJobsStay == ServerSpec => EndedStays
<1>1. ServerInv /\ [ServerNext]_pvars => [EndedStep]_pvars
  BY StepKeepsEnded
<1> QED BY <1>1, ServerInvariant, PTL DEF ServerSpec, EndedStays
=============================================================================
