--------------------------- MODULE JobQueueProofs ---------------------------
(***************************************************************************)
(* For any number of jobs, processes, permits and faults: a job is claimed *)
(* by one worker at most, retries end, finished jobs stay finished and the *)
(* recurring cleanup never drops out of the table.                         *)
(***************************************************************************)
EXTENDS JobQueue, SequenceTheorems, TLAPS

\* ClaimedOnce, job by job and place by place.
Has(p, j) == j \in batch[p] \/ task[p][j] # "none"

PlaceInv ==
    /\ \A p, q \in Process, j \in JobId : Has(p, j) /\ Has(q, j) => p = q
    /\ \A p \in Process, j \in JobId : j \in batch[p] => task[p][j] = "none"
    /\ \A p \in Process, j \in JobId : Has(p, j) => jobs[j].status = "running"

QueueInv == /\ \A i \in 1..Len(queue) : jobs[queue[i]].status = "pending"
            /\ \A i, k \in 1..Len(queue) : queue[i] = queue[k] => i = k

\* A cleanup job in the table that is not about to be marked as done.
Ends(j) == \E p \in Process : task[p][j] = "succeed"

Carrier(j) == /\ jobs[j].kind = "cleanup" /\ jobs[j].status \in {"pending", "running", "dead"}
              /\ ~Ends(j)

\* A cleanup job that is about to be marked as done leaves another one behind, and so does
\* every step once the chain has been started.
ChainInv == /\ \A p \in Process, j \in JobId :
                  task[p][j] \in {"enqueue", "succeed"} => jobs[j].kind = "cleanup"
            /\ scheduled \/ (\E j \in JobId : Ends(j)) => \E j \in JobId : Carrier(j)

-----------------------------------------------------------------------------
(* What the steps do to the tables *)

LEMMA StageFrame ==
  ASSUME TypeOK, NEW p \in Process, NEW j \in JobId, NEW stage \in Stage, AtStage(p, j, stage)
  PROVE  /\ task' \in [Process -> [JobId -> Stage]]
         /\ \A q \in Process, k \in JobId :
               task'[q][k] = IF q = p /\ k = j THEN stage ELSE task[q][k]
  BY DEF AtStage, TypeOK

LEMMA RowsTyped ==
  ASSUME NEW row \in RowType
  PROVE  /\ [row EXCEPT !.status = "running"] \in RowType
         /\ Succeeded(row) \in RowType
         /\ row.attempts < MaxAttempts => Rescheduled(row) \in RowType
         /\ NoJob \in RowType /\ \A kind \in Kind : NewJob(kind) \in RowType
<1> USE ConstantsAssumption DEF RowType, Status, Kind
<1>1. [row EXCEPT !.status = "running"] \in RowType /\ Succeeded(row) \in RowType
  <2>1. 0 \in 0..MaxAttempts
    OBVIOUS
  <2>2. [row EXCEPT !.status = "running"] \in RowType
    OBVIOUS
  <2>3. [row EXCEPT !.status = "succeeded", !.attempts = 0] \in RowType
    BY <2>1
  <2> QED
    BY <2>2, <2>3 DEF Succeeded
<1>2. ASSUME row.attempts < MaxAttempts PROVE Rescheduled(row) \in RowType
  <2>1. row.attempts + 1 \in 0..MaxAttempts
    BY <1>2
  <2> QED
    BY <2>1 DEF Rescheduled
<1>3. NoJob \in RowType /\ \A kind \in Kind : NewJob(kind) \in RowType
  BY DEF NoJob, NewJob
<1> QED
  BY <1>1, <1>2, <1>3

\* A job that becomes due goes to the end of the queue.
LEMMA Appended ==
  ASSUME TypeOK, NEW j \in JobId, queue' = Append(queue, j)
  PROVE  /\ queue' \in Seq(JobId) /\ Len(queue') = Len(queue) + 1 /\ Len(queue) \in Nat
         /\ \A i \in 1..Len(queue) : queue'[i] = queue[i]
         /\ queue'[Len(queue) + 1] = j
<1>1. queue \in Seq(JobId)
  BY DEF TypeOK
<1> QED
  BY <1>1, AppendProperties, LenProperties

\* The first jobs are taken from the queue, and the rest keeps its order.
LEMMA Taken ==
  ASSUME TypeOK, NEW n \in 0..Len(queue), queue' = SubSeq(queue, n + 1, Len(queue))
  PROVE  /\ queue' \in Seq(JobId) /\ Len(queue') = Len(queue) - n /\ Len(queue) \in Nat
         /\ \A i \in 1..Len(queue') : queue'[i] = queue[n + i]
         /\ ToSet(SubSeq(queue, 1, n)) = {queue[i] : i \in 1..n}
         /\ ToSet(SubSeq(queue, 1, n)) \subseteq JobId
<1>1. /\ Len(queue) \in Nat /\ n \in Nat /\ n <= Len(queue)
      /\ \A i \in 1..Len(queue) : queue[i] \in JobId
  <2>1. queue \in Seq(JobId)
    BY DEF TypeOK
  <2>2. Len(queue) \in Nat /\ \A i \in 1..Len(queue) : queue[i] \in JobId
    BY <2>1, LenProperties, ElementOfSeq
  <2> QED
    BY <2>2
<1>2. /\ SubSeq(queue, n + 1, Len(queue)) \in Seq(JobId)
      /\ Len(SubSeq(queue, n + 1, Len(queue))) = IF n + 1 <= Len(queue) THEN Len(queue) - (n + 1) + 1 ELSE 0
      /\ \A i \in 1..(Len(queue) - (n + 1) + 1) :
            SubSeq(queue, n + 1, Len(queue))[i] = queue[n + 1 + i - 1]
  <2>1. n + 1 \in Int /\ Len(queue) \in Int /\ \A i \in (n + 1)..Len(queue) : queue[i] \in JobId
    BY <1>1
  <2> QED
    BY <2>1, SubSeqProperties
<1>3. Len(queue') = Len(queue) - n
  BY <1>1, <1>2
<1>4. \A i \in 1..Len(queue') : queue'[i] = queue[n + i]
  <2> TAKE i \in 1..Len(queue')
  <2>1. i \in 1..(Len(queue) - (n + 1) + 1) /\ n + 1 + i - 1 = n + i
    BY <1>1, <1>3
  <2> QED
    BY <1>2, <2>1
<1>5. /\ SubSeq(queue, 1, n) \in Seq(JobId)
      /\ Len(SubSeq(queue, 1, n)) = n
      /\ \A i \in 1..n : SubSeq(queue, 1, n)[i] = queue[i]
  <2>1. 1 \in Int /\ n \in Int /\ \A i \in 1..n : queue[i] \in JobId
    BY <1>1
  <2>2. /\ SubSeq(queue, 1, n) \in Seq(JobId)
        /\ Len(SubSeq(queue, 1, n)) = IF 1 <= n THEN n - 1 + 1 ELSE 0
        /\ \A i \in 1..(n - 1 + 1) : SubSeq(queue, 1, n)[i] = queue[1 + i - 1]
    BY <2>1, SubSeqProperties
  <2>3. ASSUME NEW i \in 1..n PROVE SubSeq(queue, 1, n)[i] = queue[i]
    <3>1. i \in 1..(n - 1 + 1) /\ 1 + i - 1 = i
      BY <1>1
    <3> QED
      BY <2>2, <3>1
  <2> QED
    BY <1>1, <2>2, <2>3
<1>6. DOMAIN SubSeq(queue, 1, n) = 1..n
  BY <1>5, LenProperties
<1>7. ToSet(SubSeq(queue, 1, n)) = {queue[i] : i \in 1..n}
  BY <1>5, <1>6 DEF ToSet
<1>8. {queue[i] : i \in 1..n} \subseteq JobId
  BY <1>1
<1> QED
  BY <1>1, <1>2, <1>3, <1>4, <1>7, <1>8

-----------------------------------------------------------------------------
(* The table, the places of a job, and the attempts *)

SafeInv == TypeOK /\ PlaceInv /\ QueueInv /\ AttemptsAreSpent

\* A claim: the jobs at the head of the queue are marked and are the batch.
LEMMA ClaimStep ==
  ASSUME SafeInv, NEW p \in Process, Claim(p)
  PROVE  \E claimed \in SUBSET JobId :
            /\ \A j \in claimed : jobs[j].status = "pending"
            /\ \A j \in JobId : jobs'[j] = IF j \in claimed THEN [jobs[j] EXCEPT !.status = "running"]
                                                             ELSE jobs[j]
            /\ jobs' \in [JobId -> RowType]
            /\ batch' = [batch EXCEPT ![p] = claimed] /\ batch[p] = {}
            /\ queue' \in Seq(JobId)
            /\ QueueInv'
<1> DEFINE n == IF Len(queue) < ClaimBatch THEN Len(queue) ELSE ClaimBatch
           claimed == ToSet(SubSeq(queue, 1, n))
<1>0. TypeOK /\ QueueInv /\ queue \in Seq(JobId) /\ Len(queue) \in Nat
  BY LenProperties DEF SafeInv, TypeOK
<1>1. n \in 0..Len(queue) /\ n \in Nat
  BY <1>0, ConstantsAssumption
<1>2. /\ jobs' = [j \in JobId |-> IF j \in claimed THEN [jobs[j] EXCEPT !.status = "running"]
                                                   ELSE jobs[j]]
      /\ queue' = SubSeq(queue, n + 1, Len(queue))
      /\ batch' = [batch EXCEPT ![p] = claimed] /\ batch[p] = {}
  BY DEF Claim
<1> HIDE DEF n
<1>3. /\ queue' \in Seq(JobId) /\ Len(queue') = Len(queue) - n
      /\ \A i \in 1..Len(queue') : queue'[i] = queue[n + i]
      /\ claimed = {queue[i] : i \in 1..n} /\ claimed \in SUBSET JobId
  BY <1>0, <1>1, <1>2, Taken
<1> HIDE DEF claimed
<1>4. \A j \in claimed : jobs[j].status = "pending"
  <2> SUFFICES ASSUME NEW i \in 1..n PROVE jobs[queue[i]].status = "pending"
    BY <1>3
  <2>1. i \in 1..Len(queue)
    BY <1>0, <1>1
  <2> QED
    BY <1>0, <2>1 DEF QueueInv
<1>5. jobs' \in [JobId -> RowType]
  <2>1. \A j \in JobId : [jobs[j] EXCEPT !.status = "running"] \in RowType /\ jobs[j] \in RowType
    BY <1>0, RowsTyped DEF TypeOK
  <2> QED
    BY <1>2, <2>1
<1>6. QueueInv'
  <2>1. ASSUME NEW i \in 1..Len(queue')
        PROVE /\ n + i \in 1..Len(queue) /\ queue'[i] = queue[n + i] /\ queue[n + i] \notin claimed
              /\ queue[n + i] \in JobId
    <3>1. n + i \in 1..Len(queue) /\ i \in Nat /\ i > 0 /\ queue'[i] = queue[n + i]
      BY <1>0, <1>1, <1>3
    <3>2. ASSUME NEW k \in 1..n PROVE queue[n + i] # queue[k]
      <4>1. k \in 1..Len(queue) /\ k # n + i
        BY <1>0, <1>1, <3>1
      <4> QED
        BY <1>0, <3>1, <4>1 DEF QueueInv
    <3>3. queue[n + i] \in JobId
      BY <1>0, <3>1, ElementOfSeq
    <3> QED
      BY <1>3, <3>1, <3>2, <3>3
  <2>2. \A i \in 1..Len(queue') : jobs'[queue'[i]].status = "pending"
    <3> TAKE i \in 1..Len(queue')
    <3>1. jobs'[queue'[i]] = jobs[queue[n + i]]
      BY <1>2, <2>1
    <3> QED
      BY <1>0, <2>1, <3>1 DEF QueueInv
  <2>3. \A i, k \in 1..Len(queue') : queue'[i] = queue'[k] => i = k
    <3> TAKE i, k \in 1..Len(queue')
    <3>1. queue'[i] = queue'[k] => n + i = n + k
      BY <1>0, <2>1 DEF QueueInv
    <3>2. i \in Int /\ k \in Int
      BY <1>0, <1>1, <1>3
    <3> QED
      BY <1>1, <3>1, <3>2
  <2> QED
    BY <2>2, <2>3 DEF QueueInv
<1> QED
  BY <1>2, <1>3, <1>4, <1>5, <1>6

\* Nothing in the queue loses its place when other rows are written.
LEMMA QueueKept ==
  ASSUME TypeOK, QueueInv, queue' = queue,
         \A j \in JobId : jobs[j].status = "pending" => jobs'[j].status = "pending"
  PROVE  QueueInv'
<1>1. \A i \in 1..Len(queue) : queue[i] \in JobId
  BY ElementOfSeq DEF TypeOK
<1> QED
  BY <1>1 DEF QueueInv

\* A job that is pending and not in the queue joins it.
LEMMA QueueJoined ==
  ASSUME TypeOK, QueueInv, NEW j \in JobId, queue' = Append(queue, j),
         \A i \in 1..Len(queue) : queue[i] # j,
         jobs'[j].status = "pending",
         \A k \in JobId : jobs[k].status = "pending" => jobs'[k].status = "pending"
  PROVE  QueueInv' /\ queue' \in Seq(JobId)
<1>1. \A i \in 1..Len(queue) : queue[i] \in JobId
  BY ElementOfSeq DEF TypeOK
<1>2. /\ queue' \in Seq(JobId) /\ Len(queue') = Len(queue) + 1 /\ Len(queue) \in Nat
      /\ \A i \in 1..Len(queue) : queue'[i] = queue[i]
      /\ queue'[Len(queue) + 1] = j
  BY Appended
<1>3. \A i \in 1..Len(queue') : i \in 1..Len(queue) \/ i = Len(queue) + 1
  BY <1>2
<1>4. \A i \in 1..Len(queue') : jobs'[queue'[i]].status = "pending"
  BY <1>1, <1>2, <1>3 DEF QueueInv
<1>5. \A i, k \in 1..Len(queue') : queue'[i] = queue'[k] => i = k
  BY <1>2, <1>3 DEF QueueInv
<1> QED
  BY <1>2, <1>4, <1>5 DEF QueueInv

LEMMA SafeStep == SafeInv /\ [Next]_vars => SafeInv'
<1> SUFFICES ASSUME SafeInv, [Next]_vars PROVE SafeInv'
  OBVIOUS
<1>t. TypeOK /\ PlaceInv /\ QueueInv /\ AttemptsAreSpent
  BY DEF SafeInv
<1>r. /\ \A j \in JobId : jobs[j] \in RowType
      /\ NoJob \in RowType /\ NewJob("cleanup") \in RowType
      /\ NoJob.status = "absent" /\ NewJob("cleanup").status = "pending"
      /\ NewJob("cleanup").attempts = 0 /\ MaxAttempts > 0
  <2>1. \A j \in JobId : jobs[j] \in RowType
    BY <1>t DEF TypeOK
  <2>2. 0 \in 0..MaxAttempts /\ MaxAttempts > 0
    BY ConstantsAssumption
  <2>3. NoJob \in RowType /\ NewJob("cleanup") \in RowType
    BY <2>2 DEF RowType, Status, Kind, NoJob, NewJob
  <2>4. NoJob.status = "absent" /\ NewJob("cleanup").status = "pending" /\ NewJob("cleanup").attempts = 0
    BY DEF NoJob, NewJob
  <2> QED
    BY <2>1, <2>2, <2>3, <2>4
<1>f. ASSUME Fault \/ Works PROVE faults' \in 0..MaxFaults
  BY <1>f, <1>t, ConstantsAssumption DEF Fault, Works, TypeOK
\* A job that no worker has, and is not in the queue, is added to the table as pending.
<1>n. ASSUME NEW k \in JobId, jobs[k].status = "absent", jobs' = [jobs EXCEPT ![k] = NewJob("cleanup")]
      PROVE  /\ jobs' \in [JobId -> RowType] /\ AttemptsAreSpent'
             /\ jobs'[k].status = "pending"
             /\ \A j \in JobId : j # k => jobs'[j] = jobs[j]
             /\ \A j \in JobId : jobs[j].status # "absent" => jobs'[j] = jobs[j]
             /\ \A i \in 1..Len(queue) : queue[i] # k
  <2>1. jobs' \in [JobId -> RowType] /\ jobs'[k] = NewJob("cleanup") /\ \A j \in JobId : j # k => jobs'[j] = jobs[j]
    BY <1>n, <1>r, <1>t DEF TypeOK
  <2>2. AttemptsAreSpent'
    BY <1>r, <1>t, <2>1 DEF AttemptsAreSpent, Spent
  <2> QED
    BY <1>n, <1>r, <1>t, <2>1, <2>2 DEF QueueInv
\* Nobody gets a job that he did not have, and jobs that somebody has are left alone.
<1>p. ASSUME \A p \in Process, j \in JobId :
                /\ Has(p, j)' => Has(p, j) /\ jobs'[j].status = jobs[j].status
                /\ j \in batch'[p] => j \in batch[p] /\ task'[p][j] = task[p][j]
      PROVE  PlaceInv'
  BY <1>p, <1>t DEF PlaceInv
<1>1. ASSUME NEW p \in Process, Start(p) \/ EnsureCheck(p) \/ Shutdown(p) PROVE SafeInv'
  <2>1. UNCHANGED <<jobs, queue, batch, task, faults>> /\ TypeOK'
    BY <1>1, <1>t DEF Start, EnsureCheck, Shutdown, TypeOK
  <2> QED
    BY <1>t, <1>p, <2>1 DEF SafeInv, PlaceInv, Has, QueueInv, AttemptsAreSpent
<1>2. ASSUME NEW p \in Process, EnsureInsert(p) PROVE SafeInv'
  <2>1. ASSUME NEW k \in JobId, jobs[k].status = "absent", jobs' = [jobs EXCEPT ![k] = NewJob("cleanup")],
               queue' = Append(queue, k), scheduled' = TRUE, Works
        PROVE SafeInv'
    <3>1. QueueInv' /\ queue' \in Seq(JobId)
      BY <1>n, <1>r, <1>t, <2>1, QueueJoined
    <3>2. PlaceInv'
      <4>1. UNCHANGED <<batch, task>>
        BY <1>2 DEF EnsureInsert
      <4>2. \A q \in Process, j \in JobId : Has(q, j)' => Has(q, j) /\ jobs'[j] = jobs[j]
        BY <1>n, <1>t, <2>1, <4>1 DEF Has, PlaceInv
      <4> QED
        BY <1>p, <4>1, <4>2
    <3>3. TypeOK'
      BY <1>2, <1>f, <1>n, <1>t, <2>1, <3>1 DEF EnsureInsert, TypeOK
    <3> QED
      BY <1>n, <2>1, <3>1, <3>2, <3>3 DEF SafeInv
  <2>2. ASSUME Fault, UNCHANGED <<jobs, queue, scheduled>> PROVE SafeInv'
    <3>1. UNCHANGED <<jobs, queue, batch, task>> /\ TypeOK'
      BY <1>2, <1>f, <1>t, <2>2 DEF EnsureInsert, TypeOK
    <3> QED
      BY <1>t, <1>p, <3>1 DEF SafeInv, PlaceInv, Has, QueueInv, AttemptsAreSpent
  <2> QED
    BY <1>2, <2>1, <2>2 DEF EnsureInsert, With
<1>3. ASSUME NEW p \in Process, Claim(p) PROVE SafeInv'
  <2>1. PICK claimed \in SUBSET JobId :
            /\ \A j \in claimed : jobs[j].status = "pending"
            /\ \A j \in JobId : jobs'[j] = IF j \in claimed THEN [jobs[j] EXCEPT !.status = "running"]
                                                             ELSE jobs[j]
            /\ jobs' \in [JobId -> RowType]
            /\ batch' = [batch EXCEPT ![p] = claimed] /\ batch[p] = {}
            /\ queue' \in Seq(JobId)
            /\ QueueInv'
    BY <1>3, ClaimStep
  <2>2. UNCHANGED <<loop, cancelled, task, scheduled, faults>>
    BY <1>3 DEF Claim
  <2>3. TypeOK'
    BY <1>t, <2>1, <2>2 DEF TypeOK
  <2>4. \A j \in JobId : /\ j \in claimed => jobs'[j].status = "running" /\ jobs'[j].attempts = jobs[j].attempts
                         /\ j \notin claimed => jobs'[j] = jobs[j]
    BY <1>r, <2>1 DEF RowType
  <2>5. AttemptsAreSpent'
    <3> SUFFICES ASSUME NEW j \in JobId PROVE Spent(jobs'[j])
      BY DEF AttemptsAreSpent, Spent
    <3>1. Spent(jobs[j])
      BY <1>t DEF AttemptsAreSpent
    <3>2. CASE j \notin claimed
      BY <2>4, <3>1, <3>2
    <3>3. CASE j \in claimed
      <4>1. jobs[j].status = "pending" /\ jobs'[j].status = "running" /\ jobs'[j].attempts = jobs[j].attempts
        BY <2>1, <2>4, <3>3
      <4> QED
        BY <3>1, <4>1 DEF Spent
    <3> QED
      BY <3>2, <3>3
  <2>6. batch'[p] = claimed /\ \A q \in Process : q # p => batch'[q] = batch[q]
    BY <1>t, <2>1 DEF TypeOK
  <2>7. \A q \in Process, j \in claimed : ~Has(q, j)
    BY <1>t, <2>1 DEF PlaceInv
  <2>8. PlaceInv'
    <3>1. \A q \in Process, j \in JobId : Has(q, j)' <=> Has(q, j) \/ (q = p /\ j \in claimed)
      BY <2>1, <2>2, <2>6 DEF Has
    <3>2. \A q, s \in Process, j \in JobId : Has(q, j)' /\ Has(s, j)' => q = s
      BY <1>t, <2>7, <3>1 DEF PlaceInv
    <3>3. \A q \in Process, j \in JobId : j \in batch'[q] => task'[q][j] = "none"
      BY <1>t, <2>2, <2>6, <2>7 DEF PlaceInv, Has
    <3>4. \A q \in Process, j \in JobId : Has(q, j)' => jobs'[j].status = "running"
      <4> SUFFICES ASSUME NEW q \in Process, NEW j \in JobId, Has(q, j)' PROVE jobs'[j].status = "running"
        OBVIOUS
      <4>1. Has(q, j) \/ j \in claimed
        BY <3>1
      <4>2. ASSUME Has(q, j) PROVE j \notin claimed /\ jobs[j].status = "running"
        BY <1>t, <2>7, <4>2 DEF PlaceInv
      <4> QED
        BY <2>4, <4>1, <4>2
    <3> QED
      BY <3>2, <3>3, <3>4 DEF PlaceInv
  <2> QED
    BY <2>1, <2>3, <2>5, <2>8 DEF SafeInv
<1>4. ASSUME NEW p \in Process, NEW j \in JobId, Spawn(p, j) PROVE SafeInv'
  <2>1. AtStage(p, j, "dispatch") /\ "dispatch" \in Stage
    BY <1>4 DEF Spawn, AtStage, Stage
  <2>2. \A q \in Process, k \in JobId : task'[q][k] = IF q = p /\ k = j THEN "dispatch" ELSE task[q][k]
    BY <1>t, <2>1, StageFrame
  <2>3. batch'[p] = batch[p] \ {j} /\ j \in batch[p] /\ \A q \in Process : q # p => batch'[q] = batch[q]
    BY <1>4, <1>t DEF Spawn, TypeOK
  <2>4. \A q \in Process, k \in JobId : Has(q, k)' <=> Has(q, k)
    BY <2>2, <2>3 DEF Has
  <2>5. UNCHANGED <<jobs, queue, loop, cancelled, scheduled, faults>>
    BY <1>4 DEF Spawn
  <2>6. TypeOK'
    <3>1. batch' \in [Process -> SUBSET JobId]
      BY <1>4, <1>t DEF Spawn, TypeOK
    <3>2. task' \in [Process -> [JobId -> Stage]]
      BY <1>t, <2>1, StageFrame
    <3> QED
      BY <1>t, <2>5, <3>1, <3>2 DEF TypeOK
  <2>7. PlaceInv'
    BY <1>t, <2>2, <2>3, <2>4, <2>5 DEF PlaceInv
  <2> QED
    BY <1>t, <2>5, <2>6, <2>7, QueueKept DEF SafeInv, AttemptsAreSpent
\* The steps of a task: its stage changes, and rows that no worker has, or its own when it ends.
<1>s. ASSUME NEW p \in Process, NEW j \in JobId, NEW stage \in Stage, task[p][j] # "none",
             AtStage(p, j, stage), UNCHANGED <<queue, loop, cancelled, batch, scheduled>>,
             Fault \/ Works, jobs' \in [JobId -> RowType], AttemptsAreSpent',
             \A k \in JobId : \/ jobs'[k].status = jobs[k].status
                              \/ jobs[k].status \notin {"running", "pending"}
                              \/ k = j /\ stage = "none"
      PROVE  SafeInv'
  <2>1. /\ task' \in [Process -> [JobId -> Stage]]
        /\ \A q \in Process, k \in JobId : task'[q][k] = IF q = p /\ k = j THEN stage ELSE task[q][k]
    BY <1>s, <1>t, StageFrame
  <2>2. Has(p, j) /\ jobs[j].status = "running"
    BY <1>s, <1>t DEF Has, PlaceInv
  <2>3. \A q \in Process, k \in JobId : Has(q, k)' => Has(q, k)
    BY <1>s, <2>1 DEF Has
  <2>4. stage = "none" => \A q \in Process : ~Has(q, j)'
    BY <1>s, <1>t, <2>1, <2>2 DEF Has, PlaceInv
  <2>5. PlaceInv'
    <3>1. \A q \in Process, k \in JobId : Has(q, k)' => jobs'[k].status = "running"
      BY <1>s, <1>t, <2>3, <2>4 DEF PlaceInv
    <3>2. \A q, s \in Process, k \in JobId : Has(q, k)' /\ Has(s, k)' => q = s
      BY <1>t, <2>3 DEF PlaceInv
    <3>3. \A q \in Process, k \in JobId : k \in batch'[q] => task'[q][k] = "none"
      BY <1>s, <1>t, <2>1 DEF PlaceInv
    <3> QED
      BY <3>1, <3>2, <3>3 DEF PlaceInv
  <2>6. QueueInv'
    BY <1>s, <1>t, <2>2, QueueKept
  <2>7. TypeOK'
    BY <1>s, <1>f, <1>t, <2>1 DEF TypeOK
  <2> QED
    BY <1>s, <2>5, <2>6, <2>7 DEF SafeInv
<1>5. ASSUME NEW p \in Process, NEW j \in JobId, Sweep(p, j) PROVE SafeInv'
  <2>1. PICK old \in SUBSET With({"succeeded", "dead"}) :
          jobs' = [k \in JobId |-> IF k \in old THEN NoJob ELSE jobs[k]]
    BY <1>5 DEF Sweep
  <2>2. jobs' \in [JobId -> RowType] /\ \A k \in JobId : jobs'[k] = IF k \in old THEN NoJob ELSE jobs[k]
    BY <1>r, <2>1
  <2>3. AttemptsAreSpent'
    BY <1>r, <1>t, <2>2 DEF AttemptsAreSpent, Spent
  <2>4. \A k \in JobId : jobs'[k].status = jobs[k].status \/ jobs[k].status \notin {"running", "pending"}
    BY <2>2 DEF With
  <2>5. PICK stage \in {"enqueue", "fail"} : AtStage(p, j, stage) /\ (Fault \/ Works)
    BY <1>5 DEF Sweep
  <2>6. task[p][j] # "none" /\ UNCHANGED <<queue, loop, cancelled, batch, scheduled>>
    BY <1>5 DEF Sweep
  <2>7. stage \in Stage
    BY DEF Stage
  <2> QED
    BY <1>s, <2>2, <2>3, <2>4, <2>5, <2>6, <2>7
<1>6. ASSUME NEW p \in Process, NEW j \in JobId, NoHandler(p, j) PROVE SafeInv'
  <2>1. jobs' = jobs /\ AtStage(p, j, "fail") /\ Works /\ "fail" \in Stage
    BY <1>6 DEF NoHandler, Works, Stage
  <2>2. task[p][j] # "none" /\ UNCHANGED <<queue, loop, cancelled, batch, scheduled>>
    BY <1>6 DEF NoHandler
  <2>3. jobs' \in [JobId -> RowType] /\ AttemptsAreSpent'
    BY <1>t, <2>1 DEF TypeOK, AttemptsAreSpent
  <2> QED
    BY <1>s, <2>1, <2>2, <2>3
<1>7. ASSUME NEW p \in Process, NEW j \in JobId, EnqueueNext(p, j) PROVE SafeInv'
  <2>0. task[p][j] # "none" /\ UNCHANGED <<queue, loop, cancelled, batch, scheduled>>
    BY <1>7 DEF EnqueueNext
  <2>1. ASSUME NEW k \in JobId, jobs[k].status = "absent", Works,
               jobs' = [jobs EXCEPT ![k] = NewJob("cleanup")], AtStage(p, j, "succeed")
        PROVE SafeInv'
    <3>1. "succeed" \in Stage
      BY DEF Stage
    <3>2. \A i \in JobId : jobs'[i].status = jobs[i].status \/ jobs[i].status \notin {"running", "pending"}
      BY <1>n, <2>1
    <3> QED
      BY <1>s, <1>n, <2>0, <2>1, <3>1, <3>2
  <2>2. ASSUME Fault \/ Works, jobs' = jobs, AtStage(p, j, "fail") PROVE SafeInv'
    <3>1. "fail" \in Stage
      BY DEF Stage
    <3>2. jobs' \in [JobId -> RowType] /\ AttemptsAreSpent'
      BY <1>t, <2>2 DEF TypeOK, AttemptsAreSpent
    <3> QED
      BY <1>s, <2>0, <2>2, <3>1, <3>2
  <2> QED
    BY <1>7, <2>1, <2>2 DEF EnqueueNext, With
<1>8. ASSUME NEW p \in Process, NEW j \in JobId, MarkSucceeded(p, j) \/ RescheduleOrKill(p, j)
      PROVE SafeInv'
  <2>0. /\ task[p][j] # "none" /\ UNCHANGED <<queue, loop, cancelled, batch, scheduled>>
        /\ AtStage(p, j, "none") /\ "none" \in Stage
    BY <1>8 DEF MarkSucceeded, RescheduleOrKill, Stage
  <2>1. jobs[j].attempts < MaxAttempts
    BY <1>t, <2>0 DEF PlaceInv, Has, AttemptsAreSpent, Spent
  <2>2. ASSUME NEW row \in RowType, Spent(row), jobs' = [jobs EXCEPT ![j] = row], Works PROVE SafeInv'
    <3>1. jobs' \in [JobId -> RowType] /\ jobs'[j] = row /\ \A k \in JobId : k # j => jobs'[k] = jobs[k]
      BY <1>t, <2>2 DEF TypeOK
    <3>2. AttemptsAreSpent'
      BY <1>t, <2>2, <3>1 DEF AttemptsAreSpent
    <3> QED
      BY <1>s, <2>0, <2>2, <3>1, <3>2
  <2>3. ASSUME jobs' = jobs, Fault PROVE SafeInv'
    <3>1. jobs' \in [JobId -> RowType] /\ AttemptsAreSpent'
      BY <1>t, <2>3 DEF TypeOK, AttemptsAreSpent
    <3> QED
      BY <1>s, <2>0, <2>3, <3>1
  <2>4. Succeeded(jobs[j]) \in RowType /\ Spent(Succeeded(jobs[j]))
    BY <1>r, RowsTyped DEF Succeeded, Spent, RowType
  <2>5. Rescheduled(jobs[j]) \in RowType /\ Spent(Rescheduled(jobs[j]))
    <3>1. jobs[j].attempts \in Nat /\ MaxAttempts \in Nat
      BY <1>r, ConstantsAssumption DEF RowType
    <3>2. /\ Rescheduled(jobs[j]).attempts = jobs[j].attempts + 1
          /\ Rescheduled(jobs[j]).status =
                IF jobs[j].attempts + 1 >= MaxAttempts THEN "dead" ELSE "pending"
      BY <1>r DEF Rescheduled, RowType
    <3>3. Spent(Rescheduled(jobs[j]))
      BY <2>1, <3>1, <3>2 DEF Spent
    <3> QED
      BY <1>r, <2>1, <3>3, RowsTyped
  <2> QED
    BY <1>8, <2>2, <2>3, <2>4, <2>5 DEF MarkSucceeded, RescheduleOrKill
<1>9. ASSUME NEW p \in Process, Exit(p) \/ Crash(p) PROVE SafeInv'
  <2>1. /\ UNCHANGED <<jobs, queue, scheduled>>
        /\ batch'[p] = {} /\ \A j \in JobId : task'[p][j] = "none"
        /\ \A q \in Process : q # p => batch'[q] = batch[q] /\ task'[q] = task[q]
    BY <1>9, <1>t DEF Exit, Crash, Gone, TypeOK
  <2>2. TypeOK'
    <3>1. /\ loop' \in [Process -> {"down", "check", "insert", "loop"}]
          /\ cancelled' \in [Process -> BOOLEAN] /\ batch' \in [Process -> SUBSET JobId]
          /\ task' \in [Process -> [JobId -> Stage]]
      <4>1. Gone(p)
        BY <1>9 DEF Exit, Crash
      <4>2. [j \in JobId |-> "none"] \in [JobId -> Stage]
        BY DEF Stage
      <4>3. task' \in [Process -> [JobId -> Stage]]
        BY <1>t, <4>1, <4>2 DEF Gone, TypeOK
      <4>4. loop' \in [Process -> {"down", "check", "insert", "loop"}] /\ batch' \in [Process -> SUBSET JobId]
        BY <1>t, <4>1 DEF Gone, TypeOK
      <4>5. cancelled' \in [Process -> BOOLEAN]
        BY <1>t, <4>1 DEF Gone, TypeOK
      <4> QED
        BY <4>3, <4>4, <4>5
    <3>2. faults' \in 0..MaxFaults
      BY <1>9, <1>f DEF Exit, Crash, Works
    <3> QED
      BY <1>t, <2>1, <3>1, <3>2 DEF TypeOK
  <2>3. PlaceInv'
    <3>1. \A q \in Process, j \in JobId : Has(q, j)' => Has(q, j)
      BY <2>1 DEF Has
    <3>2. \A q \in Process, j \in JobId : j \in batch'[q] => j \in batch[q] /\ task'[q][j] = task[q][j]
      BY <2>1
    <3> QED
      BY <1>p, <2>1, <3>1, <3>2
  <2> QED
    BY <1>t, <2>1, <2>2, <2>3, QueueKept DEF SafeInv, AttemptsAreSpent
<1>10. ASSUME NEW j \in JobId, BecomeDue(j) PROVE SafeInv'
  <2>1. /\ queue' = Append(queue, j) /\ jobs[j].status = "pending"
        /\ UNCHANGED <<jobs, loop, cancelled, batch, task, scheduled, faults>>
    BY <1>10 DEF BecomeDue
  <2>2. \A i \in 1..Len(queue) : queue[i] # j
    <3>1. DOMAIN queue = 1..Len(queue)
      BY <1>t, LenProperties DEF TypeOK
    <3> QED
      BY <1>10, <3>1 DEF BecomeDue, ToSet
  <2>3. QueueInv' /\ queue' \in Seq(JobId)
    BY <1>t, <2>1, <2>2, QueueJoined
  <2>4. TypeOK'
    BY <1>t, <2>1, <2>3 DEF TypeOK
  <2> QED
    BY <1>t, <1>p, <2>1, <2>3, <2>4 DEF SafeInv, Has, AttemptsAreSpent
<1>11. CASE UNCHANGED vars
  BY <1>11, <1>t DEF vars, SafeInv, TypeOK, PlaceInv, Has, QueueInv, AttemptsAreSpent
<1> QED
  BY <1>1, <1>2, <1>3, <1>4, <1>5, <1>6, <1>7, <1>8, <1>9, <1>10, <1>11
     DEF Next, LoopStep, JobStep, TaskStep

LEMMA SafeInit == Init => SafeInv
<1> SUFFICES ASSUME Init PROVE SafeInv
  OBVIOUS
<1>1. jobs \in [JobId -> RowType] /\ AttemptsAreSpent
  BY ConstantsAssumption DEF Init, AttemptsAreSpent
<1>2. queue = <<>> /\ queue \in Seq(JobId) /\ Len(queue) = 0
  BY DEF Init
<1>3. /\ \A p \in Process : batch[p] = {} /\ \A j \in JobId : task[p][j] = "none"
      /\ task \in [Process -> [JobId -> Stage]]
      /\ loop \in [Process -> {"down", "check", "insert", "loop"}]
      /\ batch \in [Process -> SUBSET JobId]
  BY DEF Init, Stage
<1>4. cancelled \in [Process -> BOOLEAN] /\ scheduled \in BOOLEAN
  BY DEF Init
<1>5. faults \in 0..MaxFaults
  BY ConstantsAssumption DEF Init
<1>6. TypeOK
  BY <1>1, <1>2, <1>3, <1>4, <1>5 DEF TypeOK
<1>7. PlaceInv
  BY <1>3 DEF PlaceInv, Has
<1>8. QueueInv
  BY <1>2 DEF QueueInv
<1> QED
  BY <1>1, <1>6, <1>7, <1>8 DEF SafeInv

\* What the invariant says of the places, as the property has it.
LEMMA PlacesOnce == SafeInv => ClaimedOnce
<1> SUFFICES ASSUME SafeInv PROVE ClaimedOnce
  OBVIOUS
<1>1. TypeOK /\ PlaceInv /\ QueueInv
  BY DEF SafeInv
<1>2. \A p \in Process : \A j \in Held(p) : j \in JobId /\ Has(p, j)
  BY <1>1 DEF Held, TasksOf, Has, TypeOK
<1>3. \A p, q \in Process : p # q => Held(p) \cap Held(q) = {}
  BY <1>1, <1>2 DEF PlaceInv
<1>4. \A p \in Process : batch[p] \cap TasksOf(p) = {}
  BY <1>1 DEF PlaceInv, TasksOf
<1>5. \A p \in Process : Held(p) \subseteq With({"running"})
  BY <1>1, <1>2 DEF PlaceInv, With
<1>6. DOMAIN queue = 1..Len(queue) /\ \A i \in 1..Len(queue) : queue[i] \in JobId
  BY <1>1, LenProperties, ElementOfSeq DEF TypeOK
<1>7. IsInjective(queue) /\ ToSet(queue) \subseteq With({"pending"})
  BY <1>1, <1>6 DEF QueueInv, IsInjective, ToSet, With
<1> QED
  BY <1>3, <1>4, <1>5, <1>7 DEF ClaimedOnce

-----------------------------------------------------------------------------
(* What a step can make of a row *)

Follows(row, next) ==
    \/ next = row
    \/ row.status = "absent" /\ next = NewJob("cleanup")
    \/ row.status = "pending" /\ next = [row EXCEPT !.status = "running"]
    \/ row.status = "running" /\ next \in {Succeeded(row), Rescheduled(row)}
    \/ row.status \in {"succeeded", "dead"} /\ next = NoJob

LEMMA RowSteps ==
  ASSUME SafeInv, [Next]_vars
  PROVE  \A k \in JobId : Follows(jobs[k], jobs'[k])
<1>t. TypeOK /\ PlaceInv /\ jobs \in [JobId -> RowType]
  BY DEF SafeInv, TypeOK
<1>1. CASE UNCHANGED jobs
  BY <1>1 DEF Follows
<1>2. ASSUME NEW j \in JobId, jobs[j].status = "absent", jobs' = [jobs EXCEPT ![j] = NewJob("cleanup")]
      PROVE  \A k \in JobId : Follows(jobs[k], jobs'[k])
  BY <1>2, <1>t DEF Follows
<1>3. ASSUME NEW p \in Process, Claim(p) PROVE \A k \in JobId : Follows(jobs[k], jobs'[k])
  BY <1>3, ClaimStep DEF Follows
<1>4. ASSUME NEW p \in Process, NEW j \in JobId, Sweep(p, j) PROVE \A k \in JobId : Follows(jobs[k], jobs'[k])
  BY <1>4 DEF Sweep, With, Follows
<1>5. ASSUME NEW p \in Process, NEW j \in JobId, MarkSucceeded(p, j) \/ RescheduleOrKill(p, j)
      PROVE  \A k \in JobId : Follows(jobs[k], jobs'[k])
  <2>1. jobs[j].status = "running"
    BY <1>5, <1>t DEF MarkSucceeded, RescheduleOrKill, PlaceInv, Has
  <2>2. \/ UNCHANGED jobs
        \/ jobs' = [jobs EXCEPT ![j] = Succeeded(jobs[j])] \/ jobs' = [jobs EXCEPT ![j] = Rescheduled(jobs[j])]
    BY <1>5 DEF MarkSucceeded, RescheduleOrKill
  <2>3. \A k \in JobId : jobs'[k] = jobs[k] \/ (k = j /\ jobs'[k] \in {Succeeded(jobs[k]), Rescheduled(jobs[k])})
    <3>1. \A row : jobs' = [jobs EXCEPT ![j] = row] => jobs'[j] = row /\ \A k \in JobId : k # j => jobs'[k] = jobs[k]
      BY <1>t
    <3>2. CASE UNCHANGED jobs
      BY <3>2
    <3>3. CASE jobs' = [jobs EXCEPT ![j] = Succeeded(jobs[j])]
      BY <3>1, <3>3
    <3>4. CASE jobs' = [jobs EXCEPT ![j] = Rescheduled(jobs[j])]
      BY <3>1, <3>4
    <3> QED
      BY <2>2, <3>2, <3>3, <3>4
  <2> QED
    BY <2>1, <2>3 DEF Follows
<1>6. \/ UNCHANGED jobs
      \/ \E j \in JobId : jobs[j].status = "absent" /\ jobs' = [jobs EXCEPT ![j] = NewJob("cleanup")]
      \/ \E p \in Process : Claim(p)
      \/ \E p \in Process, j \in JobId : Sweep(p, j) \/ MarkSucceeded(p, j) \/ RescheduleOrKill(p, j)
  <2>1. ASSUME NEW p \in Process, LoopStep(p) \/ Shutdown(p) \/ Exit(p) \/ Crash(p)
        PROVE  \/ UNCHANGED jobs
               \/ \E j \in JobId : jobs[j].status = "absent" /\ jobs' = [jobs EXCEPT ![j] = NewJob("cleanup")]
               \/ Claim(p)
    BY <2>1 DEF LoopStep, Start, EnsureCheck, EnsureInsert, Shutdown, Exit, Crash, Gone, With
  <2>2. ASSUME NEW p \in Process, NEW j \in JobId, Spawn(p, j) \/ TaskStep(p, j)
        PROVE  \/ UNCHANGED jobs
               \/ \E k \in JobId : jobs[k].status = "absent" /\ jobs' = [jobs EXCEPT ![k] = NewJob("cleanup")]
               \/ Sweep(p, j) \/ MarkSucceeded(p, j) \/ RescheduleOrKill(p, j)
    BY <2>2 DEF Spawn, TaskStep, NoHandler, EnqueueNext, With
  <2>3. ASSUME NEW j \in JobId, BecomeDue(j) PROVE UNCHANGED jobs
    BY <2>3 DEF BecomeDue
  <2> QED
    BY <2>1, <2>2, <2>3 DEF Next, JobStep, vars
<1> QED
  BY <1>1, <1>2, <1>3, <1>4, <1>5, <1>6

\* What each of these rows says.
LEMMA FollowsFields ==
  ASSUME NEW row \in RowType, NEW next, Follows(row, next)
  PROVE  /\ row.status \in {"pending", "running"} => next.status # "absent" /\ next.kind = row.kind
         /\ row.status \in {"succeeded", "dead"} => next \in {row, NoJob}
<1>1. /\ [row EXCEPT !.status = "running"].status = "running" /\ [row EXCEPT !.status = "running"].kind = row.kind
      /\ Succeeded(row).status = "succeeded" /\ Succeeded(row).kind = row.kind
  BY DEF RowType, Succeeded
<1>2. Rescheduled(row).status \in {"dead", "pending"} /\ Rescheduled(row).kind = row.kind
  BY DEF RowType, Rescheduled
<1> QED
  BY <1>1, <1>2 DEF Follows

-----------------------------------------------------------------------------
(* The cleanup chain *)

Chained == SafeInv /\ ChainInv

LEMMA ChainStep == Chained /\ [Next]_vars => ChainInv'
<1> SUFFICES ASSUME Chained, [Next]_vars PROVE ChainInv'
  OBVIOUS
<1>t. /\ SafeInv /\ TypeOK /\ PlaceInv /\ ChainInv
      /\ \A j \in JobId : jobs[j] \in RowType
  BY DEF Chained, SafeInv, TypeOK
<1>r. \A j \in JobId : /\ Follows(jobs[j], jobs'[j])
                       /\ jobs[j].status \in {"pending", "running"} => jobs'[j].kind = jobs[j].kind
  BY <1>t, RowSteps, FollowsFields
\* A job with a stage is running.
<1>h. \A p \in Process, j \in JobId : task[p][j] # "none" => jobs[j].status = "running"
  BY <1>t DEF PlaceInv, Has
\* The kind of a job stays while it has a stage.
<1>k. ASSUME \A p \in Process, j \in JobId :
                \/ task'[p][j] = task[p][j] \/ task'[p][j] \notin {"enqueue", "succeed"}
                \/ task[p][j] # "none" /\ jobs[j].kind = "cleanup"
      PROVE  \A p \in Process, j \in JobId : task'[p][j] \in {"enqueue", "succeed"} => jobs'[j].kind = "cleanup"
  <2> SUFFICES ASSUME NEW p \in Process, NEW j \in JobId, task'[p][j] \in {"enqueue", "succeed"}
               PROVE  jobs'[j].kind = "cleanup"
    OBVIOUS
  <2>1. task[p][j] # "none" /\ jobs[j].kind = "cleanup"
    BY <1>k, <1>t DEF ChainInv
  <2> QED
    BY <1>h, <1>r, <2>1
\* Rows and stages that do not disturb the chain.
<1>d. ASSUME UNCHANGED scheduled,
             \A p \in Process, j \in JobId : task'[p][j] = task[p][j] \/ task'[p][j] \notin {"enqueue", "succeed"},
             \A j \in JobId : Carrier(j) => jobs'[j].kind = "cleanup" /\ jobs'[j].status \in {"pending", "running", "dead"}
      PROVE  ChainInv'
  <2>1. \A j \in JobId : Ends(j)' => Ends(j)
    BY <1>d DEF Ends
  <2>2. \A j \in JobId : Carrier(j) => Carrier(j)'
    BY <1>d, <2>1 DEF Carrier
  <2>3. scheduled' \/ (\E j \in JobId : Ends(j)') => \E j \in JobId : Carrier(j)'
    BY <1>d, <1>t, <2>1, <2>2 DEF ChainInv
  <2> QED
    BY <1>d, <1>k, <2>3 DEF ChainInv
<1>e. ASSUME UNCHANGED <<jobs, scheduled>>,
             \A p \in Process, j \in JobId : task'[p][j] = task[p][j] \/ task'[p][j] \notin {"enqueue", "succeed"}
      PROVE  ChainInv'
  BY <1>d, <1>e DEF Carrier
\* A row that nobody has becomes a new cleanup job.
<1>n. ASSUME NEW k \in JobId, jobs[k].status = "absent", jobs' = [jobs EXCEPT ![k] = NewJob("cleanup")],
             \A q \in Process, i \in JobId :
                \/ task'[q][i] = task[q][i]
                \/ task[q][i] = "enqueue" /\ task'[q][i] = "succeed"
      PROVE  ChainInv'
  <2>1. jobs'[k].kind = "cleanup" /\ jobs'[k].status = "pending"
    BY <1>n, <1>t DEF TypeOK, NewJob
  <2>2. \A q \in Process : task[q][k] = "none"
    BY <1>h, <1>n
  <2>3. ~Ends(k)'
    BY <1>n, <2>2 DEF Ends
  <2>4. Carrier(k)'
    BY <2>1, <2>3 DEF Carrier
  <2>5. \A p \in Process, j \in JobId :
                \/ task'[p][j] = task[p][j] \/ task'[p][j] \notin {"enqueue", "succeed"}
                \/ task[p][j] # "none" /\ jobs[j].kind = "cleanup"
    BY <1>n, <1>t DEF ChainInv
  <2> QED
    BY <1>k, <2>4, <2>5 DEF ChainInv
<1>1. ASSUME NEW p \in Process, Start(p) \/ Shutdown(p) PROVE ChainInv'
  BY <1>1, <1>e DEF Start, Shutdown
<1>2. ASSUME NEW p \in Process, EnsureCheck(p) PROVE ChainInv'
  <2>1. UNCHANGED <<jobs, task>> /\ scheduled' = (scheduled \/ Unfinished("cleanup") # {})
    BY <1>2 DEF EnsureCheck
  <2>2. \A j \in JobId : (Ends(j)' <=> Ends(j)) /\ (Carrier(j)' <=> Carrier(j))
    BY <2>1 DEF Ends, Carrier
  <2>3. ASSUME Unfinished("cleanup") # {} PROVE \E j \in JobId : Ends(j) \/ Carrier(j)
    BY <2>3 DEF Unfinished, With, Carrier
  <2>4. scheduled' => \E j \in JobId : Carrier(j)
    BY <1>t, <2>1, <2>3 DEF ChainInv
  <2>5. scheduled' \/ (\E j \in JobId : Ends(j)') => \E j \in JobId : Carrier(j)'
    BY <1>t, <2>2, <2>4 DEF ChainInv
  <2> QED
    BY <1>k, <2>1, <2>5 DEF ChainInv
<1>3. ASSUME NEW p \in Process, EnsureInsert(p) PROVE ChainInv'
  BY <1>3, <1>e, <1>n DEF EnsureInsert, With
<1>4. ASSUME NEW p \in Process, Claim(p) PROVE ChainInv'
  <2>1. UNCHANGED <<task, scheduled>>
    BY <1>4 DEF Claim
  <2>2. \A j \in JobId : /\ jobs'[j].kind = jobs[j].kind
                         /\ jobs'[j].status \in {jobs[j].status, "running"}
    <3>1. \A j \in JobId : jobs'[j] \in {jobs[j], [jobs[j] EXCEPT !.status = "running"]}
      BY <1>4, <1>t, ClaimStep
    <3>2. \A row \in RowType : /\ [row EXCEPT !.status = "running"].kind = row.kind
                               /\ [row EXCEPT !.status = "running"].status = "running"
      BY DEF RowType
    <3> QED
      BY <1>t, <3>1, <3>2
  <2> QED
    BY <1>d, <2>1, <2>2 DEF Carrier
<1>5. ASSUME NEW p \in Process, NEW j \in JobId, Spawn(p, j) \/ NoHandler(p, j) PROVE ChainInv'
  <2>1. /\ UNCHANGED <<jobs, scheduled>>
        /\ \E stage \in {"dispatch", "fail"} : AtStage(p, j, stage)
    BY <1>5 DEF Spawn, NoHandler, AtStage
  <2>2. \A q \in Process, k \in JobId : task'[q][k] = task[q][k] \/ task'[q][k] \in {"dispatch", "fail"}
    BY <1>t, <2>1, StageFrame DEF Stage
  <2> QED
    BY <1>e, <2>1, <2>2
<1>6. ASSUME NEW p \in Process, NEW j \in JobId, Sweep(p, j) PROVE ChainInv'
  <2>1. PICK stage \in {"enqueue", "fail"} : AtStage(p, j, stage)
    BY <1>6 DEF Sweep
  <2>2. \A q \in Process, k \in JobId : task'[q][k] = IF q = p /\ k = j THEN stage ELSE task[q][k]
    BY <1>t, <2>1, StageFrame DEF Stage
  <2>3. task[p][j] = "dispatch" /\ jobs[j].kind = "cleanup" /\ jobs[j].status = "running"
    BY <1>6, <1>h DEF Sweep
  <2>4. jobs'[j] = jobs[j]
    BY <1>6, <2>3 DEF Sweep, With
  <2>5. ~Ends(j)'
    <3>1. \A q \in Process : q # p => task[q][j] = "none"
      BY <1>t, <2>3 DEF PlaceInv, Has
    <3> QED
      BY <2>2, <3>1 DEF Ends
  <2>6. Carrier(j)'
    BY <2>3, <2>4, <2>5 DEF Carrier
  <2> QED
    BY <1>k, <2>2, <2>3, <2>6 DEF ChainInv
<1>7. ASSUME NEW p \in Process, NEW j \in JobId, EnqueueNext(p, j) PROVE ChainInv'
  <2>0. task[p][j] = "enqueue" /\ UNCHANGED scheduled
    BY <1>7 DEF EnqueueNext
  <2>1. ASSUME NEW k \in JobId, jobs[k].status = "absent", jobs' = [jobs EXCEPT ![k] = NewJob("cleanup")],
               AtStage(p, j, "succeed")
        PROVE  ChainInv'
    <3>1. \A q \in Process, i \in JobId : task'[q][i] = IF q = p /\ i = j THEN "succeed" ELSE task[q][i]
      BY <1>t, <2>1, StageFrame DEF Stage
    <3> QED
      BY <1>n, <2>0, <2>1, <3>1
  <2>2. ASSUME UNCHANGED jobs, AtStage(p, j, "fail") PROVE ChainInv'
    <3>1. \A q \in Process, i \in JobId : task'[q][i] = IF q = p /\ i = j THEN "fail" ELSE task[q][i]
      BY <1>t, <2>2, StageFrame DEF Stage
    <3> QED
      BY <1>e, <2>0, <2>2, <3>1
  <2> QED
    BY <1>7, <2>1, <2>2 DEF EnqueueNext, With
<1>8. ASSUME NEW p \in Process, NEW j \in JobId, MarkSucceeded(p, j) \/ RescheduleOrKill(p, j) PROVE ChainInv'
  <2>1. AtStage(p, j, "none") /\ UNCHANGED scheduled
    BY <1>8 DEF MarkSucceeded, RescheduleOrKill
  <2>2. \A q \in Process, i \in JobId : task'[q][i] = IF q = p /\ i = j THEN "none" ELSE task[q][i]
    BY <1>t, <2>1, StageFrame DEF Stage
  <2>3. \A k \in JobId : k # j => jobs'[k] = jobs[k]
    BY <1>8, <1>t DEF MarkSucceeded, RescheduleOrKill, TypeOK
  <2>4. Carrier(j) => jobs'[j].kind = "cleanup" /\ jobs'[j].status \in {"pending", "running", "dead"}
    <3>1. CASE MarkSucceeded(p, j)
      BY <3>1 DEF MarkSucceeded, Carrier, Ends
    <3>2. CASE RescheduleOrKill(p, j)
      <4>1. jobs'[j] = jobs[j] \/ jobs'[j] = Rescheduled(jobs[j])
        BY <1>t, <3>2 DEF RescheduleOrKill, TypeOK
      <4>2. Rescheduled(jobs[j]).kind = jobs[j].kind /\ Rescheduled(jobs[j]).status \in {"dead", "pending"}
        BY <1>t DEF Rescheduled, RowType
      <4> QED
        BY <4>1, <4>2 DEF Carrier
    <3> QED
      BY <1>8, <3>1, <3>2
  <2> QED
    BY <1>d, <2>1, <2>2, <2>3, <2>4 DEF Carrier
<1>9. ASSUME NEW p \in Process, Exit(p) \/ Crash(p) PROVE ChainInv'
  <2>1. /\ UNCHANGED <<jobs, scheduled>>
        /\ \A j \in JobId : task'[p][j] = "none"
        /\ \A q \in Process : q # p => task'[q] = task[q]
    BY <1>9, <1>t DEF Exit, Crash, Gone, TypeOK
  <2> QED
    BY <1>e, <2>1
<1>10. ASSUME NEW j \in JobId, BecomeDue(j) PROVE ChainInv'
  BY <1>10, <1>e DEF BecomeDue
<1>11. CASE UNCHANGED vars
  BY <1>11, <1>e DEF vars
<1> QED
  BY <1>1, <1>2, <1>3, <1>4, <1>5, <1>6, <1>7, <1>8, <1>9, <1>10, <1>11
     DEF Next, LoopStep, JobStep, TaskStep

-----------------------------------------------------------------------------
(* The theorems *)

LEMMA Invariance == Spec => []Chained
<1>1. Init => Chained
  <2> SUFFICES ASSUME Init PROVE ChainInv
    BY SafeInit DEF Chained
  <2>1. \A p \in Process, j \in JobId : task[p][j] = "none"
    BY DEF Init
  <2>2. scheduled = FALSE
    BY DEF Init
  <2> QED
    BY <2>1, <2>2 DEF ChainInv, Ends
<1>2. Chained /\ [Next]_vars => Chained'
  BY SafeStep, ChainStep DEF Chained
<1> QED
  BY <1>1, <1>2, PTL DEF Spec

\* Rows, queue, batches and stages keep their types (infra/jobs).
THEOREM TypeCorrect == Spec => []TypeOK
<1>1. Chained => TypeOK
  BY DEF Chained, SafeInv
<1> QED
  BY <1>1, Invariance, PTL

\* However many processes poll the table, start, stop and crash, a due job is claimed by one of
\* them, and its row says running for as long as a worker has it (claim_batch, FOR UPDATE SKIP
\* LOCKED).
THEOREM JobsAreClaimedOnce == Spec => []ClaimedOnce
<1>1. Chained => ClaimedOnce
  BY PlacesOnce DEF Chained
<1> QED
  BY <1>1, Invariance, PTL

\* For any limit on attempts, a job that can run has attempts left and a dead one has none
\* (reschedule_or_kill).
THEOREM RetriesEnd == Spec => []AttemptsAreSpent
<1>1. Chained => AttemptsAreSpent
  BY DEF Chained, SafeInv
<1> QED
  BY <1>1, Invariance, PTL

\* Whatever fails or crashes between enqueuing the next cleanup and marking this one done, once
\* a cleanup was scheduled there is one in the table (cleanup::run, ensure_scheduled).
THEOREM CleanupGoesOn == Spec => []CleanupChainSurvives
<1>1. Chained => CleanupChainSurvives
  BY DEF Chained, ChainInv, Carrier, CleanupChainSurvives, With
<1> QED
  BY <1>1, Invariance, PTL

\* A finished job is never run again, and a job that is not finished is never deleted
\* (cleanup::run, delete_finished).
THEOREM FinishedStaysFinished == Spec => FinishedIsFinal
<1>1. Chained /\ [Next]_vars =>
        [\A j \in JobId :
            /\ jobs[j].status \in {"succeeded", "dead"} => jobs'[j] \in {jobs[j], NoJob}
            /\ jobs[j].status \in {"pending", "running"} => jobs'[j].status # "absent"]_vars
  <2> SUFFICES ASSUME Chained, [Next]_vars, NEW j \in JobId
               PROVE  /\ jobs[j].status \in {"succeeded", "dead"} => jobs'[j] \in {jobs[j], NoJob}
                      /\ jobs[j].status \in {"pending", "running"} => jobs'[j].status # "absent"
    OBVIOUS
  <2>1. SafeInv /\ jobs[j] \in RowType
    BY DEF Chained, SafeInv, TypeOK
  <2>2. Follows(jobs[j], jobs'[j])
    BY <2>1, RowSteps
  <2> QED
    BY <2>1, <2>2, FollowsFields
<1> QED
  BY <1>1, Invariance, PTL DEF Spec, FinishedIsFinal

=============================================================================
