------------------------------ MODULE JobQueue ------------------------------
(***************************************************************************)
(* The durable job queue (infra/jobs): a table of jobs and, in every       *)
(* server process, one poll loop that claims due jobs in batches and runs  *)
(* them on tasks bounded by a semaphore.  Processes share the database:    *)
(* one replaces another at a deployment, and either may crash.             *)
(*                                                                         *)
(* Time is kept as what the queries ask of it: a pending job is either due *)
(* (and then in `queue`, which is ordered by run_at) or not yet.  A failed *)
(* statement has no effect; crashes and failed statements are counted by   *)
(* `faults`.  Deleting the expired rows of other tables is part of the     *)
(* sweep that has no effect on the queue.                                  *)
(***************************************************************************)
EXTENDS Naturals, Sequences, FiniteSets, SequencesExt

CONSTANTS JobId,              \* the ids new rows are given
          Process,            \* the server processes sharing the database
          InitJobs,           \* the jobs table when the first process starts
          MaxConcurrentJobs,  \* permits of the semaphore (4)
          ClaimBatch,         \* rows claimed at a time (8)
          MaxAttempts,        \* DEFAULT_MAX_ATTEMPTS (5)
          MaxFaults           \* bound: crashes and failed statements in a behaviour

Kind == {"cleanup", "other"}

Status == {"absent", "pending", "running", "succeeded", "dead"}

RowType == [status : Status, kind : Kind, attempts : 0..MaxAttempts]

NoJob == [status |-> "absent", kind |-> "other", attempts |-> 0]

\* A job that can still run has attempts left, a dead one has used them all.
Spent(row) == /\ row.status \in {"pending", "running"} => row.attempts < MaxAttempts
              /\ row.status = "dead" => row.attempts = MaxAttempts

\* The first process finds rows that earlier ones have written.
ASSUME ConstantsAssumption == /\ InitJobs \in [JobId -> RowType]
                              /\ \A j \in JobId : Spent(InitJobs[j])
                              /\ MaxConcurrentJobs \in Nat \ {0}
                              /\ ClaimBatch \in Nat \ {0}
                              /\ MaxAttempts \in Nat \ {0}
                              /\ MaxFaults \in Nat

VARIABLES jobs,       \* the jobs table
          queue,      \* the pending jobs that are due, oldest run_at first
          loop,       \* where each process's Worker::run is
          cancelled,  \* the process's shutdown token
          batch,      \* the claimed jobs the poll loop has not spawned yet
          task,       \* the stage of each spawned job, per process
          scheduled,  \* history: some process has made sure of a cleanup job
          faults      \* crashes and failed statements so far

vars == <<jobs, queue, loop, cancelled, batch, task, scheduled, faults>>

Stage == {"none", "dispatch", "enqueue", "succeed", "fail"}

TypeOK == /\ jobs \in [JobId -> RowType]
          /\ queue \in Seq(JobId)
          /\ loop \in [Process -> {"down", "check", "insert", "loop"}]
          /\ cancelled \in [Process -> BOOLEAN]
          /\ batch \in [Process -> SUBSET JobId]
          /\ task \in [Process -> [JobId -> Stage]]
          /\ scheduled \in BOOLEAN
          /\ faults \in 0..MaxFaults

Init == /\ jobs = InitJobs
        /\ queue = <<>>
        /\ loop = [p \in Process |-> "down"]
        /\ cancelled = [p \in Process |-> FALSE]
        /\ batch = [p \in Process |-> {}]
        /\ task = [p \in Process |-> [j \in JobId |-> "none"]]
        /\ scheduled = FALSE
        /\ faults = 0

-----------------------------------------------------------------------------
(* The jobs table *)

With(status) == {j \in JobId : jobs[j].status \in status}

Unfinished(kind) == {j \in With({"pending", "running"}) : jobs[j].kind = kind}

NewJob(kind) == [status |-> "pending", kind |-> kind, attempts |-> 0]

\* Seeded fault: one retry too many.
RetriedOnceMore(row) ==
    [row EXCEPT !.attempts = @ + 1,
                !.status = IF row.attempts + 1 > MaxAttempts THEN "dead" ELSE "pending"]

\* reschedule_or_kill: one more attempt, and dead once they are used up.
Rescheduled(row) ==
    [row EXCEPT !.attempts = @ + 1,
                !.status = IF row.attempts + 1 >= MaxAttempts THEN "dead" ELSE "pending"]

\* Nothing reads the attempts of a succeeded job again.
Succeeded(row) == [row EXCEPT !.status = "succeeded", !.attempts = 0]

\* A statement that fails, or a crash.
Fault == faults < MaxFaults /\ faults' = faults + 1

Works == UNCHANGED faults

-----------------------------------------------------------------------------
(* A process starts and schedules the first cleanup *)

Start(p) == /\ loop[p] = "down"
            /\ loop' = [loop EXCEPT ![p] = "check"]
            /\ UNCHANGED <<jobs, queue, cancelled, batch, task, scheduled, faults>>

\* ensure_scheduled, one INSERT ... WHERE NOT EXISTS: what it looks for, and the row it
\* inserts, may have the commits of another process between them.
EnsureCheck(p) ==
    /\ loop[p] = "check"
    /\ loop' = [loop EXCEPT ![p] = IF Unfinished("cleanup") = {} THEN "insert" ELSE "loop"]
    /\ scheduled' = (scheduled \/ Unfinished("cleanup") # {})
    /\ UNCHANGED <<jobs, queue, cancelled, batch, task, faults>>

EnsureInsert(p) ==
    /\ loop[p] = "insert"
    /\ loop' = [loop EXCEPT ![p] = "loop"]
    /\ \/ /\ Works
          /\ \E j \in With({"absent"}) : /\ jobs' = [jobs EXCEPT ![j] = NewJob("cleanup")]
                                         /\ queue' = Append(queue, j)
          /\ scheduled' = TRUE
       \/ Fault /\ UNCHANGED <<jobs, queue, scheduled>>
    /\ UNCHANGED <<cancelled, batch, task>>

-----------------------------------------------------------------------------
(* The poll loop *)

\* Seeded fault: a SELECT that locks nothing, so another process still sees the jobs as due.
ClaimUnlocked(p) ==
    LET n == IF Len(queue) < ClaimBatch THEN Len(queue) ELSE ClaimBatch
    IN /\ loop[p] = "loop" /\ ~cancelled[p] /\ batch[p] = {}
       /\ queue # <<>>
       /\ batch' = [batch EXCEPT ![p] = ToSet(SubSeq(queue, 1, n))]
       /\ UNCHANGED <<jobs, queue, loop, cancelled, task, scheduled, faults>>

\* Seeded fault: nothing is claimed while some row says running.
ClaimWhenIdle(p) ==
    /\ loop[p] = "loop" /\ ~cancelled[p] /\ batch[p] = {}
    /\ queue # <<>> /\ With({"running"}) = {}
    /\ jobs' = [jobs EXCEPT ![Head(queue)].status = "running"]
    /\ queue' = Tail(queue)
    /\ batch' = [batch EXCEPT ![p] = {Head(queue)}]
    /\ UNCHANGED <<loop, cancelled, task, scheduled, faults>>

\* One round of the loop, which ends once the process is shutting down.  claim_batch takes the
\* oldest due jobs, locked and marked running in one statement; a failed one changes nothing.
Claim(p) ==
    LET n == IF Len(queue) < ClaimBatch THEN Len(queue) ELSE ClaimBatch
        claimed == ToSet(SubSeq(queue, 1, n))
    IN /\ loop[p] = "loop" /\ ~cancelled[p] /\ batch[p] = {}
       /\ queue # <<>>
       /\ jobs' = [j \in JobId |-> IF j \in claimed THEN [jobs[j] EXCEPT !.status = "running"]
                                                    ELSE jobs[j]]
       /\ queue' = SubSeq(queue, n + 1, Len(queue))
       /\ batch' = [batch EXCEPT ![p] = claimed]
       /\ UNCHANGED <<loop, cancelled, task, scheduled, faults>>

TasksOf(p) == {j \in JobId : task[p][j] # "none"}

\* A claimed job waits for a permit before it is spawned, shutting down or not.
Spawn(p, j) == /\ j \in batch[p]
               /\ Cardinality(TasksOf(p)) < MaxConcurrentJobs
               /\ batch' = [batch EXCEPT ![p] = @ \ {j}]
               /\ task' = [task EXCEPT ![p][j] = "dispatch"]
               /\ UNCHANGED <<jobs, queue, loop, cancelled, scheduled, faults>>

-----------------------------------------------------------------------------
(* Running one job *)

AtStage(p, j, stage) == task' = [task EXCEPT ![p][j] = stage]

\* Seeded fault: old rows are pruned whatever their status.
SweepEverything(p, j) ==
    /\ task[p][j] = "dispatch" /\ jobs[j].kind = "cleanup"
    /\ \E old \in SUBSET JobId : jobs' = [k \in JobId |-> IF k \in old THEN NoJob ELSE jobs[k]]
    /\ AtStage(p, j, "enqueue")
    /\ UNCHANGED <<queue, loop, cancelled, batch, scheduled, faults>>

\* cleanup::run: the rows of finished jobs that are old enough go too.
Sweep(p, j) ==
    /\ task[p][j] = "dispatch" /\ jobs[j].kind = "cleanup"
    /\ \E old \in SUBSET With({"succeeded", "dead"}) :
          jobs' = [k \in JobId |-> IF k \in old THEN NoJob ELSE jobs[k]]
    /\ \/ Works /\ AtStage(p, j, "enqueue")
       \/ Fault /\ AtStage(p, j, "fail")
    /\ UNCHANGED <<queue, loop, cancelled, batch, scheduled>>

\* Seeded fault: an unknown kind is passed over, and its row left as it is.
PassedOver(p, j) ==
    /\ task[p][j] = "dispatch" /\ jobs[j].kind # "cleanup"
    /\ AtStage(p, j, "none")
    /\ UNCHANGED <<jobs, queue, loop, cancelled, batch, scheduled, faults>>

\* dispatch: no handler is registered for any other kind.
NoHandler(p, j) ==
    /\ task[p][j] = "dispatch" /\ jobs[j].kind # "cleanup"
    /\ AtStage(p, j, "fail")
    /\ UNCHANGED <<jobs, queue, loop, cancelled, batch, scheduled, faults>>

\* Seeded fault: a failed insert is ignored.
EnqueueIgnored(p, j) ==
    /\ task[p][j] = "enqueue"
    /\ \/ \E k \in With({"absent"}) : Works /\ jobs' = [jobs EXCEPT ![k] = NewJob("cleanup")]
       \/ Fault /\ UNCHANGED jobs
    /\ AtStage(p, j, "succeed")
    /\ UNCHANGED <<queue, loop, cancelled, batch, scheduled>>

\* enqueue: the next cleanup, an hour from now, before this one is marked as done.  When
\* every id is in use the insert fails.
EnqueueNext(p, j) ==
    /\ task[p][j] = "enqueue"
    /\ \/ \E k \in With({"absent"}) : /\ Works
                                      /\ jobs' = [jobs EXCEPT ![k] = NewJob("cleanup")]
                                      /\ AtStage(p, j, "succeed")
       \/ /\ IF With({"absent"}) = {} THEN Works ELSE Fault
          /\ AtStage(p, j, "fail")
          /\ UNCHANGED jobs
    /\ UNCHANGED <<queue, loop, cancelled, batch, scheduled>>

MarkSucceeded(p, j) ==
    /\ task[p][j] = "succeed"
    /\ \/ Works /\ jobs' = [jobs EXCEPT ![j] = Succeeded(@)]
       \/ Fault /\ UNCHANGED jobs
    /\ AtStage(p, j, "none")
    /\ UNCHANGED <<queue, loop, cancelled, batch, scheduled>>

RescheduleOrKill(p, j) ==
    /\ task[p][j] = "fail"
    /\ \/ Works /\ jobs' = [jobs EXCEPT ![j] = Rescheduled(jobs[j])]
       \/ Fault /\ UNCHANGED jobs
    /\ AtStage(p, j, "none")
    /\ UNCHANGED <<queue, loop, cancelled, batch, scheduled>>

TaskStep(p, j) == \/ Sweep(p, j) \/ NoHandler(p, j) \/ EnqueueNext(p, j)
                  \/ MarkSucceeded(p, j) \/ RescheduleOrKill(p, j)

-----------------------------------------------------------------------------
(* Time and the end of a process *)

\* run_at passes: backoff and interval are over.
BecomeDue(j) == /\ jobs[j].status = "pending"
                /\ j \notin ToSet(queue)
                /\ queue' = Append(queue, j)
                /\ UNCHANGED <<jobs, loop, cancelled, batch, task, scheduled, faults>>

\* Worker::shutdown
Shutdown(p) == /\ loop[p] # "down" /\ ~cancelled[p]
               /\ cancelled' = [cancelled EXCEPT ![p] = TRUE]
               /\ UNCHANGED <<jobs, queue, loop, batch, task, scheduled, faults>>

\* The process is gone, and with it its loop, its batch and its tasks.
Gone(p) == /\ loop' = [loop EXCEPT ![p] = "down"]
           /\ cancelled' = [cancelled EXCEPT ![p] = FALSE]
           /\ batch' = [batch EXCEPT ![p] = {}]
           /\ task' = [task EXCEPT ![p] = [j \in JobId |-> "none"]]
           /\ UNCHANGED <<jobs, queue, scheduled>>

\* The tracker ran empty, or five seconds have passed.
Exit(p) == cancelled[p] /\ Gone(p) /\ UNCHANGED faults

Crash(p) == loop[p] # "down" /\ Gone(p) /\ Fault

-----------------------------------------------------------------------------

JobStep(p) == \E j \in JobId : Spawn(p, j) \/ TaskStep(p, j)

LoopStep(p) == Start(p) \/ EnsureCheck(p) \/ EnsureInsert(p) \/ Claim(p)

Next == \/ \E p \in Process : \/ LoopStep(p) \/ Shutdown(p) \/ Exit(p) \/ Crash(p)
                              \/ JobStep(p)
        \/ \E j \in JobId : BecomeDue(j)

Spec == Init /\ [][Next]_vars

\* Tokio polls the loop and the tasks, and the clock advances.  Nothing makes a process
\* shut down or crash.
Fairness == /\ \A p \in Process : WF_vars(LoopStep(p)) /\ WF_vars(JobStep(p))
            /\ \A j \in JobId : WF_vars(BecomeDue(j))

FairSpec == Spec /\ Fairness

-----------------------------------------------------------------------------
(* Properties *)

Held(p) == batch[p] \cup TasksOf(p)

\* "Two workers (or two polls racing each other, even across processes sharing this database)
\* can never both claim the same job" (repository.rs): a job is in one place at most, its row
\* says running for as long as a worker has it, and only pending jobs are in the queue.
ClaimedOnce ==
    /\ \A p, q \in Process : p # q => Held(p) \cap Held(q) = {}
    /\ \A p \in Process : batch[p] \cap TasksOf(p) = {}
    /\ \A p \in Process : Held(p) \subseteq With({"running"})
    /\ IsInjective(queue) /\ ToSet(queue) \subseteq With({"pending"})

\* Retries end: a job that can still run has attempts left, and a dead one has used them all
\* ("moves to a dead status after 5 attempts", recipes.md).
AttemptsAreSpent == \A j \in JobId : Spent(jobs[j])

\* The recurring cleanup never drops out of the table while it succeeds: whatever statement
\* fails and whichever process dies between enqueuing the next one and marking this one done,
\* there is a cleanup job to be run, being run, or dead and kept for inspection (cleanup.rs).
CleanupChainSurvives ==
    scheduled => \E j \in With({"pending", "running", "dead"}) : jobs[j].kind = "cleanup"

\* Finished jobs are history: they are never run again, only pruned (cleanup.rs "pending,
\* running and just-finished jobs are never touched").
FinishedIsFinal == [][\A j \in JobId :
    /\ jobs[j].status \in {"succeeded", "dead"} => jobs'[j] \in {jobs[j], NoJob}
    /\ jobs[j].status \in {"pending", "running"} => jobs'[j].status # "absent"]_vars

\* While some process keeps its loop running, every due job is claimed: a full batch, a failed
\* job's retries or the recurring one never keep another job out (ORDER BY run_at).
StaysUp(p) == <>[](loop[p] = "loop" /\ ~cancelled[p])

DueJobsAreClaimed ==
    (\E p \in Process : StaysUp(p)) =>
        \A j \in JobId : (jobs[j].status = "pending") ~> (jobs[j].status # "pending")

\* A job that is claimed is run to its end or is pending again, whatever the permits and the
\* other jobs, as long as no statement fails and no process stops (worker.rs).  After a fault or
\* a shutdown it may stay running for ever: nothing takes a lost claim back.
ClaimedJobsEnd ==
    [](faults = 0 /\ \A p \in Process : ~cancelled[p]) =>
        \A j \in JobId : (jobs[j].status = "running") ~> (jobs[j].status # "running")

=============================================================================
