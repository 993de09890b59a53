----------------------------- MODULE MailOutbox -----------------------------
(***************************************************************************)
(* Outgoing mail: MailService and its durable outbox.  A request hands a   *)
(* mail over and goes on; a background task stores it, tries to deliver it *)
(* and then clears or buries its row.  When a process starts, a recovery   *)
(* task delivers the rows left pending, while the server already takes     *)
(* requests.  The process may stop at any point, by a crash or because the *)
(* five seconds of its shutdown are over.                                  *)
(*                                                                         *)
(* A delivery worker is the task of one mail, or the recovery task, which  *)
(* takes one mail after the other.  What a mail says plays no part.        *)
(***************************************************************************)
EXTENDS Naturals, FiniteSets

CONSTANTS Mail,       \* the mails
          Readable,   \* those whose stored payload this version of the program can read back
          Recovery,   \* names the recovery task among the workers
          NoMail,     \* the recovery task has no mail in hand
          Retries,    \* RETRY_DELAYS.len() (2)
          MaxStarts,  \* bound: how often a process is started
          MaxFaults   \* bound: failed statements in a behaviour

ASSUME OutboxAssumption == /\ Readable \subseteq Mail
                           /\ Recovery \notin Mail
                           /\ NoMail \notin Mail
                           /\ Retries \in Nat
                           /\ MaxStarts \in Nat \ {0}
                           /\ MaxFaults \in Nat

VARIABLES row,        \* the outbound_mail table
          up,         \* whether a process is running
          stage,      \* where each worker is
          tries,      \* the failed attempts of the delivery a worker is busy with
          current,    \* the mail the recovery task has in hand
          todo,       \* the mails the recovery task has read and not taken yet
          persisted,  \* history: the mails whose row was written
          outcome,    \* history: what deliver() has come to for a mail
          sends,      \* history: how often the SMTP server took a mail
          starts,     \* history: how many processes were started
          faults      \* failed statements so far

outboxVars == <<row, up, stage, tries, current, todo, persisted, outcome, sends, starts, faults>>

Worker == Mail \cup {Recovery}

Stage == {"new", "insert", "send", "send_unsaved", "remove", "mark_dead", "select", "failed", "done"}

OutboxTypeOK == /\ row \in [Mail -> {"none", "pending", "dead"}]
                /\ up \in BOOLEAN
                /\ stage \in [Worker -> Stage]
                /\ tries \in [Worker -> 0..Retries]
                /\ current \in Mail \cup {NoMail}
                /\ todo \in SUBSET Mail
                /\ persisted \in SUBSET Mail
                /\ outcome \in [Mail -> {"open", "sent", "gave_up"}]
                /\ sends \in [Mail -> Nat]
                /\ starts \in 0..MaxStarts
                /\ faults \in 0..MaxFaults

\* Mails that cannot be read back were stored by an earlier version of the program.
OutboxInit == /\ row = [m \in Mail |-> IF m \in Readable THEN "none" ELSE "pending"]
              /\ up = FALSE
              /\ stage = [w \in Worker |-> IF w \in Readable THEN "new" ELSE "done"]
              /\ tries = [w \in Worker |-> 0]
              /\ current = NoMail
              /\ todo = {}
              /\ persisted = Mail \ Readable
              /\ outcome = [m \in Mail |-> "open"]
              /\ sends = [m \in Mail |-> 0]
              /\ starts = 0
              /\ faults = 0

-----------------------------------------------------------------------------

Moves(w, s) == stage' = [stage EXCEPT ![w] = s]

Fault == faults < MaxFaults /\ faults' = faults + 1

Works == UNCHANGED faults

MailOf(w) == IF w = Recovery THEN current ELSE w

\* with_durable_outbox: the process starts and so does its recovery task.
Start == /\ ~up
         /\ up' = TRUE
         /\ starts' = starts + 1
         /\ Moves(Recovery, "select")
         /\ UNCHANGED <<row, tries, current, todo, persisted, outcome, sends, faults>>

\* dispatch, as the send_* methods call it: the request goes on at once.
Dispatch(m) == /\ up /\ stage[m] = "new"
               /\ Moves(m, "insert")
               /\ UNCHANGED <<row, up, tries, current, todo, persisted, outcome, sends, starts,
                              faults>>

\* A mail that could not be stored is sent all the same.
InsertMail(m) ==
    /\ stage[m] = "insert"
    /\ \/ /\ Works
          /\ row' = [row EXCEPT ![m] = "pending"]
          /\ persisted' = persisted \cup {m}
          /\ Moves(m, "send")
       \/ /\ Fault
          /\ Moves(m, "send_unsaved")
          /\ UNCHANGED <<row, persisted>>
    /\ UNCHANGED <<up, tries, current, todo, outcome, sends, starts>>

\* Seeded fault: one row that cannot be read ends the recovery.
SelectUnlessUnreadable ==
    /\ stage[Recovery] = "select"
    /\ todo' = IF \E m \in Mail \ Readable : row[m] = "pending" THEN {}
               ELSE {m \in Mail : row[m] = "pending"}
    /\ Moves(Recovery, "done")
    /\ UNCHANGED <<row, up, tries, current, persisted, outcome, sends, starts, faults>>

\* recover_pending: all rows pending at this moment, those of this process too.  A row whose
\* payload cannot be read is skipped, and stays.
Select ==
    /\ stage[Recovery] = "select"
    /\ \/ /\ Works
          /\ todo' = {m \in Readable : row[m] = "pending"}
          /\ Moves(Recovery, "done")
       \/ Fault /\ Moves(Recovery, "failed") /\ UNCHANGED todo
    /\ UNCHANGED <<row, up, tries, current, persisted, outcome, sends, starts>>

\* Seeded fault: a row is taken out of the table with the mail.
TakeAndRemove == /\ stage[Recovery] = "done"
                 /\ \E m \in todo : /\ current' = m /\ todo' = todo \ {m}
                                    /\ row' = [row EXCEPT ![m] = "none"]
                 /\ Moves(Recovery, "send")
                 /\ UNCHANGED <<up, tries, persisted, outcome, sends, starts, faults>>

TakeNext == /\ stage[Recovery] = "done"
            /\ \E m \in todo : current' = m /\ todo' = todo \ {m}
            /\ Moves(Recovery, "send")
            /\ UNCHANGED <<row, up, tries, persisted, outcome, sends, starts, faults>>

\* The SMTP server takes n copies of a mail (none or one).
Take(m, n) == sends' = [sends EXCEPT ![m] = @ + n]

\* After deliver() comes finish(), which a mail that was not stored does without.
Delivered(w, how, n) ==
    LET m == MailOf(w)
    IN /\ stage[w] \in {"send", "send_unsaved"}
       /\ outcome' = [outcome EXCEPT ![m] = IF @ = "sent" THEN @ ELSE how]
       /\ Take(m, n)
       /\ tries' = [tries EXCEPT ![w] = 0]
       /\ Moves(w, IF stage[w] = "send_unsaved" THEN "done"
                   ELSE IF how = "sent" THEN "remove" ELSE "mark_dead")
       /\ UNCHANGED <<row, up, current, todo, persisted, starts, faults>>

Send(w) == Delivered(w, "sent", 1)

\* Seeded fault: an error that may pass is retried without end.
RetryForEver(w) ==
    /\ stage[w] \in {"send", "send_unsaved"}
    /\ tries' = [tries EXCEPT ![w] = (@ + 1) % (Retries + 1)]
    /\ UNCHANGED <<row, up, stage, current, todo, persisted, outcome, sends, starts, faults>>

\* Seeded fault: an error that may pass is tried once more than there are delays.
RetryOnceTooOften(w) ==
    /\ stage[w] \in {"send", "send_unsaved"}
    /\ tries[w] <= Retries
    /\ tries' = [tries EXCEPT ![w] = @ + 1]
    /\ \E n \in {0, 1} : Take(MailOf(w), n)
    /\ UNCHANGED <<row, up, stage, current, todo, persisted, outcome, starts, faults>>

\* An error that may pass is tried again after a delay, as often as there are delays.  It may be
\* the answer that was lost (a timeout, a broken connection): the server has the mail then.
Retry(w) == /\ stage[w] \in {"send", "send_unsaved"}
            /\ tries[w] < Retries
            /\ tries' = [tries EXCEPT ![w] = @ + 1]
            /\ \E n \in {0, 1} : Take(MailOf(w), n)
            /\ UNCHANGED <<row, up, stage, current, todo, persisted, outcome, starts, faults>>

\* A permanent error, or no retry left: then too it may be the answer that was lost.
GiveUp(w) == \/ Delivered(w, "gave_up", 0)
             \/ tries[w] = Retries /\ Delivered(w, "gave_up", 1)

\* The worker is done with its mail.
EndWork(w) == /\ Moves(w, "done")
              /\ current' = IF w = Recovery THEN NoMail ELSE current
              /\ UNCHANGED <<up, tries, todo, persisted, outcome, sends, starts>>

\* finish: the row goes when the mail was sent.
RemoveMail(w) == /\ stage[w] = "remove"
                 /\ \/ Works /\ row' = [row EXCEPT ![MailOf(w)] = "none"]
                    \/ Fault /\ UNCHANGED row
                 /\ EndWork(w)

\* finish: and is kept, as dead, when it was given up (no effect on a row that is gone).
MarkDead(w) == /\ stage[w] = "mark_dead"
               /\ \/ /\ Works
                     /\ row' = [row EXCEPT ![MailOf(w)] = IF @ = "none" THEN "none" ELSE "dead"]
                  \/ Fault /\ UNCHANGED row
               /\ EndWork(w)

\* prune_dead_mail, run by the cleanup job
PruneDead(m) == /\ up /\ row[m] = "dead"
                /\ row' = [row EXCEPT ![m] = "none"]
                /\ UNCHANGED <<up, stage, tries, current, todo, persisted, outcome, sends, starts,
                               faults>>

\* The process is gone, and every task with it.  The last process
\* of a behaviour is not stopped.
Stop == /\ up /\ starts < MaxStarts
        /\ up' = FALSE
        /\ stage' = [w \in Worker |-> IF stage[w] = "new" THEN "new" ELSE "done"]
        /\ tries' = [w \in Worker |-> 0]
        /\ current' = NoMail
        /\ todo' = {}
        /\ UNCHANGED <<row, persisted, outcome, sends, starts, faults>>

-----------------------------------------------------------------------------

WorkerStep(w) == Send(w) \/ Retry(w) \/ GiveUp(w) \/ RemoveMail(w) \/ MarkDead(w)

TaskStep == Select \/ TakeNext \/ \E m \in Mail : InsertMail(m)

OutboxNext == \/ Start \/ Stop
              \/ \E m \in Mail : Dispatch(m) \/ PruneDead(m)
              \/ TaskStep
              \/ \E w \in Worker : WorkerStep(w)

OutboxSpec == OutboxInit /\ [][OutboxNext]_outboxVars

\* A stopped service is started again, and Tokio polls the tasks.  SMTP may fail as it likes:
\* the retries are counted.
Fairness == /\ WF_outboxVars(Start)
            /\ WF_outboxVars(TaskStep)
            /\ \A w \in Worker : WF_outboxVars(WorkerStep(w))

FairSpec == OutboxSpec /\ Fairness

-----------------------------------------------------------------------------
(* Properties *)

\* A mail that was stored is in the table as pending until some delivery of it has come to an
\* end, whatever the process dies in the middle of ("a crash between rendering and sending is
\* recovered", service/mod.rs).
StoredUntilHandled == \A m \in persisted : outcome[m] = "open" => row[m] = "pending"

\* A recipient gets no more copies of a mail than attempts were allowed: Retries + 1 by the
\* mail's own task and as many by the recovery of each process that was started, although an
\* attempt that failed may have been delivered and two workers may be at the mail (deliver,
\* recover_pending).
ResendsAreBounded == \A m \in Mail : sends[m] <= (Retries + 1) * (1 + starts)

\* Every mail that was stored, in a form that can be read back, is sent or given up, crashes and
\* failing deliveries or not, unless the recovery task of the running process could not read the
\* table (recover_pending).
StoredMailIsHandled == \A m \in Readable :
    (m \in persisted) ~> (outcome[m] # "open" \/ stage[Recovery] = "failed")

=============================================================================
