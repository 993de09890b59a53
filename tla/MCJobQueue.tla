----------------------------- MODULE MCJobQueue -----------------------------
(* Instances of JobQueue for TLC. *)
EXTENDS JobQueue

CONSTANTS j1, j2, j3

\* One row left by a version of the program that had a handler for it.
MCInitJobs == [j \in JobId |-> IF j = j1 THEN NewJob("other") ELSE NoJob]

=============================================================================
