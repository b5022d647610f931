------------------------------ MODULE MCJobsView ------------------------------
\* JobsView for TLC: a running and a pending job.
EXTENDS JobsView

MCInitialQueue == <<"RUNNING", "PENDING">>

=============================================================================
