----------------------------- MODULE SlurmCluster -----------------------------
(***************************************************************************)
(* pkg/slurm/mock.go: what the operations of the program do to the jobs    *)
(* and the nodes of a cluster.  Each of them holds the lock of the client, *)
(* so each is a function from the table it finds to the table it leaves.   *)
(* What a real cluster does is behind the client library; the mock is how  *)
(* the repository says it behaves, and what it runs its own views against. *)
(***************************************************************************)
EXTENDS Integers, Sequences

Finished == {"COMPLETED", "FAILED", "CANCELLED"}
JobState == {"PENDING", "RUNNING", "SUSPENDED"} \cup Finished

\* A table of jobs is a sequence of states: a job is its place in it, since a
\* new job takes the number of jobs there are into its identifier and none is
\* ever taken out.

CancelJob(queue, job) ==
  [queue EXCEPT ![job] = IF @ \in {"RUNNING", "PENDING"} THEN "CANCELLED" ELSE @]

HoldJob(queue, job) ==
  [queue EXCEPT ![job] = IF @ = "PENDING" THEN "SUSPENDED" ELSE @]

ReleaseJob(queue, job) ==
  [queue EXCEPT ![job] = IF @ = "SUSPENDED" THEN "PENDING" ELSE @]

\* A job that is not over cannot be requeued, which is an error.
RequeueJob(queue, job) ==
  IF queue[job] \in Finished THEN Append(queue, "PENDING") ELSE queue

Submit(queue) == Append(queue, "PENDING")

\* The handlers of a job by the name of the operation.  Delete is Cancel.
Operation == {"cancel", "hold", "release", "requeue"}

Perform(op, queue, job) ==
  CASE op = "cancel" -> CancelJob(queue, job)
    [] op = "hold" -> HoldJob(queue, job)
    [] op = "release" -> ReleaseJob(queue, job)
    [] op = "requeue" -> RequeueJob(queue, job)

\* jobMatchesFilters and filterJobs for a filter by state; no state in the
\* filter asks for all of them.  The list is a copy, as the adapter's is; the
\* mock lends its own jobs.
ListJobs(queue, states) ==
  LET listed == [j \in 1 .. Len(queue) |-> [id |-> j, state |-> queue[j]]]
  IN SelectSeq(listed, LAMBDA job : states = {} \/ job.state \in states)

(***************************************************************************)
(* Nodes: a table of them is a sequence of [state, reason].                *)
(***************************************************************************)

NodeState == {"IDLE", "MIXED", "DRAIN", "DOWN"}
Reason == {"", "Not responding", "given"}

DrainNode(hosts, node) == [hosts EXCEPT ![node] = [state |-> "DRAIN", reason |-> "given"]]

\* A node that is not drained is left as it is, and that is no error.
ResumeNode(hosts, node) ==
  [hosts EXCEPT ![node] = IF @.state = "DRAIN" THEN [state |-> "IDLE", reason |-> ""] ELSE @]

\* A list has the nodes as they are, in the order of a Go map, which is any.
\* The filter by state is the cluster's, the one by partition the adapter's.
ListNodes(hosts, partition, states, wanted) ==
  [n \in {m \in DOMAIN hosts : /\ states = {} \/ hosts[m].state \in states
                               /\ wanted \in {"", partition[m]}} |-> hosts[n]]

=============================================================================
