---------------------------- MODULE JobsViewProofs ----------------------------
(***************************************************************************)
(* Theorems about JobsView, for any queue at the beginning, any outcomes of*)
(* jobs, any texts and any bounds.                                         *)
(***************************************************************************)
EXTENDS JobsView, SequenceTheorems, TLAPS

-----------------------------------------------------------------------------

\* The jobs of the cluster and their states.
QueueTypes == queue \in Seq(JobState)

\* What goroutines carry out are operations.
TaskTypes == \E T : tasks \in Seq(T) /\ \A task \in T : task.op \in Operation

IInv == QueueTypes /\ TaskTypes

\* A job keeps its place, and its state if it is over.
Lasting(before, after) ==
  /\ after \in Seq(JobState)
  /\ \A job \in DOMAIN before : before[job] \in Finished => after[job] = before[job]

\* Whatever the operation and whatever the job, one that is over stays as it is.
LEMMA PerformLemma ==
  ASSUME NEW before \in Seq(JobState), NEW op \in Operation, NEW job
  PROVE  Lasting(before, Perform(op, before, job))
<1>1. DOMAIN before = 1 .. Len(before) /\ Len(before) \in Nat
  BY LenProperties
<1>2. \A i \in DOMAIN before : before[i] \in JobState
  BY <1>1, ElementOfSeq
<1>3. /\ "CANCELLED" \in Finished /\ "PENDING" \notin Finished /\ "SUSPENDED" \notin Finished
      /\ "RUNNING" \notin Finished /\ {"PENDING", "SUSPENDED", "CANCELLED"} \subseteq JobState
  BY DEF Finished, JobState
<1>4. ASSUME NEW s \in {"PENDING", "SUSPENDED", "CANCELLED"},
             job \in DOMAIN before => before[job] \notin Finished
      PROVE  Lasting(before, [before EXCEPT ![job] = s])
  <2>1. CASE job \in DOMAIN before
    <3>1. [before EXCEPT ![job] = s] \in Seq(JobState)
      BY <1>1, <1>3, <2>1, ExceptSeq
    <3> QED
      BY <1>4, <2>1, <3>1 DEF Lasting
  <2>2. CASE job \notin DOMAIN before
    <3>1. [before EXCEPT ![job] = s] = before
      BY <2>2
    <3> QED
      BY <3>1 DEF Lasting
  <2> QED
    BY <2>1, <2>2
<1>5. Lasting(before, before)
  BY DEF Lasting
<1>6. Lasting(before, Append(before, "PENDING"))
  <2>1. Append(before, "PENDING") \in Seq(JobState)
    BY <1>3, AppendProperties
  <2>2. \A i \in 1 .. Len(before) : Append(before, "PENDING")[i] = before[i]
    BY <1>3, AppendProperties
  <2> QED
    BY <1>1, <2>1, <2>2 DEF Lasting
<1>7. CASE op = "cancel"
  <2>1. Perform(op, before, job) = CancelJob(before, job)
    BY <1>7 DEF Perform
  <2>2. CASE before[job] \in {"RUNNING", "PENDING"}
    <3>1. CancelJob(before, job) = [before EXCEPT ![job] = "CANCELLED"]
      BY <2>2 DEF CancelJob
    <3> QED
      BY <1>3, <1>4, <2>1, <2>2, <3>1
  <2>3. CASE before[job] \notin {"RUNNING", "PENDING"}
    <3>1. CancelJob(before, job) = before
      BY <1>1, <2>3 DEF CancelJob
    <3> QED
      BY <1>5, <2>1, <3>1
  <2> QED
    BY <2>2, <2>3
<1>8. CASE op = "hold"
  <2>1. Perform(op, before, job) = HoldJob(before, job)
    BY <1>8 DEF Perform
  <2>2. CASE before[job] = "PENDING"
    <3>1. HoldJob(before, job) = [before EXCEPT ![job] = "SUSPENDED"]
      BY <2>2 DEF HoldJob
    <3> QED
      BY <1>3, <1>4, <2>1, <2>2, <3>1
  <2>3. CASE before[job] # "PENDING"
    <3>1. HoldJob(before, job) = before
      BY <1>1, <2>3 DEF HoldJob
    <3> QED
      BY <1>5, <2>1, <3>1
  <2> QED
    BY <2>2, <2>3
<1>9. CASE op = "release"
  <2>1. Perform(op, before, job) = ReleaseJob(before, job)
    BY <1>9 DEF Perform
  <2>2. CASE before[job] = "SUSPENDED"
    <3>1. ReleaseJob(before, job) = [before EXCEPT ![job] = "PENDING"]
      BY <2>2 DEF ReleaseJob
    <3> QED
      BY <1>3, <1>4, <2>1, <2>2, <3>1
  <2>3. CASE before[job] # "SUSPENDED"
    <3>1. ReleaseJob(before, job) = before
      BY <1>1, <2>3 DEF ReleaseJob
    <3> QED
      BY <1>5, <2>1, <3>1
  <2> QED
    BY <2>2, <2>3
<1>10. CASE op = "requeue"
  <2>1. Perform(op, before, job) \in {Append(before, "PENDING"), before}
    BY <1>10 DEF Perform, RequeueJob
  <2> QED
    BY <1>5, <1>6, <2>1
<1> QED
  BY <1>7, <1>8, <1>9, <1>10 DEF Operation

\* One more goroutine, for an operation.
LEMMA StartLemma ==
  ASSUME TaskTypes, NEW op \in Operation, NEW ids, NEW batch, Start(op, ids, batch)
  PROVE  TaskTypes'
<1>1. PICK T : tasks \in Seq(T) /\ \A task \in T : task.op \in Operation
  BY DEF TaskTypes
<1>2. PICK task : task = [op |-> op, todo |-> ids, calling |-> FALSE, batch |-> batch]
  OBVIOUS
<1>3. tasks' = Append(tasks, task) /\ task.op = op
  BY <1>2 DEF Start
<1> DEFINE U == T \cup {task}
<1>4. tasks \in Seq(U) /\ task \in U
  <2>1. tasks \in [1 .. Len(tasks) -> T] /\ Len(tasks) \in Nat
    BY <1>1, LenProperties
  <2>2. tasks \in [1 .. Len(tasks) -> U]
    BY <2>1
  <2> QED
    BY <2>1, <2>2, SeqDef
<1>5. tasks' \in Seq(U)
  <2> HIDE DEF U
  <2> QED
    BY <1>3, <1>4, AppendProperties
<1>6. \A t \in U : t.op \in Operation
  BY <1>1, <1>3
<1> HIDE DEF U
<1> QED
  BY <1>5, <1>6 DEF TaskTypes

\* A goroutine that goes on carries out the same operation.
LEMMA GoesOnLemma ==
  ASSUME TaskTypes, NEW i \in DOMAIN tasks, NEW task, task.op = tasks[i].op,
         tasks' = [tasks EXCEPT ![i] = task]
  PROVE  TaskTypes'
<1>1. PICK T : tasks \in Seq(T) /\ \A t \in T : t.op \in Operation
  BY DEF TaskTypes
<1>2. tasks \in [1 .. Len(tasks) -> T] /\ Len(tasks) \in Nat /\ DOMAIN tasks = 1 .. Len(tasks)
  BY <1>1, LenProperties
<1> DEFINE U == T \cup {task}
<1>3. tasks \in Seq(U) /\ task \in U
  <2>1. tasks \in [1 .. Len(tasks) -> U]
    BY <1>2
  <2> QED
    BY <1>2, <2>1, SeqDef
<1>4. tasks' \in Seq(U)
  <2> HIDE DEF U
  <2> QED
    BY <1>2, <1>3, ExceptSeq
<1>5. \A t \in U : t.op \in Operation
  <2>1. tasks[i] \in T
    BY <1>2
  <2> QED
    BY <1>1, <2>1
<1> HIDE DEF U
<1> QED
  BY <1>4, <1>5 DEF TaskTypes

\* A goroutine that is done leaves the others.
LEMMA DoneLemma ==
  ASSUME TaskTypes, NEW i \in DOMAIN tasks, Done(i)
  PROVE  TaskTypes'
<1>1. PICK T : tasks \in Seq(T) /\ \A t \in T : t.op \in Operation
  BY DEF TaskTypes
<1>2. PICK n \in Nat : n = Len(tasks) /\ DOMAIN tasks = 1 .. n /\ \A k \in 1 .. n : tasks[k] \in T
  BY <1>1, LenProperties, ElementOfSeq
<1>3. PICK m, p \in Int : m = i - 1 /\ p = i + 1
  BY <1>2
<1>4. SubSeq(tasks, 1, m) \in Seq(T)
  <2>1. \A k \in 1 .. m : tasks[k] \in T
    BY <1>2, <1>3
  <2>2. m \in Int /\ 1 \in Int
    BY <1>2, <1>3
  <2> QED
    BY <2>1, <2>2, SubSeqProperties
<1>5. SubSeq(tasks, p, n) \in Seq(T)
  <2>1. \A k \in p .. n : tasks[k] \in T
    BY <1>2, <1>3
  <2> QED
    BY <2>1, <1>2, <1>3, SubSeqProperties
<1>6. tasks' = SubSeq(tasks, 1, m) \o SubSeq(tasks, p, n)
  BY <1>2, <1>3 DEF Done, RemoveAt
<1>7. tasks' \in Seq(T)
  BY <1>4, <1>5, <1>6, ConcatProperties
<1> QED
  BY <1>1, <1>7 DEF TaskTypes

\* The steps that start goroutines, and those of the goroutines.
LEMMA TaskSteps ==
  ASSUME TaskTypes, Next
  PROVE  TaskTypes'
<1>1. CASE UNCHANGED tasks
  BY <1>1 DEF TaskTypes
<1>2. ASSUME NEW op \in Operation,
             OperateOnSelected(op) \/ ChooseAction(op) \/ ConfirmOne(op) \/ ConfirmBatch(op)
      PROVE  TaskTypes'
  <2>1. CASE \E ids, batch : Start(op, ids, batch)
    BY <2>1, StartLemma
  <2> QED
    BY <1>1, <1>2, <2>1
    DEF OperateOnSelected, ChooseAction, ConfirmOne, ConfirmBatch, Ask, DoAtOnce
<1>3. ASSUME NEW i \in DOMAIN tasks, InvalidateLists(i)
      PROVE  TaskTypes'
  <2>1. PICK task : task = [tasks[i] EXCEPT !.calling = TRUE]
    OBVIOUS
  <2>2. task.op = tasks[i].op
    BY <2>1
  <2>3. tasks' = [tasks EXCEPT ![i] = task]
    BY <1>3, <2>1 DEF InvalidateLists
  <2> QED
    BY <2>2, <2>3, GoesOnLemma
<1>4. ASSUME NEW i \in DOMAIN tasks, Call(i)
      PROVE  TaskTypes'
  <2>1. PICK job : tasks' = [tasks EXCEPT ![i].todo = @ \ {job}, ![i].calling = FALSE]
    BY <1>4 DEF Call
  <2>2. PICK task : task = [[tasks[i] EXCEPT !.todo = tasks[i].todo \ {job}]
                              EXCEPT !.calling = FALSE]
    OBVIOUS
  <2>3. task.op = tasks[i].op
    BY <2>2
  <2>4. tasks' = [tasks EXCEPT ![i] = task]
    BY <2>1, <2>2
  <2> QED
    BY <2>3, <2>4, GoesOnLemma
<1>5. ASSUME NEW i \in DOMAIN tasks, Done(i)
      PROVE  TaskTypes'
  BY <1>5, DoneLemma
<1>6. CASE Fetching \/ ReadFails \/ \E states \in StateFilters : Expire(states)
  BY <1>1, <1>6 DEF Fetching, Refresh, ReadList, StoreList, Display, ReadFails, Expire
<1>7. CASE \/ \E states : ToggleStateFilter(states)
           \/ \E t \in Text : OnFilterChange(t)
           \/ Sort \/ ToggleMultiSelectMode \/ SelectAll
           \/ \E r : ToggleRow(r)
  BY <1>1, <1>7 DEF ToggleStateFilter, OnFilterChange, Sort, ToggleMultiSelectMode,
    SelectAll, ToggleRow, Check
<1>8. CASE \/ ShowJobActions \/ SubmitJob \/ ShowBatchOperations \/ Dismiss
           \/ \E ids \in MenuChoices : ChooseFromMenu(ids)
           \/ \E job \in DOMAIN queue : Starts(job) \/ Ends(job)
  BY <1>1, <1>8 DEF ShowJobActions, SubmitJob, ShowBatchOperations, Dismiss,
    ChooseFromMenu, Starts, Ends, Happens
<1> QED
  BY <1>2, <1>3, <1>4, <1>5, <1>6, <1>7, <1>8 DEF Next

\* The steps that change the jobs of the cluster leave those that are over.
LEMMA QueueSteps ==
  ASSUME IInv, Next
  PROVE  Lasting(queue, queue')
<1>1. queue \in Seq(JobState)
  BY DEF IInv, QueueTypes
<1>2. DOMAIN queue = 1 .. Len(queue)
  BY <1>1, LenProperties
<1>3. CASE UNCHANGED queue
  BY <1>1, <1>3 DEF Lasting
<1>4. CASE SubmitJob
  <2>1. queue' = Append(queue, "PENDING")
    BY <1>4 DEF SubmitJob, Submit
  <2>2. "PENDING" \in JobState
    BY DEF JobState
  <2>3. queue' \in Seq(JobState) /\ \A job \in 1 .. Len(queue) : queue'[job] = queue[job]
    BY <1>1, <2>1, <2>2, AppendProperties
  <2> QED
    BY <1>2, <2>3 DEF Lasting
<1>5. ASSUME NEW i \in DOMAIN tasks, Call(i)
      PROVE  Lasting(queue, queue')
  <2>1. PICK op : op = tasks[i].op
    OBVIOUS
  <2>2. op \in Operation
    <3>1. PICK T : tasks \in Seq(T) /\ \A task \in T : task.op \in Operation
      BY DEF IInv, TaskTypes
    <3>2. tasks[i] \in T
      BY <3>1, LenProperties, ElementOfSeq
    <3> QED
      BY <2>1, <3>1, <3>2
  <2>3. PICK job : queue' = Perform(op, queue, job)
    BY <1>5, <2>1 DEF Call
  <2> QED
    BY <1>1, <2>2, <2>3, PerformLemma
<1>6. ASSUME NEW job \in DOMAIN queue, Starts(job) \/ Ends(job)
      PROVE  Lasting(queue, queue')
  <2>1. PICK s \in {"RUNNING"} \cup Finished :
          queue' = [queue EXCEPT ![job] = s] /\ queue[job] \notin Finished
    BY <1>6, JobsViewAssumption DEF Starts, Ends, Finished
  <2>2. s \in JobState
    BY DEF JobState
  <2>3. queue' \in Seq(JobState)
    BY <1>1, <1>2, <2>1, <2>2, ExceptSeq
  <2> QED
    BY <1>2, <2>1, <2>3 DEF Lasting
<1>7. CASE Fetching \/ ReadFails \/ \E states \in StateFilters : Expire(states)
  BY <1>3, <1>7 DEF Fetching, Refresh, ReadList, StoreList, Display, ReadFails, Expire, cluster
<1>8. CASE \/ \E states : ToggleStateFilter(states)
           \/ \E t \in Text : OnFilterChange(t)
           \/ Sort \/ ToggleMultiSelectMode \/ SelectAll
           \/ \E r : ToggleRow(r)
  BY <1>3, <1>8 DEF ToggleStateFilter, OnFilterChange, Sort, ToggleMultiSelectMode,
    SelectAll, ToggleRow, Check, cluster
<1>9. CASE \/ ShowJobActions \/ ShowBatchOperations \/ Dismiss
           \/ \E ids \in MenuChoices : ChooseFromMenu(ids)
           \/ \E i \in DOMAIN tasks : InvalidateLists(i) \/ Done(i)
  BY <1>3, <1>9 DEF ShowJobActions, ShowBatchOperations, Dismiss, ChooseFromMenu,
    InvalidateLists, Done, cluster
<1>10. CASE \E op \in Operation : OperateOnSelected(op) \/ ChooseAction(op)
                                    \/ ConfirmOne(op) \/ ConfirmBatch(op)
  BY <1>3, <1>10 DEF OperateOnSelected, ChooseAction, ConfirmOne, ConfirmBatch, Ask, DoAtOnce,
    cluster
<1> QED
  BY <1>4, <1>5, <1>6, <1>7, <1>8, <1>9, <1>10 DEF Next

\* The types hold in every state.
THEOREM TypeCorrect == Spec => []IInv
<1>1. Init => IInv
  <2> SUFFICES ASSUME Init
               PROVE  IInv
    OBVIOUS
  <2>1. queue \in Seq(JobState)
    BY JobsViewAssumption DEF Init
  <2>2. tasks \in Seq({}) /\ \A task \in {} : task.op \in Operation
    BY EmptySeq DEF Init
  <2> QED
    BY <2>1, <2>2 DEF IInv, QueueTypes, TaskTypes
<1>2. IInv /\ [Next]_vars => IInv'
  <2> SUFFICES ASSUME IInv, [Next]_vars
               PROVE  IInv'
    OBVIOUS
  <2>1. CASE Next
    BY <2>1, TaskSteps, QueueSteps DEF IInv, QueueTypes, Lasting
  <2>2. CASE UNCHANGED vars
    BY <2>2 DEF IInv, QueueTypes, TaskTypes, vars, cluster
  <2> QED
    BY <2>1, <2>2
<1> QED
  BY <1>1, <1>2, PTL DEF Spec

\* No operation changes a job that is over, whatever the view showed when it was asked
\* for and however late it comes.
THEOREM OverIsOver == Spec => TerminalIsFinal
<1>1. IInv /\ [Next]_vars =>
        [\A job \in DOMAIN queue : queue[job] \in Finished => queue'[job] = queue[job]]_vars
  <2> SUFFICES ASSUME IInv, Next
               PROVE  \A job \in DOMAIN queue : queue[job] \in Finished => queue'[job] = queue[job]
    OBVIOUS
  <2> QED
    BY QueueSteps DEF Lasting
<1> QED
  BY <1>1, TypeCorrect, PTL DEF Spec, TerminalIsFinal

\* The new list shows the rows that were checked, wherever they are now.
LEMMA DisplayLemma ==
  ASSUME Display, multi, SelectedIds # {}
  PROVE  SelectedIds' = SelectedIds \cap Ids(Rows')
<1>1. PICK rows : rows = Shown(fetch.list, text, descending)
  OBVIOUS
<1>2. Rows' = rows
  BY <1>1 DEF Display, SetData, Rows
<1>3. PICK ids : ids = SelectedIds
  OBVIOUS
<1>4. selectedRows' = {r \in DOMAIN rows : rows[r].id \in ids}
  BY <1>1, <1>3 DEF Display, SetData
<1>5. SelectedIds' = {rows[r].id : r \in selectedRows' \cap DOMAIN rows}
  BY <1>2 DEF SelectedIds, Checked
<1>6. Ids(Rows') = {rows[r].id : r \in DOMAIN rows}
  BY <1>2 DEF Ids
<1>7. {rows[r].id : r \in selectedRows' \cap DOMAIN rows}
        = ids \cap {rows[r].id : r \in DOMAIN rows}
  BY <1>4
<1> QED
  BY <1>3, <1>5, <1>6, <1>7

\* Only a refresh brings another list.
LEMMA OthersKeepList ==
  ASSUME Next, jobs' # jobs
  PROVE  Display
<1>1. CASE Fetching \/ ReadFails \/ \E states \in StateFilters : Expire(states)
  BY <1>1 DEF Fetching, Refresh, ReadList, StoreList, ReadFails, Expire
<1>2. CASE \/ \E states : ToggleStateFilter(states)
           \/ \E t \in Text : OnFilterChange(t)
           \/ Sort \/ ToggleMultiSelectMode \/ SelectAll
           \/ \E r : ToggleRow(r)
  BY <1>2 DEF ToggleStateFilter, OnFilterChange, Sort, ToggleMultiSelectMode,
    SelectAll, ToggleRow, Check
<1>3. CASE \/ ShowJobActions \/ SubmitJob \/ ShowBatchOperations \/ Dismiss
           \/ \E ids \in MenuChoices : ChooseFromMenu(ids)
           \/ \E i \in DOMAIN tasks : InvalidateLists(i) \/ Call(i) \/ Done(i)
           \/ \E job \in DOMAIN queue : Starts(job) \/ Ends(job)
  BY <1>3 DEF ShowJobActions, SubmitJob, ShowBatchOperations, Dismiss, ChooseFromMenu,
    InvalidateLists, Call, Done, Starts, Ends, Happens
<1>4. CASE \E op \in Operation : OperateOnSelected(op) \/ ChooseAction(op)
                                    \/ ConfirmOne(op) \/ ConfirmBatch(op)
  BY <1>4 DEF OperateOnSelected, ChooseAction, ConfirmOne, ConfirmBatch, Ask, DoAtOnce
<1> QED
  BY <1>1, <1>2, <1>3, <1>4 DEF Next

\* A refresh leaves checked exactly the jobs that were and are still there, whatever the
\* filter, the order and the lists.
THEOREM SelectionIsKept == Spec => SelectionFollowsJobs
<1>1. [Next]_vars =>
        [(jobs' # jobs /\ multi /\ SelectedIds # {}) =>
           SelectedIds' = SelectedIds \cap Ids(Rows')]_vars
  BY DisplayLemma, OthersKeepList
<1> QED
  BY <1>1, PTL DEF Spec, SelectionFollowsJobs

=============================================================================
