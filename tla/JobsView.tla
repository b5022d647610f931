------------------------------- MODULE JobsView -------------------------------
(***************************************************************************)
(* internal/views/jobs.go with the table of internal/ui/components, the    *)
(* batch operations and the cached job manager of internal/dao: what the   *)
(* user sees of the jobs, what is selected in it and what is done to them. *)
(* The handlers of keys and dialogs run on the event queue of tview, one   *)
(* after the other; a refresh and every operation run in goroutines of     *)
(* their own, whose steps are the actions here.                            *)
(***************************************************************************)
EXTENDS SlurmCluster, SequencesExt, TLC

Cache == INSTANCE DAOCache

CONSTANTS
  InitialQueue,  \* the jobs there are when the program starts
  Outcome,       \* states in which a job ends by itself
  Text,          \* texts of the quick filter, all of them states, or empty
  MaxJobs,       \* bound: jobs, those made by requeueing included
  MaxKeys,       \* bound: keys pressed
  MaxTasks,      \* bound: operations under way at once
  MaxEvents,     \* bound: jobs the cluster starts or ends by itself
  MaxSize        \* entries of the cache

ASSUME JobsViewAssumption ==
  /\ InitialQueue \in Seq(JobState)
  /\ Outcome \subseteq Finished
  /\ Text \subseteq JobState \cup {""}
  /\ {MaxJobs, MaxKeys, MaxTasks, MaxEvents} \subseteq Nat
  /\ MaxSize \in Nat \ {0}

VARIABLES
  queue,         \* the jobs of the cluster
  entries,       \* lists in the cache
  fetch,         \* the refresh that is under way
  jobs,          \* the list on display
  stateFilter,   \* states asked for
  text,          \* quick filter
  descending,    \* the rows are sorted the other way round
  multi,         \* multi-select mode
  selectedRows,  \* row numbers that are checked
  selectedJobs,  \* jobs selected, as the view keeps them
  dialog,        \* the dialog on top of the view
  tasks,         \* goroutines that carry out an operation
  keys,          \* keys pressed
  events         \* jobs the cluster has started or ended

cluster == <<queue, events>>
table == <<text, descending, multi, selectedRows, selectedJobs>>
vars == <<cluster, entries, fetch, jobs, stateFilter, table, dialog, tasks, keys>>

Ids(list) == {list[i].id : i \in DOMAIN list}
Idle == [phase |-> "idle", states |-> {}, list |-> <<>>]
Dialog(kind, ops, ids) == [kind |-> kind, ops |-> ops, jobs |-> ids]
NoDialog == Dialog("none", {}, {})

\* The lists of jobs that are in the cache, by the states in their key.
StateFilters == {{}, {"PENDING"}}

Init ==
  /\ queue = InitialQueue /\ events = 0 /\ entries = <<>> /\ fetch = Idle
  /\ jobs = <<>> /\ stateFilter = {}
  /\ text = "" /\ descending = FALSE
  /\ multi = FALSE /\ selectedRows = {} /\ selectedJobs = {}
  /\ dialog = NoDialog /\ tasks = <<>> /\ keys = 0

(***************************************************************************)
(* The table: applyFilter and applySort give the rows, and the checked     *)
(* ones are kept by number.                                                *)
(***************************************************************************)

Matches(job, t) == t \in {"", job.state}

Shown(list, t, desc) ==
  LET kept == SelectSeq(list, LAMBDA job : Matches(job, t))
  IN IF desc THEN Reverse(kept) ELSE kept

Rows == Shown(jobs, text, descending)
Checked == selectedRows \cap DOMAIN Rows
SelectedIds == {Rows[r].id : r \in Checked}

\* GetSelectedData: some checked row, or else the one under the cursor, which
\* the user may have moved to any.
Current == IF multi /\ Checked # {} THEN Checked ELSE DOMAIN Rows

\* A mutant: the rows stay checked by their numbers.
SetDataByRow(list) ==
  /\ jobs' = list
  /\ UNCHANGED selectedRows

\* SetData: what was checked is checked again where it is now.
SetData(list) ==
  /\ jobs' = list
  /\ selectedRows' =
       IF multi /\ SelectedIds # {}
       THEN LET rows == Shown(list, text, descending)
            IN {r \in DOMAIN rows : rows[r].id \in SelectedIds}
       ELSE selectedRows

(***************************************************************************)
(* Refreshing.  One at a time: a request during another is dropped.  The   *)
(* timer of the application, key R, a change of filter and the end of an   *)
(* operation all do the same, so Refresh may happen at any time.           *)
(***************************************************************************)

Refresh ==
  /\ fetch.phase = "idle"
  /\ fetch' = IF Cache!Has(entries, stateFilter)
              THEN [phase |-> "got", states |-> stateFilter,
                    list |-> Cache!Get(entries, stateFilter)]
              ELSE [phase |-> "reading", states |-> stateFilter, list |-> <<>>]
  /\ UNCHANGED <<cluster, entries, jobs, stateFilter, table, dialog, tasks, keys>>

ReadList ==
  /\ fetch.phase = "reading"
  /\ fetch' = [fetch EXCEPT !.phase = "read", !.list = ListJobs(queue, fetch.states)]
  /\ UNCHANGED <<cluster, entries, jobs, stateFilter, table, dialog, tasks, keys>>

\* A mutant: the flag stays set after an error.
ReadFailsForGood ==
  /\ fetch.phase = "reading"
  /\ fetch' = [fetch EXCEPT !.phase = "failed"]
  /\ UNCHANGED <<cluster, entries, jobs, stateFilter, table, dialog, tasks, keys>>

\* The error is kept for the status line and the old list stays on display.
ReadFails ==
  /\ fetch.phase = "reading"
  /\ fetch' = Idle
  /\ UNCHANGED <<cluster, entries, jobs, stateFilter, table, dialog, tasks, keys>>

StoreList ==
  /\ fetch.phase = "read"
  /\ entries' = Cache!Set(entries, fetch.states, fetch.list, MaxSize)
  /\ fetch' = [fetch EXCEPT !.phase = "got"]
  /\ UNCHANGED <<cluster, jobs, stateFilter, table, dialog, tasks, keys>>

Display ==
  /\ fetch.phase = "got"
  /\ SetData(fetch.list)
  /\ fetch' = Idle
  /\ UNCHANGED <<cluster, entries, stateFilter, text, descending, multi, selectedJobs,
                 dialog, tasks, keys>>

Expire(states) ==
  /\ Cache!Has(entries, states)
  /\ entries' = Cache!Expire(entries, states)
  /\ UNCHANGED <<cluster, fetch, jobs, stateFilter, table, dialog, tasks, keys>>

(***************************************************************************)
(* Keys, which reach the view when no dialog is open.                      *)
(***************************************************************************)

Press ==
  /\ dialog = NoDialog
  /\ keys < MaxKeys
  /\ keys' = keys + 1

\* Keys p and a.
ToggleStateFilter(states) ==
  /\ Press
  /\ stateFilter' = IF stateFilter = states THEN {} ELSE states
  /\ UNCHANGED <<cluster, entries, fetch, jobs, table, dialog, tasks>>

OnFilterChange(t) ==
  /\ Press
  /\ t # text /\ text' = t
  /\ UNCHANGED <<cluster, entries, fetch, jobs, stateFilter, descending, multi,
                 selectedRows, selectedJobs, dialog, tasks>>

Sort ==
  /\ Press
  /\ descending' = ~descending
  /\ UNCHANGED <<cluster, entries, fetch, jobs, stateFilter, text, multi,
                 selectedRows, selectedJobs, dialog, tasks>>

\* Both ways: whatever was checked is forgotten when the mode is left.
ToggleMultiSelectMode ==
  /\ Press
  /\ multi' = ~multi
  /\ selectedRows' = IF multi THEN {} ELSE selectedRows
  /\ selectedJobs' = IF multi THEN {} ELSE selectedJobs
  /\ UNCHANGED <<cluster, entries, fetch, jobs, stateFilter, text, descending,
                 dialog, tasks>>

\* onSelectionChange: the view takes over the jobs in the checked rows.
Check(rows) ==
  /\ selectedRows' = rows
  /\ selectedJobs' = {Rows[r].id : r \in rows \cap DOMAIN Rows}
  /\ UNCHANGED <<cluster, entries, fetch, jobs, stateFilter, text, descending, multi,
                 dialog, tasks>>

ToggleRow(r) ==
  /\ Press /\ multi /\ r \in DOMAIN Rows
  /\ Check(IF r \in selectedRows THEN selectedRows \ {r} ELSE selectedRows \cup {r})

SelectAll ==
  /\ Press /\ multi
  /\ Check(selectedRows \cup DOMAIN Rows)

\* The operations a row offers, by the state it shows.
Offered(state) ==
  {op \in Operation :
     \/ op = "cancel" /\ state \in {"RUNNING", "PENDING"}
     \/ op = "hold" /\ state = "PENDING"
     \/ op = "release" /\ state \in {"SUSPENDED", "PENDING"}
     \/ op = "requeue" /\ state \in Finished}

Start(op, ids, batch) ==
  /\ Len(tasks) < MaxTasks
  /\ tasks' = Append(tasks, [op |-> op, todo |-> ids, calling |-> FALSE, batch |-> batch])

\* Cancelling and requeueing ask first, holding and releasing do not.
Asks == {"cancel", "requeue"}

Ask(op) ==
  /\ op \in Asks
  /\ \E r \in Current :
       /\ op \in Offered(Rows[r].state)
       /\ dialog' = Dialog("confirm", {op}, {Rows[r].id})
  /\ UNCHANGED <<cluster, entries, fetch, jobs, stateFilter, table, tasks>>

DoAtOnce(op) ==
  /\ op \in Operation \ Asks
  /\ \E r \in Current :
       /\ op \in Offered(Rows[r].state)
       /\ Start(op, {Rows[r].id}, FALSE)
  /\ UNCHANGED <<cluster, entries, fetch, jobs, stateFilter, table>>

\* Keys c, q, H and r.
OperateOnSelected(op) ==
  /\ Press
  /\ Ask(op) \/ (DoAtOnce(op) /\ UNCHANGED dialog)

\* Key x: a menu of what the row offers, where only a suspended job is released.
ShowJobActions ==
  /\ Press
  /\ \E r \in Current :
       dialog' = Dialog("actions", Offered(Rows[r].state)
                          \ (IF Rows[r].state = "PENDING" THEN {"release"} ELSE {}), {})
  /\ UNCHANGED <<cluster, entries, fetch, jobs, stateFilter, table, tasks>>

\* Its items are the handlers of the keys, which look at the table once more.
ChooseAction(op) ==
  /\ dialog.kind = "actions" /\ op \in dialog.ops
  /\ \/ Ask(op)
     \/ DoAtOnce(op) /\ dialog' = NoDialog
  /\ UNCHANGED keys

\* Key s, with the form filled in: the user interface waits for the answer.
\* Nothing is taken out of the cache.
SubmitJob ==
  /\ Press
  /\ Len(queue) < MaxJobs
  /\ queue' = Submit(queue)
  /\ UNCHANGED <<events, entries, fetch, jobs, stateFilter, table, dialog, tasks>>

\* What the batch dialog may open on, given the jobs the view keeps: the
\* checked rows, or else those jobs, or else the row under the cursor; and
\* when there is none, a menu to select by state.
BatchDialog(kept) ==
  IF multi /\ SelectedIds # {} THEN {Dialog("batch", Operation, SelectedIds)}
  ELSE IF kept \cap Ids(jobs) # {}
  THEN {Dialog("batch", Operation, kept \cap Ids(jobs))}
  ELSE IF Rows # <<>>
  THEN {Dialog("batch", Operation, {Rows[r].id}) : r \in Current}
  ELSE {Dialog("menu", {}, {})}

ShowBatchOperations ==
  /\ Press
  /\ dialog' \in BatchDialog(selectedJobs)
  /\ UNCHANGED <<cluster, entries, fetch, jobs, stateFilter, table, tasks>>

(***************************************************************************)
(* Dialogs.                                                                *)
(***************************************************************************)

\* The jobs a dialog names go to a goroutine.
ConfirmOne(op) ==
  /\ dialog.kind = "confirm" /\ op \in dialog.ops
  /\ dialog' = NoDialog
  /\ Start(op, dialog.jobs, FALSE)
  /\ UNCHANGED <<cluster, entries, fetch, jobs, stateFilter, table, keys>>

\* The batch dialog stays until that is done, and does not look at states.
ConfirmBatch(op) ==
  /\ dialog.kind = "batch" /\ op \in dialog.ops
  /\ dialog' = [dialog EXCEPT !.kind = "running"]
  /\ Start(op, dialog.jobs, TRUE)
  /\ UNCHANGED <<cluster, entries, fetch, jobs, stateFilter, table, keys>>

Dismiss ==
  /\ dialog.kind \in {"confirm", "batch", "menu", "actions"}
  /\ dialog' = NoDialog
  /\ UNCHANGED <<cluster, entries, fetch, jobs, stateFilter, table, tasks, keys>>

\* selectJobsByState, or the row under the cursor if one has come by now.
ChooseFromMenu(ids) ==
  /\ dialog.kind = "menu"
  /\ selectedJobs' = selectedJobs \cup ids
  /\ dialog' \in BatchDialog(selectedJobs')
  /\ UNCHANGED <<cluster, entries, fetch, jobs, stateFilter, text, descending, multi,
                 selectedRows, tasks, keys>>

MenuChoices ==
  {{job.id : job \in {j \in Range(jobs) : j.state = state}} : state \in {"RUNNING", "PENDING"}}
    \cup {{Rows[r].id} : r \in Current}

(***************************************************************************)
(* The goroutines of the operations: for each job the cached manager drops *)
(* the lists of jobs and then calls the cluster.                           *)
(***************************************************************************)

InvalidateLists(i) ==
  /\ tasks[i].todo # {} /\ ~tasks[i].calling
  /\ entries' = Cache!Invalidate(entries, StateFilters)
  /\ tasks' = [tasks EXCEPT ![i].calling = TRUE]
  /\ UNCHANGED <<cluster, fetch, jobs, stateFilter, table, dialog, keys>>

Call(i) ==
  /\ tasks[i].calling
  /\ \E job \in tasks[i].todo :
       /\ queue' = Perform(tasks[i].op, queue, job)
       /\ Len(queue') <= MaxJobs
       /\ tasks' = [tasks EXCEPT ![i].todo = @ \ {job}, ![i].calling = FALSE]
  /\ UNCHANGED <<events, entries, fetch, jobs, stateFilter, table, dialog, keys>>

Done(i) ==
  /\ tasks[i].todo = {}
  /\ tasks' = RemoveAt(tasks, i)
  /\ dialog' = IF tasks[i].batch THEN NoDialog ELSE dialog
  /\ UNCHANGED <<cluster, entries, fetch, jobs, stateFilter, table, keys>>

(***************************************************************************)
(* The cluster goes on by itself.                                          *)
(***************************************************************************)

Happens ==
  /\ events < MaxEvents
  /\ events' = events + 1
  /\ UNCHANGED <<entries, fetch, jobs, stateFilter, table, dialog, tasks, keys>>

Starts(job) ==
  /\ Happens
  /\ queue[job] = "PENDING"
  /\ queue' = [queue EXCEPT ![job] = "RUNNING"]

Ends(job) ==
  /\ Happens
  /\ queue[job] = "RUNNING"
  /\ \E outcome \in Outcome : queue' = [queue EXCEPT ![job] = outcome]

-----------------------------------------------------------------------------

Fetching == Refresh \/ ReadList \/ StoreList \/ Display

Next ==
  \/ Fetching
  \/ ReadFails
  \/ \E states \in StateFilters : Expire(states)
  \/ ToggleStateFilter({"PENDING"}) \/ ToggleStateFilter({})
  \/ \E t \in Text : OnFilterChange(t)
  \/ Sort
  \/ ToggleMultiSelectMode
  \/ \E r \in 1 .. MaxJobs : ToggleRow(r)
  \/ SelectAll
  \/ \E op \in Operation : OperateOnSelected(op) \/ ChooseAction(op)
                              \/ ConfirmOne(op) \/ ConfirmBatch(op)
  \/ ShowJobActions
  \/ SubmitJob
  \/ ShowBatchOperations
  \/ Dismiss
  \/ \E ids \in MenuChoices : ChooseFromMenu(ids)
  \/ \E i \in DOMAIN tasks : InvalidateLists(i) \/ Call(i) \/ Done(i)
  \/ \E job \in DOMAIN queue : Starts(job) \/ Ends(job)

\* The timer of the application refreshes the view it shows again and again,
\* goroutines run, an entry of the cache expires, and the cluster, however
\* often it fails, answers again.
Fairness ==
  /\ WF_vars(Refresh) /\ SF_vars(ReadList) /\ WF_vars(StoreList) /\ WF_vars(Display)
  /\ \A states \in StateFilters : WF_vars(Expire(states))

Spec == Init /\ [][Next]_vars
FairSpec == Spec /\ Fairness

(***************************************************************************)
(* What holds.                                                             *)
(***************************************************************************)

\* A refresh that brings the jobs in other rows, or without some of them,
\* leaves checked exactly the jobs that were and are still there.
SelectionFollowsJobs ==
  [][(jobs' # jobs /\ multi /\ SelectedIds # {}) =>
       SelectedIds' = SelectedIds \cap Ids(Rows')]_vars

\* Whatever the user saw when asking for it, and however late it comes, no
\* operation changes a job that is over: requeueing makes another one.
TerminalIsFinal ==
  [][\A job \in DOMAIN queue : queue[job] \in Finished => queue'[job] = queue[job]]_vars

\* In the end the view shows the jobs of the cluster that its filter asks for,
\* although requests to refresh are dropped, lists fail, and the list of a
\* moment before an operation may be stored in the cache after it.
ViewConverges == <>[](jobs = ListJobs(queue, stateFilter))

=============================================================================
