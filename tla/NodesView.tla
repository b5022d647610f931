------------------------------- MODULE NodesView -------------------------------
(***************************************************************************)
(* internal/views/nodes.go with the table of internal/ui/components and    *)
(* the cached node manager of internal/dao.  As in JobsView the handlers   *)
(* run one after the other on the event queue, and a refresh and every     *)
(* call of the cluster or of ssh in a goroutine.  Rows are made anew only  *)
(* where the code does so, and dialogs lie on each other, since goroutines *)
(* open theirs whenever they are done.                                     *)
(***************************************************************************)
EXTENDS SlurmCluster, SequencesExt

Cache == INSTANCE DAOCache

CONSTANTS
  InitialHosts,    \* the nodes there are when the program starts
  InitialGroupBy,  \* groupNodesBy of the configuration
  InitialStates,   \* the states toggled on before the first list has come
  Partition,       \* the partition of each node, or NoPartition
  MaxKeys,         \* bound: keys pressed
  MaxTasks,        \* bound: goroutines at work at once
  MaxSize          \* entries of the cache

NoPartition == "<no partition>"
Node == 1 .. Len(InitialHosts)
Toggled == {"IDLE", "MIXED"}   \* states with a key of their own
Grouping == {"none", "partition", "state"}   \* by feature is like by partition

VARIABLES
  hosts,           \* the nodes of the cluster
  entries,         \* lists in the cache
  fetch,           \* the refresh that is under way
  nodes,           \* the list the view keeps: the nodes in it, as they were
  array, used,     \* stateFilter: its array, and how much of it is the slice
  partFilter,      \* partition asked for
  advancedFilter,  \* state the advanced filter asks for
  groupBy, groupExpanded,
  sorted,          \* the table sorts its rows
  rows,            \* what was last put into the table, in whatever order
  pages,           \* the dialogs, the one in front last
  tasks,           \* goroutines
  keys

filter == <<array, used, partFilter>>
look == <<advancedFilter, groupBy, groupExpanded, sorted, rows>>
nodesVars == <<hosts, entries, fetch, nodes, filter, look, pages, tasks, keys>>

Idle == [phase |-> "idle", len |-> 0, copy |-> <<>>, own |-> FALSE, wanted |-> "",
         key |-> <<>>, list |-> <<>>]

Init ==
  /\ hosts = InitialHosts /\ entries = <<>> /\ fetch = Idle
  /\ nodes = <<>> /\ array = InitialStates /\ used = Len(array) /\ partFilter = ""
  /\ advancedFilter = "" /\ groupBy = InitialGroupBy /\ groupExpanded = {}
  /\ sorted = FALSE /\ rows = {}
  /\ pages = <<>> /\ tasks = <<>> /\ keys = 0

(***************************************************************************)
(* Rows.  Grouped ones ignore the advanced filter.  Groups as well as nodes*)
(* come in the order of a Go map, by which nothing is decided.             *)
(***************************************************************************)

DisplayState(node) ==
  IF node.state = "IDLE" /\ node.reason = "given" THEN "IDLE+DRAIN" ELSE node.state

NodeRow(list, n) == [group |-> "", id |-> n, state |-> DisplayState(list[n])]
Header(name) == [group |-> name, id |-> 0, state |-> ""]

GroupOf(list, n, by) == IF by = "state" THEN list[n].state ELSE Partition[n]
GroupNodes(list, by) == {GroupOf(list, n, by) : n \in DOMAIN list}

Flat(list, wanted, advanced) ==
  {NodeRow(list, n) : n \in {m \in DOMAIN list : /\ wanted \in {"", Partition[m]}
                                                 /\ advanced \in {"", list[m].state}}}

Grouped(list, by, expanded) ==
  {Header(name) : name \in GroupNodes(list, by)}
    \cup {NodeRow(list, n) : n \in {m \in DOMAIN list : GroupOf(list, m, by) \in expanded}}

\* What updateTable puts into the table.
Table(list, wanted, advanced, by, expanded) ==
  IF by = "none" THEN Flat(list, wanted, advanced) ELSE Grouped(list, by, expanded)

(***************************************************************************)
(* Refreshing, one at a time.  The goroutine is handed the slice of the    *)
(* state filter, not its elements: it reads them for the key of the cache  *)
(* and again for the request, and the keys that toggle a state move them   *)
(* in the same array meanwhile.                                            *)
(***************************************************************************)

Elements == IF fetch.own THEN fetch.copy ELSE SubSeq(array, 1, fetch.len)

Refresh ==
  /\ fetch.phase = "idle"
  /\ fetch' = [Idle EXCEPT !.phase = "started", !.len = used, !.wanted = partFilter]
  /\ UNCHANGED <<hosts, entries, nodes, filter, look, pages, tasks, keys>>

BuildKey ==
  /\ fetch.phase = "started"
  /\ LET key == <<Elements, fetch.wanted>>
     IN fetch' = IF Cache!Has(entries, key)
                 THEN [fetch EXCEPT !.phase = "got", !.list = Cache!Get(entries, key)]
                 ELSE [fetch EXCEPT !.phase = "reading", !.key = key]
  /\ UNCHANGED <<hosts, entries, nodes, filter, look, pages, tasks, keys>>

ReadList ==
  /\ fetch.phase = "reading"
  /\ fetch' = [fetch EXCEPT !.phase = "read",
                 !.list = ListNodes(hosts, Partition, Range(Elements), fetch.wanted)]
  /\ UNCHANGED <<hosts, entries, nodes, filter, look, pages, tasks, keys>>

ReadFails ==
  /\ fetch.phase = "reading"
  /\ fetch' = Idle
  /\ UNCHANGED <<hosts, entries, nodes, filter, look, pages, tasks, keys>>

StoreList ==
  /\ fetch.phase = "read"
  /\ entries' = Cache!Set(entries, fetch.key, fetch.list, MaxSize)
  /\ fetch' = [fetch EXCEPT !.phase = "got"]
  /\ UNCHANGED <<hosts, nodes, filter, look, pages, tasks, keys>>

\* A mutant: the rows are left as they are.
DisplayNothing ==
  /\ fetch.phase = "got"
  /\ fetch' = Idle
  /\ nodes' = fetch.list
  /\ UNCHANGED <<hosts, entries, filter, look, pages, tasks, keys>>

Display ==
  /\ fetch.phase = "got"
  /\ fetch' = Idle
  /\ nodes' = fetch.list
  /\ rows' = Table(nodes', partFilter, advancedFilter, groupBy, groupExpanded)
  /\ UNCHANGED <<hosts, entries, filter, advancedFilter, groupBy, groupExpanded, sorted, pages, tasks, keys>>

Expire(key) ==
  /\ entries' = Cache!Expire(entries, key)
  /\ UNCHANGED <<hosts, fetch, nodes, filter, look, pages, tasks, keys>>

(***************************************************************************)
(* Dialogs.  A page replaces the one of its name, and keys go to the one   *)
(* in front.                                                               *)
(***************************************************************************)

RemovePage(stack, name) == RemoveFirstMatch(stack, LAMBDA p : p.name = name)
AddPage(stack, name, node) == Append(RemovePage(stack, name), [name |-> name, node |-> node])

\* Those that close by OK, Escape, No or Cancel and leave nothing behind, an
\* ssh that has the terminal to itself included.
Closes == {"error", "notification", "node-details", "node-info", "drain-input",
           "resume-confirm", "partition-filter", "group-by", "sort-by",
           "ssh-options", "success"}

InFront(name) == pages # <<>> /\ Last(pages).name = name

Dismiss ==
  /\ pages # <<>> /\ Last(pages).name \in Closes
  /\ pages' = RemovePage(pages, Last(pages).name)
  /\ UNCHANGED <<hosts, entries, fetch, nodes, filter, look, tasks, keys>>

(***************************************************************************)
(* Keys.                                                                   *)
(***************************************************************************)

Press == pages = <<>> /\ keys < MaxKeys /\ keys' = keys + 1

\* The fetch keeps the old array when the filter gets another.
Detach == [fetch EXCEPT !.copy = Elements, !.own = TRUE]

\* Keys i and m: a state goes from the middle by moving up what follows it.
ToggleStateFilter(s) ==
  /\ Press
  /\ IF \E i \in 1 .. used : array[i] = s
     THEN LET i == CHOOSE i \in 1 .. used : array[i] = s
          IN /\ array' = [k \in DOMAIN array |-> IF k \in i .. used - 1 THEN array[k + 1]
                                                                       ELSE array[k]]
             /\ used' = used - 1
             /\ UNCHANGED fetch
     ELSE /\ used' = used + 1
          /\ IF used < Len(array)
             THEN array' = [array EXCEPT ![used + 1] = s] /\ UNCHANGED fetch
             ELSE array' = Append(array, s) /\ fetch' = Detach
  /\ UNCHANGED <<hosts, entries, nodes, partFilter, look, pages, tasks>>

\* Key a.
ShowAllStates ==
  /\ Press
  /\ array' = <<>> /\ used' = 0 /\ fetch' = Detach
  /\ UNCHANGED <<hosts, entries, nodes, partFilter, look, pages, tasks>>

\* What is typed as p:name; the rows wait for the refresh.
OnFilterChange(wanted) ==
  /\ Press
  /\ partFilter' = wanted
  /\ UNCHANGED <<hosts, entries, fetch, nodes, array, used, look, pages, tasks>>

\* Another view asks for the nodes of a partition.
SetPartitionFilter(wanted) ==
  /\ Press
  /\ partFilter' = wanted
  /\ rows' = Table(nodes, wanted, advancedFilter, groupBy, groupExpanded)
  /\ UNCHANGED <<hosts, entries, fetch, nodes, array, used, advancedFilter, groupBy,
                 groupExpanded, sorted, pages, tasks>>

\* Key f, the filter, and Escape.
OnAdvancedFilterChange(state) ==
  /\ Press
  /\ advancedFilter' = state
  /\ rows' = Table(nodes, partFilter, state, groupBy, groupExpanded)
  /\ UNCHANGED <<hosts, entries, fetch, nodes, filter, groupBy, groupExpanded, sorted, pages, tasks>>

\* Keys that only open a dialog: p and g.
Prompt(name) ==
  /\ Press
  /\ pages' = AddPage(pages, name, 0)
  /\ UNCHANGED <<hosts, entries, fetch, nodes, filter, look, tasks>>

EnterPartition(wanted) ==
  /\ InFront("partition-filter")
  /\ partFilter' = wanted
  /\ pages' = RemovePage(pages, "partition-filter")
  /\ UNCHANGED <<hosts, entries, fetch, nodes, array, used, look, tasks, keys>>

SetGroupBy(by) ==
  /\ InFront("group-by")
  /\ groupBy' = by
  /\ sorted' = (sorted /\ by = "none")
  /\ groupExpanded' = IF by = "none" THEN groupExpanded
                      ELSE groupExpanded \cup GroupNodes(nodes, by)
  /\ rows' = Table(nodes, partFilter, advancedFilter, by, groupExpanded')
  /\ pages' = RemovePage(pages, "group-by")
  /\ UNCHANGED <<hosts, entries, fetch, nodes, filter, advancedFilter, tasks, keys>>

\* Key S: groups are given up before it is known whether the rows get sorted.
PromptSortBy ==
  /\ Press
  /\ groupBy' = "none"
  /\ rows' = IF groupBy = "none" THEN rows
             ELSE Table(nodes, partFilter, advancedFilter, "none", groupExpanded)
  /\ pages' = AddPage(pages, "sort-by", 0)
  /\ UNCHANGED <<hosts, entries, fetch, nodes, filter, advancedFilter, groupExpanded,
                 sorted, tasks>>

Sort ==
  /\ InFront("sort-by")
  /\ sorted' = TRUE
  /\ pages' = RemovePage(pages, "sort-by")
  /\ UNCHANGED <<hosts, entries, fetch, nodes, filter, advancedFilter, groupBy,
                 groupExpanded, rows, tasks, keys>>

\* Space or Enter on the header of a group.  The name is taken from the text
\* of the header up to the next space: no group called so is the one that has
\* no partition.
ToggleGroupExpansion(row) ==
  /\ Press
  /\ groupBy # "none" /\ row.group # ""
  /\ LET name == row.group
     IN groupExpanded' = CASE name = NoPartition -> groupExpanded
                           [] name \in groupExpanded -> groupExpanded \ {name}
                           [] OTHER -> groupExpanded \cup {name}
  /\ rows' = Table(nodes, partFilter, advancedFilter, groupBy, groupExpanded')
  /\ UNCHANGED <<hosts, entries, fetch, nodes, filter, advancedFilter, groupBy, sorted, pages, tasks>>

Known(n) == n \in DOMAIN nodes

\* A result of the global search.  Clearing the text of the filter clears the
\* partition; the advanced filter is cleared without making the rows anew.  (The
\* cursor is put on the row of that number in the list of nodes, counted from
\* the header, whatever node it shows; operations may be on any row below.)
FocusOnNode(n) ==
  /\ Press
  /\ Known(n)
  /\ partFilter' = "" /\ advancedFilter' = ""
  /\ UNCHANGED <<hosts, entries, fetch, nodes, array, used, groupBy, groupExpanded, sorted,
                 rows, pages, tasks>>

(***************************************************************************)
(* Operations on the node under the cursor, which may be on any row.     *)
(***************************************************************************)

OnNode(row) == Press /\ row.group = ""

\* Key d.
DrainSelectedNode(row) ==
  /\ OnNode(row) /\ row.state # "DOWN"
  /\ pages' = AddPage(pages, "drain-input", row.id)
  /\ UNCHANGED <<hosts, entries, fetch, nodes, filter, look, tasks>>

IsNodeDrained(row) == row.state \in {"DRAIN", "IDLE+DRAIN"} \/ nodes[row.id].reason = "given"

\* Key r: the state is that of the row, the reason that of the node.
ResumeSelectedNode(row) ==
  /\ OnNode(row) /\ Known(row.id)
  /\ pages' = AddPage(pages, IF IsNodeDrained(row) THEN "resume-confirm" ELSE "error", row.id)
  /\ UNCHANGED <<hosts, entries, fetch, nodes, filter, look, tasks>>

Go(op, n) ==
  /\ Len(tasks) < MaxTasks
  /\ tasks' = Append(tasks, [op |-> op, node |-> n, phase |-> "begins", ok |-> FALSE])

\* Key Enter.
ShowNodeDetails(row) ==
  /\ OnNode(row) /\ Go("details", row.id)
  /\ UNCHANGED <<hosts, entries, fetch, nodes, filter, look, pages>>

\* Key s.  The warning is meant for nodes that are down or drained, but looks
\* at the column of the partitions.
SshToNode(row) ==
  /\ OnNode(row)
  /\ \E name \in {"error", "ssh-options"} : pages' = AddPage(pages, name, row.id)
  /\ UNCHANGED <<hosts, entries, fetch, nodes, filter, look, tasks>>

\* Enter and Yes leave the dialog to the goroutine, and may come again before
\* it has closed it.
Confirm(name, op) ==
  /\ InFront(name)
  /\ Go(op, Last(pages).node)
  /\ UNCHANGED <<hosts, entries, fetch, nodes, filter, look, pages, keys>>

\* Test and information, during which there is a dialog without a button.
ChooseSsh(op) ==
  /\ InFront("ssh-options")
  /\ Go(op, Last(pages).node)
  /\ pages' = AddPage(RemovePage(pages, "ssh-options"), "progress", 0)
  /\ UNCHANGED <<hosts, entries, fetch, nodes, filter, look, keys>>

(***************************************************************************)
(* The goroutines of the operations.                                       *)
(***************************************************************************)

Mutates == {"drain", "resume"}
PromptOf(op) == IF op = "drain" THEN "drain-input" ELSE "resume-confirm"

Step(i, phase) == tasks' = [tasks EXCEPT ![i].phase = phase]

ClosePrompt(i) ==
  /\ tasks[i].op \in Mutates /\ tasks[i].phase = "begins"
  /\ pages' = RemovePage(pages, PromptOf(tasks[i].op))
  /\ Step(i, "closed")
  /\ UNCHANGED <<hosts, entries, fetch, nodes, filter, look, keys>>

InvalidateLists(i) ==
  /\ tasks[i].phase = "closed"
  /\ entries' = <<>>
  /\ Step(i, "calling")
  /\ UNCHANGED <<hosts, fetch, nodes, filter, look, pages, keys>>

Call(i) ==
  /\ tasks[i].phase = "calling"
  /\ \/ /\ hosts' = IF tasks[i].op = "drain" THEN DrainNode(hosts, tasks[i].node)
                                             ELSE ResumeNode(hosts, tasks[i].node)
        /\ tasks' = [tasks EXCEPT ![i] = [@ EXCEPT !.phase = "answered", !.ok = TRUE]]
     \/ /\ tasks' = [tasks EXCEPT ![i] = [@ EXCEPT !.phase = "answered", !.ok = FALSE]]
        /\ UNCHANGED hosts
  /\ UNCHANGED <<entries, fetch, nodes, filter, look, pages, keys>>

\* What a request that changes nothing brings; without details there is none.
QueryNode(i) ==
  /\ tasks[i].op \notin Mutates /\ tasks[i].phase = "begins"
  /\ \E ok \in BOOLEAN :
       tasks' = IF tasks[i].op = "details" /\ ~ok THEN RemoveAt(tasks, i)
                ELSE [tasks EXCEPT ![i] = [@ EXCEPT !.phase = "answered", !.ok = ok]]
  /\ UNCHANGED <<hosts, entries, fetch, nodes, filter, look, pages, keys>>

ResultPage(task) ==
  IF ~task.ok THEN "error"
  ELSE CASE task.op \in Mutates -> "success"
         [] task.op = "details" -> "node-details"
         [] task.op = "test" -> "notification"
         [] task.op = "info" -> "node-info"

ShowResult(i) ==
  /\ tasks[i].phase = "answered"
  /\ LET stack == IF tasks[i].op \in {"test", "info"} THEN RemovePage(pages, "progress")
                                                      ELSE pages
     IN pages' = AddPage(stack, ResultPage(tasks[i]), 0)
  /\ tasks' = RemoveAt(tasks, i)
  /\ UNCHANGED <<hosts, entries, fetch, nodes, filter, look, keys>>

-----------------------------------------------------------------------------

Wanted == {"", "batch"}

AtTask(i) == ClosePrompt(i) \/ InvalidateLists(i) \/ Call(i) \/ QueryNode(i) \/ ShowResult(i)

NodesNext ==
  \/ Refresh
  \/ BuildKey
  \/ ReadList
  \/ ReadFails
  \/ StoreList
  \/ Display
  \/ \E i \in DOMAIN entries : Expire(entries[i].key)
  \/ Dismiss
  \/ \E s \in Toggled : ToggleStateFilter(s)
  \/ ShowAllStates
  \/ \E wanted \in Wanted : OnFilterChange(wanted)
  \/ \E wanted \in Wanted : SetPartitionFilter(wanted)
  \/ \E wanted \in Wanted : EnterPartition(wanted)
  \/ \E state \in {"", "IDLE"} : OnAdvancedFilterChange(state)
  \/ \E name \in {"partition-filter", "group-by"} : Prompt(name)
  \/ \E by \in Grouping : SetGroupBy(by)
  \/ PromptSortBy
  \/ Sort
  \/ \E n \in Node : FocusOnNode(n)
  \/ \E row \in rows : \/ ToggleGroupExpansion(row)
                       \/ DrainSelectedNode(row)
                       \/ ResumeSelectedNode(row)
                       \/ ShowNodeDetails(row)
                       \/ SshToNode(row)
  \/ Confirm("drain-input", "drain") \/ Confirm("resume-confirm", "resume")
  \/ ChooseSsh("test") \/ ChooseSsh("info")
  \/ \E i \in DOMAIN tasks : AtTask(i)

\* Of these never more than one can be taken.
Fetching == Refresh \/ BuildKey \/ StoreList \/ Display

-----------------------------------------------------------------------------

States == {array[i] : i \in 1 .. used}

\* Rows are not sorted and grouped at once, as comments say at promptSortBy and
\* at setGroupBy.
NodesTypeOK ==
  /\ sorted => groupBy = "none"
  /\ hosts \in [Node -> [state : NodeState, reason : Reason]]
  /\ DOMAIN nodes \subseteq Node /\ \A n \in DOMAIN nodes : nodes[n].state \in NodeState
  /\ Range(array) \subseteq Toggled /\ used \in 0 .. Len(array) /\ Cardinality(States) = used
  /\ fetch.phase \in {"idle", "started", "reading", "read", "got"} /\ fetch.len <= 2
  /\ groupBy \in Grouping
  /\ \A i \in DOMAIN pages : pages[i].node \in {0} \cup Node
  /\ \A i, j \in DOMAIN pages : pages[i].name = pages[j].name => i = j
  /\ keys \in 0 .. MaxKeys /\ Len(tasks) <= MaxTasks

\* In the end the view has the nodes that its filters ask for, whichever states
\* a fetch has read out of the array while keys moved them, and stored under a
\* key they do not belong to; the table shows what the view has, although many
\* keys change what it should show without making it anew; and no dialog is
\* left that cannot be closed.
Settled ==
  /\ nodes = ListNodes(hosts, Partition, States, partFilter)
  /\ rows = Table(nodes, partFilter, advancedFilter, groupBy, groupExpanded)
  /\ \A i \in DOMAIN pages : pages[i].name # "progress"

=============================================================================
