------------------------------ MODULE Standalone ------------------------------
(***************************************************************************)
(* Components that share no state with each other, in one specification.   *)
(* A behaviour belongs to one of them, which the initial state chooses; the*)
(* others stay in their initial states.                                    *)
(***************************************************************************)
EXTENDS Integers, Sequences

CONSTANTS
  Line, NoLine, Batch, Capacities, DefaultBufferSize, MaxTotal,             \* the ring
  HardDefaults, FormDefaults, TemplatesOf, TemplateSources,                 \* the job wizard
  ConfiguredHidden, FieldOptions, Offers, UserRecords, Cwd, Entries,
  IllTyped, Malformed, MaxForms, MaxTouched, MaxSubmits,
  InitialHosts, Partition, InitialStates, InitialGroupBy,                   \* the nodes view
  MaxKeys, MaxTasks, MaxSize,
  Text, Objects, ChanCap, MaxSearches,                                      \* the global search
  Answers, ClearAge, MaxLoops, MaxTicks, MaxNow                             \* the health monitor

\* Lines are appended, and a capacity that is not positive is replaced by one that is.
ASSUME RingAssumption ==
  /\ \A batch \in Batch : batch \in Seq(Line)
  /\ \A n \in Capacities : n \in Int
  /\ DefaultBufferSize \in Nat \ {0}

\* 24 hours in the code.
ASSUME ClearAgeAssumption == ClearAge \in Nat

\* The checks that are registered.
ASSUME ChecksAssumption == DOMAIN Answers \subseteq {"nodes", "queue", "utilization"}

VARIABLES
  part,
  data, head, tail, size, capacity, totalLines,
  page, form, accepted, forms,
  hosts, entries, fetch, nodes, array, used, partFilter, advancedFilter, groupBy,
  groupExpanded, sorted, rows, pages, tasks, keys,
  searches, searching, results, from,
  running, loops, lock, todo, checks, overall, alerts, ticks, now, drawing, upToDate

ringVars == <<data, head, tail, size, capacity, totalLines>>
wizardVars == <<page, form, accepted, forms>>
nodesVars ==
  <<hosts, entries, fetch, nodes, array, used, partFilter, advancedFilter, groupBy,
    groupExpanded, sorted, rows, pages, tasks, keys>>
searchVars == <<searches, searching, results, from>>
healthVars ==
  <<running, loops, lock, todo, checks, overall, alerts, ticks, now, drawing, upToDate>>
vars == <<part, ringVars, wizardVars, nodesVars, searchVars, healthVars>>

Ring == INSTANCE CircularBuffer WITH Unset <- NoLine
Wizard == INSTANCE JobWizard
NodeList == INSTANCE NodesView
Search == INSTANCE GlobalSearch
Health == INSTANCE HealthMonitor

\* The lists are those the code searches, and the name of an object, which stands
\* for its type and ID, is that of no other.
ASSUME SearchAssumption ==
  /\ ChanCap \in Nat
  /\ DOMAIN Objects \subseteq DOMAIN Search!Fields
  /\ \A k, l \in DOMAIN Objects : \A i \in DOMAIN Objects[k], j \in DOMAIN Objects[l] :
       Objects[k][i].name = Objects[l][j].name => k = l /\ i = j

\* The nodes are in states the cluster knows, and the view starts with none of the
\* states twice; the cache has room for a list.
ASSUME NodesAssumption ==
  /\ InitialHosts \in Seq([state : NodeList!NodeState, reason : NodeList!Reason])
  /\ InitialStates \in Seq(NodeList!Toggled)
  /\ \A i, j \in DOMAIN InitialStates : i # j => InitialStates[i] # InitialStates[j]
  /\ InitialGroupBy \in NodeList!Grouping
  /\ MaxSize \in Nat \ {0}

\* Lists of what a field may be are of strings, and a form starts with some value in
\* a field that is no dropdown: with one CPU and an hour in the code.
ASSUME WizardAssumption ==
  /\ \A f \in Wizard!Dropdown : FieldOptions[f] \in Seq(STRING)
  /\ \A offers \in Offers : \A f \in Wizard!Dropdown : offers[f] \in Seq(STRING)
  /\ \E f \in Wizard!Field \ Wizard!Dropdown : HardDefaults[f] # Wizard!Unset

ASSUME BoundsAssumption ==
  {MaxTotal, MaxForms, MaxSubmits, MaxKeys, MaxTasks, MaxLoops, MaxTicks, MaxNow} \subseteq Nat

-----------------------------------------------------------------------------

Init ==
  /\ part \in {"ring", "wizard", "nodes", "search", "health"}
  /\ Ring!Init /\ Wizard!Init /\ NodeList!Init /\ Search!Init /\ Health!Init
  /\ part # "ring" => capacity = 2   \* for the others one ring is enough

RingStep ==
  /\ part = "ring" /\ Ring!Next
  /\ UNCHANGED <<part, wizardVars, nodesVars, searchVars, healthVars>>

WizardStep ==
  /\ part = "wizard" /\ Wizard!WizardNext
  /\ UNCHANGED <<part, ringVars, nodesVars, searchVars, healthVars>>

NodesStep ==
  /\ part = "nodes" /\ NodeList!NodesNext
  /\ UNCHANGED <<part, ringVars, wizardVars, searchVars, healthVars>>

SearchStep ==
  /\ part = "search" /\ Search!SearchNext
  /\ UNCHANGED <<part, ringVars, wizardVars, nodesVars, healthVars>>

HealthStep ==
  /\ part = "health" /\ Health!HealthNext
  /\ UNCHANGED <<part, ringVars, wizardVars, nodesVars, searchVars>>

Next ==
  \/ RingStep
  \/ WizardStep
  \/ NodesStep
  \/ SearchStep
  \/ HealthStep

\* The timer refreshes the view, what a refresh has read is displayed, the other
\* goroutines come to their end, entries of the cache expire, and the cluster
\* does not fail for ever.
NodesFairness ==
  /\ WF_nodesVars(part = "nodes" /\ NodeList!Fetching)
  /\ SF_nodesVars(part = "nodes" /\ NodeList!ReadList)
  /\ WF_nodesVars(part = "nodes" /\ \E i \in DOMAIN tasks : NodeList!AtTask(i))
  /\ WF_nodesVars(part = "nodes" /\ \E i \in DOMAIN entries : NodeList!Expire(entries[i].key))

\* The goroutines of the search get on, that of tview among them.
SearchFairness == WF_searchVars(part = "search" /\ Search!Goroutine)

\* Requests return, and the timer refreshes the view.
HealthFairness ==
  /\ WF_healthVars(part = "health" /\ Health!Monitor)
  /\ WF_healthVars(part = "health" /\ Health!Draw)

Spec == Init /\ [][Next]_vars /\ NodesFairness /\ SearchFairness /\ HealthFairness

-----------------------------------------------------------------------------

\* The type invariants of the parts.
TypeOK ==
  /\ Ring!TypeOK /\ Wizard!WizardTypeOK /\ NodeList!NodesTypeOK /\ Search!SearchTypeOK
  /\ Health!HealthTypeOK

\* The ring implements the bounded log (CircularBuffer, BoundedLog).
KeepsMostRecent == Ring!KeepsMostRecent

\* What is sent to the cluster is what the form and its layers say (JobWizard).
RequestIsForm == Wizard!RequestIsForm

\* One form makes one job unless an answer was lost (JobWizard).
OneJobPerAnswer == Wizard!OneJobPerAnswer

\* In the end the nodes view shows what its filters ask for, and the health view
\* what its monitor has found (NodesView, HealthMonitor).
ViewsSettle ==
  <>[](/\ part = "nodes" => NodeList!Settled
       /\ part = "health" => Health!Settled)

\* Alerts and checks agree (HealthMonitor).
AlertsFollowChecks == Health!AlertsFollowChecks

\* The results shown are all there is, in order (GlobalSearch).
ShownIsComplete == Search!ShownIsComplete

\* A search is answered (GlobalSearch).
SearchIsShown == Search!SearchIsShown

=============================================================================
