----------------------------- MODULE Application -----------------------------
(***************************************************************************)
(* internal/app with the view manager and the base of the views            *)
(* (internal/views/base.go), as far as the views have it in common: the    *)
(* keys and commands, the dialogs, the refresh timer, the refresh of a     *)
(* view, the change of cluster and of configuration, the end.              *)
(*                                                                         *)
(* One goroutine, that of tview, handles the keys and carries out what     *)
(* other goroutines queue with QueueUpdateDraw, which returns when it has  *)
(* been carried out.  A view either fetches in a goroutine of its own (the *)
(* list views) or queues the drawing at once (the health view).            *)
(***************************************************************************)
EXTENDS Integers, Sequences, FiniteSets, SequencesExt

CONSTANTS
  ViewOrder,    \* the views in the order in which they were added
  Clusters,     \* the clusters of the configuration file
  Reachable,    \* those a client can be made for
  Home,         \* the default cluster of the file
  MaxTimers,    \* bound: timers started
  MaxKeys,      \* bound: keys pressed, each with what it leads to
  MaxFaults,    \* bound: requests that fail
  MaxTasks      \* bound: goroutines of one sort at once

Views == Range(ViewOrder)
Fetching == Views \ {"health"}
Timer == 1..MaxTimers

ASSUME ApplicationAssumption ==
  /\ {"jobs", "health"} \subseteq Views
  /\ \A i, j \in DOMAIN ViewOrder : ViewOrder[i] = ViewOrder[j] => i = j
  /\ Reachable \subseteq Clusters
  /\ Home \in Reachable
  /\ {MaxTimers, MaxKeys, MaxFaults, MaxTasks} \subseteq Nat

VARIABLES
  ui,          \* the goroutine of tview: starting, draws, waits or ended
  isRunning, autoRefresh,
  config,      \* default cluster and whether there is a refresh rate
  ctxDone,     \* the context of the application is cancelled
  client,      \* the cluster the client of the application talks to
  header,      \* the cluster named in the header
  viewClient,  \* the cluster the client of each view talks to
  toolClient,  \* the one what a view has made for itself talks to: the search,
               \* the batch operations and the output of the jobs view, the monitor
  timers,      \* every timer started and its goroutine
  timer,       \* the one in use, or 0
  current,     \* the current view
  opened,      \* views that have had the focus
  refreshing,  \* views whose refreshing flag is set
  fetch,       \* the goroutine of each fetching view
  shown,       \* the cluster whose data each view shows
  queue,       \* updates queued for the goroutine of tview
  tasks,       \* goroutines about to refresh a view, by view
  later,       \* goroutines that will refresh the view current by then
  operations,  \* operations that will report in a dialog
  dialogs,     \* pages over the main one, the topmost last
  cmdVisible, focus,
  keys,        \* keys pressed
  faults       \* requests that have failed

life == <<ui, isRunning>>
clientVars == <<ctxDone, client, header, viewClient, toolClient>>
timerVars == <<timers, timer>>
viewVars == <<current, opened>>
refreshVars == <<refreshing, fetch>>
workVars == <<tasks, later, operations>>
inputVars == <<dialogs, cmdVisible, focus>>
vars == <<life, autoRefresh, config, clientVars, timerVars, viewVars, refreshVars,
          shown, queue, workVars, inputVars, keys, faults>>

\* The program ends when Run returns.
Lives == ui # "ended"

Nowhere == "none"
Idle == [at |-> "idle", from |-> Nowhere]

\* New: a client for the default cluster, which every view gets, and hands on to
\* what SetApp makes; and nothing shown.
Init ==
  /\ ui = "starting" /\ isRunning = FALSE /\ autoRefresh = TRUE
  /\ config \in [cluster : {Home}, rate : BOOLEAN]
  /\ ctxDone = FALSE /\ client = Home /\ header = Home
  /\ viewClient = [v \in Views |-> Home] /\ toolClient = viewClient
  /\ timers = [t \in Timer |-> [ticking |-> FALSE, tick |-> FALSE, stop |-> FALSE,
                                at |-> "unused"]]
  /\ timer = 0 /\ current = Nowhere /\ opened = {}
  /\ refreshing = {} /\ fetch = [v \in Fetching |-> Idle]
  /\ shown = [v \in Views |-> Nowhere] /\ queue = <<>>
  /\ tasks = [v \in Views |-> 0] /\ later = 0 /\ operations = 0
  /\ dialogs = <<>> /\ cmdVisible = FALSE /\ focus = "view"
  /\ keys = 0 /\ faults = 0

(***************************************************************************)
(* The timer.                                                              *)
(***************************************************************************)

\* A mutant: the ticker is stopped and its goroutine left.
StoppedTickerOnly(left) ==
  IF timer = 0 THEN timers
  ELSE [timers EXCEPT ![timer] = [@ EXCEPT !.ticking = FALSE, !.tick = left]]

\* stopRefreshTimer: the ticker stops, which may leave a tick in its channel,
\* and its goroutine is told to end.
Stopped(left) ==
  IF timer = 0 THEN timers
  ELSE [timers EXCEPT ![timer] = [@ EXCEPT !.ticking = FALSE, !.tick = left, !.stop = TRUE]]

Unused == {t \in Timer : timers[t].at = "unused"}

StopTimer == timer' = 0 /\ \E left \in BOOLEAN : timers' = Stopped(left)

\* Afresh(rate): the timer in use is stopped and one started if there is a rate.
Afresh(rate) ==
  IF rate
  THEN \E t \in Unused, left \in BOOLEAN :
         /\ \A u \in Unused : t <= u
         /\ timer' = t
         /\ timers' = [Stopped(left) EXCEPT ![t] = [ticking |-> TRUE, tick |-> FALSE,
                                              stop |-> FALSE, at |-> "selects"]]
  ELSE StopTimer

(***************************************************************************)
(* Refreshing a view.  RefreshBy(v, t) is View.Refresh called by timer t,  *)
(* or by another goroutine if t = 0: a fetching view starts its goroutine  *)
(* unless one is at work, the health view queues the drawing, for which    *)
(* the caller waits.                                                       *)
(***************************************************************************)

Update(kind, view, from, by) == [kind |-> kind, view |-> view, from |-> from, by |-> by]

RefreshBy(v, t) ==
  IF v = "health"
  THEN /\ queue' = Append(queue, Update("draw", v, Nowhere, t))
       /\ UNCHANGED refreshVars
  ELSE /\ IF v \in refreshing
          THEN UNCHANGED refreshVars
          ELSE /\ refreshing' = refreshing \cup {v}
               /\ fetch' = [fetch EXCEPT ![v] = [at |-> "starts", from |-> Nowhere]]
       /\ UNCHANGED queue

\* The goroutine reads the client of the view and sends the request.
Request(v) ==
  /\ Lives /\ fetch[v].at = "starts"
  /\ fetch' = [fetch EXCEPT ![v] = [at |-> "requests", from |-> viewClient[v]]]
  /\ UNCHANGED <<life, autoRefresh, config, clientVars, timerVars, viewVars, refreshing,
                 shown, queue, workVars, inputVars, keys, faults>>

Answer(v) ==
  /\ Lives /\ fetch[v].at = "requests" /\ ~ctxDone
  /\ fetch' = [fetch EXCEPT ![v] = [@ EXCEPT !.at = "draws"]]
  /\ queue' = Append(queue, Update("list", v, fetch[v].from, 0))
  /\ UNCHANGED <<life, autoRefresh, config, clientVars, timerVars, viewVars, refreshing,
                 shown, workVars, inputVars, keys, faults>>

\* A request of a cancelled context always fails.
RequestFails(v) ==
  /\ Lives /\ fetch[v].at = "requests"
  /\ IF ctxDone THEN UNCHANGED faults ELSE faults < MaxFaults /\ faults' = faults + 1
  /\ fetch' = [fetch EXCEPT ![v] = [@ EXCEPT !.at = "ends"]]
  /\ UNCHANGED <<life, autoRefresh, config, clientVars, timerVars, viewVars, refreshing,
                 shown, queue, workVars, inputVars, keys>>

\* The deferred clearing of the flag.
EndFetch(v) ==
  /\ Lives /\ fetch[v].at = "ends"
  /\ fetch' = [fetch EXCEPT ![v] = Idle]
  /\ refreshing' = refreshing \ {v}
  /\ UNCHANGED <<life, autoRefresh, config, clientVars, timerVars, viewVars, shown, queue,
                 workVars, inputVars, keys, faults>>

\* A goroutine started only to refresh a view.
Task(v) ==
  /\ Lives /\ tasks[v] > 0
  /\ tasks' = [tasks EXCEPT ![v] = @ - 1]
  /\ RefreshBy(v, 0)
  /\ UNCHANGED <<life, autoRefresh, config, clientVars, timerVars, viewVars, shown, later,
                 operations, inputVars, keys, faults>>

\* refreshCurrentViewAsync, half a second after the command.
RefreshLater ==
  /\ Lives /\ later > 0
  /\ later' = later - 1
  /\ RefreshBy(current, 0)
  /\ UNCHANGED <<life, autoRefresh, config, clientVars, timerVars, viewVars, shown, tasks,
                 operations, inputVars, keys, faults>>

\* An operation of a view has ended: its goroutine queues the dialog that says so.
OperationEnds ==
  /\ Lives /\ operations > 0
  /\ operations' = operations - 1
  /\ queue' = Append(queue, Update("dialog", Nowhere, Nowhere, 0))
  /\ UNCHANGED <<life, autoRefresh, config, clientVars, timerVars, viewVars, refreshVars,
                 shown, tasks, later, inputVars, keys, faults>>

(***************************************************************************)
(* The goroutine of a timer.                                               *)
(***************************************************************************)

TimerRefreshes(t) ==
  /\ Lives /\ timers[t].at = "selects" /\ (timers[t].ticking \/ timers[t].tick)
  /\ LET refreshes == isRunning /\ autoRefresh /\ current # Nowhere
     IN /\ timers' = [timers EXCEPT ![t] = [@ EXCEPT !.tick = FALSE,
                        !.at = IF refreshes /\ current = "health" THEN "waits" ELSE "selects"]]
        /\ IF refreshes THEN RefreshBy(current, t) ELSE UNCHANGED <<refreshVars, queue>>
  /\ UNCHANGED <<life, autoRefresh, config, clientVars, timer, viewVars, shown, workVars,
                 inputVars, keys, faults>>

TimerExits(t) ==
  /\ Lives /\ timers[t].at = "selects" /\ (timers[t].stop \/ ctxDone)
  /\ timers' = [timers EXCEPT ![t].at = "exited"]
  /\ UNCHANGED <<life, autoRefresh, config, clientVars, timer, viewVars, refreshVars,
                 shown, queue, workVars, inputVars, keys, faults>>

(***************************************************************************)
(* The goroutine of tview.                                                 *)
(***************************************************************************)

\* Run: the timer, the first view, and then the event loop.
Run ==
  /\ ui = "starting"
  /\ ui' = "draws" /\ isRunning' = TRUE
  /\ IF config.rate THEN Afresh(TRUE) ELSE UNCHANGED timerVars
  /\ current' = "jobs" /\ opened' = {"jobs"}
  /\ tasks' = [tasks EXCEPT !["jobs"] = @ + 1]
  /\ UNCHANGED <<autoRefresh, config, clientVars, refreshVars, shown, queue, later,
                 operations, inputVars, keys, faults>>

\* The caller of QueueUpdateDraw goes on when its update has been carried out.
Draw ==
  /\ ui = "draws" /\ queue # <<>>
  /\ LET u == Head(queue)
     IN CASE u.kind = "list" ->
               /\ shown' = [shown EXCEPT ![u.view] = u.from]
               /\ fetch' = [fetch EXCEPT ![u.view] = [@ EXCEPT !.at = "ends"]]
               /\ UNCHANGED <<timers, dialogs, focus>>
          [] u.kind = "draw" ->
               /\ shown' = [shown EXCEPT ![u.view] = toolClient[u.view]]
               /\ timers' = IF u.by = 0 THEN timers ELSE [timers EXCEPT ![u.by].at = "selects"]
               /\ UNCHANGED <<fetch, dialogs, focus>>
          [] u.kind = "dialog" ->
               /\ dialogs' = Append(dialogs, "result") /\ focus' = "dialog"
               /\ UNCHANGED <<shown, fetch, timers>>
  /\ queue' = Tail(queue)
  /\ UNCHANGED <<life, autoRefresh, config, clientVars, timer, viewVars, refreshing,
                 workVars, cmdVisible, keys, faults>>

\* SetCurrentView and updateCurrentView: a view that gets the focus for the
\* first time is refreshed by a goroutine.
GoTo(v) ==
  /\ current' = v /\ opened' = opened \cup {v}
  /\ tasks' = IF v \in opened THEN tasks ELSE [tasks EXCEPT ![v] = @ + 1]

\* RefreshCurrentView on the goroutine of tview itself, which never gets round
\* to the drawing it then waits for.
RefreshNow ==
  /\ RefreshBy(current, 0)
  /\ ui' = IF current = "health" THEN "waits" ELSE ui

\* S9s.Stop.
Stop ==
  /\ isRunning' = FALSE
  /\ StopTimer
  /\ ui' = "ended"
  /\ ctxDone' = TRUE

\* The input capture hands a key to the global handlers only if the command
\* line is hidden and no dialog is open, and, Ctrl+C excepted, the focus is not
\* in an input field.
Listens == ui = "draws" /\ ~cmdVisible /\ dialogs = <<>>
Global == Listens /\ focus # "filter"

Position == CHOOSE i \in DOMAIN ViewOrder : ViewOrder[i] = current
Neighbours == {ViewOrder[(Position % Len(ViewOrder)) + 1],
               ViewOrder[IF Position = 1 THEN Len(ViewOrder) ELSE Position - 1]}

\* The digit keys, Tab, Shift+Tab, h and l.
SwitchView ==
  /\ Global
  /\ \E v \in Views \cup Neighbours : GoTo(v)
  /\ focus' = "view"
  /\ UNCHANGED <<life, autoRefresh, config, clientVars, timerVars, refreshVars, shown,
                 queue, later, operations, dialogs, cmdVisible, faults>>

\* F5, and R in the health view.
HandleF5Refresh ==
  /\ Global
  /\ RefreshNow
  /\ UNCHANGED <<isRunning, autoRefresh, config, clientVars, timerVars, viewVars, shown,
                 workVars, inputVars, faults>>

\* R in a view that fetches.
RefreshKey ==
  /\ Global /\ current # "health" /\ tasks[current] < MaxTasks
  /\ tasks' = [tasks EXCEPT ![current] = @ + 1]
  /\ UNCHANGED <<life, autoRefresh, config, clientVars, timerVars, viewVars, refreshVars,
                 shown, queue, later, operations, inputVars, faults>>

HandleF6ToggleAutoRefresh ==
  /\ Global
  /\ autoRefresh' = ~autoRefresh
  /\ UNCHANGED <<life, config, clientVars, timerVars, viewVars, refreshVars, shown, queue,
                 workVars, inputVars, faults>>

\* Into the filter of a view and out of it again.
Filter ==
  /\ Listens
  /\ focus' = IF focus = "filter" THEN "view" ELSE "filter"
  /\ UNCHANGED <<life, autoRefresh, config, clientVars, timerVars, viewVars, refreshVars,
                 shown, queue, workVars, dialogs, cmdVisible, faults>>

StartOperation ==
  /\ Global /\ operations < MaxTasks
  /\ operations' = operations + 1
  /\ UNCHANGED <<life, autoRefresh, config, clientVars, timerVars, viewVars, refreshVars,
                 shown, queue, tasks, later, inputVars, faults>>

\* Help, alerts, configuration, layouts and, with more than one, the clusters.
Pages == {"help", "config"} \cup (IF Cardinality(Clusters) > 1 THEN {"clusters"} ELSE {})

OpenDialog ==
  /\ Global
  /\ \E d \in Pages : dialogs' = <<d>>
  /\ focus' = "dialog"
  /\ UNCHANGED <<life, autoRefresh, config, clientVars, timerVars, viewVars, refreshVars,
                 shown, queue, workVars, cmdVisible, faults>>

Top == IF dialogs = <<>> THEN Nowhere ELSE Last(dialogs)

\* RemovePage of the topmost page; the focus goes to what is below.
RemovePage ==
  /\ dialogs' = Front(dialogs)
  /\ focus' = IF Len(dialogs) = 1 THEN "view" ELSE "dialog"

CloseDialog ==
  /\ ui = "draws" /\ dialogs # <<>>
  /\ RemovePage
  /\ UNCHANGED <<life, autoRefresh, config, clientVars, timerVars, viewVars, refreshVars,
                 shown, queue, workVars, cmdVisible, faults>>

\* ApplyConfig: the configuration the dialog has read from the file and the
\* user has edited takes the place of the other, the client stays.
ApplyConfig ==
  /\ ui = "draws" /\ Top = "config"
  /\ \E c \in Clusters, rate \in BOOLEAN :
       /\ config' = [cluster |-> c, rate |-> rate]
       /\ Afresh(rate)
  /\ UNCHANGED <<life, autoRefresh, clientVars, viewVars, refreshVars, shown, queue,
                 workVars, inputVars, faults>>

\* A mutant: the name is in the header before there is a client.
SwitchNamesFirst(c) ==
  /\ config' = [config EXCEPT !.cluster = c]
  /\ header' = c
  /\ IF c \in Reachable
     THEN /\ client' = c /\ viewClient' = [v \in Views |-> c]
          /\ RefreshNow /\ UNCHANGED ctxDone
     ELSE ctxDone' = TRUE /\ UNCHANGED <<ui, client, viewClient, refreshVars, queue>>

\* A mutant: the views keep their client.
SwitchAppOnly(c) ==
  /\ config' = [config EXCEPT !.cluster = c]
  /\ IF c \in Reachable
     THEN /\ client' = c /\ header' = c
          /\ RefreshNow /\ UNCHANGED <<viewClient, ctxDone>>
     ELSE ctxDone' = TRUE /\ UNCHANGED <<ui, client, header, viewClient, refreshVars, queue>>

\* switchCluster.  When no client can be made, createSlurmClient cancels the
\* context of the application, and the default cluster is the new one already.
SwitchTo(c) ==
  /\ config' = [config EXCEPT !.cluster = c]
  /\ IF c \in Reachable
     THEN /\ client' = c /\ header' = c /\ viewClient' = [v \in Views |-> c]
          /\ RefreshNow /\ UNCHANGED ctxDone
     ELSE ctxDone' = TRUE /\ UNCHANGED <<ui, client, header, viewClient, refreshVars, queue>>

\* A cluster is chosen; nothing is done if it is the default one.
SwitchCluster ==
  /\ ui = "draws" /\ Top = "clusters"
  /\ RemovePage
  /\ \E c \in Clusters :
       IF c = config.cluster
       THEN UNCHANGED <<ui, config, ctxDone, client, header, viewClient, refreshVars, queue>>
       ELSE SwitchTo(c)
  /\ UNCHANGED <<toolClient, isRunning, autoRefresh, timerVars, viewVars, shown, workVars, cmdVisible,
                 faults>>

ShowCommandLine ==
  /\ Global
  /\ cmdVisible' = TRUE /\ focus' = "command"
  /\ UNCHANGED <<life, autoRefresh, config, clientVars, timerVars, viewVars, refreshVars,
                 shown, queue, workVars, dialogs, faults>>

\* hideCommandLine, after Esc, an empty line or a command that is done: the focus
\* goes to the view unless the command has opened a dialog.
HideCommandLine(pages) ==
  /\ cmdVisible' = FALSE /\ dialogs' = pages
  /\ focus' = IF pages = <<>> THEN "view" ELSE "dialog"

Typing == ui = "draws" /\ cmdVisible /\ focus = "command"

\* Esc, an unknown command or a wrong number of arguments.
CommandNone ==
  /\ Typing
  /\ HideCommandLine(dialogs)
  /\ UNCHANGED <<life, autoRefresh, config, clientVars, timerVars, viewVars, refreshVars,
                 shown, queue, workVars, faults>>

CommandView ==
  /\ Typing
  /\ \E v \in Views : GoTo(v)
  /\ HideCommandLine(dialogs)
  /\ UNCHANGED <<life, autoRefresh, config, clientVars, timerVars, refreshVars, shown,
                 queue, later, operations, faults>>

CommandDialog ==
  /\ Typing
  /\ \E d \in Pages \ {"clusters"} : HideCommandLine(Append(dialogs, d))
  /\ UNCHANGED <<life, autoRefresh, config, clientVars, timerVars, viewVars, refreshVars,
                 shown, queue, workVars, faults>>

CommandRefresh ==
  /\ Typing /\ tasks[current] < MaxTasks
  /\ tasks' = [tasks EXCEPT ![current] = @ + 1]
  /\ HideCommandLine(dialogs)
  /\ UNCHANGED <<life, autoRefresh, config, clientVars, timerVars, viewVars, refreshVars,
                 shown, queue, later, operations, faults>>

\* cancel, hold, release, requeue, drain and resume wait for the cluster, and
\* only one that it carries out is followed by a refresh.
CommandOperation ==
  /\ Typing
  /\ \/ ~ctxDone /\ later < MaxTasks /\ later' = later + 1
     \/ UNCHANGED later
  /\ HideCommandLine(dialogs)
  /\ UNCHANGED <<life, autoRefresh, config, clientVars, timerVars, viewVars, refreshVars,
                 shown, queue, tasks, operations, faults>>

\* q, Ctrl+C and the command quit.
Quit ==
  /\ Listens \/ Typing
  /\ Stop
  /\ UNCHANGED <<autoRefresh, config, client, header, viewClient, toolClient, viewVars,
                 refreshVars, shown, queue, workVars, inputVars, faults>>

\* SIGTERM, which runApplicationWithShutdown answers with Stop in its goroutine.
Signal ==
  /\ ui \in {"draws", "waits"}
  /\ Stop
  /\ UNCHANGED <<autoRefresh, config, client, header, viewClient, toolClient, viewVars, refreshVars,
                 shown, queue, workVars, inputVars, keys, faults>>

\* Ctrl+C that the application passes on: tview ends by itself.
Interrupt ==
  /\ ui = "draws" /\ ~Listens
  /\ ui' = "ended"
  /\ UNCHANGED <<isRunning, autoRefresh, config, clientVars, timerVars, viewVars,
                 refreshVars, shown, queue, workVars, inputVars, faults>>

KeyPress ==
  \/ SwitchView \/ HandleF5Refresh \/ RefreshKey \/ HandleF6ToggleAutoRefresh
  \/ Filter \/ StartOperation \/ OpenDialog \/ CloseDialog \/ ApplyConfig
  \/ SwitchCluster \/ ShowCommandLine \/ CommandNone \/ CommandView \/ CommandDialog
  \/ CommandRefresh \/ CommandOperation \/ Quit \/ Interrupt

Key == keys < MaxKeys /\ keys' = keys + 1 /\ KeyPress

Fetch(v) == Request(v) \/ Answer(v) \/ RequestFails(v) \/ EndFetch(v)
TimerLoop(t) == TimerRefreshes(t) \/ TimerExits(t)

Next ==
  \/ Run \/ Draw \/ Key \/ Signal \/ RefreshLater \/ OperationEnds
  \/ \E v \in Fetching : Fetch(v)
  \/ \E v \in Views : Task(v)
  \/ \E t \in Timer : TimerLoop(t)

Spec == Init /\ [][Next]_vars

\* tview carries out what is queued while it is not in a handler, goroutines get
\* on, requests are answered or fail (they have a timeout), and tickers tick.
FairSpec ==
  /\ Spec
  /\ WF_vars(Run) /\ WF_vars(Draw)
  /\ \A v \in Fetching : WF_vars(Fetch(v))
  /\ \A v \in Views : WF_vars(Task(v))
  /\ \A t \in Timer : WF_vars(TimerLoop(t))

-----------------------------------------------------------------------------

\* However often the rate is changed, at most one timer goroutine has not been
\* told to end, and it is the one that stopRefreshTimer would stop; without one
\* more refreshes would be made with each change.
OneTimer ==
  /\ \A t \in Timer : timers[t].ticking => t = timer
  /\ \A t \in Timer : timers[t].at \in {"selects", "waits"} /\ ~timers[t].stop => t = timer

\* The header names the cluster that the lists of every view and the commands
\* come from and go to, also after a switch that failed.
ClientsAgree == header = client /\ \A v \in Views : viewClient[v] = client

\* What switchCluster says of itself, that it "switches the active cluster
\* connection": what a view does, in its dialogs too, it does to the cluster in
\* the header.
ToolsFollow == \A v \in Views : toolClient[v] = viewClient[v]

\* What a fetch in flight brings in late from the cluster before is replaced:
\* again and again the current view shows the cluster it is connected to, as
\* long as the timer is on, the context lives and tview is not blocked.
FollowsCluster ==
  []<>(\/ current \in Fetching /\ shown[current] = client
       \/ current = "health"
       \/ ~autoRefresh \/ ~config.rate \/ ctxDone
       \/ ui # "draws")

\* View.Refresh "must be safe to call from any goroutine" (views/base.go), the
\* one that handles the keys included: it never waits for itself.
RefreshSafe == ui # "waits"

=============================================================================
