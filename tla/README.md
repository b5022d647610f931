# A formal model of s9s

s9s is a terminal user interface for SLURM clusters, written in Go. The goroutine
of tview handles the keys, one after the other, and draws; views fetch their
lists in goroutines of their own, through a cache, from a cluster that goes on
by itself; below them is a collection of long-lived managers, each of which owns
some tables and is driven at the same time by the user interface, by its own
goroutines and tickers, and by external processes, files and servers. The
modules in this directory model the application, its most used views and those
managers; TLC checks them on small instances and TLAPS proves the most important
properties for every value of the constants.

1. [Inventory](#1-inventory) of the system
2. [Modules](#2-modules) and how they correspond to the code
3. [Runs](#3-runs): what each one checks, its bounds, the fairness
4. [Proofs](#4-proofs): what is proved, and along which argument
5. [Disagreements](#5-disagreements-between-code-and-comments) between the code and its comments
6. [Limits](#6-what-is-only-model-checked-and-what-is-not-modelled)
7. [Plan](#7-plan)

`PROJECT.json` lists the components, runs, mutants, hazards, theorems and the
source lines behind every definition.

To check a run, `tlc -config PluginManager.cfg MCPluginManager.tla`; to check
the proofs, `tlapm PluginManagerProofs.tla`.

## 1. Inventory

### Plugin lifecycle manager (`internal/plugin/manager.go`)

- *State*: the registered plugins, for each whether it is enabled and running,
  its last error and its restart count, its stored configuration; a context.
- *Operations*: `RegisterPlugin`, `EnablePlugin`, `DisablePlugin`,
  `UpdatePluginConfig`, `StartHealthChecks` with `checkHealth` on a ticker, `Stop`.
- *Interactions*: calls the plugins (`Init`, `Start`, `Stop`, `Health`,
  `SetConfig`, the lifecycle hooks) with its lock held.
- *Hard*: every call of a plugin may fail half way; requirements are checked one
  level deep and only when a plugin is enabled; a health check may stop a plugin
  others require; `Stop` walks a Go map, whose order is random, in passes, and
  ends at the first pass that stops nothing.
- *Correct when*: what runs has what it requires; what the manager reports is
  what the plugin does; stored and applied configuration agree; `Stop` never
  takes a requirement away from a running plugin, and returns.

### Job output streaming (`internal/streaming`)

- *State*: `activeStreams`, keyed by job and output type, with an offset and a
  ring buffer each; the subscribers of the event bus; the watch list of fsnotify.
- *Operations*: `StartStream`, `StopStream`, `Subscribe`, `Unsubscribe`,
  `Close`; the goroutines `watchFileEvents` and `pollRemoteFile`; the goroutine
  that `StopStream` leaves behind to clean up a second later.
- *Interactions*: the job writes the file all the while; fsnotify queues events;
  remote files are read by commands over SSH; views receive from channels that
  the bus closes.
- *Hard*: reading is done under the lock and emitting is not; the polling
  goroutine takes no lock at all; the delayed cleanup acts on whatever is under
  the key by then; two outputs of a job usually share one file, and so one watch;
  a send on a closed channel panics.
- *Correct when*: every unit of the file from the start offset on reaches the
  buffer once and in order; events of a stream are in order; nothing is sent on
  a closed channel; a stopped stream is cleaned up and its subscribers released.

### Stream ring buffer (`internal/streaming/buffer.go`)

- *State*: slots, head, tail, size, capacity. *Operations*: `Append`,
  `AppendString`, `Clear`, `Resize`, `GetLines`, `GetLastN`.
- *Hard*: index arithmetic at the boundaries: full with tail = head, empty
  after a clear, resized below its size.
- *Correct when*: no slice is out of bounds and what is read is the most recent
  lines.

### Prometheus circuit breaker (`plugins/observability/prometheus/circuit_breaker.go`)

- *State*: closed, open or half-open; counts; a generation; an expiry.
- *Operations*: `Execute` (before and after the request), `State`.
- *Hard*: answers that arrive after the breaker has changed its mind; `State`
  writes under the read lock; the half-open state has no expiry.
- *Correct when*: each request counts once and in the generation that let it
  through, probes are bounded, and a half-open breaker decides.

### SSH sessions and terminals (`internal/ssh/session_manager.go`, `persistence.go`)

- *State*: the table of sessions by id (`user@host_second`), guarded by `sm.mu`;
  in each session its state and its process, guarded by a mutex of its own; the
  file `sessions.json`; outside, the ssh processes and, per host, a master that
  serves the control socket all sessions of that host share.
- *Operations*: `CreateSession`, `ConnectSession`, `StartInteractiveSession`,
  `CloseSession`; `cleanupLoop`, which sweeps the table and saves it; the
  goroutine that waits for a terminal; `loadPersistentSessions` at start.
- *Interactions*: views call it from goroutines of their own; ssh takes as long
  as it likes, with the session locked.
- *Hard*: `StartInteractiveSession` gives the session's lock up, connects by id
  and takes it again without looking; what it finds may have been closed, swept
  or made again meanwhile; two kinds of lock are taken one inside the other;
  the waiting goroutine resets whatever process the session has by then; closing
  one session ends the connection of the others on that host; a file written
  before a session was closed is read after a restart.
- *Correct when*: a running terminal belongs to an active session that can end
  it; a terminal is started over a connection; nobody waits in a circle; a
  closed session does not come back.

### Jobs view, cached lists and cluster (`internal/views/jobs.go`, `batch_operations.go`, `internal/ui/components`, `internal/dao`, `pkg/slurm/mock.go`)

- *State*: the jobs on display, filters, order, the rows that are checked; the
  dialog in front; the refresh and the operations under way; the cached lists;
  behind them the jobs of the cluster.
- *Operations*: refresh, filters, sorting, checking rows, an operation on the
  checked jobs or on the job under the cursor, the batch dialog, submission.
- *Hard*: rows are checked by number and a refresh puts other jobs there; a
  refresh asked for during another is dropped; the cache is invalidated before
  the operation is carried out, so that a list read in between brings back what
  was before; an operation meets a job that has ended since it was shown.
- *Correct when*: what is checked stays checked; no operation changes a job that
  is over; in the end the view shows what the cluster has.

### Nodes view (`internal/views/nodes.go`)

- *State and operations*: as the jobs view, with rows grouped or sorted, and
  dialogs opened by goroutines (draining, resuming, ssh).
- *Hard*: a key moves the states of the filter inside an array that the goroutine
  of a refresh reads twice, once for the key of the cache and once for the
  request; many keys change what the table should show without making it anew;
  dialogs are named, lie on each other and are closed by name.
- *Correct when*: in the end list and table are what the filters ask for and no
  dialog is left that cannot be closed.

### Application and key handling (`internal/app`, `internal/views/base.go`)

- *State*: the views and the current one, its focus, the dialogs, the refresh
  timer, the configuration, the client of the application and of every view, the
  queue of updates to be carried out by the goroutine of tview.
- *Hard*: `QueueUpdateDraw` waits for that goroutine; timers are replaced while
  they work; a change of cluster meets requests of the cluster before.
- *Correct when*: one timer ticks; header, application and views talk to one
  cluster, dialogs included; no handler waits for its own goroutine.

### Job submission wizard (`internal/views/job_submission_wizard.go`, `internal/config/job_submission.go`)

- *State*: a form made of a template, the configuration and the program's own
  defaults; fields that are hidden; dropdowns filled by the cluster.
- *Hard*: which of four layers a value comes from; a dropdown that does not offer
  it; an answer that is lost while the form stays open.
- *Correct when*: what is sent is what the form says, and one form makes one job.

### Global search (`internal/views/global_search.go`)

- *State*: the searches started, the one that can be cancelled, the results.
- *Hard*: seven goroutines send into one channel of limited size; a search is
  cancelled between two elements and nowhere else.
- *Correct when*: what is shown is complete and in order, and a search is answered.

### Health monitor (`internal/monitoring`, `internal/views/health.go`)

- *State*: the results of three checks and an overall status under one lock, the
  alerts under another; whether the loop is to go on; what the three boxes of the
  view show.
- *Operations*: a round of checks every thirty seconds, with a request to the
  cluster for each; `AddAlert`, which looks for a similar one; acknowledging,
  resolving and clearing by keys; a redraw at each tick of the application.
- *Hard*: the lock of the results is held for all requests of a round, and the
  goroutine of tview waits for it twice in one redraw; alerts are resolved in the
  middle of a round; two alerts of one component raised in one second have one ID.
- *Correct when*: what is bad has one alert of its severity unless it was resolved
  since, and the view shows it in the end.

### Observability plugin (`plugins/observability`)

- *State*: the components built by Init, the goroutines they start and the
  channels and contexts that end them; series of points in memory and in files;
  the table of subscriptions and its file.
- *Operations*: Init, Start and Stop by the plugin manager, each of which may fail
  half way, and the end of the plugin manager, which cancels the context of its
  plugins first; the loops of the collector, of the subscriptions, of the metrics,
  of the caches and of the limiter; queries that come back when they like;
  restarts of the program.
- *Hard*: components are built anew by every Init, but a restart by the health
  check stops and starts the old ones; loops reread their channels; `Stop` waits for
  loops in the middle of a query; files are written by goroutines nobody waits for,
  one of a failed Init included, and not by the `Stop` of the subscriptions.
- *Correct when*: `Stop` returns and what it stopped ends; what is in memory is in
  the files then; a collector has one loop that collects; no subscription is there
  twice, none that was saved is lost, and each is answered or disabled.

### The other components

| Component | What is hard | Status |
|---|---|---|
| Other list views (users, accounts, QoS, reservations, partitions), dashboard, performance | the refresh they share | the refresh, in `Application`; drawing not modelled |
| Job output view | races of a goroutine and the interface on two fields | not modelled: few properties hold, see section 5 |
| Adapter (`internal/dao/slurm_adapter.go`) | conversion | the submission, in `JobWizard`; lists through the cache, in `JobsView` and `NodesView` |
| Alert engine of the plugin (`observability/alerts`) | a stop channel closed twice | not modelled: made only by a view that the program cannot create |
| Rate limiter, overlays, metrics cache | loops that never end | their goroutines, in `Observability` |
| Authentication, enhanced terminal, navigation, load balancer | a token stored again after its removal | not modelled: nothing in the program makes them |
| Plugin registry | a read lock taken twice | not modelled: nothing sorts or lists with it |
| Shared-object plugin loader (`internal/plugins`) | loading | not modelled: the dynamic loader of Go |
| Configuration, CLI, setup, discovery, output readers, exporters | none after start-up | layers of defaults in `JobWizard`, signals in `Application`; the rest is sequential I/O |
| Prometheus clients, filters, analysis, layouts, notifications, helpers | little or none | not modelled: text, JSON, HTTP, floating point, drawing |

The list of hazards in `PROJECT.json` names the line of code at which each of
these difficulties bites, and the properties that would notice.

## 2. Modules

| Module | Source | Role |
|---|---|---|
| `PluginManager` | `internal/plugin/manager.go` | the manager and its plugins |
| `MCPluginManager` | | three plugins for TLC |
| `PluginManagerProofs` | | theorems about `PluginManager` |
| `StreamManager` | `internal/streaming/manager.go`, `eventbus.go`, `types.go` | streams, watcher, pollers and event bus |
| `MCStreamManager` | | two outputs of one job for TLC |
| `StreamManagerProofs` | | theorems about `StreamManager` |
| `SSHSessions` | `internal/ssh/session_manager.go`, `persistence.go` | sessions, terminals, cleaner and restart |
| `MCSSHSessions` | | symmetry of the clients for TLC |
| `SSHSessionsProofs` | | theorems about `SSHSessions` |
| `BoundedLog` | | abstract: the last lines, as many as fit |
| `CircularBuffer` | `internal/streaming/buffer.go` | the ring that implements `BoundedLog` |
| `Breaker` | | abstract: which requests count |
| `CircuitBreaker` | `plugins/observability/prometheus/circuit_breaker.go` | the breaker that implements `Breaker` |
| `CircuitBreakerProofs` | | theorems about `CircuitBreaker`, its refinement included |
| `SlurmCluster` | `pkg/slurm/mock.go` | the states of jobs and nodes, as functions |
| `DAOCache` | `internal/dao/cache.go` | the cache of lists, as functions |
| `JobsView` | `internal/views/jobs.go`, `batch_operations.go`, `internal/ui/components`, `internal/dao/cached_managers.go` | composes view, table, cache and cluster |
| `NodesView` | `internal/views/nodes.go`, `internal/dao/cached_managers.go` | the same for nodes |
| `Application` | `internal/app`, `internal/views/base.go`, `health.go`, `internal/cli/root.go` | keys, commands, dialogs, timer, clusters, end |
| `MCJobsView`, `MCApplication` | | a running and a pending job; two views |
| `JobsViewProofs`, `ApplicationProofs` | | theorems about `JobsView` and `Application` |
| `JobWizard` | `internal/views/job_submission_wizard.go`, `internal/config/job_submission.go` | templates, forms and submissions |
| `GlobalSearch` | `internal/views/global_search.go` | overlapping searches |
| `HealthMonitor` | `internal/monitoring`, `internal/views/health.go` | checks, alerts and their redraw |
| `Standalone` | | in one: `CircularBuffer`, `JobWizard`, `NodesView`, `GlobalSearch`, `HealthMonitor` |
| `MCStandalone` | | an instance of each of them for TLC |
| `StandaloneProofs` | | theorems about them |
| `Observability` | `plugins/observability/plugin.go`, `initialization` and what they start | goroutines under Init, Start and Stop |
| `Collector` | `plugins/observability/historical/collector.go` | series in memory and in files |
| `Subscriptions` | `plugins/observability/subscription` | subscriptions over restarts |
| `PluginParts` | | in one: `Observability`, `Collector`, `Subscriptions` |
| `PluginPartsProofs` | | theorems about them |

Conventions. A method that holds its mutex from its first to its last line is
one action. Where a lock is given up, was never taken, or the environment acts
meanwhile, the method is several actions, and a variable says how far it is.
Calls of external code (a plugin, SSH, the file system) are chosen
nondeterministically among the outcomes the code distinguishes. Definitions
introduced by the comment "A mutant" are not part of the specification: each is
a wrong version of the definition that follows it, and shows that the
properties would notice that mistake.

**PluginManager.** `plugins`, `states` and `config` are the maps of the
manager; `ctxDone` its context. `live` and `applied` stand for the plugins
themselves: whether they are started, and with which configuration. `Stop` is
the only operation in several steps: it holds the lock (`mu = "stop"`), and
each visit of a plugin by `stopAvailablePlugins` is an action `StopVisit` with
the four outcomes of the loop body, so that any order of the map is covered.
`EnableFails` is `EnablePlugin` with a failing `Init` or `Start`, which has
stored the configuration already. `UpdateRollsBack` is the case in which the
hook refuses a configuration and it is set back, which may fail as well;
`unrolled` records that it did. A plugin whose restart fails keeps `enabled`
and loses `running`; `restarts` is never reset, as in the code.

**StreamManager.** A file is the number of units written to it, unit i being
the i-th, so that a buffer's contents say exactly which parts of the file it
has seen. Streams keep their identity when their entry in the table is
replaced: the goroutine of an old stream goes on with the old object.
`StartStream` is a chain of actions (stat, read, add the watch, or fetch over
SSH) under a lock (`starting`), because the job writes in between.
`HandleFileEvent` moves the offset under the lock, `EmitFileEvent` emits
without it; `PollFetch` and `PollEmit` are the two halves of the polling
goroutine. `StopStream` only marks the stream and counts a sleeping goroutine in
`cleaning`; `CleanupDelete` and `CleanupUnsubscribe` are its two halves, between
which the lock is free. `CloseCancel` and `Close` are separate because the code
cancels before it locks.

**CircularBuffer.** One action per method, the slots as a function from 0 on.
`AppendString` folds `AppendSingle` over the lines. `GetLines` and `GetLastN`
are operators with the code's case distinctions, and the refinement mapping to
`BoundedLog` is `GetLines` itself; `KeepsMostRecent` has `GetLastN` agree with it as well.

**CircuitBreaker.** The private methods are functions from breaker to breaker
(`CurrentState`, `SetState`, `OnSuccess`, ...), composed in the order of the
code. `BeforeRequest` and `AfterRequest` hold the mutex and are one action each;
`State` is two (`StateTests`, `StateReturns`), since calls of it overlap under
the read lock, and what an overtaken call writes is chosen among what the
interleavings can produce. The clock is the action `Elapse`. In the mapping to
`Breaker`, the requests that count are those of the current generation.

**SSHSessions.** An object outlives its entry in the table, so `sessions` numbers
all objects made and `table` maps an id to a number. A `client` is a goroutine in
an operation; its `pc` says at which unlocked point it is: about to lock the
object it looked up (`connect`), holding it while ssh runs (`ssh`), about to lock
it in `StartInteractiveSession` (`start`), about to call `ConnectSession` from
there (`reconnect`), about to lock it again (`launch`), or waiting for it with
`sm.mu` held (`close`). `mu` is who holds `sm.mu` for writing; readers take it for
one action, except the cleaner while it saves. `cleanupLoop` visits the entries
one by one (`SweepVisits`), gives `sm.mu` up (`SweepEnds`), and saves
(`SaveBegins`, `SaveVisits`, which reads a state without its lock as the code
does, `SaveEnds`). `ProcessExits` is the process, `WaitReturns` the goroutine
that notices. `Restart` starts from `sessions.json` and keeps what still has a
master; nothing in the program calls `Shutdown`, so it ends with what it last
saved. `closed` and `starts` are histories that only the properties read.

**SlurmCluster and DAOCache** have no variables: every method holds its lock from
beginning to end, so each is a function, of the states of jobs and nodes and of a
sequence of entries. The mock stands for the cluster: its state machine is how
the repository says a cluster behaves, and in the program the cache is wrapped
around the adapter's managers, which a refresh reads in the same way.

**JobsView.** The handlers are actions, as they run one after the other on the
goroutine of tview; `dialog` is the one in front. `fetch.phase` says where the
goroutine of a refresh is: about to look into the cache, waiting for the cluster,
having the list, about to display it. An operation is a task in three steps,
`InvalidateLists`, `Call` per job and `Done`, because the cached manager
invalidates before it calls. `SetData` keeps what is checked as the table does,
by comparing rows. `Starts`, `Ends` and `Expire` are the cluster and the clock.
Partition, user and advanced filters and the column of the sort decide in the
same way as the text filter and the order, and are abstracted to those.

**NodesView.** `array` and `used` are the slice of states with the array behind
it: `ToggleStateFilter` moves elements in place, and `BuildKey` and `ReadList`
read as many as `fetch.len` said when the refresh began. A list of nodes is a
function from the nodes in it to what they were, and `rows` a set, as both come in
the order of a Go map and nothing is decided by it; rows are made anew only
where the code does (`Table`).
`pages` is a sequence of named dialogs; `AddPage` replaces one of the same name, as
tview does. Nodes change by operations only.

**Application.** `ui` says whether the goroutine of tview draws, is in a handler
that waits, or has ended; `queue` holds what `QueueUpdateDraw` was given, and a
goroutine that called it is at `"draws"` or `"waits"` until `Draw`. `timers` is
every goroutine that `startRefreshTimer` has made, with its ticker and its stop
channel; `viewClient` is the client of each view, `toolClient` the one that its
dialogs were made with. `Key` is one key with what it leads to; the focus decides
which handler gets it. The list views differ from each other in nothing this
module looks at; its definitions are mapped to several of them.

**JobWizard.** Every handler is one step, the request included, which is made on
the goroutine of tview. `MergeTemplates` and `Overlay` build the form, in the order
of the code; `IsDropdown` is a field with a list, from the cluster or from the
configuration. The 82 fields are represented by one or two of each kind the code
treats alike. `accepted` is what the cluster has taken, with the form it came from.

**GlobalSearch.** A search is a record with its channel, its lists (`at` is where
the goroutine of each is) and what it has collected. Scores are those of the
code, per list and field; an object is the set of texts each field contains.

**HealthMonitor.** `lock` is the loop that holds `health.mu`, `todo` what its round still
has to ask. Percentages are multiplied out, an answer of the cluster is its numbers or
a failure, and the count and the text of an alert are left out. Of the boxes only whether they
are up to date is kept (`upToDate`): a box ceases to be when anything it shows changes,
the counts in the overview included.

**Observability.** `loops` is the set of goroutines, each with the number of the
Init that made its component, the channel it was started with and the one it waits
on; `closed` is the set of closed channels and of contexts that a component has
cancelled, `contextDone` that of the manager, which ends what Start was given it for
(`UnderContext`); `todo` is the rest of a Start or Stop, stage by stage. A loop that
rereads its channel is `Busy` between a tick and the next look. `AtInit` is what
Init starts, the `monitor` of the metrics included (`startBackgroundTasks`), which
ends with the metrics (`Owner`); `Prefixes` is what an Init that fails leaves behind.
`Shutdown` is `Stop` of the plugin manager. A second close of a channel is
`panicked`, after which nothing happens any more.

**Collector.** `collecting` is the second in which the collection under way began,
`savers` whether a goroutine is about to write. A file is the series it has.
`collectionLoop` ends by its channel or by its context (`told`, `cancelled`), also
while the collector counts as running; `cleanupLoop` knows the channel only.

**Subscriptions.** `flights` counts the queries under way per subscription; `held`
is the manager that the plugin has, running or not, `autosaving` the managers whose
tables a goroutine saves, those of a failed Init among them. `Enable` makes a manager,
with a table of its own, which loads the file; `Restart` goes on with the one there
is, and with its table, though it is never saved again. `Gone` is a subscription that
has left its table: only whether its callback would be called is still kept, as an
answer that is under way calls it. `origins`, `dropped` and the `origin` of a
subscription are history, by which one that was loaded is recognised.

**Standalone and PluginParts** put components that share no state into one
specification: a variable `part`, chosen by the initial state, says which of them
takes the steps. A behaviour is one of a single component, so that a property of
one is not weakened by the others.

## 3. Runs

State counts are of the complete state graph; every passing run explores all of
it.

| Run | Checks | Instance | States |
|---|---|---|---|
| `PluginManager` | `CircularNeverRun`, `RequirementsHeld`, `ConfigAgrees`; `StopInReverseOrder`; `ShutdownEnds` | `base`, `mid` requiring it, `loop` requiring `mid` and itself; two configurations; one restart | 106,890 |
| `StreamManager` | types; `SubscribedIsOpen`, `BufferContiguous`, `OutputInOrder`, `StoppedIsCleanedUp`, `ClosedStopsLocal` | two outputs in one file, one possibly remote; two units, two streams, one subscriber, one cleanup per key at a time | 2,983,254 |
| `StreamLiveness` | `EventuallyRead`, `SubscribersReleased` | the same without an SSH executor, as the application configures it, and without queued events | 134,885 |
| `SSHSessions` | `ClosedNotRestored`, `HoldersWaitForSSH`, `ProcessTracked`; `StartsConnected` | two clients and the cleaner; one host, two seconds, two objects, one terminal, one restart | 2,387,852 |
| `CircuitBreaker` | `CountsBalance`; `KeepsPromise`; `ProbesDecide` | three callers, two readers, two probes, a threshold of two, five generations, three requests each | 99,827 |
| `JobsView` | `SelectionFollowsJobs`; `ViewConverges` | a running and a pending job, one more by requeueing, three keys, one operation at a time, one thing the cluster does by itself, one entry in the cache | 600,941 |
| `Application` | `OneTimer`, `ClientsAgree`; `FollowsCluster` | the jobs view and the health view; three clusters, one out of reach; three keys, two timers, one request that fails | 272,048 |
| `Standalone` | types; `KeepsMostRecent`; `RequestIsForm`, `OneJobPerAnswer`; `ShownIsComplete`, `SearchIsShown`; `AlertsFollowChecks`; `ViewsSettle` | see below | 103,061 |
| `PluginParts` | types; `OneCollection`, `StoppedEnds`; `StoppedIsSaved`; `RestoredOnce`, `SavedIsKept`, `DueIsServed` | see below | 344,711 |
| `ApplicationFreeze`, `ApplicationTools`, `PluginRestart` | one property each, violated: see section 5 | as above | |

**Why the bounds are enough.**
*PluginManager*: a chain of two requirements and a circle are the shapes on which
the checks of `EnablePlugin`, `DisablePlugin` and `canStopPlugin` differ; one
restart separates "may be restarted" from "was dropped", and the proofs hold for
any number of each. *StreamManager*: one file for two keys is what makes the watch
and the choice of `readNewContent` ambiguous; two units tell lost, doubled and
reordered content apart; two streams allow a key to be started again while the
goroutines of its first stream go on. `ChanCap` is 2 (100 in the code): one
event fits beside another and a third is dropped. *StreamLiveness* has `ChanCap`
0: what a channel holds decides nothing in the manager, and the model stays
small. *SSHSessions*: with one host every session shares a socket, which is the case in which sessions disturb
each other; two clients and the cleaner make every pair of operations overlap;
one restart reads any file the first life can have written; two objects may bear
one id, one after the other, which is what a client that has given up its lock may
meet when it comes back. A second terminal in one object, whose waiting goroutine
would meet the first, is left to the proofs, which hold for any bounds. The clients are interchangeable, which is
sound as only invariants and an action property are checked. *CircuitBreaker*: with three callers and two probes one is rejected, and
five generations go round closed, open and half-open with one to spare; requests
of any earlier generation are stale in the same way. *JobsView*: one job that may
end by itself and one that may start are what an operation can come too late for;
three keys are a filter or a checked row, an operation and its confirmation; a
requeued job makes the list grow and moves rows. *Application*: the two views are
those that refresh in the two ways there are; three keys are enough to change the
cluster, open something and close it. *Standalone*, ring: a batch
of three goes round a ring of two and more, and every resize between the three
capacities occurs in both directions at every fill; wizard: two forms, one field
touched on each, two submissions, templates of two tiers of which one overrides
the other, and a cluster that offers a list, another or none; nodes: two nodes,
one without a partition, two states to toggle, two keys, one goroutine beside the
refresh; search: two searches of two lists into a channel of one place (100 in the
code), where two results make a sender wait, and of the three results two change
places when they are sorted; health: two rounds of the three checks in two seconds, of which that of
the nodes fails or finds either kind of trouble, and resolved alerts cleared from the next
second on (24 hours in the code). *PluginParts*, plugin: two Inits, so
that one may fail after the other or before; restarts are not bounded, as a second
one of the same components panics; collector: two queries, a series of two points,
three collections within four seconds; subscriptions: two of them, two queries of each under way at once, disabled by two errors (10 in the code), and three
managers, so that one saves, one fails or loads in between, and one loads what the
other has saved.

`CHECK_DEADLOCK FALSE` is said where a bound on the environment (units written,
streams, sessions, generations, lines) lets the system come to rest.

**Fairness.** Only what the scheduler and the runtime guarantee, and never a
call of a user:

- `PluginManager`: `Stop`, having the lock, goes on to its end (a plugin's
  `Stop` returns); a `select` whose `Done` case stays ready takes it in the end.
- `StreamManager`: the steps of a `StartStream` that has begun (file reads
  return, commands over SSH end); the goroutine that has content emits it. A
  goroutine that waits for the mutex gets it although others take it in between
  (strong fairness of `CleanupDelete` and `HandleFileEvent`): `sync.Mutex` hands
  the lock to a waiter that has starved for a millisecond. Writes, receives,
  starts and stops need not happen.
- `CircuitBreaker`: requests return, as the HTTP client has a timeout, and take
  the lock; a call of `State` ends. Nobody has to make another request.

- `JobsView`: the timer of the application refreshes the view it shows again and
  again, the goroutines of a refresh get on, an entry of the cache outlives its ten
  seconds, and the cluster, however often it fails, answers again (strong fairness
  of `ReadList`). Operations need not be carried out.
- `Application`: tview carries out what is queued while it is not in a handler,
  goroutines get on, requests are answered or fail, as they have a timeout, and
  tickers tick.
- `Standalone`: for the nodes view as for the jobs view, and the goroutines of
  dialogs come to their end; for the search, some goroutine of it that can get on
  does (fairness to all of them together is enough, since each can only take
  finitely many steps); for the health monitor, requests return and the timer redraws the
  view. Nothing is assumed of the wizard and the ring.
- `PluginParts`: the stages of a Start or Stop follow each other; a loop that is
  busy comes round (each `Turn`), as its queries have a timeout; a goroutine whose
  channel is closed ends, although `select` may take its ticker now and then (strong
  fairness of `Exit`); the loop of the subscriptions turns, and a query is answered or
  fails. Nothing is assumed of the data of the collector, nor that anything is saved.

`SSHSessions` states no fairness: its properties are safety.

## 4. Proofs

TLAPS checks every proof from the assumptions named in the modules, which state
the types of the constants; each is as weak as the code allows (a threshold
and a number of probes of at least one, finitely many callers). Those of `Standalone`
that say more are facts of the program: the checks are the three that are registered
(`ChecksAssumption`), the nodes view starts with no state twice (`NodesAssumption`),
and every form with a value in some field that is no dropdown, as one CPU and an
hour are set in the code (`WizardAssumption`).

**PluginManagerProofs**, for any plugins, any requirements between them and any
restart limit. The invariants of the run are nearly inductive. `IInv` adds two
facts: `OnlyRegistered`, that a plugin that is not registered has a blank state
and is not live, which `DisablePlugin` relies on when it looks for dependents
among the registered plugins only; and `StoppedNotLive`, that a plugin in the
`stopped` set of `Stop` is running only by name, without which the order of
`Stop` does not follow. The steps are proved one action at a time
(`RegisterStep` ... `StopVisitStep`), `checkHealth` by cases on what becomes of one
plugin. From `IInv` follow `TypeCorrect`, `CirclesNeverRun` (for circles of any
size: a first member to start would have needed another to run), `RequirementsAreHeld`,
`RunningMeansLive`, `ConfigsAgree` and, as an action property,
`StopsInReverseOrder`.

**CircuitBreakerProofs**, for any number of callers, readers, probes and
generations. As every action passes the breaker through a chain of functions, the
invariant is stated of any breaker `b` and any assignment `q` of callers to
generations (`Good(b, q)`), and a lemma per function shows that it is preserved;
the actions follow by composition. The heart of `Good` is that the requests of
the current generation are exactly those counted as answered plus those under
way, that an open breaker has none, and that a half-open one has counted no
answer. `PromiseKept` is the refinement: the initial state and every step of
`CircuitBreaker` map to one of `Breaker` or to a stutter. It rests on the
invariant, as a step that would count a late answer maps to nothing `Breaker`
allows.

**SSHSessionsProofs**, for any hosts, clients and bounds. `IInv` strengthens the
invariants of the runs where they are not inductive. `Holders` and `TableHeld` say
both ways round who holds which mutex, from which `NobodyWaitsInACircle` follows.
`Started` says that an object for which `cmd.Start` was called once has one process
at most: only so does `WaitReturns`, which resets whatever the object has by then,
leave every other terminal tracked (`TerminalsTracked`). `Ready` carries what
`ConnectSession` has established across the moment in which
`StartInteractiveSession` holds no lock: the object is connected, or has left the
table, or somebody else started a terminal in it; it also speaks of a client that
is connecting another object, made under the same id meanwhile
(`TerminalsStartConnected`). `Silent` says why a stale `sessions.json` does no harm:
no master serves the host of a closed session (`ClosedStaysClosed`). One lemma per
action; `Replaced` and `ProcessReplaced` reduce assignments to one element of a
sequence to what they change.

**StreamManagerProofs**, for any keys, files, streams, subscribers and sizes of
channels: all six safety invariants of the run. What is hard is that a stream is
read under the lock and emitted without it, and that three kinds of goroutine do
so. `IInv` says of each what it holds between its two steps: `StartHoldsTable`
of `StartStream`, whose stream nobody can take from under its key, `Polled` and
`Watched` of the other two, that what they have read leads from or to `LastOffset`. `Queued`
strengthens `OutputInOrder`, which speaks of the events in one channel only: what
waits in a channel is no further than what has been emitted (`Reach`), and so the
next event lies beyond. `CleanupsBounded` and `ClosedButStarting` carry
`StoppedIsCleanedUp` across the second in which a cleanup waits, and across a
`Close` that overtakes a `StartStream`. The lemmas are about pieces of a file
(`UnitsConcat`) and about queues that are appended to and taken from.

**ApplicationProofs**, for any views, clusters and timers. `OneTimer` is nearly
inductive: `CallersTold` adds that a timer whose update waits in the queue, and that
will be back in its `select`, is the one in use or has been told to end.
`ClientsAgree` needs only types.

**JobsViewProofs**, for any queue, lists, filters and order. `TerminalIsFinal` needs
that goroutines carry out operations and nothing else. `SelectionFollowsJobs` is a
property of one step: a refresh counts the checked rows through the list that was
and finds them in the one that comes, by a function over the rows whose values are
shown to be the checked jobs among the first of them.

**StandaloneProofs** treats five components that share no state.

- *Ring*: it implements `BoundedLog`, for any capacities and batches. `IsRing` says
  how head, tail and size hang together; each operation is shown to leave the most
  recent lines (`AppendStringLemma`, `RingResizes`), and what is read by slices
  around the end of the array to be those (`GetLinesLemma`, `LastNLemma`).
- *Health monitor*: `EachHasItsAlert` splits `AlertsFollowChecks` by what the round
  under way has done and by who resolved what; `NoneRepeated` says no two active
  alerts say the same.
- *Wizard*: `WizardInv` speaks of the form that is open (`GoodForm`: nothing unseen is set, and
  what was left alone is as the layers say), and of every form that was sent
  (`SentWasGood`), since a request outlives its form.
- *Global search*: `SearchOK` says of every search that was not cancelled that what its
  lists have sent (`SentBy`) is what has been collected together with what is in the
  channel, each result once. The channel is closed when no list is at work, so that a
  search that is through has collected everything. `SortLemma` then shows the exchange
  sort of the code to keep the results and to put the best first, one turn of each
  loop at a time.
- *Nodes view*: `NodesInv` says what a refresh may read of the slice of states that keys
  move under it. A refresh that shares the array has a length that the array still has
  (`ReadsOK`), although toggling a state off moves the others in place
  (`RemoveAtLemma`), and one that has lost it reads its own. The list of a fetch, of
  the cache and of the view is always a list of nodes, whichever key it is stored
  under (`CacheLemma`). `SortAlone` shows why a table that is sorted is never grouped: the
  prompts for the two are not open at once.
- *Types of the others* (`TypeCorrect`): of the health monitor that the loop with the lock
  is the one in its checks; of the wizard that a dropdown's value is always one it offers, for
  any configuration and any answer of the cluster (`ChosenIsOffered`), and that a form
  is never taken for none.

The ring, the loops of the sort, those of the dropdowns and those of `JobsViewProofs`
need induction over numbers, which the library's theorem cannot be used for, as it
takes an operator. `NatInductionBySet` does it for a set of numbers, from the fact that `<` is well-founded on them
(`WFMin`); that a function defined by what precedes is there is shown in the same way (`LoopIsDefined`,
`AppendingIsDefined`).

**PluginPartsProofs**, for any queries, limits, numbers of Inits and of managers.
`HistoryInv` says that a collector that is not running has no goroutine that
touches a series, whichever way its loop has ended. `NoneRestoredTwice` and
`SavedAreKept` are two halves of one matter, that what is loaded is neither there
twice nor lost, and are proved by one invariant, `FeedInv`: `OnceInTable` speaks of the
table the plugin holds and of every one that is still saved, that of a failed Init
included, since each may write the file the next manager loads, and `OnceInFile` of
the file. A table that is held and saved by nobody, after a restart, changes by
subscribing and unsubscribing alone, which is why `SavedIsKept` outlives it.
`OneLoopCollects` rests on `CollectorAwaited`: where the stages to come start the
collector, it has been waited for before or no loop of it is there. `TypeCorrect` has
bounds that only follow from the order of calls:

- *goroutines*: a kind of goroutine has three channels at most in one Init, although
  every `Start` makes one. `StartedTwice` is why: the second `Stop` panics when it closes
  the channel of the autosave again, before a third `Start` is reached, and
  `ToBeStarted` carries through the stages of a restart what is yet to be stopped and
  started. The stages to come are a sequence without repetitions (`StagesOK`).
- *history*: the points of a series are in order and none is of the future, although a
  collection stores the time at which it began. `Times` bounds a series by the
  time the collection under way began (`Latest`), which is when the next point will
  have been taken. A collector that runs has its loop unless its context has ended.
- *subscriptions*: queries and callbacks under way are of subscriptions that have been made,
  also when these have left their table (`QueriesBounded`).

Some of what is proved is in no run: the type invariants of `PluginManager`,
`SSHSessions`, `CircuitBreaker` and `JobsView`, `ProbesBounded`, `LateAnswersStale`
and `ReadersHarmless` of the circuit breaker, `RunningIsLive` of the plugin manager, and
`TerminalIsFinal` of the jobs view.

## 5. Disagreements between code and comments

Three runs end in a counterexample on purpose: the property states what a comment
or the documentation says and the code does something else.

- `ApplicationFreeze` (`RefreshSafe`): `View.Refresh` "must be safe to call from any
  goroutine", and that of the health view, called by a key, waits for the goroutine
  it is on.
- `ApplicationTools` (`ToolsFollow`): "switchCluster switches the active cluster
  connection", but a view keeps the dialogs it has made with the client before: its
  batch operations, its search and its job output go on with the old cluster, as
  does the health monitor.
- `PluginRestart` (`SubscriptionsSurvive`): "Subscriptions survive plugin restarts", but
  what has been subscribed since the last save, five minutes ago at most, is lost when
  the plugin is disabled and enabled again, and whatever has been subscribed since the
  first restart by the health check is, as nothing saves from then on. What does hold
  is `SavedIsKept`: what has been saved survives.

Reading the code for the models has shown more, which no run is spent on:

- *Plugin manager.* `Stop` walks its map in any order, and a plugin that is only
  registered can keep it from stopping a running one. Nothing but tests makes this
  manager: the program loads its plugins through the older `internal/plugins`.
- *Streaming.* The goroutine of `StopStream` cleans up "after a delay to allow final
  events to be processed" (manager.go:146), and deletes a stream started under the
  key within that second, which no `StopStream` reaches any more. A file that does not
  exist yet is not watched when it appears;
  stopping one output of a job removes the watch the other shares; the first fetch
  over SSH prints the whole file, although a comment says only new content.
- *Observability plugin.* "Stop gracefully stops all components"
  (initialization/manager.go:336), but `Persistence.Stop` closes a channel that is never
  made again: components that a restart by the health check has stopped and started
  panic at their next stop, by a second restart, by `DisablePlugin` or at the end of
  the program (`panicked` in `Observability`). "Stop stops the subscription manager"
  (subscription/manager.go:72), but its loop rereads the field of the channel and
  `Stop` does not wait for it: one that is busy while a restart stops and starts the
  manager goes on beside the new loop, and every update is started twice (two
  `"subscriptions"` in `loops`). The loops of the collector, which `Stop` waits for,
  cannot (`OneCollection`). The loop of the cache made first and that of the rate
  limiter have no end (`Endless`); the goroutines of a failed Init are never
  stopped, and its autosave goes on overwriting `subscriptions.json` with the table
  of the old manager, so that what the manager of the plugin has saved is lost again
  (`SavedIsKept` excludes that case). `Unsubscribe` removes a file that autosave never
  writes, so that an unsubscribed subscription may come back after a crash; and one
  whose query is under way still has its callback called. A collector goes on counting
  as running when its loop has ended with its context.
  `RestoreFromBackup` cannot read what `BackupSubscriptions` writes; `Recovery` works
  on a copy, and nothing calls either. The view is created with a key of the context
  that the application never sets. `Periodic save (every 10 collections)` tests the
  second, not a count. Retention drops nothing from a series whose points are all
  old (`Young`).
- *Change of cluster.* One to a cluster that cannot be reached has already changed
  the configuration, and cancels the context of all requests (`ctxDone`).
- *Nodes view.* `focusOnNode` counts rows from the header, so that a result of the
  search puts the cursor on the row before, and grouping or sorting puts it
  anywhere; the check of a node's state before ssh reads the column of the
  partitions; the group of nodes without a partition cannot be folded; Enter pressed
  twice drains twice; many keys leave the rows as they were until the next refresh.
- *Global search.* A search that is cancelled after its last element, or that found
  nothing, still replaces the results of the one after it; choosing
  `... and N more results` chooses the first result that is not listed; the goroutines of a
  search that is left wait for ever when the channel is full.
- *Job output view.* What was loaded for one job or output may be shown under
  another that was asked for meanwhile; two fields are shared without a lock.
- *Health monitor.* Alerts are looked for among the unresolved only, so that "mark
  as active again" is never reached. Two of one component in one second share an
  ID, and the second takes the place of the first: a slow round and the tick kept
  meanwhile are enough. No alert is resolved by the recovery of what it was about.
  The documentation has alerts "auto-sorted by severity"
  (docs/user-guide/views/health.md:267) and keys that take the first of them: both
  go by the order of a map, which is another each time, so that a key may
  resolve an alert other than the first on display; and `R` "refreshes all health
  checks" (:260) but only draws again.

## 6. What is only model-checked, and what is not modelled

*Out of the prover's reach*: the liveness properties (`ShutdownEnds`,
`EventuallyRead`, `SubscribersReleased`, `ProbesDecide`, `ViewConverges`,
`FollowsCluster`, `ViewsSettle`, `SearchIsShown`, `StoppedEnds`, `DueIsServed`). Every invariant and action property of the passing runs is proved, for
every value of the constants the assumptions allow; the three properties that end in
a counterexample are refuted by TLC.

*Left out of the modelled components*: texts, times and statistics; in
`PluginManager` the stored health record, which nothing reads to decide; in
`StreamManager` truncated files and read errors, and `EventBus.Unsubscribe` of
one channel, which the manager never calls; in `CircuitBreaker`
`ConsecutiveSuccesses` and the callback, and the wrap-around of the 32-bit
generation within one request; in `SSHSessions` `ExecuteCommand` and
`CreateTunnel`, which hold an object for a while (a tunnel is kept in a list
by which only `CreateTunnel` decides), the queries and tags, the clock of the half hour (an idle
session may go in any sweep), and `CloseAllSessions` and `Shutdown`, which nothing
calls; in `JobsView` and `NodesView` details, export, terminals, and in the latter
the cursor; in `Application` the status bar, alerts and layouts; in `JobWizard` the
preview's text and the conversion of times and sizes; in `GlobalSearch` the page and
what choosing a result does (`FocusOnNode` is in `NodesView`); in `Collector`
`AddQuery` and `RemoveQuery`, which nothing calls, the errors of writing and renaming
a file, which the code ignores (`StoppedIsSaved` says what is on disk if there are
none), and a goroutine that a collector of an earlier Init has left writing over the
same files; in `Subscriptions` notifications, backups and `Recovery`; in `JobWizard`
the older fields `Command` and `CPUsPerNode`, which the layers of defaults still know
beside those that replace them.

*Not modelled*: the components the inventory lists as such, for the reasons
given there.

## 7. Plan

1. The other list views by what they do not share: filters, toggles, details.
2. The job output view.
3. Proofs: with each new view, its invariants, as for those there are.
