----------------------------- MODULE Observability -----------------------------
(***************************************************************************)
(* plugins/observability: what its Init, Start and Stop bring to life and  *)
(* end, under the calls of internal/plugin/manager.go.  The manager makes  *)
(* them one at a time, under its lock, and the goroutines they start run   *)
(* on beside them.  Init builds all components anew; Stop and Start of a   *)
(* restart meet the old ones.  Stop of the manager itself cancels the      *)
(* context of its plugins first.  The external API is configured.          *)
(***************************************************************************)
EXTENDS Integers, Sequences, FiniteSets

CONSTANTS
  Rotates,    \* whether the configuration has the rotation of secrets
  MaxInits    \* bound: calls of Init

\* What is running in a goroutine, or in two that are alike.
AtInit == {"firstCache", "cache", "monitor", "autosave", "limiter"}
            \cup (IF Rotates THEN {"rotation"} ELSE {})
AtStart == {"metrics", "overlays", "subscriptions", "collector", "api"}
Collecting == {"collector", "cleanup"}      \* the loops of the collector
Rereads == {"subscriptions"} \cup Collecting   \* loops that read their channel anew
Remade == {"subscriptions", "collector", "api"}   \* what Start gives a new channel
Kind == AtInit \cup AtStart \cup {"rotation", "cleanup"}   \* rotation or not: its context

\* Whose channel, or context, a goroutine waits on.
Owner(k) == CASE k = "monitor" -> "metrics" [] k = "cleanup" -> "collector" [] OTHER -> k

\* What Start gives its own context to, so that its end ends them too.
UnderContext == {"subscriptions", "collector", "overlays"}

\* initCaching makes a client whose cache initMetrics replaces, and the rate
\* limiter stops its ticker without closing anything: these loops have no end.
Endless == {"firstCache", "limiter"}

VARIABLES
  enabled, alive,   \* the manager's Enabled and Running
  call, todo,       \* the manager's call in progress, and its stages to come
  inits, current,   \* components built so far, and those the plugin holds
  on,               \* of the current components, those marked as running
  channel,          \* for each kind and each Init: its latest stop channel
  closed,           \* the stop channels that are closed, cancelled contexts too
  loops,            \* the goroutines: when they were started, what they wait on
  contextDone,      \* the manager's context has been cancelled
  panicked          \* the program is over: a closed channel was closed

pluginVars == <<enabled, alive, call, todo, inits, current, on, channel, closed, loops,
                contextDone, panicked>>

Busy == 0   \* at work, or about to begin: will read its channel next

Generation == 1 .. MaxInits
Loop(k, g, n, waits) == [kind |-> k, gen |-> g, born |-> n, waits |-> waits]
Now(k) == [kind |-> k, gen |-> current, number |-> channel[k][current]]

\* A stage is what is done, and to what.
StartStages ==
  <<<<"test", "client">>, <<"start", "metrics">>, <<"start", "overlays">>,
    <<"start", "subscriptions">>, <<"start", "collector">>, <<"start", "api">>>>

StopStages ==
  <<<<"stop", "api">>, <<"stop", "collector">>, <<"await", "collector">>,
    <<"stop", "autosave">>, <<"stop", "subscriptions">>, <<"stop", "overlays">>,
    <<"stop", "metrics">>, <<"stop", "cache">>, <<"stop", "rotation">>>>

Init ==
  /\ enabled = FALSE /\ alive = FALSE /\ contextDone = FALSE /\ panicked = FALSE
  /\ call = "none" /\ todo = <<>>
  /\ inits = 0 /\ current = 0
  /\ on = {} /\ closed = {} /\ loops = {}
  /\ channel = [k \in Kind |-> [g \in Generation |-> 1]]

(***************************************************************************)
(* The calls of the plugin manager.                                        *)
(***************************************************************************)

Idle == call = "none" /\ ~panicked

Begin(c, stages) == Idle /\ call' = c /\ todo' = stages

\* How far InitializeComponents comes: each of these ends with the goroutines
\* it has started, and only the last leaves them to the plugin.
Prefixes ==
  {{}, AtInit \ {"firstCache", "cache", "monitor", "autosave", "limiter"},
   AtInit \ {"autosave", "limiter"}, AtInit \ {"limiter"}}

Born(kinds, g) == {Loop(k, g, 1, 1) : k \in kinds}

InitFails ==
  /\ Idle /\ ~enabled /\ inits < MaxInits
  /\ inits' = inits + 1
  /\ \E kinds \in Prefixes : loops' = loops \cup Born(kinds, inits + 1)
  /\ UNCHANGED <<enabled, alive, call, todo, current, on, channel, closed, contextDone, panicked>>

EnablePlugin ==
  /\ ~enabled /\ inits < MaxInits
  /\ Begin("enable", StartStages)
  /\ inits' = inits + 1 /\ current' = inits + 1
  /\ on' = {}
  /\ loops' = loops \cup Born(AtInit, inits + 1)
  /\ UNCHANGED <<enabled, alive, channel, closed, contextDone, panicked>>

\* The plugin is stopped whether or not it is running.
DisablePlugin ==
  /\ enabled
  /\ Begin("disable", StopStages)
  /\ UNCHANGED <<enabled, alive, inits, current, on, channel, closed, loops, contextDone,
                 panicked>>

\* Stop of the manager: it cancels, and then stops the plugin if it is running,
\* which it is taken to be ever after.
Shutdown ==
  /\ Begin("shutdown", IF alive THEN StopStages ELSE <<>>)
  /\ contextDone' = TRUE
  /\ UNCHANGED <<enabled, alive, inits, current, on, channel, closed, loops, panicked>>

\* The connection has failed its check.  The limit of three restarts is out of
\* reach: no components survive a second Stop.
Restart ==
  /\ alive
  /\ Begin("restart", StopStages \o StartStages)
  /\ UNCHANGED <<enabled, alive, inits, current, on, channel, closed, loops, contextDone,
                 panicked>>

Return ==
  /\ call # "none" /\ todo = <<>> /\ ~panicked
  /\ enabled' = CASE call = "disable" -> FALSE [] call = "shutdown" -> enabled [] OTHER -> TRUE
  /\ alive' = CASE call = "disable" -> FALSE [] call = "shutdown" -> alive [] OTHER -> TRUE
  /\ call' = "none"
  /\ UNCHANGED <<todo, inits, current, on, channel, closed, loops, contextDone, panicked>>

\* A mutant: a plugin that was running is still taken to be.
GiveUpNot ==
  /\ call' = "none" /\ todo' = <<>>
  /\ UNCHANGED <<enabled, alive, inits, current, on, channel, closed, loops, contextDone,
                 panicked>>

\* Start has failed.  What it had started is left as it is, and a plugin that
\* was enabled stays so.
GiveUp ==
  /\ alive' = FALSE
  /\ call' = "none" /\ todo' = <<>>
  /\ UNCHANGED <<enabled, inits, current, on, channel, closed, loops, contextDone, panicked>>

(***************************************************************************)
(* The stages of Start and Stop.                                           *)
(***************************************************************************)

At(does, k) == todo # <<>> /\ Head(todo) = <<does, k>> /\ ~panicked
Go == todo' = Tail(todo) /\ UNCHANGED <<enabled, alive, call, inits, current, contextDone>>

\* TestConnection: the only stage of Start that fails here, and the first.
ConnectFails == At("test", "client") /\ GiveUp
Connect ==
  /\ At("test", "client") /\ ~contextDone
  /\ Go
  /\ UNCHANGED <<on, channel, closed, loops, panicked>>

\* The goroutines that Start of component k makes.
StartedLoops(k, n) ==
  CASE k = "collector" -> {Loop(l, current, n, Busy) : l \in Collecting}
    [] k = "subscriptions" -> {Loop(k, current, n, Busy)}
    [] OTHER -> {Loop(k, current, n, n)}

\* The overlays and the metrics keep the channel and the context they were
\* built with; the others get a new one, to which a loop of theirs comes
\* whenever it goes round.
Start(k) ==
  /\ At("start", k) /\ k \notin on
  /\ Go
  /\ on' = on \cup {k}
  /\ channel' = IF k \in Remade THEN [channel EXCEPT ![k][current] = @ + 1] ELSE channel
  /\ loops' = loops \cup StartedLoops(k, channel'[k][current])
  /\ UNCHANGED <<closed, panicked>>

\* What is guarded by a flag: a second stop is an error that is only logged.
StopRunning(k) ==
  /\ At("stop", k) /\ k \in AtStart
  /\ Go
  /\ on' = on \ {k}
  /\ closed' = IF k \in on THEN closed \cup {Now(k)} ELSE closed
  /\ UNCHANGED <<channel, loops, panicked>>

\* A mutant: Stop of the collector waits for the loop that collects only.
AwaitOneLoop ==
  /\ At("await", "collector")
  /\ ~ \E l \in loops : l.kind = "collector" /\ l.gen = current
  /\ Go
  /\ UNCHANGED <<on, channel, closed, loops, panicked>>

\* Stop of the collector returns when its loops have, and then saves.
AwaitCollector ==
  /\ At("await", "collector")
  /\ ~ \E l \in loops : l.kind \in Collecting /\ l.gen = current
  /\ Go
  /\ UNCHANGED <<on, channel, closed, loops, panicked>>

\* The cache guards its channel, and a context may be cancelled twice.
StopOnce(k) ==
  /\ At("stop", k) /\ k \in {"cache", "rotation"}
  /\ Go
  /\ closed' = closed \cup {Now(k)}
  /\ UNCHANGED <<on, channel, loops, panicked>>

\* A mutant: the loop that saves is left alone.
StopAutosaveNot ==
  At("stop", "autosave") /\ Go /\ UNCHANGED <<on, channel, closed, loops, panicked>>

\* Stop of the persistence closes its channel without looking.
StopAutosave ==
  /\ At("stop", "autosave")
  /\ panicked' = (Now("autosave") \in closed)
  /\ closed' = closed \cup {Now("autosave")}
  /\ Go
  /\ UNCHANGED <<on, channel, loops>>

Stage ==
  \/ Connect
  \/ ConnectFails
  \/ \E k \in AtStart : Start(k)
  \/ \E k \in AtStart : StopRunning(k)
  \/ AwaitCollector
  \/ StopAutosave
  \/ \E k \in {"cache", "rotation"} : StopOnce(k)
  \/ Return

(***************************************************************************)
(* The goroutines.  One that waits has read its channel already; one whose *)
(* ticker fires works and reads it again.                                  *)
(***************************************************************************)

MayExit(l) ==
  /\ l.kind \notin Endless /\ l.waits # Busy
  /\ \/ [kind |-> Owner(l.kind), gen |-> l.gen, number |-> l.waits] \in closed
     \/ contextDone /\ l.kind \in UnderContext

\* Those that always wait on the same channel end together: nothing in this
\* state depends on their order.
Exit ==
  /\ ~panicked
  /\ \/ \E l \in loops : l.kind \in Rereads /\ MayExit(l) /\ loops' = loops \ {l}
     \/ LET some == {l \in loops : l.kind \notin Rereads /\ MayExit(l)}
        IN some # {} /\ loops' = loops \ some
  /\ UNCHANGED <<enabled, alive, call, todo, inits, current, on, channel, closed, contextDone,
                 panicked>>

\* Also when the channel is closed: select takes either.
Tick ==
  /\ ~panicked
  /\ \E l \in loops :
       /\ l.waits # Busy /\ l.kind \in Rereads
       /\ loops' = (loops \ {l}) \cup {[l EXCEPT !.waits = Busy]}
  /\ UNCHANGED <<enabled, alive, call, todo, inits, current, on, channel, closed, contextDone,
                 panicked>>

Turn(k, g) ==
  /\ ~panicked
  /\ \E l \in loops :
       /\ l.waits = Busy /\ l.kind = k /\ l.gen = g
       /\ loops' = (loops \ {l}) \cup {[l EXCEPT !.waits = channel[Owner(k)][g]]}
  /\ UNCHANGED <<enabled, alive, call, todo, inits, current, on, channel, closed, contextDone,
                 panicked>>

PluginNext ==
  \/ InitFails
  \/ EnablePlugin
  \/ DisablePlugin
  \/ Shutdown
  \/ Restart
  \/ Stage
  \/ Exit
  \/ Tick
  \/ \E k \in Rereads, g \in Generation : Turn(k, g)

-----------------------------------------------------------------------------

PluginTypeOK ==
  /\ {enabled, alive, contextDone, panicked} \subseteq BOOLEAN /\ (alive => enabled)
  /\ call \in {"none", "enable", "disable", "restart", "shutdown"}
  /\ call = "none" => todo = <<>>
  /\ inits \in 0 .. MaxInits /\ current \in 0 .. inits
  /\ on \subseteq AtStart
  /\ closed \subseteq [kind : Kind, gen : Generation, number : 1 .. 3]
  /\ loops \subseteq [kind : Kind, gen : 1 .. inits, born : 1 .. 3, waits : 0 .. 3]
  /\ alive /\ call = "none" /\ ~contextDone => on = AtStart

\* Components that have been stopped, by DisablePlugin, by Stop of the manager or
\* by a restart that then failed to start them.  From then on they stay so.
Stopped(g) ==
  /\ [kind |-> "cache", gen |-> g, number |-> 1] \in closed
  /\ g = current => call = "none" /\ on = {}

\* Again and again the plugin comes to rest.  No call waits for ever: the loops of
\* the collector are told before Stop waits for them, whatever they are at and
\* whatever channel they last read.  And every goroutine of stopped components
\* ends, those that Init started as well, however often Init and Start had failed
\* before, but those that have no way to.  A panic, which the second stop of the
\* same components is, ends them all, with the program.
StoppedEnds ==
  []<>(panicked \/ /\ call = "none"
                   /\ \A g \in Generation : Stopped(g) =>
                        \A l \in loops : l.gen = g => l.kind \in Endless)

\* A collector has one loop that collects and one that cleans up, also when it
\* has been stopped and started again: they read the channel anew, and one that
\* had not noticed the stop would go on with the new channel beside the new loop.
OneCollection ==
  \A l, m \in loops :
    l.kind \in Collecting /\ m.kind = l.kind /\ m.gen = l.gen => m = l

=============================================================================
