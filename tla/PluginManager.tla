---------------------------- MODULE PluginManager ----------------------------
(***************************************************************************)
(* internal/plugin/manager.go: the lifecycle of the compile-time plugins.  *)
(*                                                                         *)
(* Every operation of Manager holds m.mu from its first to its last line,  *)
(* so an operation is one action.  Stop is the exception: it visits the    *)
(* plugins in the random order of a Go map, in passes, and what it does to *)
(* one plugin depends on those it visited before, so each visit is a step  *)
(* and mu says that Stop holds the lock meanwhile.                         *)
(*                                                                         *)
(* A plugin itself is external code.  Of it the model keeps whether it is  *)
(* started (live) and the configuration it works with (applied).  Init,    *)
(* Start, SetConfig and the hooks may fail, and a call that fails leaves   *)
(* the plugin as it was; after Stop the plugin is not live, whatever Stop  *)
(* reported.  The text of errors, times and the stored Health record,      *)
(* which no decision reads, are left out.                                  *)
(***************************************************************************)
EXTENDS Naturals, FiniteSets

CONSTANTS
  Plugin,          \* names of plugins
  Requires,        \* Requires[p]: the names in the Requires of p's Info
  Configurable,    \* plugins that implement ConfigurablePlugin
  LifecycleAware,  \* plugins that implement LifecycleAware
  Config,          \* Config[p]: the configurations p is given
  NoConfig,        \* the nil configuration of a plugin never enabled
  MaxRestarts      \* restarts checkHealth attempts in a plugin's life: 3

ASSUME PluginManagerAssumption ==
  /\ Requires \in [Plugin -> SUBSET Plugin]
  /\ Configurable \subseteq Plugin
  /\ LifecycleAware \subseteq Plugin
  /\ NoConfig \notin UNION {Config[p] : p \in Plugin}
  /\ MaxRestarts \in Nat

VARIABLES
  plugins,    \* names registered, the keys of m.plugins and of m.states
  states,     \* m.states
  config,     \* m.config
  ctxDone,    \* m.ctx is cancelled
  checking,   \* a goroutine of StartHealthChecks is running
  mu,         \* "free", or "stop" while Stop holds the lock
  stopped,    \* Stop's local map
  unvisited,  \* plugins the current pass of Stop has still to visit
  stoppedAny, \* the current pass has stopped a plugin
  live,       \* external: started and not stopped since
  applied,    \* external: the configuration the plugin works with
  unrolled    \* history: the last rollback of the plugin's configuration failed

stopVars == <<mu, stopped, unvisited, stoppedAny>>
pluginVars == <<live, applied, unrolled>>
vars == <<plugins, states, config, ctxDone, checking, stopVars, pluginVars>>

\* The struct State: lastError only as nil or not.
State == [enabled: BOOLEAN, running: BOOLEAN, lastError: BOOLEAN,
          restarts: 0 .. MaxRestarts]

AnyConfig == {NoConfig} \cup UNION {Config[p] : p \in Plugin}

Initialized ==
  [enabled |-> FALSE, running |-> FALSE, lastError |-> FALSE, restarts |-> 0]

TypeOK ==
  /\ plugins \subseteq Plugin
  /\ states \in [Plugin -> State]
  /\ config \in [Plugin -> AnyConfig]
  /\ ctxDone \in BOOLEAN
  /\ checking \in BOOLEAN
  /\ mu \in {"free", "stop"}
  /\ stopped \subseteq Plugin
  /\ unvisited \subseteq Plugin
  /\ stoppedAny \in BOOLEAN
  /\ live \in [Plugin -> BOOLEAN]
  /\ applied \in [Plugin -> AnyConfig]
  /\ unrolled \in [Plugin -> BOOLEAN]

Init ==
  /\ plugins = {}
  /\ states = [p \in Plugin |-> Initialized]
  /\ config = [p \in Plugin |-> NoConfig]
  /\ ctxDone = FALSE
  /\ checking = FALSE
  /\ mu = "free"
  /\ stopped = {}
  /\ unvisited = {}
  /\ stoppedAny = FALSE
  /\ live = [p \in Plugin |-> FALSE]
  /\ applied = [p \in Plugin |-> NoConfig]
  /\ unrolled = [p \in Plugin |-> FALSE]

Running(p) == states[p].running
Enabled(p) == states[p].enabled

(***************************************************************************)
(* Registration and enabling.                                              *)
(***************************************************************************)

RegisterPlugin(p) ==
  /\ mu = "free"
  /\ p \notin plugins
  /\ plugins' = plugins \cup {p}
  /\ states' = [states EXCEPT ![p] = Initialized]
  /\ UNCHANGED <<config, ctxDone, checking, stopVars, pluginVars>>

\* Mutant: a requirement only has to be registered.
MayEnableIfRegistered(p) ==
  p \in plugins /\ ~Enabled(p) /\ Requires[p] \subseteq plugins

\* The checks of EnablePlugin, up to and including its dependency loop.
MayEnable(p) ==
  /\ p \in plugins
  /\ ~Enabled(p)
  /\ \A req \in Requires[p] : req \in plugins /\ Running(req)

\* Init or Start fails: the configuration is stored already.
EnableFails(p, c) ==
  /\ mu = "free"
  /\ MayEnable(p)
  /\ config' = [config EXCEPT ![p] = c]
  /\ states' = [states EXCEPT ![p].lastError = TRUE]
  /\ \/ UNCHANGED pluginVars                      \* Init failed
     \/ /\ applied' = [applied EXCEPT ![p] = c]   \* Init succeeded, Start failed
        /\ UNCHANGED <<live, unrolled>>
  /\ UNCHANGED <<plugins, ctxDone, checking, stopVars>>

EnablePlugin(p, c) ==
  /\ mu = "free"
  /\ MayEnable(p)
  /\ config' = [config EXCEPT ![p] = c]
  /\ states' = [states EXCEPT ![p].enabled = TRUE, ![p].running = TRUE]
  /\ applied' = [applied EXCEPT ![p] = c]
  /\ live' = [live EXCEPT ![p] = TRUE]
  /\ unrolled' = [unrolled EXCEPT ![p] = FALSE]
  /\ UNCHANGED <<plugins, ctxDone, checking, stopVars>>

\* Mutant: dependents that a failed restart left enabled but not running do not count.
RequiredByRunning(p) ==
  \E other \in plugins \ {p} : Running(other) /\ p \in Requires[other]

\* Requirements count only while their dependent is enabled.
RequiredByEnabled(p) ==
  \E other \in plugins \ {p} : Enabled(other) /\ p \in Requires[other]

DisablePlugin(p) ==
  /\ mu = "free"
  /\ p \in plugins
  /\ Enabled(p)
  /\ ~RequiredByEnabled(p)
  /\ states' = [states EXCEPT ![p].enabled = FALSE, ![p].running = FALSE]
  /\ live' = [live EXCEPT ![p] = FALSE]
  /\ UNCHANGED <<plugins, config, ctxDone, checking, stopVars, applied, unrolled>>

(***************************************************************************)
(* UpdatePluginConfig: a plugin that is not configurable only gets its     *)
(* stored configuration replaced.                                          *)
(***************************************************************************)

StoreConfig(p, c) == config' = [config EXCEPT ![p] = c]

UpdateStoredConfig(p, c) ==
  /\ p \notin Configurable
  /\ StoreConfig(p, c)
  /\ UNCHANGED pluginVars

UpdateApplies(p, c) ==
  /\ p \in Configurable
  /\ StoreConfig(p, c)
  /\ applied' = [applied EXCEPT ![p] = c]
  /\ unrolled' = [unrolled EXCEPT ![p] = FALSE]
  /\ UNCHANGED live

\* Mutant: the configuration is not set back.
UpdateKeepsRejected(p, c) ==
  /\ p \in Configurable \cap LifecycleAware
  /\ applied' = [applied EXCEPT ![p] = c]
  /\ UNCHANGED <<config, live, unrolled>>

\* OnConfigChange fails: SetConfig(oldConfig), whose error is discarded.
UpdateRollsBack(p, c) ==
  /\ p \in Configurable \cap LifecycleAware
  /\ \E rolledBack \in BOOLEAN :
       /\ applied' = [applied EXCEPT ![p] = IF rolledBack THEN config[p] ELSE c]
       /\ unrolled' = [unrolled EXCEPT ![p] = ~rolledBack]
  /\ UNCHANGED <<config, live>>

UpdatePluginConfig(p, c) ==
  /\ mu = "free"
  /\ p \in plugins
  /\ \/ UpdateStoredConfig(p, c)
     \/ UpdateApplies(p, c)
     \/ UpdateRollsBack(p, c)
  /\ UNCHANGED <<plugins, states, ctxDone, checking, stopVars>>

(***************************************************************************)
(* Health checks.  The loop over the plugins runs under the lock and reads *)
(* only the plugin at hand, so its order does not matter.                  *)
(***************************************************************************)

StartHealthChecks ==
  /\ ~checking
  /\ checking' = TRUE
  /\ UNCHANGED <<plugins, states, config, ctxDone, stopVars, pluginVars>>

MayRestart(s) == s.restarts < MaxRestarts

\* What checkHealth makes of the state of one plugin that reports unhealthy.
AfterUnhealthy(s, restarted) ==
  CASE MayRestart(s) /\ restarted  -> [s EXCEPT !.restarts = @ + 1]
    [] MayRestart(s) /\ ~restarted -> [s EXCEPT !.running = FALSE, !.lastError = TRUE]
    [] OTHER                       -> [s EXCEPT !.running = FALSE, !.enabled = FALSE]

\* One round of checkHealth in which the plugins in sick report unhealthy and
\* those in restarted come up again.
CheckEach(sick, restarted) ==
  /\ states' = [p \in Plugin |->
                  IF p \in sick THEN AfterUnhealthy(states[p], p \in restarted)
                                ELSE states[p]]
  /\ live' = [p \in Plugin |->
                IF p \in sick /\ MayRestart(states[p]) THEN p \in restarted
                                                        ELSE live[p]]

\* The tick may win the select although the context is done.
CheckHealth ==
  /\ checking
  /\ mu = "free"
  /\ \E sick \in SUBSET {p \in plugins : Running(p)} :
     \E restarted \in SUBSET {p \in sick : MayRestart(states[p])} :
       CheckEach(sick, restarted)
  /\ UNCHANGED <<plugins, config, ctxDone, checking, stopVars, applied, unrolled>>

HealthLoopExit ==
  /\ checking
  /\ ctxDone
  /\ checking' = FALSE
  /\ UNCHANGED <<plugins, states, config, ctxDone, stopVars, pluginVars>>

(***************************************************************************)
(* Stop: passes over the plugins until one of them stops nothing.          *)
(***************************************************************************)

Stop ==
  /\ mu = "free"
  /\ mu' = "stop"
  /\ ctxDone' = TRUE
  /\ stopped' = {}
  /\ unvisited' = plugins
  /\ stoppedAny' = FALSE
  /\ UNCHANGED <<plugins, states, config, checking, pluginVars>>

\* Mutant: only plugins already visited in this pass hold a requirement.
CanStopAsVisited(p) ==
  \A other \in plugins \ (stopped \cup unvisited \cup {p}) : p \notin Requires[other]

\* canStopPlugin: running or not, every plugin not yet in stopped counts.
CanStop(p) ==
  \A other \in plugins \ (stopped \cup {p}) : p \notin Requires[other]

StopSkips(p) ==
  /\ p \in stopped
  /\ UNCHANGED <<stopped, stoppedAny, live>>

StopMarks(p) ==
  /\ p \notin stopped
  /\ ~Running(p)
  /\ stopped' = stopped \cup {p}
  /\ UNCHANGED <<stoppedAny, live>>

\* Mutant: the plugin is not entered in stopped, so every pass stops it again.
StopStopsAgain(p) ==
  /\ p \notin stopped
  /\ Running(p)
  /\ CanStop(p)
  /\ stoppedAny' = TRUE
  /\ live' = [live EXCEPT ![p] = FALSE]
  /\ UNCHANGED stopped

StopStops(p) ==
  /\ p \notin stopped
  /\ Running(p)
  /\ CanStop(p)
  /\ stopped' = stopped \cup {p}
  /\ stoppedAny' = TRUE
  /\ live' = [live EXCEPT ![p] = FALSE]

StopPasses(p) ==
  /\ p \notin stopped
  /\ Running(p)
  /\ ~CanStop(p)
  /\ UNCHANGED <<stopped, stoppedAny, live>>

StopVisit(p) ==
  /\ mu = "stop"
  /\ p \in unvisited
  /\ unvisited' = unvisited \ {p}
  /\ \/ StopSkips(p)
     \/ StopMarks(p)
     \/ StopStops(p)
     \/ StopPasses(p)
  /\ UNCHANGED <<plugins, states, config, ctxDone, checking, mu, applied, unrolled>>

StopNextPass ==
  /\ mu = "stop"
  /\ unvisited = {}
  /\ stoppedAny
  /\ unvisited' = plugins
  /\ stoppedAny' = FALSE
  /\ UNCHANGED <<plugins, states, config, ctxDone, checking, mu, stopped, pluginVars>>

StopReturns ==
  /\ mu = "stop"
  /\ unvisited = {}
  /\ ~stoppedAny
  /\ mu' = "free"
  /\ stopped' = {}
  /\ UNCHANGED <<plugins, states, config, ctxDone, checking, unvisited, stoppedAny,
                 pluginVars>>

StopStep == (\E p \in Plugin : StopVisit(p)) \/ StopNextPass \/ StopReturns

-----------------------------------------------------------------------------

Next ==
  \/ \E p \in Plugin : RegisterPlugin(p) \/ DisablePlugin(p)
  \/ \E p \in Plugin : \E c \in Config[p] :
       EnableFails(p, c) \/ EnablePlugin(p, c) \/ UpdatePluginConfig(p, c)
  \/ StartHealthChecks \/ CheckHealth \/ HealthLoopExit
  \/ Stop \/ StopStep

\* Stop runs to its end once it has the lock, and a select whose Done case
\* stays ready takes it in the end.  Nobody has to call the manager.
Spec == Init /\ [][Next]_vars /\ WF_vars(StopStep) /\ WF_vars(HealthLoopExit)

-----------------------------------------------------------------------------
(***************************************************************************)
(* Properties.                                                             *)
(***************************************************************************)

\* A set of plugins in which everyone requires someone of the set: the
\* plugins of a cycle, or those that require themselves.
Circular(C) == \A p \in C : Requires[p] \cap C # {}

\* Plugins that require each other in a circle are never started, although
\* RegisterPlugin accepts them and EnablePlugin looks one requirement ahead.
CircularNeverRun ==
  \A C \in SUBSET Plugin :
    Circular(C) => \A p \in C : ~Enabled(p) /\ ~Running(p) /\ ~live[p]

\* A requirement of an enabled plugin is itself enabled, whatever sequence of
\* Enable, Disable and health checks came before, unless the health checks
\* used up its restarts; and it is running unless it also failed once.
RequirementsHeld ==
  \A p \in Plugin : Enabled(p) =>
    \A req \in Requires[p] :
      /\ req \in plugins
      /\ Enabled(req) \/ states[req].restarts = MaxRestarts
      /\ Running(req) \/ states[req].restarts = MaxRestarts \/ states[req].lastError

\* What the manager reports agrees with what the plugin does: a live plugin is
\* Running or was dropped by the restart limit without a call of Stop, and
\* a Running plugin is live as long as the manager was not stopped.
RunningIsLive ==
  \A p \in Plugin :
    /\ live[p] => Running(p) \/ states[p].restarts = MaxRestarts
    /\ Running(p) => Enabled(p) /\ (live[p] \/ ctxDone)

\* A running configurable plugin works with the configuration the manager
\* has stored, after any updates and rollbacks, unless a rollback failed.
ConfigAgrees ==
  \A p \in Configurable : Running(p) /\ ~unrolled[p] => applied[p] = config[p]

\* Stop never stops a plugin that a running, not yet stopped plugin requires.
StopInReverseOrder ==
  [][\A p, req \in Plugin :
       mu = "stop" /\ live[req] /\ ~live'[req] /\ p # req /\ req \in Requires[p]
         => ~(live[p] /\ Running(p))]_vars

\* Stop returns, whatever the requirements look like, and the goroutines of
\* StartHealthChecks end after it.
ShutdownEnds == (mu = "stop" ~> mu = "free") /\ (ctxDone ~> ~checking)

=============================================================================
