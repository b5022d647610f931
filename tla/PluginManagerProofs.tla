------------------------- MODULE PluginManagerProofs -------------------------
(***************************************************************************)
(* Theorems about PluginManager, for every set of plugins, every            *)
(* requirement relation (cyclic ones too) and every restart limit.          *)
(*                                                                         *)
(* One inductive invariant, IInv, carries all of them.  It adds to the      *)
(* checked invariants that only registered plugins are enabled, and that    *)
(* what Stop has entered in stopped is no longer live if it was running.    *)
(***************************************************************************)
EXTENDS PluginManager, TLAPS

\* A plugin not yet registered is untouched; an enabled one is registered, and
\* so is everything it requires.
OnlyRegistered ==
  \A p \in Plugin :
    /\ p \notin plugins => states[p] = Initialized /\ ~live[p]
    /\ Enabled(p) => Requires[p] \subseteq plugins

\* While Stop holds the lock the context is done, and the running plugins it has
\* entered in stopped are stopped.
StoppedNotLive ==
  mu = "stop" => ctxDone /\ \A p \in stopped : Running(p) => ~live[p]

IInv ==
  /\ TypeOK
  /\ OnlyRegistered
  /\ CircularNeverRun
  /\ RequirementsHeld
  /\ RunningIsLive
  /\ ConfigAgrees
  /\ StoppedNotLive

-----------------------------------------------------------------------------

\* What a caller passes to EnablePlugin or UpdatePluginConfig is a configuration.
LEMMA ConfigsAreAny ==
  ASSUME NEW p \in Plugin, NEW c \in Config[p]
  PROVE  c \in AnyConfig
  BY DEF AnyConfig

\* checkHealth restarts a plugin only while its count is below the limit.
LEMMA AfterUnhealthyType ==
  ASSUME NEW s \in State, NEW restarted \in BOOLEAN
  PROVE  AfterUnhealthy(s, restarted) \in State
<1> DEFINE t == AfterUnhealthy(s, restarted)
<1>1. CASE MayRestart(s) /\ restarted
  <2>1. t = [s EXCEPT !.restarts = s.restarts + 1]
    BY <1>1 DEF AfterUnhealthy
  <2>2. s.restarts + 1 \in 0 .. MaxRestarts /\ s.restarts # MaxRestarts
    BY <1>1, PluginManagerAssumption DEF MayRestart, State
  <2>3. QED
    BY <2>1, <2>2 DEF State
<1>2. CASE MayRestart(s) /\ ~restarted
  <2>1. t = [s EXCEPT !.running = FALSE, !.lastError = TRUE]
    BY <1>2 DEF AfterUnhealthy
  <2>2. QED
    BY <2>1 DEF State
<1>3. CASE ~MayRestart(s)
  <2>1. t = [s EXCEPT !.running = FALSE, !.enabled = FALSE]
    BY <1>3 DEF AfterUnhealthy
  <2>2. s.restarts = MaxRestarts
    BY <1>3, PluginManagerAssumption DEF MayRestart, State
  <2>3. QED
    BY <2>1, <2>2 DEF State
<1>4. QED
  BY <1>1, <1>2, <1>3

\* Every operation of the manager, and every visit of Stop, keeps the types.
LEMMA TypeStep == TypeOK /\ [Next]_vars => TypeOK'
<1> SUFFICES ASSUME TypeOK, [Next]_vars PROVE TypeOK'
  OBVIOUS
<1>1. ASSUME NEW p \in Plugin, RegisterPlugin(p) PROVE TypeOK'
  BY <1>1, PluginManagerAssumption
  DEF TypeOK, RegisterPlugin, Initialized, State, stopVars, pluginVars
<1>2. ASSUME NEW p \in Plugin, DisablePlugin(p) PROVE TypeOK'
  BY <1>2 DEF TypeOK, DisablePlugin, State, stopVars
<1>3. ASSUME NEW p \in Plugin, NEW c \in Config[p], EnableFails(p, c) PROVE TypeOK'
  BY <1>3, ConfigsAreAny DEF TypeOK, EnableFails, State, stopVars, pluginVars
<1>4. ASSUME NEW p \in Plugin, NEW c \in Config[p], EnablePlugin(p, c) PROVE TypeOK'
  BY <1>4, ConfigsAreAny DEF TypeOK, EnablePlugin, State, stopVars
<1>5. ASSUME NEW p \in Plugin, NEW c \in Config[p], UpdatePluginConfig(p, c)
      PROVE  TypeOK'
  <2>1. CASE UpdateStoredConfig(p, c)
    BY <1>5, <2>1, ConfigsAreAny
    DEF TypeOK, UpdatePluginConfig, UpdateStoredConfig, StoreConfig, stopVars, pluginVars
  <2>2. CASE UpdateApplies(p, c)
    BY <1>5, <2>2, ConfigsAreAny
    DEF TypeOK, UpdatePluginConfig, UpdateApplies, StoreConfig, stopVars
  <2>3. CASE UpdateRollsBack(p, c)
    BY <1>5, <2>3, ConfigsAreAny
    DEF TypeOK, UpdatePluginConfig, UpdateRollsBack, stopVars
  <2>4. QED
    BY <1>5, <2>1, <2>2, <2>3 DEF UpdatePluginConfig
<1>6. CASE StartHealthChecks
  BY <1>6 DEF TypeOK, StartHealthChecks, stopVars, pluginVars
<1>7. CASE CheckHealth
  <2> PICK sick \in SUBSET {p \in plugins : Running(p)} :
        \E restarted \in SUBSET {p \in sick : MayRestart(states[p])} :
          CheckEach(sick, restarted)
    BY <1>7 DEF CheckHealth
  <2> PICK restarted \in SUBSET {p \in sick : MayRestart(states[p])} :
          CheckEach(sick, restarted)
    OBVIOUS
  <2>1. states' \in [Plugin -> State]
    <3>1. ASSUME NEW p \in Plugin
          PROVE  AfterUnhealthy(states[p], p \in restarted) \in State
      <4>1. states[p] \in State /\ (p \in restarted) \in BOOLEAN
        BY DEF TypeOK
      <4>2. QED
        BY <4>1, AfterUnhealthyType
    <3>2. QED
      BY <3>1 DEF TypeOK, CheckEach
  <2>2. live' \in [Plugin -> BOOLEAN]
    <3>1. \A p \in Plugin : (p \in restarted) \in BOOLEAN /\ live[p] \in BOOLEAN
      BY DEF TypeOK
    <3>2. QED
      BY <3>1, Zenon DEF CheckEach
  <2>3. QED
    BY <1>7, <2>1, <2>2 DEF TypeOK, CheckHealth, stopVars
<1>8. CASE HealthLoopExit
  BY <1>8 DEF TypeOK, HealthLoopExit, stopVars, pluginVars
<1>9. CASE Stop
  BY <1>9 DEF TypeOK, Stop, pluginVars
<1>10. ASSUME NEW p \in Plugin, StopVisit(p) PROVE TypeOK'
  BY <1>10 DEF TypeOK, StopVisit, StopSkips, StopMarks, StopStops, StopPasses
<1>11. CASE StopNextPass
  BY <1>11 DEF TypeOK, StopNextPass, pluginVars
<1>12. CASE StopReturns
  BY <1>12 DEF TypeOK, StopReturns, pluginVars
<1>13. CASE UNCHANGED vars
  BY <1>13 DEF TypeOK, vars, stopVars, pluginVars
<1>14. QED
  BY <1>1, <1>2, <1>3, <1>4, <1>5, <1>6, <1>7, <1>8, <1>9, <1>10, <1>11, <1>12,
     <1>13 DEF Next, StopStep

\* NewManager starts with well-typed, empty tables.
LEMMA TypeInit == Init => TypeOK
<1>1. Initialized \in State /\ NoConfig \in AnyConfig
  BY PluginManagerAssumption DEF State, Initialized, AnyConfig
<1>2. QED
  BY <1>1 DEF Init, TypeOK

\* Every variable keeps its type: in particular no plugin is restarted more
\* than MaxRestarts times.
THEOREM TypeCorrect == Spec => []TypeOK
  BY TypeInit, TypeStep, PTL DEF Spec

-----------------------------------------------------------------------------
(***************************************************************************)
(* The invariants a step can disturb, action by action.                    *)
(***************************************************************************)

\* What only the states, the registrations and live decide.
Lifecycle ==
  /\ OnlyRegistered
  /\ CircularNeverRun
  /\ RequirementsHeld
  /\ RunningIsLive

\* A step that changes none of the variables the invariants read.
LEMMA FrameStep ==
  ASSUME IInv, UNCHANGED <<plugins, states, config, live, applied, unrolled>>,
         ctxDone => ctxDone'
  PROVE  Lifecycle' /\ ConfigAgrees'
  BY DEF IInv, Lifecycle, OnlyRegistered, CircularNeverRun, RequirementsHeld,
         RunningIsLive, ConfigAgrees, Enabled, Running

\* RegisterPlugin puts a plugin that is neither enabled nor live in the tables.
LEMMA RegisterStep ==
  ASSUME IInv, NEW p \in Plugin, RegisterPlugin(p)
  PROVE  Lifecycle' /\ ConfigAgrees'
<1>1. states' = states
  BY DEF RegisterPlugin, IInv, OnlyRegistered, TypeOK
<1>2. /\ plugins \subseteq plugins'
      /\ p \in plugins'
      /\ \A q \in Plugin : q \notin plugins' => q \notin plugins
      /\ UNCHANGED <<config, ctxDone, live, applied, unrolled>>
  BY DEF RegisterPlugin, pluginVars
<1>3. QED
  BY <1>1, <1>2
  DEF IInv, Lifecycle, OnlyRegistered, CircularNeverRun, RequirementsHeld,
      RunningIsLive, ConfigAgrees, Enabled, Running

\* An EnablePlugin whose Init or Start fails marks an error and starts nothing.
LEMMA EnableFailsStep ==
  ASSUME IInv, NEW p \in Plugin, NEW c \in Config[p], EnableFails(p, c)
  PROVE  Lifecycle' /\ ConfigAgrees'
<1> USE DEF Enabled, Running
<1>1. /\ p \in plugins /\ ~Enabled(p) /\ ~Running(p)
      /\ states' = [states EXCEPT ![p].lastError = TRUE]
      /\ \A q \in Plugin : q # p => config'[q] = config[q] /\ applied'[q] = applied[q]
      /\ UNCHANGED <<plugins, ctxDone, live, unrolled>>
  BY DEF EnableFails, MayEnable, IInv, TypeOK, RunningIsLive, pluginVars
<1>2. \A q \in Plugin :
        /\ states'[q].enabled = states[q].enabled
        /\ states'[q].running = states[q].running
        /\ states'[q].restarts = states[q].restarts
        /\ states[q].lastError => states'[q].lastError
        /\ q # p => states'[q] = states[q]
  BY <1>1 DEF IInv, TypeOK, State
<1>3. Lifecycle'
  BY <1>1, <1>2
  DEF IInv, Lifecycle, OnlyRegistered, CircularNeverRun, RequirementsHeld, RunningIsLive
<1>4. ConfigAgrees'
  BY <1>1, <1>2, PluginManagerAssumption DEF IInv, ConfigAgrees
<1>5. QED
  BY <1>3, <1>4

\* EnablePlugin starts one plugin, whose requirements are all running: it is in no
\* circle, as a member of a circle would need another member to run before it.
LEMMA EnableStep ==
  ASSUME IInv, NEW p \in Plugin, NEW c \in Config[p], EnablePlugin(p, c)
  PROVE  Lifecycle' /\ ConfigAgrees'
<1> USE DEF Enabled, Running
<1>1. /\ p \in plugins /\ ~Enabled(p)
      /\ \A req \in Requires[p] : req \in plugins /\ Running(req)
      /\ UNCHANGED <<plugins, ctxDone>>
  BY DEF EnablePlugin, MayEnable
<1>2. \A q \in Plugin :
        /\ q # p => /\ states'[q] = states[q]
                    /\ live'[q] = live[q]
                    /\ config'[q] = config[q]
                    /\ applied'[q] = applied[q]
                    /\ unrolled'[q] = unrolled[q]
        /\ q = p => /\ states'[q].enabled /\ states'[q].running
                    /\ states'[q].restarts = states[q].restarts
                    /\ states'[q].lastError = states[q].lastError
                    /\ live'[q]
                    /\ config'[q] = c /\ applied'[q] = c
  BY DEF EnablePlugin, IInv, TypeOK, State
<1>3. Requires[p] \subseteq Plugin
  BY PluginManagerAssumption
<1>4. OnlyRegistered'
  BY <1>1, <1>2 DEF IInv, OnlyRegistered
\* p is in no circular set: one of its requirements would be in it and running.
<1>5. CircularNeverRun'
  <2> SUFFICES ASSUME NEW C \in SUBSET Plugin, Circular(C), NEW q \in C
               PROVE  ~states'[q].enabled /\ ~states'[q].running /\ ~live'[q]
    BY DEF CircularNeverRun
  <2>1. \A r \in C : ~Enabled(r) /\ ~Running(r) /\ ~live[r]
    BY DEF IInv, CircularNeverRun
  <2>2. p \notin C
    BY <1>1, <2>1 DEF Circular
  <2>3. QED
    BY <1>2, <2>1, <2>2
<1>6. RequirementsHeld'
  BY <1>1, <1>2, <1>3, PluginManagerAssumption DEF IInv, RequirementsHeld, RunningIsLive
<1>7. RunningIsLive'
  BY <1>1, <1>2 DEF IInv, RunningIsLive
<1>8. ConfigAgrees'
  BY <1>2, PluginManagerAssumption DEF IInv, ConfigAgrees
<1>9. QED
  BY <1>4, <1>5, <1>6, <1>7, <1>8 DEF Lifecycle

\* DisablePlugin stops one plugin, which no other enabled plugin requires.
LEMMA DisableStep ==
  ASSUME IInv, NEW p \in Plugin, DisablePlugin(p)
  PROVE  Lifecycle' /\ ConfigAgrees'
<1> USE DEF Enabled, Running
<1>1. /\ p \in plugins /\ Enabled(p)
      /\ \A q \in plugins \ {p} : Enabled(q) => p \notin Requires[q]
      /\ UNCHANGED <<plugins, config, ctxDone, applied, unrolled>>
  BY DEF DisablePlugin, RequiredByEnabled
<1>2. \A q \in Plugin :
        /\ q # p => states'[q] = states[q] /\ live'[q] = live[q]
        /\ q = p => /\ ~states'[q].enabled /\ ~states'[q].running
                    /\ states'[q].restarts = states[q].restarts
                    /\ ~live'[q]
  BY DEF DisablePlugin, IInv, TypeOK, State
<1>3. OnlyRegistered'
  BY <1>1, <1>2 DEF IInv, OnlyRegistered
<1>4. CircularNeverRun'
  BY <1>2 DEF IInv, CircularNeverRun
<1>5. RequirementsHeld'
  <2> SUFFICES ASSUME NEW q \in Plugin, states'[q].enabled, NEW req \in Requires[q]
               PROVE  /\ req \in plugins
                      /\ states'[req].enabled \/ states'[req].restarts = MaxRestarts
                      /\ \/ states'[req].running
                         \/ states'[req].restarts = MaxRestarts
                         \/ states'[req].lastError
    BY <1>1 DEF RequirementsHeld
  <2>1. q # p /\ Enabled(q) /\ req \in Plugin
    BY <1>2, PluginManagerAssumption
  <2>2. q \in plugins
    BY <2>1 DEF IInv, OnlyRegistered, Initialized
  <2>3. req # p
    BY <1>1, <2>1, <2>2
  <2>4. QED
    BY <1>2, <2>1, <2>3 DEF IInv, RequirementsHeld
<1>6. RunningIsLive'
  BY <1>1, <1>2 DEF IInv, RunningIsLive
<1>7. ConfigAgrees'
  BY <1>1, <1>2, PluginManagerAssumption DEF IInv, ConfigAgrees
<1>8. QED
  BY <1>3, <1>4, <1>5, <1>6, <1>7 DEF Lifecycle

\* UpdatePluginConfig stores and applies a configuration together, or rolls back.
LEMMA UpdateConfigStep ==
  ASSUME IInv, NEW p \in Plugin, NEW c \in Config[p], UpdatePluginConfig(p, c)
  PROVE  Lifecycle' /\ ConfigAgrees'
<1>1. UNCHANGED <<plugins, states, ctxDone, live>>
  BY DEF UpdatePluginConfig, UpdateStoredConfig, UpdateApplies, UpdateRollsBack, pluginVars
<1>2. Lifecycle'
  BY <1>1
  DEF IInv, Lifecycle, OnlyRegistered, CircularNeverRun, RequirementsHeld,
      RunningIsLive, Enabled, Running
<1>3. \A q \in Configurable : q # p => /\ config'[q] = config[q]
                                      /\ applied'[q] = applied[q]
                                      /\ unrolled'[q] = unrolled[q]
  BY PluginManagerAssumption
  DEF UpdatePluginConfig, UpdateStoredConfig, UpdateApplies, UpdateRollsBack, StoreConfig,
      pluginVars, IInv, TypeOK
<1>4. p \in Configurable /\ ~unrolled'[p] => applied'[p] = config'[p]
  BY PluginManagerAssumption
  DEF UpdatePluginConfig, UpdateStoredConfig, UpdateApplies, UpdateRollsBack, StoreConfig,
      IInv, TypeOK
<1>5. ConfigAgrees'
  BY <1>1, <1>3, <1>4 DEF IInv, ConfigAgrees, Running
<1>6. QED
  BY <1>2, <1>5

\* A round of checkHealth enables nothing, and what it stops either used up its
\* restarts or failed one.
LEMMA CheckHealthStep ==
  ASSUME IInv, CheckHealth
  PROVE  Lifecycle' /\ ConfigAgrees'
<1> USE DEF Enabled, Running
<1>1. PICK sick \in SUBSET {p \in plugins : Running(p)} :
        \E restarted \in SUBSET {p \in sick : MayRestart(states[p])} :
          CheckEach(sick, restarted)
  BY DEF CheckHealth
<1>2. PICK restarted \in SUBSET {p \in sick : MayRestart(states[p])} :
        CheckEach(sick, restarted)
  BY <1>1
<1>3. UNCHANGED <<plugins, config, ctxDone, applied, unrolled>>
  BY DEF CheckHealth
\* A plugin that checkHealth leaves alone, restarts, fails to restart or drops.
<1>4. ASSUME NEW p \in Plugin
      PROVE  /\ p \notin sick => states'[p] = states[p] /\ live'[p] = live[p]
             /\ p \in sick =>
                  /\ p \in plugins /\ Running(p)
                  /\ \/ states'[p].restarts = MaxRestarts /\ ~states'[p].running
                     \/ live'[p] <=> states'[p].running
             /\ states'[p].enabled => states[p].enabled
             /\ states'[p].running => states[p].running /\ (states'[p].enabled <=> states[p].enabled)
             /\ states[p].enabled => \/ states'[p].enabled
                                     \/ states'[p].restarts = MaxRestarts
             /\ states[p].running => \/ states'[p].running
                                     \/ states'[p].restarts = MaxRestarts
                                     \/ states'[p].lastError
             /\ states[p].restarts = MaxRestarts => states'[p].restarts = MaxRestarts
             /\ states[p].lastError => states'[p].lastError
  <2>1. states[p] \in State
    BY DEF IInv, TypeOK
  <2>2. /\ states'[p] = IF p \in sick THEN AfterUnhealthy(states[p], p \in restarted)
                                     ELSE states[p]
        /\ live'[p] = IF p \in sick /\ MayRestart(states[p]) THEN p \in restarted
                                                            ELSE live[p]
    BY <1>2 DEF CheckEach
  <2>3. CASE p \in sick /\ MayRestart(states[p]) /\ p \in restarted
    <3>1. states'[p] = [states[p] EXCEPT !.restarts = states[p].restarts + 1] /\ live'[p]
      BY <2>2, <2>3 DEF AfterUnhealthy
    <3>2. states[p].restarts # MaxRestarts
      BY <2>1, <2>3, PluginManagerAssumption DEF MayRestart, State
    <3>3. QED
      BY <3>1, <3>2, <2>1, <2>3 DEF State
  <2>4. CASE p \in sick /\ MayRestart(states[p]) /\ p \notin restarted
    <3>1. states'[p] = [states[p] EXCEPT !.running = FALSE, !.lastError = TRUE] /\ ~live'[p]
      BY <2>2, <2>4 DEF AfterUnhealthy
    <3>2. states[p].restarts # MaxRestarts
      BY <2>1, <2>4, PluginManagerAssumption DEF MayRestart, State
    <3>3. QED
      BY <3>1, <3>2, <2>1, <2>4 DEF State
  <2>5. CASE p \in sick /\ ~MayRestart(states[p])
    <3>1. states'[p] = [states[p] EXCEPT !.running = FALSE, !.enabled = FALSE]
      BY <2>2, <2>5 DEF AfterUnhealthy
    <3>2. states[p].restarts = MaxRestarts
      BY <2>1, <2>5, PluginManagerAssumption DEF MayRestart, State
    <3>3. QED
      BY <3>1, <3>2, <2>1, <2>5 DEF State
  <2>6. CASE p \notin sick
    BY <2>2, <2>6
  <2>7. QED
    BY <2>3, <2>4, <2>5, <2>6
<1>5. OnlyRegistered'
  BY <1>3, <1>4 DEF IInv, OnlyRegistered
<1>6. CircularNeverRun'
  <2> SUFFICES ASSUME NEW C \in SUBSET Plugin, Circular(C), NEW q \in C
               PROVE  ~states'[q].enabled /\ ~states'[q].running /\ ~live'[q]
    BY DEF CircularNeverRun
  <2>1. ~Enabled(q) /\ ~Running(q) /\ ~live[q]
    BY DEF IInv, CircularNeverRun
  <2>2. QED
    BY <1>4, <2>1
<1>7. RequirementsHeld'
  <2> SUFFICES ASSUME NEW q \in Plugin, states'[q].enabled, NEW req \in Requires[q]
               PROVE  /\ req \in plugins
                      /\ states'[req].enabled \/ states'[req].restarts = MaxRestarts
                      /\ \/ states'[req].running
                         \/ states'[req].restarts = MaxRestarts
                         \/ states'[req].lastError
    BY <1>3 DEF RequirementsHeld
  <2>1. Enabled(q) /\ req \in Plugin
    BY <1>4, PluginManagerAssumption
  <2>2. QED
    BY <1>4, <2>1 DEF IInv, RequirementsHeld
<1>8. RunningIsLive'
  BY <1>3, <1>4 DEF IInv, RunningIsLive
<1>9. ConfigAgrees'
  BY <1>3, <1>4, PluginManagerAssumption DEF IInv, ConfigAgrees
<1>10. QED
  BY <1>5, <1>6, <1>7, <1>8, <1>9 DEF Lifecycle

\* A visit of Stop changes no state the manager reports, and enters a running
\* plugin in stopped only when it stopped it.
LEMMA StopVisitStep ==
  ASSUME IInv, NEW p \in Plugin, StopVisit(p)
  PROVE  Lifecycle' /\ ConfigAgrees' /\ StoppedNotLive'
<1> USE DEF Enabled, Running
<1>1. /\ UNCHANGED <<plugins, states, config, ctxDone, mu, applied, unrolled>>
      /\ \A q \in Plugin : live'[q] => live[q]
      /\ \A q \in Plugin : live[q] /\ ~live'[q] => ctxDone
      /\ stopped' \subseteq stopped \cup {p}
      /\ p \in stopped' \ stopped /\ Running(p) => ~live'[p]
  BY DEF StopVisit, StopSkips, StopMarks, StopStops, StopPasses, IInv, TypeOK, StoppedNotLive
<1>2. QED
  BY <1>1
  DEF IInv, Lifecycle, OnlyRegistered, CircularNeverRun, RequirementsHeld,
      RunningIsLive, ConfigAgrees, StoppedNotLive, TypeOK

-----------------------------------------------------------------------------

\* IInv is inductive: it holds in every state of the manager.
THEOREM Invariance == Spec => []IInv
<1>1. Init => IInv
  <2> SUFFICES ASSUME Init PROVE IInv
    OBVIOUS
  <2>1. TypeOK
    BY TypeInit
  <2>2. \A p \in Plugin : ~Enabled(p) /\ ~Running(p) /\ ~live[p] /\ states[p] = Initialized
    BY DEF Init, Initialized, Enabled, Running
  <2>3. QED
    BY <2>1, <2>2, PluginManagerAssumption
    DEF Init, IInv, OnlyRegistered, CircularNeverRun, RequirementsHeld, RunningIsLive,
        ConfigAgrees, StoppedNotLive
<1>2. IInv /\ [Next]_vars => IInv'
  <2> SUFFICES ASSUME IInv, [Next]_vars PROVE IInv'
    OBVIOUS
  <2>1. TypeOK'
    BY TypeStep DEF IInv
  <2>2. ASSUME NEW p \in Plugin, RegisterPlugin(p) PROVE IInv'
    BY <2>1, <2>2, RegisterStep DEF IInv, Lifecycle, StoppedNotLive, RegisterPlugin, stopVars
  <2>3. ASSUME NEW p \in Plugin, DisablePlugin(p) PROVE IInv'
    BY <2>1, <2>3, DisableStep DEF IInv, Lifecycle, StoppedNotLive, DisablePlugin, stopVars
  <2>4. ASSUME NEW p \in Plugin, NEW c \in Config[p], EnableFails(p, c) PROVE IInv'
    BY <2>1, <2>4, EnableFailsStep DEF IInv, Lifecycle, StoppedNotLive, EnableFails, stopVars
  <2>5. ASSUME NEW p \in Plugin, NEW c \in Config[p], EnablePlugin(p, c) PROVE IInv'
    BY <2>1, <2>5, EnableStep DEF IInv, Lifecycle, StoppedNotLive, EnablePlugin, stopVars
  <2>6. ASSUME NEW p \in Plugin, NEW c \in Config[p], UpdatePluginConfig(p, c) PROVE IInv'
    BY <2>1, <2>6, UpdateConfigStep
    DEF IInv, Lifecycle, StoppedNotLive, UpdatePluginConfig, stopVars
  <2>7. CASE CheckHealth
    BY <2>1, <2>7, CheckHealthStep DEF IInv, Lifecycle, StoppedNotLive, CheckHealth, stopVars
  <2>8. CASE StartHealthChecks \/ HealthLoopExit \/ UNCHANGED vars
    <3>1. UNCHANGED <<plugins, states, config, ctxDone, stopVars, pluginVars>>
      BY <2>8 DEF StartHealthChecks, HealthLoopExit, vars
    <3>2. QED
      BY <2>1, <3>1, FrameStep
      DEF IInv, Lifecycle, StoppedNotLive, Running, stopVars, pluginVars
  <2>9. CASE Stop
    BY <2>1, <2>9, FrameStep DEF IInv, Lifecycle, StoppedNotLive, Stop, pluginVars
  <2>10. ASSUME NEW p \in Plugin, StopVisit(p) PROVE IInv'
    BY <2>1, <2>10, StopVisitStep DEF IInv, Lifecycle
  <2>11. CASE StopNextPass
    BY <2>1, <2>11, FrameStep
    DEF IInv, Lifecycle, StoppedNotLive, Running, StopNextPass, pluginVars
  <2>12. CASE StopReturns
    BY <2>1, <2>12, FrameStep DEF IInv, Lifecycle, StoppedNotLive, StopReturns, pluginVars
  <2>13. QED
    BY <2>2, <2>3, <2>4, <2>5, <2>6, <2>7, <2>8, <2>9, <2>10, <2>11, <2>12
    DEF Next, StopStep
<1>3. QED
  BY <1>1, <1>2, PTL DEF Spec

-----------------------------------------------------------------------------
(***************************************************************************)
(* What IInv is for.                                                       *)
(***************************************************************************)

\* However large the circle: plugins that require each other are never started.
THEOREM CirclesNeverRun == Spec => []CircularNeverRun
  BY Invariance, PTL DEF IInv

\* Only an exhausted restart budget takes a requirement from an enabled plugin.
THEOREM RequirementsAreHeld == Spec => []RequirementsHeld
  BY Invariance, PTL DEF IInv

\* The manager's Running and what the plugins do differ only after the restart
\* limit or after Stop.
THEOREM RunningMeansLive == Spec => []RunningIsLive
  BY Invariance, PTL DEF IInv

\* Stored and applied configuration agree for any updates and rollbacks.
THEOREM ConfigsAgree == Spec => []ConfigAgrees
  BY Invariance, PTL DEF IInv

\* Stop never stops a plugin before a running one that requires it, whatever
\* order the map iteration takes.
THEOREM StopsInReverseOrder == Spec => StopInReverseOrder
<1> DEFINE Order == \A p, req \in Plugin :
              mu = "stop" /\ live[req] /\ ~live'[req] /\ p # req /\ req \in Requires[p]
                => ~(live[p] /\ Running(p))
<1>1. IInv /\ [Next]_vars => Order
  <2> SUFFICES ASSUME IInv, [Next]_vars, NEW p \in Plugin, NEW req \in Plugin,
                      mu = "stop", live[req], ~live'[req], p # req,
                      req \in Requires[p], live[p], Running(p)
               PROVE  FALSE
    OBVIOUS
  <2>1. \E q \in Plugin : StopVisit(q)
    BY DEF Next, StopStep, vars, pluginVars, RegisterPlugin, DisablePlugin, EnableFails,
           EnablePlugin, UpdatePluginConfig, StartHealthChecks, CheckHealth,
           HealthLoopExit, Stop, StopNextPass, StopReturns
  <2>2. req \notin stopped /\ CanStop(req)
    BY <2>1
    DEF StopVisit, StopSkips, StopMarks, StopStops, StopPasses, IInv, TypeOK
  <2>3. p \in plugins
    BY DEF IInv, OnlyRegistered
  <2>4. p \in stopped
    BY <2>2, <2>3 DEF CanStop
  <2>5. QED
    BY <2>4 DEF IInv, StoppedNotLive
<1>2. QED
  BY <1>1, Invariance, PTL DEF Spec, StopInReverseOrder

=============================================================================
