----------------------------- MODULE PluginParts -----------------------------
(***************************************************************************)
(* For TLC: three parts of the observability plugin that share no state as *)
(* they are modelled, in one specification: the plugin with its goroutines,*)
(* the history and the subscriptions.  A behaviour belongs to one of them, *)
(* which the initial state chooses; the others stay as they began.         *)
(***************************************************************************)
EXTENDS Integers, Sequences, SequencesExt

CONSTANTS
  Parts,                                                               \* those to be looked at
  Rotates, MaxInits,                                                   \* the plugin
  Query, MaxDataPoints, Retention, SaveEvery, MaxNow, MaxCollections,  \* the collector
  Limit, MaxSubs, MaxFlights, MaxManagers                              \* the subscriptions

VARIABLES
  part,
  enabled, alive, call, todo, inits, current, on, channel, closed, loops, contextDone, panicked,
  series, files, running, told, cancelled, collecting, cleaning, stopping, savers, now,
  collections,
  subs, manager, held, plugged, looping, autosaving, flights, answers, saved, origins, dropped

pluginVars == <<enabled, alive, call, todo, inits, current, on, channel, closed, loops,
                contextDone, panicked>>
collectorVars == <<series, files, running, told, cancelled, collecting, cleaning, stopping,
                   savers, now, collections>>
subscriptionVars == <<subs, manager, held, plugged, looping, autosaving, flights, answers,
                      saved, origins, dropped>>
vars == <<part, pluginVars, collectorVars, subscriptionVars>>

Plugin == INSTANCE Observability
History == INSTANCE Collector
Feed == INSTANCE Subscriptions

\* What is kept, and the bounds, are numbers; one error is not too many yet.
ASSUME PluginPartsAssumption ==
  /\ Parts \subseteq {"plugin", "history", "feed"}
  /\ MaxInits \in Nat
  /\ {MaxDataPoints, MaxCollections} \subseteq Nat
  /\ Limit \in Nat \ {0}
  /\ {MaxSubs, MaxFlights, MaxManagers} \subseteq Nat

-----------------------------------------------------------------------------

Init ==
  /\ part \in Parts
  /\ Plugin!Init /\ History!Init /\ Feed!Init

PluginStep ==
  /\ part = "plugin" /\ Plugin!PluginNext
  /\ UNCHANGED <<part, collectorVars, subscriptionVars>>

HistoryStep ==
  /\ part = "history" /\ History!CollectorNext
  /\ UNCHANGED <<part, pluginVars, subscriptionVars>>

FeedStep ==
  /\ part = "feed" /\ Feed!SubscriptionsNext
  /\ UNCHANGED <<part, pluginVars, collectorVars>>

Next ==
  \/ PluginStep
  \/ HistoryStep
  \/ FeedStep

\* The stages of a call follow each other, and a goroutine that can end or go
\* round does, although its ticker may keep it from ending now and then.
PluginFairness ==
  /\ WF_pluginVars(part = "plugin" /\ Plugin!Stage)
  /\ SF_pluginVars(part = "plugin" /\ Plugin!Exit)
  /\ \A k \in {"collector", "cleanup"} :
       WF_pluginVars(part = "plugin" /\ \E g \in 1 .. MaxInits : Plugin!Turn(k, g))
  /\ \A g \in 1 .. MaxInits : WF_pluginVars(part = "plugin" /\ Plugin!Turn("subscriptions", g))

\* The loop turns, and queries fail or are answered.
FeedFairness ==
  /\ WF_subscriptionVars(part = "feed" /\ Feed!ProcessUpdates)
  /\ \A s \in 1 .. MaxSubs :
       WF_subscriptionVars(part = "feed" /\ (Feed!UpdateFails(s) \/ Feed!UpdateAnswers(s)))

Spec == Init /\ [][Next]_vars /\ PluginFairness /\ FeedFairness

-----------------------------------------------------------------------------

\* The type invariants of the parts.
TypeOK == Plugin!PluginTypeOK /\ History!CollectorTypeOK /\ Feed!SubscriptionsTypeOK

\* No Start or Stop of the plugin waits for ever, and what has been stopped comes
\* to its end (Observability).
StoppedEnds == Plugin!StoppedEnds

\* A collector has one loop of each kind, over restarts too (Observability).
OneCollection == Plugin!OneCollection

\* The files have what is in memory when Stop has returned (Collector).
StoppedIsSaved == History!StoppedIsSaved

\* No subscription is there twice (Subscriptions).
RestoredOnce == Feed!RestoredOnce

\* No subscription that has been saved is lost (Subscriptions).
SavedIsKept == Feed!SavedIsKept

\* The subscriptions survive a restart of the plugin (Subscriptions).
SubscriptionsSurvive == Feed!SubscriptionsSurvive

\* A subscription that is due is answered or disabled (Subscriptions).
DueIsServed == Feed!DueIsServed

=============================================================================
