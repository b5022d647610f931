----------------------------- MODULE Subscriptions -----------------------------
(***************************************************************************)
(* plugins/observability/subscription: a loop starts a goroutine for every *)
(* subscription whose last answer is old; answers come when they like, to  *)
(* subscriptions that may be gone; what is subscribed is saved now and     *)
(* then and loaded by the next manager.  Each Init of the plugin makes a   *)
(* manager, and one that fails after that leaves its goroutine saving; a   *)
(* restart by the health check goes on with the manager there is, which is *)
(* saved no more.  Notifications of significant changes are left out, as   *)
(* are backups and the recovery of failed subscriptions, which nothing     *)
(* calls.                                                                  *)
(***************************************************************************)
EXTENDS Integers, Sequences, FiniteSets, SequencesExt

CONSTANTS
  Limit,        \* errors that disable a subscription: 10 in the code
  MaxSubs,      \* bound: subscriptions made in one life of the program
  MaxFlights,   \* bound: queries under way for one subscription
  MaxManagers   \* bound: managers made

VARIABLES
  subs,       \* all subscriptions made in this life, in a table or not
  manager,    \* managers made
  held,       \* the manager that the plugin holds, running or not; 0 for none
  plugged,    \* the plugin is enabled
  looping,    \* it runs, and with it the update loop of the manager it holds
  autosaving, \* managers whose table is saved now and then
  flights,    \* queries under way, by subscription
  answers,    \* callbacks of other plugins that have been started
  saved,      \* subscriptions.json: the origins of what was active in the table
  origins,    \* history: subscriptions anybody has asked for
  dropped     \* history: those among them that have been unsubscribed

volatile == <<subs, manager, held, plugged, looping, autosaving, flights, answers>>
subscriptionVars == <<volatile, saved, origins, dropped>>

Sub == 1 .. MaxSubs
NewSub(m, origin, called) ==
  [mgr |-> m, origin |-> origin, called |-> called,
   present |-> TRUE, active |-> TRUE, errors |-> 0, due |-> TRUE]

NoFlights == [s \in Sub |-> 0]

Init ==
  /\ subs = <<>> /\ manager = 0 /\ held = 0 /\ plugged = FALSE /\ looping = FALSE
  /\ autosaving = {} /\ flights = NoFlights /\ answers = {}
  /\ saved = <<>> /\ origins = 0 /\ dropped = {}

\* What is in no table that is saved or updated is not told apart any more, but
\* for the callback of an answer yet to come.
Gone(sub) == [NewSub(sub.mgr, sub.origin, sub.called) EXCEPT !.present = FALSE, !.due = FALSE]

InTable(s, m) == s \in DOMAIN subs /\ subs[s].mgr = m /\ subs[s].present

(***************************************************************************)
(* The plugin.                                                             *)
(***************************************************************************)

\* The table of the manager held so far, when the plugin gets another: nobody
\* reaches it any more, but it may still be saved.
Left == [s \in DOMAIN subs |->
           IF subs[s].mgr = held /\ held \notin autosaving THEN Gone(subs[s]) ELSE subs[s]]

\* LoadSubscriptions: with new identifiers and a callback that does nothing.
LoadSubscriptions(m) == [i \in DOMAIN saved |-> NewSub(m, saved[i], FALSE)]

\* A mutant: the new manager gets the old table, beside what was saved of it.
LoadIntoOld(m, there) ==
  /\ Len(subs) + Len(saved) <= MaxSubs
  /\ subs' = [s \in DOMAIN subs |-> NewSub(m, subs[s].origin, subs[s].called)]
               \o LoadSubscriptions(m)

\* A mutant: what was saved is loaded by the first manager only.
LoadAtFirst(m, there) ==
  /\ Len(subs) + Len(saved) <= MaxSubs
  /\ subs' = IF m = 1 THEN there \o LoadSubscriptions(m) ELSE there

\* Each manager has a table of its own.
Load(m, there) ==
  /\ Len(subs) + Len(saved) <= MaxSubs
  /\ subs' = there \o LoadSubscriptions(m)

NewManager(there) ==
  /\ ~plugged /\ manager < MaxManagers
  /\ manager' = manager + 1
  /\ autosaving' = autosaving \cup {manager + 1}
  /\ Load(manager + 1, there)
  /\ UNCHANGED <<flights, answers, saved, origins, dropped>>

\* Init fails after it has made a manager: the plugin keeps the one it had.
InitFails ==
  /\ NewManager(subs)
  /\ UNCHANGED <<held, plugged, looping>>

\* Init has made a manager, and Start fails before the loop or all comes to life.
Enable ==
  /\ NewManager(Left)
  /\ held' = manager + 1
  /\ plugged' \in BOOLEAN /\ looping' = plugged'

\* Stop of the persistence, which does not save.  When it has been called for
\* these components before, it panics and the program ends (Exit).
StopSaving == held \in autosaving /\ autosaving' = autosaving \ {held}

\* The table stays as it is, in the plugin that is no longer enabled.
Disable ==
  /\ plugged /\ StopSaving
  /\ plugged' = FALSE /\ looping' = FALSE
  /\ UNCHANGED <<subs, manager, held, flights, answers, saved, origins, dropped>>

\* The health check stops the plugin and starts it again, if it can, with the
\* same manager; the end of the plugin manager stops it only.
Restart ==
  /\ looping /\ StopSaving
  /\ looping' \in BOOLEAN
  /\ UNCHANGED <<subs, manager, held, plugged, flights, answers, saved, origins, dropped>>

\* By another plugin, whose callback may panic, or by the external interface,
\* whose callback does nothing; also when the plugin does not run.
Subscribe ==
  /\ held # 0 /\ Len(subs) < MaxSubs /\ origins < MaxSubs
  /\ origins' = origins + 1
  /\ subs' = Append(subs, NewSub(held, origins', TRUE))
  /\ UNCHANGED <<manager, held, plugged, looping, autosaving, flights, answers, saved, dropped>>

\* The file is as it was until the next time it is saved.
Unsubscribe(s) ==
  /\ held # 0 /\ InTable(s, held)
  /\ subs' = [subs EXCEPT ![s] = Gone(@)]
  /\ dropped' = dropped \cup {subs[s].origin}
  /\ UNCHANGED <<manager, held, plugged, looping, autosaving, flights, answers, saved, origins>>

(***************************************************************************)
(* Updates.                                                                *)
(***************************************************************************)

\* A subscription is due until an answer has come, so that queries of one
\* subscription overlap.
ProcessUpdates ==
  /\ looping
  /\ flights' = [s \in Sub |->
       IF InTable(s, held) /\ subs[s].active /\ subs[s].due /\ flights[s] < MaxFlights
       THEN flights[s] + 1 ELSE flights[s]]
  /\ UNCHANGED <<subs, manager, held, plugged, looping, autosaving, answers, saved, origins,
                 dropped>>

\* A mutant: errors are counted and have no consequence.
CountError(s) ==
  subs' = IF ~subs[s].present THEN subs
          ELSE [subs EXCEPT ![s].errors = IF @ < Limit THEN @ + 1 ELSE @]

\* Errors of a subscription that has left its table are not counted, and those
\* beyond the limit change nothing more.
IncrementErrorCount(s) ==
  subs' = IF ~subs[s].present THEN subs
          ELSE [subs EXCEPT ![s].errors = IF @ < Limit THEN @ + 1 ELSE @,
                            ![s].active = @ /\ subs[s].errors + 1 < Limit]

Lands(s) == flights[s] > 0 /\ flights' = [flights EXCEPT ![s] = @ - 1]

UpdateFails(s) ==
  /\ Lands(s)
  /\ IncrementErrorCount(s)
  /\ UNCHANGED <<manager, held, plugged, looping, autosaving, answers, saved, origins, dropped>>

\* LastUpdate is now, and the callback gets a goroutine, also that of one who
\* has unsubscribed meanwhile.
UpdateAnswers(s) ==
  /\ Lands(s)
  /\ subs' = [subs EXCEPT ![s].due = FALSE]
  /\ answers' = IF subs[s].called THEN answers \cup {s} ELSE answers
  /\ UNCHANGED <<manager, held, plugged, looping, autosaving, saved, origins, dropped>>

CallBack(s) ==
  /\ s \in answers
  /\ answers' = answers \ {s}
  /\ UNCHANGED <<subs, manager, held, plugged, looping, autosaving, flights, saved, origins,
                 dropped>>

\* The callback of another plugin may panic, which counts as an error.
CallBackPanics(s) ==
  /\ s \in answers
  /\ answers' = answers \ {s}
  /\ IncrementErrorCount(s)
  /\ UNCHANGED <<manager, held, plugged, looping, autosaving, flights, saved, origins, dropped>>

\* The interval of the subscription has passed.
Elapse(s) ==
  /\ InTable(s, held) /\ ~subs[s].due
  /\ subs' = [subs EXCEPT ![s].due = TRUE]
  /\ UNCHANGED <<manager, held, plugged, looping, autosaving, flights, answers, saved, origins,
                 dropped>>

(***************************************************************************)
(* The file.                                                               *)
(***************************************************************************)

SaveSubscriptions(m) ==
  /\ m \in autosaving
  /\ LET ids == SetToSeq({s \in DOMAIN subs : InTable(s, m) /\ subs[s].active})
     IN saved' = [i \in DOMAIN ids |-> subs[ids[i]].origin]
  /\ UNCHANGED <<volatile, origins, dropped>>

\* The program ends, as it is, and begins anew.
Exit ==
  /\ 0 < manager /\ manager < MaxManagers
  /\ subs' = <<>> /\ held' = 0 /\ plugged' = FALSE /\ looping' = FALSE /\ autosaving' = {}
  /\ flights' = NoFlights /\ answers' = {}
  /\ UNCHANGED <<manager, saved, origins, dropped>>

SubscriptionsNext ==
  \/ InitFails
  \/ Enable
  \/ Disable
  \/ Restart
  \/ Subscribe
  \/ \E s \in Sub : Unsubscribe(s) \/ Elapse(s) \/ CallBack(s) \/ CallBackPanics(s)
  \/ ProcessUpdates
  \/ \E s \in Sub : UpdateFails(s)
  \/ \E s \in Sub : UpdateAnswers(s)
  \/ \E m \in 1 .. MaxManagers : SaveSubscriptions(m)
  \/ Exit

-----------------------------------------------------------------------------

SubscriptionsTypeOK ==
  /\ Len(subs) <= MaxSubs /\ manager \in 0 .. MaxManagers /\ autosaving \subseteq 1 .. manager
  /\ held \in 0 .. manager /\ (looping => plugged) /\ (plugged => held # 0)
  /\ \A s \in DOMAIN subs : /\ subs[s].mgr \in 1 .. manager
                            /\ subs[s].errors \in 0 .. Limit
                            /\ subs[s].active <=> subs[s].errors < Limit
  /\ \A s \in Sub : flights[s] \in 0 .. MaxFlights
  /\ answers \subseteq DOMAIN subs
  /\ Len(saved) <= MaxSubs

\* Nothing that was asked for once is there twice, whichever manager saved the
\* file last and however often it has been loaded, also into the program that
\* saved it.
RestoredOnce ==
  \A s, t \in DOMAIN subs :
    InTable(s, held) /\ InTable(t, held) /\ subs[s].origin = subs[t].origin => s = t

\* What is saved is not lost: as long as no other manager saves, whatever the
\* file has is in the table of the plugin or has been unsubscribed, over restarts
\* of plugin and program, and so the next save keeps it.
SavedIsKept ==
  held # 0 /\ autosaving \subseteq {held} =>
    \A i \in DOMAIN saved :
      saved[i] \in dropped \/ \E s \in DOMAIN subs : InTable(s, held) /\ subs[s].origin = saved[i]

\* What is active in the table of the plugin when the plugin gets another manager
\* is in the table of that one too.
Active(m) == {subs[s].origin : s \in {t \in DOMAIN subs : InTable(t, m) /\ subs[t].active}}
SubscriptionsSurvive ==
  [][held # 0 /\ held' \notin {0, held} => Active(held) \subseteq Active(held)']_subscriptionVars

\* A subscription that is due gets an answer or is disabled, unless it ends, or
\* the loop does, first: queries that fail are tried again, but not for ever.
Waits(s) == looping /\ InTable(s, held) /\ subs[s].active /\ subs[s].due
DueIsServed == \A s \in Sub : []<>~Waits(s)

=============================================================================
