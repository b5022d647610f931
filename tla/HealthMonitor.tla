---------------------------- MODULE HealthMonitor ----------------------------
(***************************************************************************)
(* internal/monitoring and internal/views/health.go.  A loop asks the      *)
(* cluster for each registered check, holding the lock of the results for  *)
(* all of its requests, and raises alerts; the user acknowledges and       *)
(* resolves them; the view is drawn again by a timer, on the goroutine of  *)
(* tview, which waits for that lock.                                       *)
(*                                                                         *)
(* The program starts the monitor once and stops it when it ends; what is  *)
(* exported allows more, so that a second loop may run beside one that has *)
(* not seen that it was stopped.  `now` goes by seconds; a tick of thirty  *)
(* may come at any time, as one is kept while a round takes longer.        *)
(***************************************************************************)
EXTENDS Integers, Sequences, SequencesExt

CONSTANTS
  Answers,    \* by check, what the cluster may answer to it
  ClearAge,   \* the age from which resolved alerts are cleared: 24 hours in the code
  MaxLoops,   \* bound: loops started
  MaxTicks,   \* bound: ticks of their tickers
  MaxNow      \* bound: seconds

VARIABLES
  running,  \* whether the monitor is to run
  loops,    \* where each of its loops is
  lock,     \* the loop that holds health.mu, or 0
  todo,     \* the checks its round still has to make
  checks,   \* the results: status and time of each check made so far
  overall,  \* OverallStatus
  alerts,   \* the alerts under their IDs, which are a component and a second
  ticks,
  now,
  drawing,  \* what the goroutine of tview draws next of a refresh, or "nothing"
  upToDate  \* history: the boxes of the view that show what the monitor has

healthVars ==
  <<running, loops, lock, todo, checks, overall, alerts, ticks, now, drawing, upToDate>>

Bad == {"warning", "critical"}
Status == Bad \cup {"healthy", "unknown"}

Component == DOMAIN Answers
Box == {"overview", "alerts", "checks"}
AlertId == Component \X (0 .. MaxNow)
Alert == [severity: Bad, acknowledged: BOOLEAN, resolved: BOOLEAN, resolvedAt: 0 .. MaxNow]

HealthTypeOK ==
  /\ running \in BOOLEAN
  /\ loops \in BoundedSeq({"due", "checks", "waits", "ended"}, MaxLoops)
  /\ lock \in 0 .. Len(loops)
  /\ \A l \in DOMAIN loops : l = lock <=> loops[l] = "checks"
  /\ todo \subseteq Component /\ (lock = 0 => todo = {})
  /\ DOMAIN checks \subseteq Component
  /\ \A k \in DOMAIN checks : checks[k] \in [status: Status, at: 0 .. now]
  /\ overall \in Status
  /\ DOMAIN alerts \subseteq AlertId /\ Range(alerts) \subseteq Alert
  /\ ticks \in 0 .. MaxTicks
  /\ now \in 0 .. MaxNow
  /\ drawing \in {"nothing"} \cup Box
  /\ upToDate \subseteq Box

Init ==
  /\ running = FALSE /\ loops = <<>> /\ lock = 0 /\ todo = {}
  /\ checks = <<>> /\ overall = "unknown" /\ alerts = <<>>
  /\ ticks = 0 /\ now = 0
  /\ drawing = "nothing" /\ upToDate = {}

\* An assignment to an entry of a map.
Put(map, key, value) ==
  [k \in DOMAIN map \cup {key} |-> IF k = key THEN value ELSE map[k]]

(***************************************************************************)
(* The alerts.                                                             *)
(***************************************************************************)

\* GetActiveAlerts.
Active == {id \in DOMAIN alerts : ~alerts[id].resolved}

\* A mutant: what becomes critical is taken for the warning before.
FindSimilarInComponent(component, severity) == {id \in Active : id[1] = component}

\* The alerts a new one would repeat.
FindSimilarAlert(component, severity) ==
  {id \in Active : id[1] = component /\ alerts[id].severity = severity}

\* generateAlert and AddAlert: a similar one is counted again, which leaves it as it
\* is here.  A new one takes the place of one that has its ID.
AddAlert(component, severity) ==
  IF FindSimilarAlert(component, severity) # {} THEN alerts
  ELSE Put(alerts, <<component, now>>,
           [severity |-> severity, acknowledged |-> FALSE, resolved |-> FALSE, resolvedAt |-> 0])

(***************************************************************************)
(* The checks.                                                             *)
(***************************************************************************)

SetCheckStatus(value, warningMax, criticalMax) ==
  IF value > criticalMax THEN "critical"
  ELSE IF value > warningMax THEN "warning" ELSE "healthy"

\* Of the nodes 10 % and 25 %, multiplied out.
CheckNodes(list) ==
  IF list.total = 0 THEN "critical"
  ELSE SetCheckStatus((list.down + list.drain) * 100, 10 * list.total, 25 * list.total)

CheckQueue(pending) == SetCheckStatus(pending, 100, 500)

\* Memory that is not known is -1.
CheckUtilization(stats) ==
  SetCheckStatus(IF stats.memory >= 0 /\ stats.memory > stats.cpu
                 THEN stats.memory ELSE stats.cpu, 90, 95)

\* The check of that name, of what the request returns.
CheckStatus(name, answer) ==
  CASE answer.failed -> "unknown"
    [] ~answer.failed /\ name = "nodes" -> CheckNodes(answer)
    [] ~answer.failed /\ name = "queue" -> CheckQueue(answer.pending)
    [] ~answer.failed /\ name = "utilization" -> CheckUtilization(answer)

\* updateOverallStatus.
OverallStatus ==
  LET found == {checks[k].status : k \in DOMAIN checks}
  IN CASE "critical" \in found -> "critical"
       [] found \cap Bad = {"warning"} -> "warning"
       [] found \cap Bad = {} /\ "unknown" \in found -> "unknown"
       [] OTHER -> "healthy"

(***************************************************************************)
(* The monitor.                                                            *)
(***************************************************************************)

Start ==
  /\ ~running /\ Len(loops) < MaxLoops
  /\ running' = TRUE /\ loops' = Append(loops, "due")
  /\ UNCHANGED <<lock, todo, checks, overall, alerts, ticks, now, drawing, upToDate>>

Stop ==
  /\ running /\ running' = FALSE
  /\ UNCHANGED <<loops, lock, todo, checks, overall, alerts, ticks, now, drawing, upToDate>>

\* The loop reads running once for each tick.
Tick(l) ==
  /\ loops[l] = "waits" /\ ticks < MaxTicks
  /\ loops' = [loops EXCEPT ![l] = IF running THEN "due" ELSE "ended"] /\ ticks' = ticks + 1
  /\ UNCHANGED <<running, lock, todo, checks, overall, alerts, now, drawing, upToDate>>

\* performHealthChecks, to the first request.
BeginRound(l) ==
  /\ loops[l] = "due" /\ lock = 0
  /\ lock' = l /\ todo' = Component
  /\ loops' = [loops EXCEPT ![l] = "checks"]
  /\ UNCHANGED <<running, checks, overall, alerts, ticks, now, drawing, upToDate>>

\* A request returns; the order is that of a map.
CheckReturns(name, answer) ==
  LET status == CheckStatus(name, answer)
  IN /\ lock # 0 /\ name \in todo
     /\ todo' = todo \ {name}
     /\ checks' = Put(checks, name, [status |-> status, at |-> now])
     /\ alerts' = IF status \in Bad THEN AddAlert(name, status) ELSE alerts
     /\ upToDate' = upToDate \cap (IF status \in Bad THEN {} ELSE {"alerts"})
     /\ UNCHANGED <<running, loops, lock, overall, ticks, now, drawing>>

EndRound ==
  /\ lock # 0 /\ todo = {}
  /\ overall' = OverallStatus
  /\ loops' = [loops EXCEPT ![lock] = "waits"] /\ lock' = 0
  /\ upToDate' = upToDate \ {"overview"}
  /\ UNCHANGED <<running, todo, checks, alerts, ticks, now, drawing>>

Second ==
  /\ now < MaxNow /\ now' = now + 1
  /\ UNCHANGED <<running, loops, lock, todo, checks, overall, alerts, ticks, drawing, upToDate>>

(***************************************************************************)
(* The view.  The timer refreshes it through QueueUpdateDraw; GetHealth    *)
(* waits for the lock, once for the overview and again for the checks.     *)
(* Keys come between two refreshes, take the first alert in the order of a *)
(* map, and draw the alerts but not their numbers in the overview; that an *)
(* alert is read and then changed is one step here.  The dialogs, which    *)
(* read the same under the same lock, are left out; R is a key of the run  *)
(* ApplicationFreeze.                                                      *)
(***************************************************************************)

Refresh ==
  /\ drawing = "nothing" /\ drawing' = "overview"
  /\ UNCHANGED <<running, loops, lock, todo, checks, overall, alerts, ticks, now, upToDate>>

UpdateHealthOverview ==
  /\ drawing = "overview" /\ lock = 0
  /\ drawing' = "alerts" /\ upToDate' = upToDate \cup {"overview"}
  /\ UNCHANGED <<running, loops, lock, todo, checks, overall, alerts, ticks, now>>

UpdateAlerts ==
  /\ drawing = "alerts"
  /\ drawing' = "checks" /\ upToDate' = upToDate \cup {"alerts"}
  /\ UNCHANGED <<running, loops, lock, todo, checks, overall, alerts, ticks, now>>

UpdateHealthChecks ==
  /\ drawing = "checks" /\ lock = 0
  /\ drawing' = "nothing" /\ upToDate' = upToDate \cup {"checks"}
  /\ UNCHANGED <<running, loops, lock, todo, checks, overall, alerts, ticks, now>>

AcknowledgeAlert(id) ==
  /\ drawing = "nothing" /\ ~alerts[id].acknowledged
  /\ alerts' = [alerts EXCEPT ![id].acknowledged = TRUE]
  /\ upToDate' = (upToDate \ {"overview"}) \cup {"alerts"}
  /\ UNCHANGED <<running, loops, lock, todo, checks, overall, ticks, now, drawing>>

ResolveAlert(id) ==
  /\ drawing = "nothing"
  /\ alerts' = [alerts EXCEPT ![id].resolved = TRUE, ![id].resolvedAt = now]
  /\ upToDate' = (upToDate \ {"overview"}) \cup {"alerts"}
  /\ UNCHANGED <<running, loops, lock, todo, checks, overall, ticks, now, drawing>>

ClearResolvedAlerts ==
  LET old == {id \in DOMAIN alerts : alerts[id].resolved /\ alerts[id].resolvedAt < now - ClearAge}
  IN /\ drawing = "nothing"
     /\ alerts' = Restrict(alerts, DOMAIN alerts \ old)
     /\ upToDate' = {"alerts"} \cup IF old = {} THEN upToDate ELSE upToDate \ {"overview"}
     /\ UNCHANGED <<running, loops, lock, todo, checks, overall, ticks, now, drawing>>

-----------------------------------------------------------------------------

\* What the loops do as long as requests return.
Monitor ==
  \/ \E l \in DOMAIN loops : BeginRound(l)
  \/ \E name \in Component : \E answer \in Answers[name] : CheckReturns(name, answer)
  \/ EndRound

Draw ==
  \/ Refresh
  \/ UpdateHealthOverview
  \/ UpdateAlerts
  \/ UpdateHealthChecks

HealthNext ==
  \/ Start
  \/ Stop
  \/ \E l \in DOMAIN loops : Tick(l)
  \/ Monitor
  \/ Second
  \/ Draw
  \/ \E id \in Active : AcknowledgeAlert(id) \/ ResolveAlert(id)
  \/ ClearResolvedAlerts

-----------------------------------------------------------------------------

\* Alerts and checks agree, whatever the user resolves and clears in the middle of a
\* round: no two active alerts say the same, and a check that has found something bad
\* has an alert of that severity, which is active unless the user has resolved it
\* since, or gone with its age.
AlertsFollowChecks ==
  /\ \A a, b \in Active :
       a[1] = b[1] /\ alerts[a].severity = alerts[b].severity => a = b
  /\ \A k \in DOMAIN checks : checks[k].status \in Bad =>
       \/ \E id \in DOMAIN alerts :
            /\ id[1] = k /\ alerts[id].severity = checks[k].status
            /\ alerts[id].resolved => alerts[id].resolvedAt >= checks[k].at
       \/ checks[k].at < now - ClearAge

\* The three boxes, drawn one after the other and from different rounds it may be,
\* show what the monitor has.
Settled == upToDate = Box

=============================================================================
