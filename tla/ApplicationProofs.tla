-------------------------- MODULE ApplicationProofs --------------------------
(***************************************************************************)
(* Theorems about Application, for any views, clusters and bounds.         *)
(***************************************************************************)
EXTENDS Application, SequenceTheorems, TLAPS

Updates == [kind : {"list", "draw", "dialog"}, view : Views \cup {Nowhere},
            from : Clusters \cup {Nowhere}, by : 0 .. MaxTimers]

\* What the proofs need to know of the types.
TypesOK ==
  /\ timers \in [Timer -> [ticking : BOOLEAN, tick : BOOLEAN, stop : BOOLEAN,
                           at : {"unused", "selects", "waits", "exited"}]]
  /\ timer \in 0 .. MaxTimers
  /\ viewClient \in [Views -> Clusters]
  /\ fetch \in [Fetching -> [at : {"idle", "starts", "requests", "draws", "ends"},
                             from : Clusters \cup {Nowhere}]]
  /\ queue \in Seq(Updates)

\* Timer t is the one in use, or has been told to end.
Told(t) == t = timer \/ timers[t].stop

\* A timer goroutine that waits for its update to be carried out, and then is
\* back in its select, is not forgotten: what stopped the timers it knew of has
\* told it as well.
CallersTold == \A u \in Range(queue) : u.by # 0 => Told(u.by)

\* The inductive invariant.
IInv ==
  /\ TypesOK
  /\ CallersTold
  /\ OneTimer
  /\ ClientsAgree

-----------------------------------------------------------------------------

\* What a queue holds after Append and Tail.
LEMMA QueueAppended ==
  ASSUME NEW S, NEW q \in Seq(S), NEW e \in S
  PROVE  /\ Append(q, e) \in Seq(S)
         /\ Range(Append(q, e)) \subseteq Range(q) \cup {e}
<1> DEFINE p == Append(q, e)
<1>1. Len(q) \in Nat /\ DOMAIN q = 1 .. Len(q)
  BY LenProperties
<1>2. p \in Seq(S) /\ Len(p) = Len(q) + 1
  BY AppendProperties
<1>3. DOMAIN p = 1 .. Len(q) + 1
  BY <1>2, LenProperties
<1>4. p[Len(q) + 1] = e /\ \A i \in DOMAIN q : p[i] = q[i]
  BY <1>1, AppendProperties
<1> HIDE DEF p
<1>5. \A i \in DOMAIN p : i \in DOMAIN q \/ i = Len(q) + 1
  BY <1>1, <1>3
<1>6. Range(p) \subseteq Range(q) \cup {e}
  BY <1>4, <1>5 DEF Range
<1> QED
  BY <1>2, <1>6 DEF p

LEMMA QueueTaken ==
  ASSUME NEW S, NEW q \in Seq(S), q # <<>>
  PROVE  /\ Head(q) \in S /\ Head(q) \in Range(q)
         /\ Tail(q) \in Seq(S)
         /\ Range(Tail(q)) \subseteq Range(q)
<1> DEFINE p == Tail(q)
<1>1. Len(q) \in Nat /\ DOMAIN q = 1 .. Len(q) /\ Len(q) # 0
  BY LenProperties, EmptySeq
<1>2. /\ p \in Seq(S) /\ Len(p) = Len(q) - 1 /\ \A i \in 1 .. Len(p) : p[i] = q[i + 1]
      /\ Head(q) \in S /\ Head(q) = q[1]
  BY HeadTailProperties
<1>3. DOMAIN p = 1 .. Len(q) - 1
  BY <1>2, LenProperties
<1> HIDE DEF p
<1>4. \A i \in DOMAIN p : i + 1 \in DOMAIN q /\ p[i] = q[i + 1]
  BY <1>1, <1>2, <1>3
<1>5. Range(p) \subseteq Range(q) /\ 1 \in DOMAIN q
  BY <1>1, <1>4 DEF Range
<1> QED
  BY <1>2, <1>5 DEF p, Range

-----------------------------------------------------------------------------

\* The goroutines that wait for updates are those of timers.
LEMMA CallersAreTimers ==
  ASSUME TypesOK
  PROVE  \A u \in Range(queue) : u \in Updates /\ (u.by # 0 => u.by \in Timer)
<1>1. \A i \in DOMAIN queue : queue[i] \in Updates
  BY LenProperties, ElementOfSeq DEF TypesOK
<1>2. \A u \in Range(queue) : u \in Updates
  BY <1>1 DEF Range
<1>3. \A u \in Updates : u.by # 0 => u.by \in Timer
  BY ApplicationAssumption DEF Updates, Timer
<1> QED
  BY <1>2, <1>3

\* View.Refresh queues nothing but the drawing its caller waits for.
LEMMA Refreshed ==
  ASSUME TypesOK, NEW v, NEW t \in 0 .. MaxTimers, RefreshBy(v, t)
  PROVE  /\ queue' \in Seq(Updates)
         /\ \A u \in Range(queue') : u \in Range(queue) \/ u.by = t
         /\ fetch' \in [Fetching -> [at : {"idle", "starts", "requests", "draws", "ends"},
                                     from : Clusters \cup {Nowhere}]]
<1> USE DEF TypesOK
<1>1. CASE v = "health"
  <2> DEFINE e == Update("draw", v, Nowhere, t)
  <2>1. queue' = Append(queue, e) /\ fetch' = fetch
    BY <1>1 DEF RefreshBy, refreshVars
  <2>2. e \in Updates /\ e.by = t
    BY <1>1, ApplicationAssumption DEF Update, Updates
  <2> HIDE DEF e
  <2>3. queue' \in Seq(Updates) /\ Range(queue') \subseteq Range(queue) \cup {e}
    BY <2>1, <2>2, QueueAppended
  <2> QED
    BY <2>1, <2>2, <2>3
<1>2. CASE v # "health"
  <2>1. /\ queue' = queue
        /\ fetch' = fetch \/ fetch' = [fetch EXCEPT ![v] = [at |-> "starts", from |-> Nowhere]]
    BY <1>2 DEF RefreshBy, refreshVars
  <2> QED
    BY <2>1
<1> QED
  BY <1>1, <1>2

\* Steps that leave the timers alone and queue for no timer that is forgotten.
LEMMA TimersKept ==
  ASSUME IInv, UNCHANGED timerVars, TypesOK', ClientsAgree',
         \A u \in Range(queue') : u \in Range(queue) \/ u.by = 0 \/ Told(u.by)
  PROVE  IInv'
<1> USE DEF IInv
<1>1. CallersTold'
  BY DEF CallersTold, Told, timerVars
<1>2. OneTimer'
  BY DEF OneTimer, timerVars
<1> QED
  BY <1>1, <1>2

\* Once the timer in use is stopped no timer is left that was not told.
LEMMA AllStopped ==
  ASSUME IInv, NEW left \in BOOLEAN
  PROVE  /\ Stopped(left) \in [Timer -> [ticking : BOOLEAN, tick : BOOLEAN, stop : BOOLEAN,
                                         at : {"unused", "selects", "waits", "exited"}]]
         /\ \A t \in Timer :
              /\ ~Stopped(left)[t].ticking
              /\ Stopped(left)[t].at = timers[t].at
              /\ timers[t].at \in {"selects", "waits"} => Stopped(left)[t].stop
              /\ Told(t) => Stopped(left)[t].stop
<1> USE DEF IInv, TypesOK
<1>1. MaxTimers \in Nat
  BY ApplicationAssumption
<1>2. CASE timer = 0
  <2>1. Stopped(left) = timers /\ 0 \notin Timer
    BY <1>1, <1>2 DEF Stopped, Timer
  <2> QED
    BY <1>2, <2>1 DEF OneTimer, Told
<1>3. CASE timer # 0
  <2> DEFINE r == [timers[timer] EXCEPT !.ticking = FALSE, !.tick = left, !.stop = TRUE]
  <2>1. timer \in Timer
    BY <1>1, <1>3 DEF Timer
  <2>2. Stopped(left) = [timers EXCEPT ![timer] = r]
    BY <1>3 DEF Stopped
  <2>3. /\ r \in [ticking : BOOLEAN, tick : BOOLEAN, stop : BOOLEAN,
                  at : {"unused", "selects", "waits", "exited"}]
        /\ ~r.ticking /\ r.stop /\ r.at = timers[timer].at
    BY <2>1
  <2> HIDE DEF r
  <2>4. Stopped(left)[timer] = r /\ \A t \in Timer : t # timer => Stopped(left)[t] = timers[t]
    BY <2>1, <2>2
  <2> QED
    BY <2>2, <2>3, <2>4 DEF OneTimer, Told
<1> QED
  BY <1>2, <1>3

\* The timers after Afresh and after StopTimer.
LEMMA TimersRenewed ==
  ASSUME IInv, UNCHANGED <<fetch, viewClient, queue>>, ClientsAgree',
         StopTimer \/ \E rate \in BOOLEAN : Afresh(rate)
  PROVE  IInv'
<1> USE DEF IInv
<1>1. CASE StopTimer
  <2>1. PICK left \in BOOLEAN : timers' = Stopped(left) /\ timer' = 0
    BY <1>1 DEF StopTimer
  <2>2. TypesOK'
    <3>1. 0 \in 0 .. MaxTimers
      BY ApplicationAssumption
    <3> QED
      BY <2>1, <3>1, AllStopped DEF TypesOK
  <2>3. OneTimer'
    BY <2>1, AllStopped DEF OneTimer
  <2>4. CallersTold'
    <3> SUFFICES ASSUME NEW u \in Range(queue), u.by # 0
                 PROVE  Told(u.by)'
      BY DEF CallersTold
    <3>1. Told(u.by) /\ u.by \in Timer
      BY CallersAreTimers DEF CallersTold
    <3> QED
      BY <2>1, <3>1, AllStopped DEF Told
  <2> QED
    BY <2>2, <2>3, <2>4
<1>2. ASSUME NEW t \in Unused, NEW left \in BOOLEAN, timer' = t,
             timers' = [Stopped(left) EXCEPT ![t] = [ticking |-> TRUE, tick |-> FALSE,
                                                     stop |-> FALSE, at |-> "selects"]]
      PROVE  IInv'
  <2>1. t \in Timer /\ t \in 0 .. MaxTimers
    BY DEF Unused, Timer
  <2>2. TypesOK'
    BY <1>2, <2>1, AllStopped DEF TypesOK
  <2>3. \A u \in Timer : u # t => timers'[u] = Stopped(left)[u]
    BY <1>2, <2>1, AllStopped
  <2>4. OneTimer'
    BY <1>2, <2>3, AllStopped DEF OneTimer
  <2>5. CallersTold'
    <3> SUFFICES ASSUME NEW u \in Range(queue), u.by # 0
                 PROVE  Told(u.by)'
      BY DEF CallersTold
    <3>1. Told(u.by) /\ u.by \in Timer
      BY CallersAreTimers DEF CallersTold
    <3> QED
      BY <1>2, <2>3, <3>1, AllStopped DEF Told
  <2> QED
    BY <2>2, <2>4, <2>5
<1> QED
  BY <1>1, <1>2 DEF Afresh

-----------------------------------------------------------------------------

\* Steps that have to do with none of this.
LEMMA NothingSteps ==
  ASSUME IInv, UNCHANGED <<timerVars, fetch, queue, header, client, viewClient>>
  PROVE  IInv'
<1>1. TypesOK' /\ ClientsAgree'
  BY DEF IInv, TypesOK, ClientsAgree, timerVars
<1> QED
  BY <1>1, TimersKept

\* Steps that start a refresh for no timer.
LEMMA RefreshSteps ==
  ASSUME IInv, NEW v, RefreshBy(v, 0), UNCHANGED <<timerVars, clientVars>>
  PROVE  IInv'
<1>1. 0 \in 0 .. MaxTimers
  BY ApplicationAssumption
<1>2. TypesOK' /\ ClientsAgree'
  BY <1>1, Refreshed DEF IInv, TypesOK, ClientsAgree, timerVars, clientVars
<1> QED
  BY <1>1, <1>2, Refreshed, TimersKept DEF IInv

\* The fetch goroutine of a view.
LEMMA FetchSteps ==
  ASSUME IInv, NEW v \in Fetching, Fetch(v)
  PROVE  IInv'
<1> USE DEF IInv
<1>1. UNCHANGED <<timerVars, clientVars>>
  BY DEF Fetch, Request, Answer, RequestFails, EndFetch
<1>2. ClientsAgree'
  BY <1>1 DEF ClientsAgree, clientVars
<1>3. v \in Views
  BY DEF Fetching
<1>4. CASE Answer(v)
  <2> DEFINE e == Update("list", v, fetch[v].from, 0)
  <2>1. /\ queue' = Append(queue, e)
        /\ fetch' = [fetch EXCEPT ![v] = [@ EXCEPT !.at = "draws"]]
    BY <1>4 DEF Answer
  <2>2. e \in Updates /\ e.by = 0
    BY <1>3, ApplicationAssumption DEF Update, Updates, TypesOK
  <2> HIDE DEF e
  <2>3. queue' \in Seq(Updates) /\ Range(queue') \subseteq Range(queue) \cup {e}
    BY <2>1, <2>2, QueueAppended DEF TypesOK
  <2>4. TypesOK'
    BY <1>1, <2>1, <2>3 DEF TypesOK, timerVars, clientVars
  <2> QED
    BY <1>1, <1>2, <2>2, <2>3, <2>4, TimersKept
<1>5. CASE Request(v) \/ RequestFails(v) \/ EndFetch(v)
  <2>1. queue' = queue
    BY <1>5 DEF Request, RequestFails, EndFetch
  <2>2. fetch' \in [Fetching -> [at : {"idle", "starts", "requests", "draws", "ends"},
                                 from : Clusters \cup {Nowhere}]]
    BY <1>3, <1>5 DEF Request, RequestFails, EndFetch, TypesOK, Idle
  <2>3. TypesOK'
    BY <1>1, <2>1, <2>2 DEF TypesOK, timerVars, clientVars
  <2> QED
    BY <1>1, <1>2, <2>1, <2>3, TimersKept
<1> QED
  BY <1>4, <1>5 DEF Fetch

\* The goroutine of a timer: it waits for the drawing it has queued.
LEMMA TimerSteps ==
  ASSUME IInv, NEW t \in Timer, TimerLoop(t)
  PROVE  IInv'
<1> USE DEF IInv
<1>1. UNCHANGED <<timer, clientVars>> /\ t \in 0 .. MaxTimers
  BY DEF TimerLoop, TimerRefreshes, TimerExits, Timer
<1>2. ClientsAgree'
  BY <1>1 DEF ClientsAgree, clientVars
<1>3. timers[t].at = "selects"
  BY DEF TimerLoop, TimerRefreshes, TimerExits
<1>4. Told(t)
  BY <1>3 DEF OneTimer, Told
<1>5. PICK tick \in BOOLEAN, at \in {"selects", "waits", "exited"} :
        timers' = [timers EXCEPT ![t] = [@ EXCEPT !.tick = tick, !.at = at]]
  <2>1. CASE TimerRefreshes(t)
    BY <2>1 DEF TimerRefreshes
  <2>2. CASE TimerExits(t)
    <3> DEFINE r == [timers[t] EXCEPT !.at = "exited"]
    <3>1. timers' = [timers EXCEPT ![t] = r]
      BY <2>2 DEF TimerExits
    <3>2. timers[t].tick \in BOOLEAN /\ r = [timers[t] EXCEPT !.tick = timers[t].tick, !.at = "exited"]
      BY DEF TypesOK
    <3> HIDE DEF r
    <3> QED
      BY <3>1, <3>2
  <2> QED
    BY <2>1, <2>2 DEF TimerLoop
<1>6. /\ timers' \in [Timer -> [ticking : BOOLEAN, tick : BOOLEAN, stop : BOOLEAN,
                                at : {"unused", "selects", "waits", "exited"}]]
      /\ \A u \in Timer : timers'[u].ticking = timers[u].ticking /\ timers'[u].stop = timers[u].stop
      /\ \A u \in Timer : u # t => timers'[u].at = timers[u].at
  BY <1>5 DEF TypesOK
<1>7. OneTimer'
  BY <1>1, <1>3, <1>6 DEF OneTimer
<1>8. /\ queue' \in Seq(Updates)
      /\ \A u \in Range(queue') : u \in Range(queue) \/ u.by = t
      /\ fetch' \in [Fetching -> [at : {"idle", "starts", "requests", "draws", "ends"},
                                  from : Clusters \cup {Nowhere}]]
  <2>1. RefreshBy(current, t) \/ UNCHANGED <<refreshVars, queue>>
    BY DEF TimerLoop, TimerRefreshes, TimerExits
  <2>2. CASE RefreshBy(current, t)
    BY <1>1, <2>2, Refreshed
  <2>3. CASE UNCHANGED <<refreshVars, queue>>
    BY <2>3 DEF TypesOK, refreshVars
  <2> QED
    BY <2>1, <2>2, <2>3
<1>9. TypesOK'
  BY <1>1, <1>6, <1>8 DEF TypesOK, clientVars
<1>10. CallersTold'
  <2> SUFFICES ASSUME NEW u \in Range(queue'), u.by # 0
               PROVE  u.by = timer' \/ timers'[u.by].stop
    BY DEF CallersTold, Told
  <2>1. Told(u.by) /\ u.by \in Timer
    BY <1>4, <1>8, CallersAreTimers DEF CallersTold
  <2> QED
    BY <2>1, <1>1, <1>6 DEF Told
<1> QED
  BY <1>2, <1>7, <1>9, <1>10

\* The goroutine of tview carries out an update, whose caller goes on.
LEMMA DrawStep ==
  ASSUME IInv, Draw
  PROVE  IInv'
<1> USE DEF IInv
<1> DEFINE u == Head(queue)
<1>1. queue # <<>> /\ queue' = Tail(queue) /\ UNCHANGED <<timer, clientVars>>
  BY DEF Draw
<1>2. u \in Updates /\ u \in Range(queue) /\ queue' \in Seq(Updates) /\ Range(queue') \subseteq Range(queue)
  BY <1>1, QueueTaken DEF TypesOK
<1>3. \/ /\ fetch' = [fetch EXCEPT ![u.view] = [@ EXCEPT !.at = "ends"]]
         /\ timers' = timers
      \/ /\ fetch' = fetch
         /\ timers' = IF u.by = 0 THEN timers ELSE [timers EXCEPT ![u.by].at = "selects"]
      \/ fetch' = fetch /\ timers' = timers
  <2>1. u.kind \in {"list", "draw", "dialog"}
    BY <1>2 DEF Updates
  <2>2. CASE u.kind = "list"
    BY <2>2 DEF Draw
  <2>3. CASE u.kind = "draw"
    BY <2>3 DEF Draw
  <2>4. CASE u.kind = "dialog"
    BY <2>4 DEF Draw
  <2> QED
    BY <2>1, <2>2, <2>3, <2>4
<1> HIDE DEF u
<1>4. fetch' \in [Fetching -> [at : {"idle", "starts", "requests", "draws", "ends"},
                               from : Clusters \cup {Nowhere}]]
  <2> SUFFICES ASSUME fetch' = [fetch EXCEPT ![u.view] = [@ EXCEPT !.at = "ends"]]
               PROVE  fetch' \in [Fetching -> [at : {"idle", "starts", "requests", "draws", "ends"},
                                               from : Clusters \cup {Nowhere}]]
    BY <1>3 DEF TypesOK
  <2> QED
    BY DEF TypesOK
<1>5. ClientsAgree'
  BY <1>1 DEF ClientsAgree, clientVars
<1>6. CASE timers' = timers
  <2>1. TypesOK'
    BY <1>1, <1>2, <1>4, <1>6 DEF TypesOK, clientVars
  <2> QED
    BY <1>1, <1>2, <1>5, <1>6, <2>1, TimersKept DEF timerVars
<1>7. CASE u.by # 0 /\ timers' = [timers EXCEPT ![u.by].at = "selects"]
  <2>1. u.by \in Timer /\ Told(u.by)
    BY <1>2, <1>7, CallersAreTimers DEF CallersTold
  <2>2. /\ timers' \in [Timer -> [ticking : BOOLEAN, tick : BOOLEAN, stop : BOOLEAN,
                                  at : {"unused", "selects", "waits", "exited"}]]
        /\ \A t \in Timer : timers'[t].ticking = timers[t].ticking /\ timers'[t].stop = timers[t].stop
        /\ \A t \in Timer : t # u.by => timers'[t].at = timers[t].at
    BY <1>7, <2>1 DEF TypesOK
  <2>3. TypesOK'
    BY <1>1, <1>2, <1>4, <2>2 DEF TypesOK, clientVars
  <2>4. OneTimer'
    BY <1>1, <2>1, <2>2 DEF OneTimer, Told
  <2>5. CallersTold'
    <3> SUFFICES ASSUME NEW e \in Range(queue'), e.by # 0
                 PROVE  e.by = timer' \/ timers'[e.by].stop
      BY DEF CallersTold, Told
    <3>1. Told(e.by) /\ e.by \in Timer
      BY <1>2, CallersAreTimers DEF CallersTold
    <3> QED
      BY <3>1, <1>1, <2>2 DEF Told
  <2> QED
    BY <1>5, <2>3, <2>4, <2>5
<1> QED
  BY <1>3, <1>6, <1>7

\* A cluster is chosen: the client, the header and the views change together,
\* or not at all.
LEMMA SwitchClusterStep ==
  ASSUME IInv, SwitchCluster
  PROVE  IInv'
<1> USE DEF IInv
<1>1. UNCHANGED timerVars
  BY DEF SwitchCluster
<1>2. \/ UNCHANGED <<client, header, viewClient, fetch, queue>>
      \/ \E c \in Clusters : /\ client' = c /\ header' = c /\ viewClient' = [v \in Views |-> c]
                             /\ RefreshBy(current, 0)
  BY DEF SwitchCluster, SwitchTo, RefreshNow, refreshVars
<1>3. CASE UNCHANGED <<client, header, viewClient, fetch, queue>>
  BY <1>1, <1>3, NothingSteps
<1>4. ASSUME NEW c \in Clusters, client' = c, header' = c, viewClient' = [v \in Views |-> c],
             RefreshBy(current, 0)
      PROVE  IInv'
  <2>1. 0 \in 0 .. MaxTimers
    BY ApplicationAssumption
  <2>2. TypesOK' /\ ClientsAgree'
    BY <1>1, <1>4, <2>1, Refreshed DEF TypesOK, ClientsAgree, timerVars
  <2> QED
    BY <1>1, <1>4, <2>1, <2>2, Refreshed, TimersKept
<1> QED
  BY <1>2, <1>3, <1>4

\* A key.
LEMMA KeySteps ==
  ASSUME IInv, KeyPress
  PROVE  IInv'
<1>1. CASE \/ SwitchView \/ RefreshKey \/ HandleF6ToggleAutoRefresh \/ Filter \/ StartOperation
           \/ OpenDialog \/ CloseDialog \/ ShowCommandLine \/ CommandNone \/ CommandView
           \/ CommandDialog \/ CommandRefresh \/ CommandOperation \/ Interrupt
  <2>1. UNCHANGED <<timerVars, clientVars, refreshVars, queue>>
    BY <1>1 DEF SwitchView, RefreshKey, HandleF6ToggleAutoRefresh, Filter, StartOperation,
                OpenDialog, CloseDialog, ShowCommandLine, CommandNone, CommandView,
                CommandDialog, CommandRefresh, CommandOperation, Interrupt
  <2> QED
    BY <2>1, NothingSteps DEF clientVars, refreshVars
<1>2. CASE HandleF5Refresh
  BY <1>2, RefreshSteps DEF HandleF5Refresh, RefreshNow
<1>3. CASE ApplyConfig
  <2>1. /\ \E rate \in BOOLEAN : Afresh(rate)
        /\ UNCHANGED <<clientVars, refreshVars, queue>>
    BY <1>3 DEF ApplyConfig
  <2>2. UNCHANGED <<fetch, viewClient, queue>> /\ ClientsAgree'
    BY <2>1 DEF IInv, ClientsAgree, clientVars, refreshVars
  <2> QED
    BY <2>1, <2>2, TimersRenewed
<1>4. CASE SwitchCluster
  BY <1>4, SwitchClusterStep
<1>5. CASE Quit
  <2>1. StopTimer /\ UNCHANGED <<client, header, viewClient, refreshVars, queue>>
    BY <1>5 DEF Quit, Stop
  <2>2. UNCHANGED <<fetch, viewClient, queue>> /\ ClientsAgree'
    BY <2>1 DEF IInv, ClientsAgree, refreshVars
  <2> QED
    BY <2>1, <2>2, TimersRenewed
<1> QED
  BY <1>1, <1>2, <1>3, <1>4, <1>5 DEF KeyPress

-----------------------------------------------------------------------------

\* The inductive invariant of Application.
THEOREM Invariance == Spec => []IInv
<1>1. Init => IInv
  <2> SUFFICES ASSUME Init
               PROVE  IInv
    OBVIOUS
  <2> USE DEF Init
  <2>1. Home \in Clusters /\ MaxTimers \in Nat
    BY ApplicationAssumption
  <2>2. queue \in Seq(Updates) /\ Range(queue) = {}
    <3>1. DOMAIN <<>> = {}
      BY EmptySeq, LenProperties
    <3> QED
      BY <3>1, EmptySeq DEF Range
  <2>3. TypesOK
    BY <2>1, <2>2 DEF TypesOK, Idle
  <2>4. OneTimer
    BY DEF OneTimer
  <2>5. ClientsAgree
    BY DEF ClientsAgree
  <2>6. CallersTold
    BY <2>2 DEF CallersTold
  <2> QED
    BY <2>3, <2>4, <2>5, <2>6 DEF IInv
<1>2. IInv /\ [Next]_vars => IInv'
  <2> SUFFICES ASSUME IInv, [Next]_vars
               PROVE  IInv'
    OBVIOUS
  <2>1. CASE Run
    <3>1. UNCHANGED timerVars \/ Afresh(TRUE)
      BY <2>1 DEF Run
    <3>2. UNCHANGED <<clientVars, fetch, queue>>
      BY <2>1 DEF Run, refreshVars
    <3>3. UNCHANGED <<fetch, viewClient, queue, client, header>> /\ ClientsAgree'
      BY <3>2 DEF IInv, ClientsAgree, clientVars
    <3> QED
      BY <3>1, <3>3, NothingSteps, TimersRenewed
  <2>2. CASE Draw
    BY <2>2, DrawStep
  <2>3. CASE Key
    BY <2>3, KeySteps DEF Key
  <2>4. CASE Signal
    <3>1. StopTimer /\ UNCHANGED <<client, header, viewClient, refreshVars, queue>>
      BY <2>4 DEF Signal, Stop
    <3>2. UNCHANGED <<fetch, viewClient, queue>> /\ ClientsAgree'
      BY <3>1 DEF IInv, ClientsAgree, refreshVars
    <3> QED
      BY <3>1, <3>2, TimersRenewed
  <2>5. CASE RefreshLater
    BY <2>5, RefreshSteps DEF RefreshLater
  <2>6. CASE OperationEnds
    <3> DEFINE e == Update("dialog", Nowhere, Nowhere, 0)
    <3>1. queue' = Append(queue, e) /\ UNCHANGED <<timerVars, clientVars, fetch>>
      BY <2>6 DEF OperationEnds, refreshVars
    <3>2. e \in Updates /\ e.by = 0
      BY ApplicationAssumption DEF Update, Updates
    <3> HIDE DEF e
    <3>3. queue' \in Seq(Updates) /\ Range(queue') \subseteq Range(queue) \cup {e}
      BY <3>1, <3>2, QueueAppended DEF IInv, TypesOK
    <3>4. TypesOK' /\ ClientsAgree'
      BY <3>1, <3>3 DEF IInv, TypesOK, ClientsAgree, timerVars, clientVars
    <3> QED
      BY <3>1, <3>2, <3>3, <3>4, TimersKept
  <2>7. CASE \E v \in Fetching : Fetch(v)
    BY <2>7, FetchSteps
  <2>8. CASE \E v \in Views : Task(v)
    BY <2>8, RefreshSteps DEF Task
  <2>9. CASE \E t \in Timer : TimerLoop(t)
    BY <2>9, TimerSteps
  <2>10. CASE UNCHANGED vars
    BY <2>10, NothingSteps DEF vars, timerVars, clientVars, refreshVars
  <2> QED
    BY <2>1, <2>2, <2>3, <2>4, <2>5, <2>6, <2>7, <2>8, <2>9, <2>10 DEF Next
<1> QED
  BY <1>1, <1>2, PTL DEF Spec

\* However often the rate changes and whatever timer waits for its update, at
\* most one timer goroutine has not been told to end: the one in use.
THEOREM OneTimerInUse == Spec => []OneTimer
<1>1. IInv => OneTimer
  BY DEF IInv
<1> QED
  BY <1>1, Invariance, PTL

\* The header names the cluster that every list and command goes to.
THEOREM ClientsFollowHeader == Spec => []ClientsAgree
<1>1. IInv => ClientsAgree
  BY DEF IInv
<1> QED
  BY <1>1, Invariance, PTL

=============================================================================
