-------------------------- MODULE PluginPartsProofs --------------------------
(***************************************************************************)
(* Theorems about the goroutines, the history and the subscriptions of the *)
(* observability plugin, for any queries, limits and bounds.               *)
(***************************************************************************)
EXTENDS PluginParts, FiniteSetTheorems, SequenceTheorems, WellFoundedInduction, TLAPS

-----------------------------------------------------------------------------

\* A collector that has been stopped has no goroutine left that appends to a
\* series or drops from it, and what is in memory is on disk.
HistoryInv ==
  ~running /\ ~stopping =>
    /\ collecting = History!Gone
    /\ ~cleaning
    /\ files = series

\* A step of the collector keeps that.
LEMMA HistorySteps ==
  ASSUME HistoryInv, History!CollectorNext
  PROVE  HistoryInv'
<1> USE DEF HistoryInv, History!Gone, History!Waits
<1>1. CASE History!Start
  BY <1>1 DEF History!Start
<1>2. CASE History!CollectBegins \/ History!CollectFails \/ History!CollectEnds
  <2>1. running \/ stopping
    BY <1>2 DEF History!CollectBegins, History!CollectFails, History!CollectEnds
  <2>2. UNCHANGED <<running, stopping>>
    BY <1>2 DEF History!CollectBegins, History!CollectFails, History!CollectEnds
  <2> QED
    BY <2>1, <2>2
<1>3. CASE History!CleanupOldData
  BY <1>3 DEF History!CleanupOldData
<1>4. CASE History!SaveHistoricalData
  BY <1>4 DEF History!SaveHistoricalData
<1>5. CASE History!CollectionLoopEnds \/ History!CleanupLoopEnds
  BY <1>5 DEF History!CollectionLoopEnds, History!CleanupLoopEnds
<1>6. CASE History!StopBegins \/ History!Cancel
  BY <1>6 DEF History!StopBegins, History!Cancel
<1>7. CASE History!StopEnds
  BY <1>7 DEF History!StopEnds
<1>8. CASE History!Restart
  BY <1>8 DEF History!Restart
<1>9. CASE History!Second
  BY <1>9 DEF History!Second
<1> QED
  BY <1>1, <1>2, <1>3, <1>4, <1>5, <1>6, <1>7, <1>8, <1>9 DEF History!CollectorNext

\* When Stop of the collector has returned, the files have every series as it
\* is in memory.
THEOREM StoppedCollectorHasSaved == Spec => []StoppedIsSaved
<1>1. Init => HistoryInv
  BY DEF Init, History!Init, HistoryInv
<1>2. HistoryInv /\ [Next]_vars => HistoryInv'
  <2> SUFFICES ASSUME HistoryInv, [Next]_vars
               PROVE  HistoryInv'
    OBVIOUS
  <2>1. CASE HistoryStep
    BY <2>1, HistorySteps DEF HistoryStep
  <2>2. CASE PluginStep \/ FeedStep \/ UNCHANGED vars
    BY <2>2 DEF PluginStep, FeedStep, vars, collectorVars, HistoryInv
  <2> QED
    BY <2>1, <2>2 DEF Next
<1>3. HistoryInv => StoppedIsSaved
  BY DEF HistoryInv, StoppedIsSaved, History!StoppedIsSaved
<1> QED
  BY <1>1, <1>2, <1>3, PTL DEF Spec

-----------------------------------------------------------------------------

Subscription ==
  [mgr : Nat, origin : Nat, called : BOOLEAN, present : BOOLEAN, active : BOOLEAN,
   errors : Nat, due : BOOLEAN]

\* What the proofs need to know of the types: no subscription is of a manager
\* or an origin to come, in memory or in the file.
FeedTypes ==
  /\ subs \in Seq(Subscription)
  /\ manager \in Nat /\ held \in 0 .. manager /\ origins \in Nat
  /\ \A s \in DOMAIN subs : subs[s].mgr <= manager /\ subs[s].origin <= origins
  /\ saved \in Seq(Nat) /\ \A i \in DOMAIN saved : saved[i] <= origins

\* What was asked for once is at most once in the table of a manager, also of one
\* that the plugin no longer holds but that is still saving.
OnceInTable ==
  \A s, t \in DOMAIN subs :
    /\ subs[s].present /\ subs[t].present
    /\ subs[s].mgr = subs[t].mgr
    /\ subs[s].origin = subs[t].origin
    => s = t

\* It is at most once in the file, too.
OnceInFile == \A i, j \in DOMAIN saved : saved[i] = saved[j] => i = j

\* The inductive invariant of what is restored.
FeedInv == FeedTypes /\ OnceInTable /\ OnceInFile /\ SavedIsKept

\* SetToSeq lists the elements of a finite set, each of them once.
LEMMA SetToSeqLists ==
  ASSUME NEW S, IsFiniteSet(S)
  PROVE  /\ Cardinality(S) \in Nat
         /\ SetToSeq(S) \in [1 .. Cardinality(S) -> S]
         /\ IsInjective(SetToSeq(S))
<1>1. Cardinality(S) \in Nat /\ ExistsBijection(1 .. Cardinality(S), S)
  BY FS_CardinalityType
<1>2. PICK f \in [1 .. Cardinality(S) -> S] : IsInjective(f)
  BY <1>1 DEF ExistsBijection, Bijection, Injection
<1> QED
  BY <1>1, <1>2 DEF SetToSeq

\* It is the same function in the module of the subscriptions.
LEMMA SetToSeqAsThere == \A S : Feed!SetToSeq(S) = SetToSeq(S)
  BY DEF SetToSeq, Feed!SetToSeq, IsInjective, Feed!IsInjective, Cardinality, Feed!Cardinality,
         IsFiniteSet, Feed!IsFiniteSet

\* The subscriptions as a sequence.
LEMMA FeedSequence ==
  ASSUME FeedTypes
  PROVE  /\ Len(subs) \in Nat /\ DOMAIN subs = 1 .. Len(subs)
         /\ \A s \in DOMAIN subs : subs[s] \in Subscription
  BY LenProperties, ElementOfSeq DEF FeedTypes

\* As long as the plugin holds the same manager and no other stops saving, what
\* is saved is kept by keeping the table, but for what is unsubscribed.
LEMMA TableKept ==
  ASSUME SavedIsKept, UNCHANGED <<held, saved>>, dropped \subseteq dropped',
         autosaving \subseteq autosaving' \cup {held},
         \A s \in DOMAIN subs :
           subs[s].present =>
             \/ subs[s].origin \in dropped'
             \/ /\ s \in DOMAIN subs'
                /\ subs'[s].mgr = subs[s].mgr /\ subs'[s].origin = subs[s].origin
                /\ subs'[s].present
  PROVE  SavedIsKept'
<1> SUFFICES ASSUME held # 0, autosaving \subseteq {held}, NEW i \in DOMAIN saved,
                    saved[i] \notin dropped'
             PROVE  \E s \in DOMAIN subs' : /\ subs'[s].mgr = held /\ subs'[s].present
                                            /\ subs'[s].origin = saved[i]
  BY DEF SavedIsKept, Feed!SavedIsKept, Feed!InTable
<1>1. PICK s \in DOMAIN subs : Feed!InTable(s, held) /\ subs[s].origin = saved[i]
  BY DEF SavedIsKept, Feed!SavedIsKept
<1> QED
  BY <1>1 DEF Feed!InTable

\* Steps that change one subscription at most, and neither whose nor which it
\* is, and leave it where it is unless it is dropped.
LEMMA OneChanged ==
  ASSUME FeedInv, NEW s, NEW r,
         subs' = subs \/ subs' = [subs EXCEPT ![s] = r],
         s \in DOMAIN subs => /\ r \in Subscription
                              /\ r.mgr = subs[s].mgr /\ r.origin = subs[s].origin
                              /\ r.present => subs[s].present
                              /\ subs[s].present => r.present \/ subs[s].origin \in dropped',
         dropped \subseteq dropped',
         UNCHANGED <<manager, held, autosaving, origins, saved>>
  PROVE  FeedInv'
<1> USE DEF FeedInv
<1>1. /\ Len(subs) \in Nat /\ DOMAIN subs = 1 .. Len(subs)
      /\ \A t \in DOMAIN subs : subs[t] \in Subscription
  BY FeedSequence
<1>2. /\ DOMAIN subs' = DOMAIN subs
      /\ subs' \in [1 .. Len(subs) -> Subscription]
      /\ \A t \in DOMAIN subs :
           /\ subs'[t].mgr = subs[t].mgr /\ subs'[t].origin = subs[t].origin
           /\ subs'[t].present => subs[t].present
           /\ subs[t].present => subs'[t].present \/ subs[t].origin \in dropped'
  <2>1. subs \in [1 .. Len(subs) -> Subscription]
    BY <1>1, LenProperties, SeqDef DEF FeedTypes
  <2>2. CASE subs' = subs \/ s \notin DOMAIN subs
    BY <1>1, <2>1, <2>2
  <2>3. CASE s \in DOMAIN subs /\ subs' = [subs EXCEPT ![s] = r]
    BY <1>1, <2>1, <2>3
  <2> QED
    BY <2>2, <2>3
<1>3. subs' \in Seq(Subscription)
  BY <1>1, <1>2, SeqDef
<1>4. FeedTypes'
  BY <1>2, <1>3 DEF FeedTypes
<1>5. OnceInTable' /\ OnceInFile'
  BY <1>2 DEF OnceInTable, OnceInFile
<1>6. SavedIsKept'
  BY <1>2, TableKept
<1> QED
  BY <1>4, <1>5, <1>6

\* The tables as they are before a new one is made: none has gained anything.
LEMMA LeftTables ==
  ASSUME FeedTypes
  PROVE  /\ Feed!Left \in Seq(Subscription) /\ Len(Feed!Left) = Len(subs)
         /\ \A s \in DOMAIN subs :
              /\ Feed!Left[s].mgr = subs[s].mgr /\ Feed!Left[s].origin = subs[s].origin
              /\ Feed!Left[s].present => subs[s].present
<1> DEFINE r(s) == IF subs[s].mgr = held /\ held \notin autosaving
                   THEN Feed!Gone(subs[s]) ELSE subs[s]
           left == [s \in DOMAIN subs |-> r(s)]
<1>1. /\ Len(subs) \in Nat /\ DOMAIN subs = 1 .. Len(subs)
      /\ \A t \in DOMAIN subs : subs[t] \in Subscription
  BY FeedSequence
<1>2. ASSUME NEW s \in DOMAIN subs
      PROVE  /\ r(s) \in Subscription /\ r(s).mgr = subs[s].mgr /\ r(s).origin = subs[s].origin
             /\ r(s).present => subs[s].present
  <2>1. subs[s] \in Subscription
    BY <1>1
  <2> QED
    BY <2>1 DEF Feed!Gone, Feed!NewSub, Subscription
<1>3. Feed!Left = left
  BY DEF Feed!Left
<1> HIDE DEF r
<1>4. left \in [1 .. Len(subs) -> Subscription] /\ \A s \in DOMAIN subs : left[s] = r(s)
  BY <1>1, <1>2
<1> HIDE DEF left
<1>5. left \in Seq(Subscription) /\ Len(left) = Len(subs)
  BY <1>1, <1>4, SeqDef, LenProperties
<1> QED
  BY <1>2, <1>3, <1>4, <1>5

\* What a new manager loads: each subscription in the file, once.
LEMMA LoadedTable ==
  ASSUME FeedInv
  PROVE  /\ Len(saved) \in Nat /\ DOMAIN saved = 1 .. Len(saved)
         /\ Feed!LoadSubscriptions(manager + 1) \in [1 .. Len(saved) -> Subscription]
         /\ \A i \in 1 .. Len(saved) :
              /\ Feed!LoadSubscriptions(manager + 1)[i] = Feed!NewSub(manager + 1, saved[i], FALSE)
              /\ Feed!LoadSubscriptions(manager + 1)[i].mgr = manager + 1
              /\ Feed!LoadSubscriptions(manager + 1)[i].origin = saved[i]
              /\ Feed!LoadSubscriptions(manager + 1)[i].present
              /\ saved[i] \in Nat /\ saved[i] <= origins
<1> USE DEF FeedInv
<1>1. Len(saved) \in Nat /\ DOMAIN saved = 1 .. Len(saved) /\ manager + 1 \in Nat
  BY LenProperties DEF FeedTypes
<1>2. \A i \in 1 .. Len(saved) : saved[i] \in Nat /\ saved[i] <= origins
  BY <1>1, ElementOfSeq DEF FeedTypes
<1>3. \A i \in 1 .. Len(saved) :
        /\ Feed!NewSub(manager + 1, saved[i], FALSE) \in Subscription
        /\ Feed!NewSub(manager + 1, saved[i], FALSE).mgr = manager + 1
        /\ Feed!NewSub(manager + 1, saved[i], FALSE).origin = saved[i]
        /\ Feed!NewSub(manager + 1, saved[i], FALSE).present
  BY <1>1, <1>2 DEF Feed!NewSub, Subscription
<1>4. Feed!LoadSubscriptions(manager + 1) =
        [i \in 1 .. Len(saved) |-> Feed!NewSub(manager + 1, saved[i], FALSE)]
  BY <1>1 DEF Feed!LoadSubscriptions
<1> QED
  BY <1>1, <1>2, <1>3, <1>4

\* A new manager gets a table of its own, with each saved subscription once, and
\* the plugin may hold it from now on.
LEMMA NewManagerSteps ==
  ASSUME FeedInv, Feed!InitFails \/ Feed!Enable
  PROVE  FeedInv'
<1> USE DEF FeedInv
<1> DEFINE loaded == Feed!LoadSubscriptions(manager + 1)
<1>1. PICK t, held2 :
        /\ t \in Seq(Subscription) /\ Len(t) = Len(subs)
        /\ \A s \in DOMAIN subs : /\ t[s].mgr = subs[s].mgr /\ t[s].origin = subs[s].origin
                                  /\ t[s].present => subs[s].present
        /\ subs' = t \o loaded
        /\ held' = held2 /\ held2 \in {held, manager + 1}
        /\ manager' = manager + 1 /\ autosaving' = autosaving \cup {manager + 1}
        /\ UNCHANGED <<saved, origins, dropped>>
  <2>1. CASE Feed!InitFails
    BY <2>1 DEF Feed!InitFails, Feed!NewManager, Feed!Load, FeedTypes
  <2>2. CASE Feed!Enable
    BY <2>2, LeftTables DEF Feed!Enable, Feed!NewManager, Feed!Load
  <2> QED
    BY <2>1, <2>2
<1>2. /\ Len(saved) \in Nat /\ DOMAIN saved = 1 .. Len(saved)
      /\ loaded \in [1 .. Len(saved) -> Subscription]
      /\ \A i \in 1 .. Len(saved) :
           /\ loaded[i].mgr = manager + 1 /\ loaded[i].origin = saved[i] /\ loaded[i].present
           /\ saved[i] <= origins
  BY LoadedTable
<1> DEFINE n == Len(saved)
           m == Len(subs)
<1> HIDE DEF loaded
<1>3. m \in Nat /\ DOMAIN subs = 1 .. m /\ \A s \in DOMAIN subs : subs[s] \in Subscription
  BY FeedSequence
<1>4. loaded \in Seq(Subscription) /\ Len(loaded) = n
  BY <1>2, SeqDef, LenProperties
<1>5. /\ subs' \in Seq(Subscription) /\ Len(subs') = m + n
      /\ \A i \in 1 .. m + n : subs'[i] = IF i <= m THEN t[i] ELSE loaded[i - m]
  BY <1>1, <1>4, ConcatProperties
<1>6. n \in Nat /\ DOMAIN subs' = 1 .. m + n
  BY <1>2, <1>5, LenProperties
<1> HIDE DEF m, n
<1>7. ASSUME NEW i \in DOMAIN subs'
      PROVE  \/ i \in DOMAIN subs /\ subs'[i] = t[i]
             \/ i - m \in 1 .. n /\ subs'[i] = loaded[i - m] /\ i = (i - m) + m
  BY <1>3, <1>5, <1>6
<1>8. \A i \in 1 .. n : m + i \in DOMAIN subs' /\ subs'[m + i] = loaded[i]
  <2>1. \A i \in 1 .. n : m + i \in 1 .. m + n /\ ~(m + i <= m) /\ (m + i) - m = i
    BY <1>3, <1>6
  <2> QED
    BY <2>1, <1>5, <1>6
<1>9. \A i \in DOMAIN subs : t[i].mgr <= manager /\ t[i].origin <= origins /\ t[i].mgr \in Nat
  BY <1>1, <1>3 DEF FeedTypes, Subscription
<1>10. FeedTypes'
  <2>1. \A i \in DOMAIN subs' : subs'[i].mgr <= manager + 1 /\ subs'[i].origin <= origins
    <3> SUFFICES ASSUME NEW i \in DOMAIN subs'
                 PROVE  subs'[i].mgr <= manager + 1 /\ subs'[i].origin <= origins
      OBVIOUS
    <3>1. CASE i \in DOMAIN subs /\ subs'[i] = t[i]
      BY <3>1, <1>9 DEF FeedTypes
    <3>2. CASE i - m \in 1 .. n /\ subs'[i] = loaded[i - m]
      <4>1. subs'[i].mgr = manager + 1 /\ subs'[i].origin <= origins
        BY <3>2, <1>2 DEF n
      <4> QED
        BY <4>1 DEF FeedTypes
    <3> QED
      BY <1>7, <3>1, <3>2
  <2>2. held2 \in 0 .. manager + 1 /\ manager + 1 \in Nat
    BY <1>1 DEF FeedTypes
  <2> QED
    BY <2>1, <2>2, <1>1, <1>5 DEF FeedTypes
<1>11. OnceInTable'
  <2> SUFFICES ASSUME NEW i \in DOMAIN subs', NEW j \in DOMAIN subs',
                      subs'[i].present, subs'[j].present,
                      subs'[i].mgr = subs'[j].mgr, subs'[i].origin = subs'[j].origin
               PROVE  i = j
    BY DEF OnceInTable
  <2>1. CASE i \in DOMAIN subs /\ subs'[i] = t[i] /\ j \in DOMAIN subs /\ subs'[j] = t[j]
    BY <2>1, <1>1 DEF OnceInTable
  <2>2. CASE /\ i - m \in 1 .. n /\ subs'[i] = loaded[i - m] /\ i = (i - m) + m
             /\ j - m \in 1 .. n /\ subs'[j] = loaded[j - m] /\ j = (j - m) + m
    <3>1. saved[i - m] = saved[j - m] /\ i - m \in DOMAIN saved /\ j - m \in DOMAIN saved
      BY <2>2, <1>2 DEF n
    <3>2. i - m = j - m
      BY <3>1 DEF OnceInFile
    <3> QED
      BY <3>2, <2>2
  <2>3. \A k \in DOMAIN subs : \A l \in 1 .. n : t[k].mgr # loaded[l].mgr
    <3>1. \A k \in DOMAIN subs : t[k].mgr # manager + 1
      BY <1>9 DEF FeedTypes
    <3>2. \A l \in 1 .. n : loaded[l].mgr = manager + 1
      BY <1>2 DEF n
    <3> QED
      BY <3>1, <3>2
  <2> QED
    BY <1>7, <2>1, <2>2, <2>3
<1>12. OnceInFile'
  BY <1>1 DEF OnceInFile
<1>13. SavedIsKept'
  <2> SUFFICES ASSUME held2 # 0, autosaving' \subseteq {held2}, NEW i \in DOMAIN saved
               PROVE  \E s \in DOMAIN subs' : /\ subs'[s].mgr = held2 /\ subs'[s].present
                                              /\ subs'[s].origin = saved[i]
    BY <1>1 DEF SavedIsKept, Feed!SavedIsKept, Feed!InTable
  <2>1. held2 = manager + 1
    BY <1>1
  <2>2. i \in 1 .. n
    BY <1>2 DEF n
  <2>3. /\ subs'[m + i].mgr = held2 /\ subs'[m + i].present /\ subs'[m + i].origin = saved[i]
        /\ m + i \in DOMAIN subs'
    BY <1>2, <1>8, <2>1, <2>2 DEF n
  <2> QED
    BY <2>3
<1> QED
  BY <1>10, <1>11, <1>12, <1>13

\* Subscribe: what is asked for anew is not in any table yet.
LEMMA SubscribeStep ==
  ASSUME FeedInv, Feed!Subscribe
  PROVE  FeedInv'
<1> USE DEF FeedInv
<1> DEFINE new == Feed!NewSub(held, origins + 1, TRUE)
           m == Len(subs)
<1>1. /\ origins' = origins + 1 /\ subs' = Append(subs, new)
      /\ UNCHANGED <<manager, held, autosaving, saved, dropped>>
  BY DEF Feed!Subscribe
<1>2. m \in Nat /\ DOMAIN subs = 1 .. m /\ \A s \in DOMAIN subs : subs[s] \in Subscription
  BY FeedSequence
<1>3. /\ new \in Subscription /\ new.mgr = held /\ new.origin = origins + 1
      /\ held \in Nat /\ held <= manager
  BY DEF Feed!NewSub, Subscription, FeedTypes
<1> HIDE DEF new
<1>4. /\ subs' \in Seq(Subscription) /\ Len(subs') = m + 1
      /\ \A i \in 1 .. m : subs'[i] = subs[i]
      /\ subs'[m + 1] = new
  BY <1>1, <1>3, AppendProperties DEF FeedTypes
<1>5. DOMAIN subs' = 1 .. m + 1
  BY <1>4, LenProperties
<1> HIDE DEF m
<1>6. \A i \in DOMAIN subs' : \/ i \in DOMAIN subs /\ subs'[i] = subs[i]
                              \/ i = m + 1 /\ subs'[i] = new
  BY <1>2, <1>4, <1>5
<1>7. \A i \in DOMAIN subs : /\ subs[i].mgr <= manager /\ subs[i].origin <= origins
                             /\ subs[i].origin \in Nat /\ origins \in Nat /\ manager \in Nat
  BY <1>2 DEF FeedTypes, Subscription
<1>8. FeedTypes'
  <2>1. \A i \in DOMAIN subs' : subs'[i].mgr <= manager /\ subs'[i].origin <= origins + 1
    <3> SUFFICES ASSUME NEW i \in DOMAIN subs'
                 PROVE  subs'[i].mgr <= manager /\ subs'[i].origin <= origins + 1
      OBVIOUS
    <3>1. CASE i \in DOMAIN subs /\ subs'[i] = subs[i]
      BY <3>1, <1>7
    <3>2. CASE subs'[i] = new
      BY <3>2, <1>3 DEF FeedTypes
    <3> QED
      BY <1>6, <3>1, <3>2
  <2>2. \A i \in DOMAIN saved : saved[i] <= origins + 1
    <3>1. \A i \in DOMAIN saved : saved[i] \in Nat /\ saved[i] <= origins
      BY ElementOfSeq, LenProperties DEF FeedTypes
    <3> QED
      BY <3>1 DEF FeedTypes
  <2> QED
    BY <2>1, <2>2, <1>1, <1>4 DEF FeedTypes
<1>9. OnceInTable' /\ OnceInFile'
  <2>1. \A i \in DOMAIN subs : subs[i].origin # new.origin
    BY <1>3, <1>7
  <2> QED
    BY <2>1, <1>1, <1>6 DEF OnceInTable, OnceInFile
<1>10. SavedIsKept'
  <2>1. \A i \in DOMAIN subs : i \in DOMAIN subs' /\ subs'[i] = subs[i]
    BY <1>2, <1>4, <1>5
  <2> QED
    BY <1>1, <2>1, TableKept
<1> QED
  BY <1>8, <1>9, <1>10

\* A stop, or a stop and a start, of the plugin: the table stays as it is.
LEMMA StopSteps ==
  ASSUME FeedInv, Feed!Disable \/ Feed!Restart
  PROVE  FeedInv'
<1> USE DEF FeedInv
<1>1. /\ UNCHANGED <<subs, manager, held, origins, saved, dropped>>
      /\ autosaving' = autosaving \ {held}
  BY DEF Feed!Disable, Feed!Restart, Feed!StopSaving
<1>2. FeedTypes' /\ OnceInTable' /\ OnceInFile'
  BY <1>1 DEF FeedTypes, OnceInTable, OnceInFile
<1>3. SavedIsKept'
  BY <1>1, TableKept
<1> QED
  BY <1>2, <1>3

\* What may happen to one subscription.
LEMMA OneSubscriptionSteps ==
  ASSUME FeedInv, NEW s,
         \/ Feed!Unsubscribe(s) \/ Feed!Elapse(s) \/ Feed!CallBack(s) \/ Feed!CallBackPanics(s)
         \/ Feed!UpdateFails(s) \/ Feed!UpdateAnswers(s)
  PROVE  FeedInv'
<1> DEFINE gone == Feed!Gone(subs[s])
           due == [subs[s] EXCEPT !.due = TRUE]
           answered == [subs[s] EXCEPT !.due = FALSE]
           errors == IF subs[s].errors < Limit THEN subs[s].errors + 1 ELSE subs[s].errors
           active == subs[s].active /\ subs[s].errors + 1 < Limit
           failed == [subs[s] EXCEPT !.errors = errors, !.active = active]
           Is(r) == /\ r \in Subscription
                    /\ r.mgr = subs[s].mgr /\ r.origin = subs[s].origin
                    /\ r.present => subs[s].present
                    /\ subs[s].present => r.present \/ subs[s].origin \in dropped'
<1>1. UNCHANGED <<manager, held, autosaving, saved, origins>> /\ dropped \subseteq dropped'
  BY DEF Feed!Unsubscribe, Feed!Elapse, Feed!CallBack, Feed!CallBackPanics, Feed!UpdateFails,
         Feed!UpdateAnswers
<1>2. s \in DOMAIN subs => subs[s] \in Subscription
  BY FeedSequence DEF FeedInv
<1>4. \A r : /\ subs' = subs \/ subs' = [subs EXCEPT ![s] = r]
             /\ s \in DOMAIN subs => Is(r)
             => FeedInv'
  BY <1>1, OneChanged
<1>5. CASE Feed!Unsubscribe(s)
  <2>1. s \in DOMAIN subs => Is(gone)
    BY <1>2, <1>5 DEF Feed!Gone, Feed!NewSub, Subscription, Feed!Unsubscribe
  <2>2. subs' = [subs EXCEPT ![s] = gone]
    BY <1>5 DEF Feed!Unsubscribe
  <2> HIDE DEF gone
  <2> QED
    BY <1>4, <2>1, <2>2
<1>6. CASE Feed!Elapse(s)
  <2>1. s \in DOMAIN subs => Is(due)
    BY <1>2 DEF Subscription
  <2>2. subs' = [subs EXCEPT ![s] = due]
    BY <1>6 DEF Feed!Elapse
  <2> HIDE DEF due
  <2> QED
    BY <1>4, <2>1, <2>2
<1>7. CASE Feed!UpdateAnswers(s)
  <2>1. s \in DOMAIN subs => Is(answered)
    BY <1>2 DEF Subscription
  <2>2. subs' = [subs EXCEPT ![s] = answered]
    BY <1>7 DEF Feed!UpdateAnswers
  <2> HIDE DEF answered
  <2> QED
    BY <1>4, <2>1, <2>2
<1>8. CASE Feed!CallBack(s)
  <2>1. subs' = subs
    BY <1>8 DEF Feed!CallBack
  <2>2. s \in DOMAIN subs => Is(subs[s])
    BY <1>2
  <2> QED
    BY <1>4, <2>1, <2>2
<1>9. CASE Feed!CallBackPanics(s) \/ Feed!UpdateFails(s)
  <2>1. errors \in Nat \/ s \notin DOMAIN subs
    BY <1>2 DEF Subscription
  <2>2. active \in BOOLEAN
    OBVIOUS
  <2> HIDE DEF errors, active
  <2>3. s \in DOMAIN subs => Is(failed)
    BY <1>2, <2>1, <2>2 DEF Subscription
  <2>4. subs' = subs \/ subs' = [subs EXCEPT ![s] = failed]
    BY <1>9 DEF Feed!CallBackPanics, Feed!UpdateFails, Feed!IncrementErrorCount, errors, active
  <2> HIDE DEF failed
  <2> QED
    BY <1>4, <2>3, <2>4
<1> QED
  BY <1>5, <1>6, <1>7, <1>8, <1>9

\* What a manager saves: the origins of what is active in its table, in a list.
LEMMA SavedTable ==
  ASSUME FeedInv, NEW m, Feed!SaveSubscriptions(m)
  PROVE  \E n, ids :
           /\ n \in Nat /\ n <= Len(subs) /\ ids \in [1 .. n -> DOMAIN subs]
           /\ \A i, j \in 1 .. n : ids[i] = ids[j] => i = j
           /\ \A i \in 1 .. n : Feed!InTable(ids[i], m)
           /\ saved' = [i \in 1 .. n |-> subs[ids[i]].origin]
<1> DEFINE S == {s \in DOMAIN subs : Feed!InTable(s, m) /\ subs[s].active}
           ids == SetToSeq(S)
           n == Cardinality(S)
<1>1. Len(subs) \in Nat /\ DOMAIN subs = 1 .. Len(subs)
  BY FeedSequence DEF FeedInv
<1>2. IsFiniteSet(S) /\ n <= Len(subs)
  <2>1. IsFiniteSet(1 .. Len(subs)) /\ Cardinality(1 .. Len(subs)) = Len(subs)
    <3>1. \A k \in Nat : IsFiniteSet(1 .. k) /\ Cardinality(1 .. k) = IF 1 > k THEN 0 ELSE k - 1 + 1
      BY FS_Interval
    <3>2. \A k \in Nat : (IF 1 > k THEN 0 ELSE k - 1 + 1) = k
      OBVIOUS
    <3> QED
      BY <1>1, <3>1, <3>2
  <2>2. S \subseteq 1 .. Len(subs)
    BY <1>1
  <2> HIDE DEF S
  <2> QED
    BY <2>1, <2>2, FS_Subset
<1>3. saved' = [i \in DOMAIN ids |-> subs[ids[i]].origin]
  <2>1. Feed!SetToSeq(S) = SetToSeq(S)
    BY SetToSeqAsThere
  <2> QED
    BY <2>1 DEF Feed!SaveSubscriptions
<1>4. \A i \in S : i \in DOMAIN subs /\ Feed!InTable(i, m)
  OBVIOUS
<1> HIDE DEF S
<1>5. n \in Nat /\ ids \in [1 .. n -> S] /\ IsInjective(ids)
  BY <1>2, SetToSeqLists
<1>6. \A i, j \in 1 .. n : ids[i] = ids[j] => i = j
  BY <1>5 DEF IsInjective
<1> HIDE DEF ids, n
<1>7. DOMAIN ids = 1 .. n /\ ids \in [1 .. n -> DOMAIN subs]
  BY <1>4, <1>5
<1>8. \A i \in 1 .. n : Feed!InTable(ids[i], m)
  BY <1>4, <1>5
<1> QED
  BY <1>2, <1>3, <1>5, <1>6, <1>7, <1>8 DEF n

\* The file gets nothing that nobody has asked for, and nothing twice.
LEMMA SaveStep ==
  ASSUME FeedInv, NEW m, Feed!SaveSubscriptions(m)
  PROVE  FeedInv'
<1> USE DEF FeedInv
<1>1. PICK n, ids :
        /\ n \in Nat /\ ids \in [1 .. n -> DOMAIN subs]
        /\ \A i, j \in 1 .. n : ids[i] = ids[j] => i = j
        /\ \A i \in 1 .. n : Feed!InTable(ids[i], m)
        /\ saved' = [i \in 1 .. n |-> subs[ids[i]].origin]
  BY SavedTable
<1>2. m \in autosaving /\ UNCHANGED <<subs, manager, held, autosaving, origins, dropped>>
  BY DEF Feed!SaveSubscriptions, Feed!volatile
<1>3. \A s \in DOMAIN subs : subs[s].origin \in Nat /\ subs[s].origin <= origins
  BY FeedSequence DEF FeedTypes, Subscription
<1>4. DOMAIN saved' = 1 .. n /\ \A i \in 1 .. n : saved'[i] = subs[ids[i]].origin
  BY <1>1
<1>5. FeedTypes'
  <2>1. saved' \in [1 .. n -> Nat]
    BY <1>1, <1>3
  <2>2. saved' \in Seq(Nat)
    BY <1>1, <2>1, SeqDef
  <2>3. \A i \in DOMAIN saved' : saved'[i] <= origins
    BY <1>1, <1>3, <1>4
  <2> QED
    BY <1>2, <2>2, <2>3 DEF FeedTypes
<1>6. OnceInTable'
  BY <1>2 DEF OnceInTable
<1>7. OnceInFile'
  <2> SUFFICES ASSUME NEW i \in 1 .. n, NEW j \in 1 .. n, saved'[i] = saved'[j]
               PROVE  i = j
    BY <1>4 DEF OnceInFile
  <2>1. ids[i] = ids[j]
    BY <1>1, <1>4 DEF OnceInTable, Feed!InTable
  <2> QED
    BY <1>1, <2>1
<1>8. SavedIsKept'
  <2> SUFFICES ASSUME autosaving \subseteq {held}, NEW i \in DOMAIN saved'
               PROVE  \E s \in DOMAIN subs : /\ subs[s].mgr = held /\ subs[s].present
                                             /\ subs[s].origin = saved'[i]
    BY <1>2 DEF SavedIsKept, Feed!SavedIsKept, Feed!InTable
  <2>1. m = held
    BY <1>2
  <2> QED
    BY <1>1, <1>4, <2>1 DEF Feed!InTable
<1> QED
  BY <1>5, <1>6, <1>7, <1>8

\* The program ends and begins anew: no table is left, the file is.
LEMMA ExitStep ==
  ASSUME FeedInv, Feed!Exit
  PROVE  FeedInv'
<1>1. subs' = <<>> /\ held' = 0 /\ UNCHANGED <<manager, saved, origins>>
  BY DEF Feed!Exit
<1>2. subs' \in Seq(Subscription) /\ DOMAIN subs' = {}
  BY <1>1, EmptySeq, LenProperties
<1>3. SavedIsKept'
  BY <1>1 DEF SavedIsKept, Feed!SavedIsKept
<1>4. held' \in 0 .. manager
  BY <1>1 DEF FeedInv, FeedTypes
<1> QED
  BY <1>1, <1>2, <1>3, <1>4 DEF FeedInv, FeedTypes, OnceInTable, OnceInFile

\* What does not change the tables nor the file.
LEMMA FeedInvKept ==
  ASSUME FeedInv, UNCHANGED <<subs, manager, held, autosaving, saved, origins, dropped>>
  PROVE  FeedInv'
BY DEF FeedInv, FeedTypes, OnceInTable, OnceInFile, SavedIsKept, Feed!SavedIsKept, Feed!InTable

\* Every step of the subscriptions keeps the invariant.
LEMMA FeedInvSteps ==
  ASSUME FeedInv, Feed!SubscriptionsNext
  PROVE  FeedInv'
<1>1. CASE Feed!ProcessUpdates
  BY <1>1, FeedInvKept DEF Feed!ProcessUpdates
<1> QED
  BY <1>1, NewManagerSteps, StopSteps, SubscribeStep, OneSubscriptionSteps, SaveStep, ExitStep
  DEF Feed!SubscriptionsNext

\* It holds as long as there is nothing.
LEMMA FeedInvBegins == Feed!Init => FeedInv
<1> SUFFICES ASSUME Feed!Init
             PROVE  FeedInv
  OBVIOUS
<1>1. subs \in Seq(Subscription) /\ DOMAIN subs = {} /\ saved \in Seq(Nat) /\ DOMAIN saved = {}
  BY EmptySeq, LenProperties DEF Feed!Init
<1>2. SavedIsKept
  BY DEF Feed!Init, SavedIsKept, Feed!SavedIsKept
<1> QED
  BY <1>1, <1>2 DEF Feed!Init, FeedInv, FeedTypes, OnceInTable, OnceInFile

\* The inductive invariant of what is restored holds.
LEMMA FeedInvAlways == Spec => []FeedInv
<1>1. Init => FeedInv
  BY FeedInvBegins DEF Init
<1>2. FeedInv /\ [Next]_vars => FeedInv'
  <2> SUFFICES ASSUME FeedInv, [Next]_vars
               PROVE  FeedInv'
    OBVIOUS
  <2>1. CASE FeedStep
    BY <2>1, FeedInvSteps DEF FeedStep
  <2>2. CASE PluginStep \/ HistoryStep \/ UNCHANGED vars
    BY <2>2, FeedInvKept DEF PluginStep, HistoryStep, vars, subscriptionVars
  <2> QED
    BY <2>1, <2>2 DEF Next
<1> QED
  BY <1>1, <1>2, PTL DEF Spec

\* What other plugins and the external interface have subscribed to once is at
\* most once in the table of the plugin, however often plugin and program are
\* stopped and started and whichever manager has saved the file last.
THEOREM NoneRestoredTwice == Spec => []RestoredOnce
<1>1. FeedInv => RestoredOnce
  BY DEF FeedInv, OnceInTable, RestoredOnce, Feed!RestoredOnce, Feed!InTable
<1> QED
  BY <1>1, FeedInvAlways, PTL

\* And at least once, when it has been saved: whatever the file has is in the
\* table of the plugin, unless it has been unsubscribed or another manager that
\* an earlier Init has left is saving over the file.
THEOREM SavedAreKept == Spec => []SavedIsKept
<1>1. FeedInv => SavedIsKept
  BY DEF FeedInv
<1> QED
  BY <1>1, FeedInvAlways, PTL

-----------------------------------------------------------------------------

\* A subscription of one of the managers made: it is active as long as it had
\* fewer errors than disable it.
Bounded(sub, managers) ==
  /\ sub.mgr \in 1 .. managers
  /\ sub.errors \in 0 .. Limit
  /\ sub.active <=> sub.errors < Limit

\* The managers: a plugin that is enabled holds one, and those that save have
\* been made.
ManagersBounded ==
  /\ manager <= MaxManagers
  /\ looping => plugged
  /\ plugged => held # 0
  /\ autosaving \subseteq 1 .. manager

\* The subscriptions of all managers.
SubsBounded ==
  /\ Len(subs) <= MaxSubs
  /\ \A s \in DOMAIN subs : Bounded(subs[s], manager)

\* Queries are under way, and callbacks, for subscriptions that have been made.
QueriesBounded ==
  /\ flights \in [1 .. MaxSubs -> 0 .. MaxFlights]
  /\ \A s \in 1 .. MaxSubs : flights[s] > 0 => s \in DOMAIN subs
  /\ answers \subseteq DOMAIN subs

\* The inductive invariant of the types of the subscriptions, beside FeedInv.
FeedBounds == ManagersBounded /\ SubsBounded /\ QueriesBounded /\ Len(saved) <= MaxSubs

\* One subscription at most changes: the others are bounded as they were.
LEMMA OneBounded ==
  ASSUME FeedInv, SubsBounded, NEW s, NEW r,
         subs' = subs \/ subs' = [subs EXCEPT ![s] = r],
         s \in DOMAIN subs => Bounded(r, manager),
         UNCHANGED manager
  PROVE  SubsBounded' /\ DOMAIN subs' = DOMAIN subs
<1>1. /\ Len(subs) \in Nat /\ DOMAIN subs = 1 .. Len(subs)
      /\ subs \in [1 .. Len(subs) -> Subscription]
  BY FeedSequence, LenProperties, SeqDef DEF FeedInv, FeedTypes
<1>2. CASE subs' = subs \/ s \notin DOMAIN subs
  <2>1. subs' = subs
    BY <1>1, <1>2
  <2> QED
    BY <2>1 DEF SubsBounded
<1>3. CASE s \in DOMAIN subs /\ subs' = [subs EXCEPT ![s] = r]
  <2>1. /\ DOMAIN subs' = DOMAIN subs /\ subs'[s] = r
        /\ \A t \in DOMAIN subs \ {s} : subs'[t] = subs[t]
    BY <1>1, <1>3
  <2>2. \A t \in DOMAIN subs' : Bounded(subs'[t], manager)
    BY <1>3, <2>1 DEF SubsBounded
  <2>3. \E S : subs' \in [1 .. Len(subs) -> S]
    <3>1. subs' \in [1 .. Len(subs) -> Subscription \cup {r}]
      BY <1>1, <1>3
    <3> QED
      BY <3>1
  <2>4. Len(subs') = Len(subs)
    <3>1. PICK S : subs' \in [1 .. Len(subs) -> S]
      BY <2>3
    <3>2. subs' \in Seq(S)
      BY <1>1, <3>1, SeqDef
    <3>3. Len(subs') \in Nat /\ DOMAIN subs' = 1 .. Len(subs')
      BY <3>2, LenProperties
    <3> QED
      BY <1>1, <2>1, <3>3
  <2> QED
    BY <2>1, <2>2, <2>4 DEF SubsBounded
<1> QED
  BY <1>1, <1>2, <1>3

\* One made just now is bounded, and so is one that has left its table.
LEMMA NewBounded ==
  ASSUME NEW m \in Nat \ {0}
  PROVE  /\ \A origin, called : Bounded(Feed!NewSub(m, origin, called), m)
         /\ \A sub : sub.mgr \in 1 .. m => Bounded(Feed!Gone(sub), m)
BY PluginPartsAssumption DEF Bounded, Feed!NewSub, Feed!Gone

\* More managers bound no less.
LEMMA MoreManagers ==
  ASSUME NEW m \in Nat, NEW n \in Nat, m <= n
  PROVE  \A sub : Bounded(sub, m) => Bounded(sub, n)
BY DEF Bounded

\* A table that grows at its end keeps the queries and callbacks of what it had.
LEMMA QueriesKept ==
  ASSUME QueriesBounded, DOMAIN subs \subseteq DOMAIN subs', UNCHANGED <<flights, answers>>
  PROVE  QueriesBounded'
BY DEF QueriesBounded

\* Init makes the next manager, with a table of what is saved, and the table that
\* the plugin held before may become nobody's.
LEMMA NewManagerBounded ==
  ASSUME FeedInv, FeedBounds, Feed!InitFails \/ Feed!Enable
  PROVE  FeedBounds'
<1> USE DEF FeedInv, FeedBounds
<1> DEFINE loaded == Feed!LoadSubscriptions(manager + 1)
<1>1. PICK t :
        /\ t \in Seq(Subscription) /\ Len(t) = Len(subs)
        /\ \A s \in DOMAIN subs : t[s] = subs[s] \/ t[s] = Feed!Gone(subs[s])
        /\ subs' = t \o loaded
  <2>1. CASE Feed!InitFails
    BY <2>1 DEF Feed!InitFails, Feed!NewManager, Feed!Load, FeedTypes
  <2>2. CASE Feed!Enable
    <3>1. Feed!Left \in Seq(Subscription) /\ Len(Feed!Left) = Len(subs)
      BY LeftTables
    <3>2. \A s \in DOMAIN subs : Feed!Left[s] = subs[s] \/ Feed!Left[s] = Feed!Gone(subs[s])
      BY DEF Feed!Left
    <3>3. subs' = Feed!Left \o loaded
      BY <2>2 DEF Feed!Enable, Feed!NewManager, Feed!Load
    <3> QED
      BY <3>1, <3>2, <3>3
  <2> QED
    BY <2>1, <2>2
<1>2. /\ manager' = manager + 1 /\ manager < MaxManagers /\ ~plugged
      /\ autosaving' = autosaving \cup {manager + 1}
      /\ Len(subs) + Len(saved) <= MaxSubs
      /\ UNCHANGED <<flights, answers, saved>>
      /\ \/ UNCHANGED <<held, plugged, looping>>
         \/ held' = manager + 1 /\ looping' = plugged'
  BY DEF Feed!InitFails, Feed!Enable, Feed!NewManager, Feed!Load
<1> DEFINE n == Len(saved)
           m == Len(subs)
<1>3. /\ manager \in Nat /\ manager + 1 \in Nat \ {0} /\ MaxManagers \in Nat /\ MaxSubs \in Nat
      /\ m \in Nat /\ DOMAIN subs = 1 .. m
      /\ \A s \in DOMAIN subs : subs[s] \in Subscription
  BY FeedSequence, PluginPartsAssumption DEF FeedTypes
<1>4. /\ n \in Nat /\ loaded \in [1 .. n -> Subscription]
      /\ \A i \in 1 .. n : Bounded(loaded[i], manager + 1)
  <2>1. /\ n \in Nat /\ loaded \in [1 .. n -> Subscription]
        /\ \A i \in 1 .. n : loaded[i] = Feed!NewSub(manager + 1, saved[i], FALSE)
    BY LoadedTable
  <2> HIDE DEF n, loaded
  <2> QED
    BY <1>3, <2>1, NewBounded
<1> HIDE DEF loaded
<1>5. loaded \in Seq(Subscription) /\ Len(loaded) = n
  BY <1>4, SeqDef, LenProperties
<1>6. \A s \in 1 .. m : Bounded(t[s], manager + 1)
  <2> SUFFICES ASSUME NEW s \in 1 .. m
               PROVE  Bounded(t[s], manager + 1)
    OBVIOUS
  <2>1. Bounded(subs[s], manager) /\ (t[s] = subs[s] \/ t[s] = Feed!Gone(subs[s]))
    BY <1>1, <1>3 DEF SubsBounded
  <2>2. subs[s].mgr \in 1 .. manager /\ manager \in Nat \ {0}
    BY <1>3, <2>1 DEF Bounded
  <2>3. Bounded(t[s], manager)
    BY <2>1, <2>2, NewBounded
  <2>4. manager \in Nat /\ manager + 1 \in Nat /\ manager <= manager + 1
    BY <1>3
  <2> QED
    BY <2>3, <2>4, MoreManagers
<1>7. /\ Len(subs') = m + n /\ DOMAIN subs' = 1 .. m + n
      /\ \A i \in 1 .. m + n : subs'[i] = IF i <= m THEN t[i] ELSE loaded[i - m]
  <2> DEFINE joined == t \o loaded
  <2>1. /\ joined \in Seq(Subscription) /\ Len(joined) = Len(t) + Len(loaded)
        /\ \A i \in 1 .. Len(t) + Len(loaded) :
             joined[i] = IF i <= Len(t) THEN t[i] ELSE loaded[i - Len(t)]
    BY <1>1, <1>5, ConcatProperties
  <2>2. DOMAIN joined = 1 .. Len(joined)
    BY <2>1, LenProperties
  <2> HIDE DEF joined
  <2> QED
    BY <1>1, <1>5, <2>1, <2>2 DEF joined
<1>8. m + n <= MaxSubs /\ n <= MaxSubs
  BY <1>2, <1>3, <1>4
<1>9. Len(saved') <= MaxSubs
  BY <1>2, <1>8
<1> HIDE DEF n, m
<1>10. SubsBounded'
  <2>1. ASSUME NEW i \in 1 .. m + n
        PROVE  Bounded(subs'[i], manager + 1)
    <3>1. CASE i <= m
      <4>1. i \in 1 .. m /\ subs'[i] = t[i]
        BY <1>3, <1>4, <1>7, <3>1
      <4> QED
        BY <1>6, <4>1
    <3>2. CASE ~(i <= m)
      <4>1. i - m \in 1 .. n /\ subs'[i] = loaded[i - m]
        BY <1>3, <1>4, <1>7, <3>2
      <4> QED
        BY <1>4, <4>1
    <3> QED
      BY <3>1, <3>2
  <2> QED
    BY <1>2, <1>7, <1>8, <2>1 DEF SubsBounded
<1>11. QueriesBounded'
  <2>1. DOMAIN subs \subseteq DOMAIN subs'
    BY <1>3, <1>4, <1>7
  <2> QED
    BY <1>2, <2>1, QueriesKept
<1>12. ManagersBounded'
  <2>1. looping' => plugged'
    BY <1>2 DEF ManagersBounded
  <2>2. plugged' => held' # 0
    BY <1>2, <1>3 DEF ManagersBounded
  <2> QED
    BY <1>2, <1>3, <2>1, <2>2 DEF ManagersBounded
<1> QED
  BY <1>9, <1>10, <1>11, <1>12

\* A stop ends the saving of a table that stays.
LEMMA StopBounded ==
  ASSUME FeedBounds, Feed!Disable \/ Feed!Restart
  PROVE  FeedBounds'
<1>1. /\ autosaving' = autosaving \ {held}
      /\ UNCHANGED <<subs, manager, held, flights, answers, saved>>
  BY DEF Feed!Disable, Feed!Restart, Feed!StopSaving
<1>2. (looping' => plugged') /\ (plugged' => plugged)
  BY DEF Feed!Disable, Feed!Restart, FeedBounds, ManagersBounded
<1> QED
  BY <1>1, <1>2 DEF FeedBounds, ManagersBounded, SubsBounded, QueriesBounded

\* Subscribe adds one to the table of the manager that the plugin holds.
LEMMA SubscribeBounded ==
  ASSUME FeedInv, FeedBounds, Feed!Subscribe
  PROVE  FeedBounds'
<1> USE DEF FeedInv, FeedBounds
<1> DEFINE new == Feed!NewSub(held, origins + 1, TRUE)
           m == Len(subs)
<1>1. /\ held # 0 /\ m < MaxSubs /\ subs' = Append(subs, new)
      /\ UNCHANGED <<manager, held, plugged, looping, autosaving, flights, answers, saved>>
  BY DEF Feed!Subscribe
<1>2. /\ manager \in Nat /\ held \in Nat \ {0} /\ held <= manager
      /\ m \in Nat /\ MaxSubs \in Nat /\ DOMAIN subs = 1 .. m
  BY <1>1, FeedSequence, PluginPartsAssumption DEF FeedTypes
<1>3. new \in Subscription /\ Bounded(new, manager)
  <2>1. new \in Subscription
    BY <1>2 DEF Feed!NewSub, Subscription, FeedTypes
  <2>2. Bounded(new, held)
    BY <1>2, NewBounded
  <2> HIDE DEF new
  <2> QED
    BY <1>2, <2>1, <2>2, MoreManagers
<1> HIDE DEF new
<1>4. /\ Len(subs') = m + 1 /\ DOMAIN subs' = 1 .. m + 1
      /\ \A i \in 1 .. m : subs'[i] = subs[i]
      /\ subs'[m + 1] = new
  BY <1>1, <1>3, AppendProperties, LenProperties DEF FeedTypes
<1> HIDE DEF m
<1>5. SubsBounded'
  <2>1. ASSUME NEW i \in 1 .. m + 1
        PROVE  Bounded(subs'[i], manager)
    <3>1. CASE i = m + 1
      BY <1>3, <1>4, <3>1
    <3>2. CASE i # m + 1
      <4>1. i \in DOMAIN subs /\ subs'[i] = subs[i]
        BY <1>2, <1>4, <3>2
      <4> QED
        BY <4>1 DEF SubsBounded
    <3> QED
      BY <3>1, <3>2
  <2>2. m + 1 <= MaxSubs
    BY <1>1, <1>2 DEF m
  <2> QED
    BY <1>1, <1>4, <2>1, <2>2 DEF SubsBounded
<1>6. QueriesBounded'
  <2>1. DOMAIN subs \subseteq DOMAIN subs'
    BY <1>2, <1>4
  <2> QED
    BY <1>1, <2>1, QueriesKept
<1> QED
  BY <1>1, <1>5, <1>6 DEF ManagersBounded

\* ProcessUpdates starts queries for what is in the table, and not too many.
LEMMA ProcessUpdatesBounded ==
  ASSUME FeedBounds, Feed!ProcessUpdates
  PROVE  FeedBounds'
<1> USE DEF FeedBounds
<1>1. UNCHANGED <<subs, manager, held, plugged, looping, autosaving, answers, saved>>
  BY DEF Feed!ProcessUpdates
<1>2. /\ flights' \in [1 .. MaxSubs -> 0 .. MaxFlights]
      /\ \A s \in 1 .. MaxSubs : flights'[s] > 0 => s \in DOMAIN subs
  BY PluginPartsAssumption DEF Feed!ProcessUpdates, Feed!Sub, Feed!InTable, QueriesBounded
<1> QED
  BY <1>1, <1>2 DEF ManagersBounded, SubsBounded, QueriesBounded

\* A query ends: it was of a subscription that has been made.
LEMMA QueryLands ==
  ASSUME QueriesBounded, NEW s \in 1 .. MaxSubs, Feed!Lands(s)
  PROVE  /\ flights' \in [1 .. MaxSubs -> 0 .. MaxFlights] /\ s \in DOMAIN subs
         /\ \A t \in 1 .. MaxSubs : flights'[t] > 0 => t \in DOMAIN subs
BY PluginPartsAssumption DEF Feed!Lands, QueriesBounded

\* What may happen to one subscription.
LEMMA OneSubscriptionBounded ==
  ASSUME FeedInv, FeedBounds, NEW s \in 1 .. MaxSubs,
         \/ Feed!Unsubscribe(s) \/ Feed!Elapse(s) \/ Feed!CallBack(s) \/ Feed!CallBackPanics(s)
         \/ Feed!UpdateFails(s) \/ Feed!UpdateAnswers(s)
  PROVE  FeedBounds'
<1> USE DEF FeedBounds
<1> DEFINE gone == Feed!Gone(subs[s])
           due == [subs[s] EXCEPT !.due = TRUE]
           answered == [subs[s] EXCEPT !.due = FALSE]
           errors == IF subs[s].errors < Limit THEN subs[s].errors + 1 ELSE subs[s].errors
           active == subs[s].active /\ subs[s].errors + 1 < Limit
           failed == [subs[s] EXCEPT !.errors = errors, !.active = active]
<1>1. UNCHANGED <<manager, held, plugged, looping, autosaving, saved>>
  BY DEF Feed!Unsubscribe, Feed!Elapse, Feed!CallBack, Feed!CallBackPanics, Feed!UpdateFails,
         Feed!UpdateAnswers
<1>2. s \in DOMAIN subs => subs[s] \in Subscription /\ Bounded(subs[s], manager)
  BY FeedSequence DEF FeedInv, SubsBounded
<1>3. \A r : /\ subs' = subs \/ subs' = [subs EXCEPT ![s] = r]
             /\ s \in DOMAIN subs => Bounded(r, manager)
             => SubsBounded' /\ DOMAIN subs' = DOMAIN subs
  BY <1>1, OneBounded
<1>4. SubsBounded' /\ DOMAIN subs' = DOMAIN subs
  <2>1. CASE Feed!Unsubscribe(s)
    <3>1. s \in DOMAIN subs => Bounded(gone, manager)
      <4>1. s \in DOMAIN subs => subs[s].mgr \in 1 .. manager /\ manager \in Nat \ {0}
        BY <1>2 DEF Bounded, FeedInv, FeedTypes
      <4> QED
        BY <4>1, NewBounded
    <3>2. subs' = [subs EXCEPT ![s] = gone]
      BY <2>1 DEF Feed!Unsubscribe
    <3> HIDE DEF gone
    <3> QED
      BY <1>3, <3>1, <3>2
  <2>2. CASE Feed!Elapse(s)
    <3>1. s \in DOMAIN subs => Bounded(due, manager)
      BY <1>2 DEF Subscription, Bounded
    <3>2. subs' = [subs EXCEPT ![s] = due]
      BY <2>2 DEF Feed!Elapse
    <3> HIDE DEF due
    <3> QED
      BY <1>3, <3>1, <3>2
  <2>3. CASE Feed!UpdateAnswers(s)
    <3>1. s \in DOMAIN subs => Bounded(answered, manager)
      BY <1>2 DEF Subscription, Bounded
    <3>2. subs' = [subs EXCEPT ![s] = answered]
      BY <2>3 DEF Feed!UpdateAnswers
    <3> HIDE DEF answered
    <3> QED
      BY <1>3, <3>1, <3>2
  <2>4. CASE Feed!CallBack(s)
    <3>1. subs' = subs
      BY <2>4 DEF Feed!CallBack
    <3> QED
      BY <1>2, <1>3, <3>1
  <2>5. CASE Feed!CallBackPanics(s) \/ Feed!UpdateFails(s)
    <3>1. s \in DOMAIN subs => errors \in 0 .. Limit /\ (active <=> errors < Limit)
      BY <1>2, PluginPartsAssumption DEF Subscription, Bounded
    <3>2. subs' = subs \/ subs' = [subs EXCEPT ![s] = failed]
      BY <2>5 DEF Feed!CallBackPanics, Feed!UpdateFails, Feed!IncrementErrorCount
    <3>3. active \in BOOLEAN
      OBVIOUS
    <3> HIDE DEF errors, active
    <3>4. s \in DOMAIN subs => Bounded(failed, manager)
      BY <1>2, <3>1, <3>3 DEF Subscription, Bounded
    <3> HIDE DEF failed
    <3> QED
      BY <1>3, <3>2, <3>4
  <2> QED
    BY <2>1, <2>2, <2>3, <2>4, <2>5
<1>5. QueriesBounded'
  <2>1. CASE Feed!Unsubscribe(s) \/ Feed!Elapse(s)
    BY <1>4, <2>1, QueriesKept DEF Feed!Unsubscribe, Feed!Elapse
  <2>2. CASE Feed!CallBack(s) \/ Feed!CallBackPanics(s)
    BY <1>4, <2>2 DEF QueriesBounded, Feed!CallBack, Feed!CallBackPanics
  <2>3. CASE Feed!UpdateFails(s) \/ Feed!UpdateAnswers(s)
    <3>1. Feed!Lands(s)
      BY <2>3 DEF Feed!UpdateFails, Feed!UpdateAnswers
    <3>2. s \in DOMAIN subs /\ answers' \subseteq answers \cup {s}
      BY <2>3, <3>1, QueryLands DEF Feed!UpdateFails, Feed!UpdateAnswers
    <3> QED
      BY <1>4, <3>1, <3>2, QueryLands DEF QueriesBounded
  <2> QED
    BY <2>1, <2>2, <2>3
<1>6. ManagersBounded'
  BY <1>1 DEF ManagersBounded
<1> QED
  BY <1>1, <1>4, <1>5, <1>6

\* Saving writes no more than there is; a new program has no table yet.
LEMMA SaveOrExitBounded ==
  ASSUME FeedInv, FeedBounds,
         Feed!Exit \/ \E m \in 1 .. MaxManagers : Feed!SaveSubscriptions(m)
  PROVE  FeedBounds'
<1> USE DEF FeedBounds
<1>1. CASE Feed!Exit
  <2>1. /\ subs' = <<>> /\ held' = 0 /\ plugged' = FALSE /\ looping' = FALSE
        /\ autosaving' = {} /\ answers' = {} /\ UNCHANGED <<manager, saved>>
        /\ flights' = [s \in 1 .. MaxSubs |-> 0]
    BY <1>1 DEF Feed!Exit, Feed!NoFlights, Feed!Sub
  <2>2. Len(subs') = 0 /\ DOMAIN subs' = {}
    BY <2>1, EmptySeq, LenProperties
  <2> QED
    BY <2>1, <2>2, PluginPartsAssumption DEF ManagersBounded, SubsBounded, QueriesBounded
<1>2. CASE \E m \in 1 .. MaxManagers : Feed!SaveSubscriptions(m)
  <2>1. PICK m \in 1 .. MaxManagers : Feed!SaveSubscriptions(m)
    BY <1>2
  <2>2. PICK n, ids : n \in Nat /\ n <= Len(subs) /\ saved' = [i \in 1 .. n |-> subs[ids[i]].origin]
    BY <2>1, SavedTable
  <2>3. Len(saved') = n
    <3>1. \E S : saved' \in [1 .. n -> S]
      <4> WITNESS {subs[ids[i]].origin : i \in 1 .. n}
      <4> QED
        BY <2>2
    <3> QED
      BY <2>2, <3>1, SeqDef, LenProperties
  <2>4. Len(subs) \in Nat /\ MaxSubs \in Nat /\ Len(subs) <= MaxSubs
    BY FeedSequence, PluginPartsAssumption DEF FeedInv, SubsBounded
  <2>5. Len(saved') <= MaxSubs
    BY <2>2, <2>3, <2>4
  <2> QED
    BY <2>1, <2>5 DEF Feed!SaveSubscriptions, Feed!volatile, ManagersBounded, SubsBounded,
                      QueriesBounded
<1> QED
  BY <1>1, <1>2

\* Every step of the subscriptions keeps them in their bounds.
LEMMA FeedStepBounded ==
  ASSUME FeedInv, FeedBounds, Feed!SubscriptionsNext
  PROVE  FeedBounds'
BY NewManagerBounded, StopBounded, SubscribeBounded, ProcessUpdatesBounded,
   OneSubscriptionBounded, SaveOrExitBounded
DEF Feed!SubscriptionsNext, Feed!Sub

\* It begins in them.
LEMMA FeedBegins ==
  ASSUME Feed!Init
  PROVE  FeedBounds
<1>1. subs = <<>> /\ Len(subs) = 0 /\ DOMAIN subs = {}
  BY EmptySeq, LenProperties DEF Feed!Init
<1> QED
  BY <1>1, PluginPartsAssumption
  DEF Feed!Init, Feed!NoFlights, Feed!Sub, FeedBounds, ManagersBounded, SubsBounded, QueriesBounded

\* The invariants are what the type invariant says.
LEMMA FeedTyped ==
  ASSUME FeedInv, FeedBounds
  PROVE  Feed!SubscriptionsTypeOK
<1> USE DEF FeedInv, FeedTypes, FeedBounds
<1>1. /\ Len(subs) <= MaxSubs /\ Len(saved) <= MaxSubs
      /\ \A s \in DOMAIN subs : Bounded(subs[s], manager)
  BY DEF SubsBounded
<1>2. manager \in 0 .. MaxManagers
  BY PluginPartsAssumption DEF ManagersBounded
<1>3. (looping => plugged) /\ (plugged => held # 0) /\ autosaving \subseteq 1 .. manager
  BY Zenon DEF ManagersBounded
<1>4. \A s \in 1 .. MaxSubs : flights[s] \in 0 .. MaxFlights
  BY DEF QueriesBounded
<1> QED
  BY <1>1, <1>2, <1>3, <1>4, Zenon
  DEF Feed!SubscriptionsTypeOK, Feed!Sub, Bounded, QueriesBounded

-----------------------------------------------------------------------------


\* A series: as many points as may be kept, none later than last, in order.
Times(s, last) ==
  /\ s \in Seq(Nat) /\ Len(s) <= MaxDataPoints
  /\ \A i \in DOMAIN s : s[i] \in 1 .. last
  /\ \A i, j \in DOMAIN s : i <= j => s[i] <= s[j]

\* The latest time that series have: a collection under way appends the time it
\* began, which nothing else has passed by.
Latest == IF collecting > History!Waits THEN collecting ELSE now

\* The inductive invariant of the types of the collector.
CollectorTypes ==
  /\ now \in Nat \ {0} /\ collections \in 0 .. MaxCollections
  /\ collecting \in {History!Gone, History!Waits} \cup 1 .. now
  /\ \A q \in Query : Times(series[q], Latest) /\ Times(files[q], now)
  /\ running => /\ ~stopping /\ ~told /\ cleaning
                /\ collecting # History!Gone \/ cancelled

\* A set of numbers that is not empty has a least.
LEMMA LeastOfSet ==
  ASSUME NEW S, S \subseteq Nat, S # {}
  PROVE  \E x \in S : \A y \in S : x <= y
<1> DEFINE R == OpToRel(<, Nat)
<1>1. IsWellFoundedOn(R, Nat)
  BY NatLessThanWellFounded
<1>2. R = {p \in Nat \X Nat : p[1] < p[2]}
  BY DEF OpToRel
<1> HIDE DEF R
<1>3. PICK x \in S : \A y \in S : ~(<<y, x>> \in R)
  BY <1>1, WFMin
<1>4. \A y \in S : x <= y
  <2> SUFFICES ASSUME NEW y \in S
               PROVE  x <= y
    OBVIOUS
  <2>1. <<y, x>> \notin R /\ x \in Nat /\ y \in Nat
    BY <1>3
  <2>2. ~(y < x)
    BY <1>2, <2>1
  <2> QED
    BY <2>1, <2>2
<1> QED
  BY <1>4

\* A series that may be a little older.
LEMMA TimesLater ==
  ASSUME NEW s, NEW t \in Nat, NEW u \in Nat, t <= u, Times(s, t)
  PROVE  Times(s, u)
  BY DEF Times

\* A point is appended, and the oldest may have to go.
LEMMA NewestLemma ==
  ASSUME NEW t \in Nat \ {0}, NEW s, Times(s, t)
  PROVE  Times(History!Newest(Append(s, t)), t)
<1> DEFINE a == Append(s, t)
           b == Tail(a)
<1>1. /\ s \in Seq(Nat) /\ Len(s) \in Nat /\ DOMAIN s = 1 .. Len(s) /\ Len(s) <= MaxDataPoints
      /\ \A i \in 1 .. Len(s) : s[i] \in 1 .. t
      /\ \A i, j \in 1 .. Len(s) : i <= j => s[i] <= s[j]
  BY LenProperties DEF Times
<1>2. /\ a \in Seq(Nat) /\ Len(a) = Len(s) + 1 /\ DOMAIN a = 1 .. Len(s) + 1
      /\ \A i \in 1 .. Len(s) : a[i] = s[i]
      /\ a[Len(s) + 1] = t
  <2>1. t \in Nat
    OBVIOUS
  <2>2. a \in Seq(Nat) /\ Len(a) = Len(s) + 1
    BY <1>1, <2>1, AppendProperties
  <2> QED
    BY <1>1, <2>1, <2>2, AppendProperties, LenProperties
<1> HIDE DEF a
<1>3. \A i \in DOMAIN a : i \in 1 .. Len(s) \/ i = Len(s) + 1
  BY <1>1, <1>2
<1>4. /\ \A i \in DOMAIN a : a[i] \in 1 .. t
      /\ \A i, j \in DOMAIN a : i <= j => a[i] <= a[j]
  BY <1>1, <1>2, <1>3
<1>5. CASE Len(a) <= MaxDataPoints
  BY <1>2, <1>4, <1>5 DEF History!Newest, Times, a
<1>6. CASE ~(Len(a) <= MaxDataPoints)
  <2>1. a # <<>>
    BY <1>1, <1>2, EmptySeq
  <2>2. /\ b \in Seq(Nat) /\ Len(b) = Len(s) /\ \A i \in 1 .. Len(s) : b[i] = a[i + 1]
    BY <1>1, <1>2, <2>1, HeadTailProperties
  <2>3. DOMAIN b = 1 .. Len(s)
    BY <2>2, LenProperties
  <2> HIDE DEF b
  <2>4. \A i \in DOMAIN b : i + 1 \in DOMAIN a /\ b[i] = a[i + 1]
    BY <1>1, <1>2, <2>2, <2>3
  <2>5. \A i, j \in DOMAIN b : i <= j => i + 1 <= j + 1
    BY <1>1, <2>3
  <2>6. Times(b, t)
    BY <1>1, <1>4, <2>2, <2>4, <2>5 DEF Times
  <2> QED
    BY <1>6, <2>6 DEF History!Newest, a, b
<1> QED
  BY <1>5, <1>6

\* Points are dropped from the front.
LEMMA YoungLemma ==
  ASSUME NEW t \in Nat, NEW s, Times(s, t)
  PROVE  Times(History!Young(s), t)
<1> DEFINE I == {i \in 1 .. Len(s) : s[i] > now - Retention}
           first == History!Min(I)
           a == SubSeq(s, first, Len(s))
<1>1. /\ s \in Seq(Nat) /\ Len(s) \in Nat /\ DOMAIN s = 1 .. Len(s) /\ Len(s) <= MaxDataPoints
      /\ \A i \in 1 .. Len(s) : s[i] \in 1 .. t
      /\ \A i, j \in 1 .. Len(s) : i <= j => s[i] <= s[j]
  BY LenProperties DEF Times
<1>2. History!Young(s) = IF I = {} THEN s ELSE IF first = 0 THEN s ELSE a
  BY DEF History!Young, History!SelectInSeq
<1>3. CASE I = {}
  BY <1>2, <1>3
<1>4. CASE I # {}
  <2>1. first \in I
    <3>1. I \subseteq Nat
      BY <1>1
    <3> HIDE DEF I
    <3>2. \E x \in I : \A y \in I : x <= y
      BY <1>4, <3>1, LeastOfSet
    <3> QED
      BY <3>2 DEF History!Min
  <2>2. first \in 1 .. Len(s)
    BY <2>1
  <2> HIDE DEF first
  <2>3. PICK n \in Nat : n = Len(s) - first + 1 /\ n <= Len(s)
    BY <1>1, <2>2
  <2>4. a \in Seq(Nat) /\ Len(a) = n /\ \A i \in 1 .. n : a[i] = s[first + i - 1]
    <3>1. first \in Int /\ Len(s) \in Int /\ first <= Len(s)
      BY <1>1, <2>2
    <3>2. \A i \in first .. Len(s) : s[i] \in Nat
      BY <1>1, <2>2
    <3>3. /\ a \in Seq(Nat) /\ Len(a) = n
          /\ \A i \in 1 .. Len(s) - first + 1 : a[i] = s[first + i - 1]
      BY <2>3, <3>1, <3>2, SubSeqProperties
    <3> QED
      BY <2>3, <3>3
  <2>5. DOMAIN a = 1 .. n
    BY <2>4, LenProperties
  <2> HIDE DEF a
  <2>6. \A i \in DOMAIN a : first + i - 1 \in 1 .. Len(s) /\ a[i] = s[first + i - 1]
    <3>1. PICK m \in Nat : m = Len(s)
      BY <1>1
    <3>2. PICK k \in 1 .. m : k = first
      BY <2>2, <3>1
    <3>3. n = m - k + 1
      BY <2>3, <3>1, <3>2
    <3>4. \A i \in 1 .. n : k + i - 1 \in 1 .. m
      BY <3>3
    <3> QED
      BY <2>4, <2>5, <3>1, <3>2, <3>4
  <2>7. \A i, j \in DOMAIN a : i <= j => first + i - 1 <= first + j - 1
    BY <2>2, <2>5
  <2>8. Times(a, t)
    BY <1>1, <2>3, <2>4, <2>6, <2>7, PluginPartsAssumption DEF Times
  <2> QED
    BY <1>2, <1>4, <2>2, <2>8
<1> QED
  BY <1>3, <1>4

\* Every step of the collector keeps its types.
LEMMA CollectorSteps ==
  ASSUME CollectorTypes, History!CollectorNext
  PROVE  CollectorTypes'
<1> USE DEF CollectorTypes, Latest, History!Gone, History!Waits
<1>1. CASE History!Start
  BY <1>1, TimesLater DEF History!Start
<1>2. CASE History!CollectBegins
  BY <1>2, PluginPartsAssumption DEF History!CollectBegins
<1>3. CASE History!CollectFails
  <2>1. collecting \in Nat /\ now \in Nat /\ collecting <= now
    BY <1>3 DEF History!CollectFails
  <2>2. \A q \in Query : Times(series[q], now)
    BY <1>3, <2>1, TimesLater DEF History!CollectFails
  <2> QED
    BY <1>3, <2>2 DEF History!CollectFails
<1>4. CASE History!CollectEnds
  <2>1. collecting \in Nat \ {0} /\ now \in Nat /\ collecting <= now
    BY <1>4 DEF History!CollectEnds
  <2>2. \A q \in Query : Times(series'[q], collecting)
    BY <1>4, <2>1, NewestLemma DEF History!CollectEnds
  <2>3. \A q \in Query : Times(series'[q], now)
    BY <2>1, <2>2, TimesLater
  <2> QED
    BY <1>4, <2>3 DEF History!CollectEnds
<1>5. CASE History!CleanupOldData
  <2>1. Latest \in Nat
    OBVIOUS
  <2>2. \A q \in Query : Times(series'[q], Latest)
    <3> HIDE DEF Latest
    <3> QED
      BY <1>5, <2>1, YoungLemma DEF History!CleanupOldData
  <2> QED
    BY <1>5, <2>2 DEF History!CleanupOldData
<1>6. CASE History!SaveHistoricalData \/ History!StopEnds
  <2>1. Latest \in Nat /\ now \in Nat /\ Latest <= now
    OBVIOUS
  <2>2. \A q \in Query : Times(series[q], now)
    <3> HIDE DEF Latest
    <3> QED
      BY <2>1, TimesLater
  <2> QED
    BY <1>6, <2>2 DEF History!SaveHistoricalData, History!StopEnds
<1>7. CASE \/ History!CollectionLoopEnds \/ History!CleanupLoopEnds
           \/ History!StopBegins \/ History!Cancel
  BY <1>7 DEF History!CollectionLoopEnds, History!CleanupLoopEnds, History!StopBegins,
              History!Cancel
<1>8. CASE History!Restart
  BY <1>8 DEF History!Restart
<1>9. CASE History!Second
  <2>1. now' = now + 1 /\ now \in Nat /\ UNCHANGED <<series, files, collecting, collections,
                                                      running, stopping, told, cancelled, cleaning>>
    BY <1>9 DEF History!Second
  <2>2. Latest' \in Nat /\ Latest \in Nat /\ Latest <= Latest'
    BY <2>1
  <2>3. \A q \in Query : Times(series[q], Latest') /\ Times(files[q], now + 1)
    <3> HIDE DEF Latest
    <3> QED
      BY <2>1, <2>2, TimesLater
  <2> QED
    BY <2>1, <2>3
<1> QED
  BY <1>1, <1>2, <1>3, <1>4, <1>5, <1>6, <1>7, <1>8, <1>9 DEF History!CollectorNext

\* That is the type invariant of the collector.
LEMMA CollectorTyped == CollectorTypes => History!CollectorTypeOK
<1> SUFFICES ASSUME CollectorTypes
             PROVE  History!CollectorTypeOK
  OBVIOUS
<1>1. \A q \in Query : Times(series[q], now)
  <2>1. Latest \in Nat /\ now \in Nat /\ Latest <= now
    BY DEF CollectorTypes, Latest, History!Gone, History!Waits
  <2> QED
    BY <2>1, TimesLater DEF CollectorTypes
<1>2. ASSUME NEW q \in Query
      PROVE  /\ Len(series[q]) <= MaxDataPoints
             /\ \A i \in DOMAIN series[q] : series[q][i] \in 1 .. now
             /\ \A i \in 2 .. Len(series[q]) : series[q][i - 1] <= series[q][i]
  <2>1. Times(series[q], now)
    BY <1>1
  <2>2. Len(series[q]) \in Nat /\ DOMAIN series[q] = 1 .. Len(series[q])
    BY <2>1, LenProperties DEF Times
  <2>3. \A i \in 2 .. Len(series[q]) :
          {i - 1, i} \subseteq 1 .. Len(series[q]) /\ i - 1 <= i
    BY <2>2
  <2> QED
    BY <2>1, <2>2, <2>3 DEF Times
<1> QED
  BY <1>2 DEF CollectorTypes, History!CollectorTypeOK

\* The collector begins with nothing.
LEMMA CollectorBegins == History!Init => CollectorTypes
<1>1. 0 \in 0 .. MaxCollections /\ 0 <= MaxDataPoints
  BY PluginPartsAssumption
<1>2. Times(<<>>, 1)
  BY <1>1, EmptySeq, LenProperties DEF Times
<1> QED
  BY <1>1, <1>2 DEF History!Init, CollectorTypes, Latest, History!Gone, History!Waits

-----------------------------------------------------------------------------


\* What a call may have to do with each kind of goroutine.
Stages ==
  {"test", "start", "stop", "await"} \X (Plugin!Kind \cup {"client"})

\* What begins a start: from then on there are starts only.
Starting == {"test", "start"}

\* The stages to come: none twice, nothing is stopped or waited for after a start,
\* and the collector is waited for when it has been stopped.
StagesOK(stages) ==
  /\ stages \in Seq(Stages)
  /\ \A i, j \in DOMAIN stages : i # j => stages[i] # stages[j]
  /\ \A i, j \in DOMAIN stages : i < j /\ stages[i][1] \in Starting => stages[j][1] = "start"
  /\ \A j \in DOMAIN stages :
       stages[j] = <<"stop", "collector">> =>
         \E i \in DOMAIN stages : j < i /\ stages[i] = <<"await", "collector">>

\* Stage st is one of them.
Has(stages, st) == \E i \in DOMAIN stages : stages[i] = st

\* When the first stage is done, the others are left.
LEMMA StageDone ==
  ASSUME NEW stages, StagesOK(stages), stages # <<>>
  PROVE  /\ StagesOK(Tail(stages))
         /\ \A st : Has(Tail(stages), st) <=> Has(stages, st) /\ st # Head(stages)
         /\ Has(stages, Head(stages))
         /\ Head(stages)[1] \in Starting =>
              \A k : ~Has(stages, <<"stop", k>>) /\ ~Has(stages, <<"await", k>>)
         /\ Head(stages) = <<"stop", "collector">> => Has(Tail(stages), <<"await", "collector">>)
<1> DEFINE n == Len(stages)
           rest == Tail(stages)
<1>1. stages \in Seq(Stages) /\ n \in Nat /\ DOMAIN stages = 1 .. n /\ n # 0
  BY LenProperties, EmptySeq DEF StagesOK
<1>2. /\ rest \in Seq(Stages) /\ Len(rest) = n - 1 /\ \A i \in 1 .. n - 1 : rest[i] = stages[i + 1]
      /\ Head(stages) = stages[1]
  BY <1>1, HeadTailProperties
<1>3. DOMAIN rest = 1 .. n - 1
  BY <1>1, <1>2, LenProperties
<1> HIDE DEF rest, n
<1>4. /\ 1 \in DOMAIN stages
      /\ \A i \in DOMAIN rest : /\ i \in Nat /\ i + 1 \in DOMAIN stages /\ 1 < i + 1
                                /\ rest[i] = stages[i + 1]
      /\ \A i \in DOMAIN stages : i # 1 => /\ i - 1 \in DOMAIN rest /\ 1 < i
                                            /\ rest[i - 1] = stages[i]
  <2>1. \A i \in 1 .. n - 1 : i \in Nat /\ i + 1 \in 1 .. n /\ 1 < i + 1
    BY <1>1
  <2>2. \A i \in 1 .. n : i # 1 => i - 1 \in 1 .. n - 1 /\ (i - 1) + 1 = i /\ 1 < i
    BY <1>1
  <2>3. 1 \in DOMAIN stages
    BY <1>1
  <2> QED
    BY <1>1, <1>2, <1>3, <2>1, <2>2, <2>3
<1>5. /\ \A i, j \in DOMAIN stages : i # j => stages[i] # stages[j]
      /\ \A i, j \in DOMAIN stages : i < j /\ stages[i][1] \in Starting => stages[j][1] = "start"
      /\ \A j \in DOMAIN stages :
           stages[j] = <<"stop", "collector">> =>
             \E i \in DOMAIN stages : j < i /\ stages[i] = <<"await", "collector">>
  BY DEF StagesOK
<1>6. StagesOK(rest)
  <2>1. \A i, j \in DOMAIN rest : (i # j => i + 1 # j + 1) /\ (i < j => i + 1 < j + 1)
    BY <1>4
  <2>2. ASSUME NEW j \in DOMAIN rest, rest[j] = <<"stop", "collector">>
        PROVE  \E i \in DOMAIN rest : j < i /\ rest[i] = <<"await", "collector">>
    <3>1. j \in Nat /\ j + 1 \in DOMAIN stages /\ stages[j + 1] = <<"stop", "collector">>
      BY <1>4, <2>2
    <3>2. PICK i \in DOMAIN stages : j + 1 < i /\ stages[i] = <<"await", "collector">>
      BY <1>5, <3>1
    <3>3. i \in Nat /\ i # 1 /\ j < i - 1
      BY <1>1, <3>1, <3>2
    <3> QED
      BY <1>4, <3>2, <3>3
  <2>3. /\ \A i, j \in DOMAIN rest : i # j => rest[i] # rest[j]
        /\ \A i, j \in DOMAIN rest : i < j /\ rest[i][1] \in Starting => rest[j][1] = "start"
    BY <1>4, <1>5, <2>1
  <2> QED
    BY <1>2, <2>2, <2>3 DEF StagesOK
<1>7. \A st : Has(rest, st) <=> Has(stages, st) /\ st # stages[1]
  BY <1>4, <1>5 DEF Has
<1>8. Has(stages, stages[1])
  BY <1>4 DEF Has
<1>9. stages[1][1] \in Starting =>
        \A k : ~Has(stages, <<"stop", k>>) /\ ~Has(stages, <<"await", k>>)
  <2> SUFFICES ASSUME stages[1][1] \in Starting, NEW k, NEW i \in DOMAIN stages,
                      stages[i] = <<"stop", k>> \/ stages[i] = <<"await", k>>
               PROVE  FALSE
    BY DEF Has
  <2>1. stages[i][1] \in {"stop", "await"}
    OBVIOUS
  <2>2. i # 1 => 1 < i
    BY <1>4
  <2> QED
    BY <1>4, <1>5, <2>1, <2>2 DEF Starting
<1>10. stages[1] = <<"stop", "collector">> => Has(rest, <<"await", "collector">>)
  <2> SUFFICES ASSUME stages[1] = <<"stop", "collector">>
               PROVE  Has(rest, <<"await", "collector">>)
    OBVIOUS
  <2>1. Has(stages, <<"await", "collector">>)
    BY <1>4, <1>5 DEF Has
  <2>2. <<"await", "collector">> # <<"stop", "collector">>
    OBVIOUS
  <2> QED
    BY <1>7, <2>1, <2>2
<1> QED
  BY <1>2, <1>6, <1>7, <1>8, <1>9, <1>10 DEF rest

\* The stages of Start.
LEMMA StartStagesOK ==
  /\ StagesOK(Plugin!StartStages)
  /\ \A k \in Plugin!AtStart : Has(Plugin!StartStages, <<"start", k>>)
  /\ \A k : ~Has(Plugin!StartStages, <<"stop", k>>)
  /\ \A i \in DOMAIN Plugin!StartStages : i # 1 => Plugin!StartStages[i][1] = "start"
<1> DEFINE s == Plugin!StartStages
<1>1. /\ s[1] = <<"test", "client">> /\ s[2] = <<"start", "metrics">>
      /\ s[3] = <<"start", "overlays">> /\ s[4] = <<"start", "subscriptions">>
      /\ s[5] = <<"start", "collector">> /\ s[6] = <<"start", "api">>
  BY DEF Plugin!StartStages
<1>2. s \in Seq(Stages) /\ Len(s) = 6
  BY DEF Plugin!StartStages, Stages, Plugin!Kind, Plugin!AtStart
<1>3. DOMAIN s = 1 .. 6
  BY <1>2, LenProperties
<1> HIDE DEF s
<1>4. \A i \in DOMAIN s : i = 1 \/ i = 2 \/ i = 3 \/ i = 4 \/ i = 5 \/ i = 6
  BY <1>3
<1>5. \A i, j \in DOMAIN s : i # j => s[i] # s[j]
  BY <1>1, <1>4
<1>6. \A i \in DOMAIN s : i # 1 => s[i][1] = "start"
  BY <1>1, <1>4
<1>7. \A i, j \in DOMAIN s : i < j => s[j][1] = "start"
  BY <1>3, <1>6
<1>8. \A k \in Plugin!AtStart : Has(s, <<"start", k>>)
  BY <1>1, <1>3 DEF Has, Plugin!AtStart
<1>9. \A i \in DOMAIN s : s[i][1] # "stop"
  BY <1>1, <1>4
<1>10. \A k : ~Has(s, <<"stop", k>>)
  BY <1>9 DEF Has
<1>11. \A j \in DOMAIN s : s[j] # <<"stop", "collector">>
  BY <1>9
<1> QED
  BY <1>2, <1>5, <1>6, <1>7, <1>8, <1>10, <1>11 DEF StagesOK, s

\* The stages of Stop, and of Stop and Start.
LEMMA StopStagesOK ==
  /\ StagesOK(Plugin!StopStages)
  /\ \A k : ~Has(Plugin!StopStages, <<"start", k>>)
  /\ Has(Plugin!StopStages, <<"stop", "autosave">>)
  /\ Has(Plugin!StopStages, <<"await", "collector">>)
  /\ \A i \in DOMAIN Plugin!StopStages : Plugin!StopStages[i][1] \in {"stop", "await"}
<1> DEFINE s == Plugin!StopStages
<1>1. /\ s[1] = <<"stop", "api">> /\ s[2] = <<"stop", "collector">>
      /\ s[3] = <<"await", "collector">> /\ s[4] = <<"stop", "autosave">>
      /\ s[5] = <<"stop", "subscriptions">> /\ s[6] = <<"stop", "overlays">>
      /\ s[7] = <<"stop", "metrics">> /\ s[8] = <<"stop", "cache">> /\ s[9] = <<"stop", "rotation">>
  BY DEF Plugin!StopStages
<1>2. s \in Seq(Stages) /\ Len(s) = 9
  <2>1. {"api", "collector", "autosave", "subscriptions", "overlays", "metrics", "cache",
         "rotation"} \subseteq Plugin!Kind
    BY DEF Plugin!Kind, Plugin!AtInit, Plugin!AtStart
  <2> QED
    BY <2>1 DEF Plugin!StopStages, Stages
<1>3. DOMAIN s = 1 .. 9
  BY <1>2, LenProperties
<1> HIDE DEF s
<1>4. \A i \in DOMAIN s : \/ i = 1 \/ i = 2 \/ i = 3 \/ i = 4 \/ i = 5
                          \/ i = 6 \/ i = 7 \/ i = 8 \/ i = 9
  BY <1>3
<1>5. \A i, j \in DOMAIN s : i # j => s[i] # s[j]
  BY <1>1, <1>4
<1>6. \A i \in DOMAIN s : s[i][1] \in {"stop", "await"}
  BY <1>1, <1>4
<1>7. \A k : ~Has(s, <<"start", k>>)
  BY <1>6 DEF Has
<1>8. Has(s, <<"stop", "autosave">>) /\ Has(s, <<"await", "collector">>)
  BY <1>1, <1>3 DEF Has
<1>9. \A j \in DOMAIN s : s[j] = <<"stop", "collector">> => j = 2
  BY <1>1, <1>4
<1>10. 3 \in DOMAIN s /\ 2 < 3
  BY <1>3
<1>11. \A i \in DOMAIN s : s[i][1] \notin Starting
  BY <1>6 DEF Starting
<1> QED
  BY <1>1, <1>2, <1>5, <1>6, <1>7, <1>8, <1>9, <1>10, <1>11 DEF StagesOK, s

\* The kinds of goroutines, by what makes and starts them.
LEMMA Kinds ==
  /\ Plugin!AtStart \subseteq Plugin!Kind /\ Plugin!Remade \subseteq Plugin!AtStart
  /\ \A k \in Plugin!Rereads : Plugin!Owner(k) \in Plugin!Kind
  /\ Plugin!Collecting \subseteq Plugin!Kind
  /\ Plugin!Collecting \cap Plugin!AtInit = {}
  /\ \A k \in Plugin!AtStart : k \in Plugin!Collecting => k = "collector"
  /\ {"autosave", "cache", "rotation"} \subseteq Plugin!Kind
  /\ "autosave" \notin Plugin!AtStart
  /\ Plugin!AtInit \subseteq Plugin!Kind
  /\ \A kinds \in Plugin!Prefixes : kinds \subseteq Plugin!AtInit
  BY DEF Plugin!Kind, Plugin!AtInit, Plugin!AtStart, Plugin!Remade, Plugin!Rereads,
         Plugin!Prefixes, Plugin!Collecting, Plugin!Owner

-----------------------------------------------------------------------------

\* The channels and the goroutines of so many Inits.
Channels(n) == [kind : Plugin!Kind, gen : 1 .. n, number : 1 .. 3]
Loops(n) == [kind : Plugin!Kind, gen : 1 .. n, born : 1 .. 3, waits : 0 .. 3]

\* What the proofs need to know of the types.
PluginTypes ==
  /\ {enabled, alive, contextDone, panicked} \subseteq BOOLEAN /\ (alive => enabled)
  /\ call \in {"none", "enable", "disable", "restart", "shutdown"}
  /\ call = "none" => todo = <<>>
  /\ call = "shutdown" => contextDone
  /\ inits \in 0 .. MaxInits /\ current \in 0 .. inits
  /\ enabled \/ todo # <<>> \/ call \in {"enable", "disable", "restart"} => current # 0
  /\ on \subseteq Plugin!AtStart
  /\ channel \in [Plugin!Kind -> [Plugin!Generation -> 1 .. 3]]
  /\ closed \subseteq Channels(inits)
  /\ loops \subseteq Loops(inits)
  /\ StagesOK(todo)

\* Only Start makes channels, and only some.
Unmade ==
  \A k \in Plugin!Kind, g \in Plugin!Generation :
    k \notin Plugin!Remade \/ g > inits => channel[k][g] = 1

\* What does not run while the plugin starts is still to be started, also what
\* has yet to be stopped.
ToBeStarted ==
  /\ alive /\ call = "none" /\ ~contextDone => on = Plugin!AtStart
  /\ call \in {"enable", "restart"} =>
       \A k \in Plugin!AtStart :
         /\ k \in on \/ Has(todo, <<"start", k>>)
         /\ Has(todo, <<"stop", k>>) => Has(todo, <<"start", k>>)

\* Saving has been stopped in the components the plugin holds.
SavingStopped == [kind |-> "autosave", gen |-> current, number |-> 1] \in closed

\* Components are started twice at most: after the first Stop, the second panics
\* before a third Start could be reached.
StartedTwice ==
  ~panicked /\ current # 0 =>
    \A k \in Plugin!Remade :
      /\ ~SavingStopped => channel[k][current] <= 2
      /\ Has(todo, <<"start", k>>) /\ ~Has(todo, <<"stop", "autosave">>) =>
           channel[k][current] <= IF SavingStopped THEN 2 ELSE 1

\* The inductive invariant of the plugin.
PluginInv == PluginTypes /\ Unmade /\ ToBeStarted /\ StartedTwice

\* No stages are left.
LEMMA NoStages == StagesOK(<<>>) /\ \A st : ~Has(<<>>, st)
<1>1. <<>> \in Seq(Stages) /\ DOMAIN <<>> = {}
  BY EmptySeq
<1> QED
  BY <1>1 DEF StagesOK, Has

\* What holds of one Init holds after another.
LEMMA MoreInits ==
  ASSUME NEW m \in Nat, NEW n \in Nat, m <= n
  PROVE  Channels(m) \subseteq Channels(n) /\ Loops(m) \subseteq Loops(n)
  BY DEF Channels, Loops

\* Init of the plugin fails, or Start follows it.
LEMMA InitSteps ==
  ASSUME PluginInv, Plugin!InitFails \/ Plugin!EnablePlugin
  PROVE  PluginInv'
<1>1. PICK n \in Nat : n = inits /\ n + 1 \in Nat /\ n + 1 <= MaxInits /\ inits' = n + 1
  BY PluginPartsAssumption
     DEF PluginInv, PluginTypes, Plugin!InitFails, Plugin!EnablePlugin, Plugin!Begin
<1>2. PICK kinds : kinds \subseteq Plugin!AtInit /\ loops' = loops \cup Plugin!Born(kinds, n + 1)
  BY <1>1, Kinds DEF Plugin!InitFails, Plugin!EnablePlugin
<1>3. closed' \subseteq Channels(n + 1) /\ loops' \subseteq Loops(n + 1)
  <2>1. Plugin!Born(kinds, n + 1) \subseteq Loops(n + 1)
    BY <1>1, <1>2, Kinds DEF Plugin!Born, Plugin!Loop, Loops
  <2>2. closed' = closed
    BY DEF Plugin!InitFails, Plugin!EnablePlugin
  <2> QED
    BY <1>1, <1>2, <2>1, <2>2, MoreInits DEF PluginInv, PluginTypes
<1>4. n + 1 \in Plugin!Generation /\ channel' = channel /\ panicked' = panicked
  BY <1>1 DEF Plugin!Generation, Plugin!InitFails, Plugin!EnablePlugin
<1>5. Unmade'
  <2>1. \A g \in Plugin!Generation : g > n + 1 => g > n
    BY <1>1 DEF Plugin!Generation
  <2> QED
    BY <1>1, <1>4, <2>1 DEF PluginInv, Unmade
<1>6. CASE Plugin!InitFails
  <2>1. UNCHANGED <<enabled, alive, call, todo, current, on, channel, closed, contextDone,
                    panicked>>
    BY <1>6 DEF Plugin!InitFails
  <2>2. PluginTypes'
    BY <1>1, <1>3, <2>1 DEF PluginInv, PluginTypes
  <2>3. ToBeStarted' /\ StartedTwice'
    BY <2>1 DEF PluginInv, ToBeStarted, StartedTwice, SavingStopped
  <2> QED
    BY <1>5, <2>2, <2>3 DEF PluginInv
<1>7. CASE Plugin!EnablePlugin
  <2>1. /\ call' = "enable" /\ todo' = Plugin!StartStages /\ current' = n + 1 /\ on' = {}
        /\ UNCHANGED <<enabled, alive, channel, closed, contextDone, panicked>>
    BY <1>1, <1>7 DEF Plugin!EnablePlugin, Plugin!Begin
  <2>2. PluginTypes'
    BY <1>1, <1>3, <2>1, StartStagesOK DEF PluginInv, PluginTypes
  <2>3. ToBeStarted'
    BY <2>1, StartStagesOK DEF ToBeStarted
  <2>4. ~SavingStopped'
    <3>1. n + 1 \notin 1 .. n
      BY <1>1
    <3> QED
      BY <1>1, <2>1, <3>1 DEF PluginInv, PluginTypes, SavingStopped, Channels
  <2>5. \A k \in Plugin!Remade : channel'[k][current'] = 1
    BY <1>1, <1>4, <2>1, Kinds DEF PluginInv, Unmade
  <2>6. StartedTwice'
    BY <2>4, <2>5 DEF StartedTwice
  <2> QED
    BY <1>5, <2>2, <2>3, <2>6 DEF PluginInv
<1> QED
  BY <1>6, <1>7

\* The stages of Stop followed by those of Start.
LEMMA RestartStagesOK ==
  LET stages == Plugin!StopStages \o Plugin!StartStages
  IN /\ StagesOK(stages)
     /\ \A k \in Plugin!AtStart : Has(stages, <<"start", k>>)
     /\ Has(stages, <<"stop", "autosave">>)
     /\ Has(stages, <<"await", "collector">>)
<1>1. PICK s : s = Plugin!StopStages
  OBVIOUS
<1>2. PICK t : t = Plugin!StartStages
  OBVIOUS
<1>3. /\ StagesOK(s) /\ Has(s, <<"stop", "autosave">>) /\ Has(s, <<"await", "collector">>)
      /\ \A k : ~Has(s, <<"start", k>>)
      /\ StagesOK(t) /\ \A k \in Plugin!AtStart : Has(t, <<"start", k>>)
      /\ \A i \in DOMAIN t : i # 1 => t[i][1] = "start"
  BY <1>1, <1>2, StartStagesOK, StopStagesOK
<1>4. PICK m \in Nat, n \in Nat : m = Len(s) /\ n = Len(t)
  BY <1>3, LenProperties DEF StagesOK
<1>5. PICK a : a = s \o t
  OBVIOUS
<1>6. /\ a \in Seq(Stages) /\ Len(a) = m + n
      /\ \A i \in 1 .. m + n : a[i] = IF i <= m THEN s[i] ELSE t[i - m]
  BY <1>3, <1>4, <1>5, ConcatProperties DEF StagesOK
<1>7. DOMAIN a = 1 .. m + n /\ DOMAIN s = 1 .. m /\ DOMAIN t = 1 .. n
  BY <1>3, <1>4, <1>6, LenProperties DEF StagesOK
<1>8. /\ \A i \in DOMAIN s : i \in DOMAIN a /\ a[i] = s[i]
      /\ \A i \in DOMAIN t : m + i \in DOMAIN a /\ a[m + i] = t[i]
  <2>1. \A i \in 1 .. m : i \in 1 .. m + n /\ i <= m
    BY <1>4
  <2>2. \A i \in 1 .. n : m + i \in 1 .. m + n /\ ~(m + i <= m) /\ (m + i) - m = i
    BY <1>4
  <2> QED
    BY <1>6, <1>7, <2>1, <2>2
<1>9. \A i \in DOMAIN a : \/ i \in DOMAIN s /\ a[i] = s[i]
                          \/ i - m \in DOMAIN t /\ a[i] = t[i - m] /\ i \notin DOMAIN s
  <2>1. \A i \in 1 .. m + n : IF i <= m THEN i \in 1 .. m ELSE i - m \in 1 .. n /\ i \notin 1 .. m
    BY <1>4
  <2> QED
    BY <1>6, <1>7, <2>1
<1>10. \A i \in DOMAIN s : s[i][1] \in {"stop", "await"}
  BY <1>1, StopStagesOK
<1>11. \A i \in DOMAIN s : \A j \in DOMAIN t : s[i] # t[j]
  <2>1. s[1] = <<"stop", "api">> /\ t[1] = <<"test", "client">>
    BY <1>1, <1>2 DEF Plugin!StartStages, Plugin!StopStages
  <2>2. \A i \in DOMAIN s : s[i] # <<"test", "client">>
    BY <1>10
  <2> QED
    BY <1>3, <1>10, <2>1, <2>2
<1>12. \A i, j \in DOMAIN a : i # j => a[i] # a[j]
  <2>1. \A i, j \in DOMAIN a : i # j => i - m # j - m
    BY <1>4, <1>7
  <2> QED
    BY <1>3, <1>9, <1>11, <2>1 DEF StagesOK
<1>13. \A i, j \in DOMAIN a : i < j /\ a[i][1] \in Starting => a[j][1] = "start"
  <2>1. \A i, j \in DOMAIN a : i < j => i - m < j - m /\ (i \notin DOMAIN s => j \notin DOMAIN s)
    BY <1>4, <1>7
  <2>2. \A i \in DOMAIN s : s[i][1] \notin Starting
    BY <1>10 DEF Starting
  <2> QED
    BY <1>3, <1>9, <2>1, <2>2 DEF StagesOK
<1>14. \A j \in DOMAIN a : a[j] = <<"stop", "collector">> =>
         \E i \in DOMAIN a : j < i /\ a[i] = <<"await", "collector">>
  <2> SUFFICES ASSUME NEW j \in DOMAIN a, a[j] = <<"stop", "collector">>
               PROVE  \E i \in DOMAIN a : j < i /\ a[i] = <<"await", "collector">>
    OBVIOUS
  <2>1. \A i \in DOMAIN t : t[i] # <<"stop", "collector">>
    BY <1>2, StartStagesOK DEF Has
  <2>2. j \in DOMAIN s /\ s[j] = <<"stop", "collector">>
    BY <1>9, <2>1
  <2> QED
    BY <1>3, <1>8, <2>2 DEF StagesOK
<1>15. StagesOK(a)
  BY <1>6, <1>12, <1>13, <1>14 DEF StagesOK
<1>16. \A st : Has(s, st) \/ Has(t, st) => Has(a, st)
  BY <1>8 DEF Has
<1> QED
  BY <1>1, <1>2, <1>3, <1>5, <1>15, <1>16

-----------------------------------------------------------------------------

\* A stop begins, of a plugin that is to end or to start again or of all, or a
\* call ends.
LEMMA CallSteps ==
  ASSUME PluginInv,
         \/ Plugin!DisablePlugin \/ Plugin!Shutdown \/ Plugin!Restart \/ Plugin!Return
         \/ Plugin!ConnectFails
  PROVE  PluginInv'
<1>1. /\ UNCHANGED <<inits, current, on, channel, closed, loops, panicked>>
      /\ ~panicked
  BY DEF Plugin!DisablePlugin, Plugin!Shutdown, Plugin!Restart, Plugin!Return,
         Plugin!ConnectFails, Plugin!GiveUp, Plugin!Begin, Plugin!Idle, Plugin!At
<1>2. Unmade'
  BY <1>1 DEF PluginInv, Unmade
<1>3. /\ SavingStopped' = SavingStopped
      /\ \A k : channel'[k][current'] = channel[k][current]
  BY <1>1 DEF SavingStopped
<1>4. ASSUME \A k : Has(todo', <<"start", k>>) => Has(todo', <<"stop", "autosave">>)
      PROVE  StartedTwice'
  BY <1>1, <1>3, <1>4 DEF PluginInv, StartedTwice
<1>5. CASE Plugin!DisablePlugin
  <2>1. /\ call' = "disable" /\ todo' = Plugin!StopStages
        /\ UNCHANGED <<enabled, alive, contextDone>> /\ enabled
    BY <1>5 DEF Plugin!DisablePlugin, Plugin!Begin
  <2>2. PluginTypes'
    BY <1>1, <2>1, StopStagesOK DEF PluginInv, PluginTypes
  <2>3. ToBeStarted' /\ StartedTwice'
    BY <1>4, <2>1, StopStagesOK DEF ToBeStarted
  <2> QED
    BY <1>2, <2>2, <2>3 DEF PluginInv
<1>6. CASE Plugin!Restart
  <2>1. /\ call' = "restart" /\ todo' = Plugin!StopStages \o Plugin!StartStages
        /\ UNCHANGED <<enabled, alive, contextDone>> /\ alive
    BY <1>6 DEF Plugin!Restart, Plugin!Begin
  <2>2. PluginTypes'
    BY <1>1, <2>1, RestartStagesOK DEF PluginInv, PluginTypes
  <2>3. ToBeStarted' /\ StartedTwice'
    BY <1>4, <2>1, RestartStagesOK DEF ToBeStarted
  <2> QED
    BY <1>2, <2>2, <2>3 DEF PluginInv
<1>7. CASE Plugin!Return
  <2>1. /\ call # "none" /\ todo = <<>> /\ todo' = todo /\ call' = "none"
        /\ contextDone' = contextDone
        /\ enabled' = IF call = "shutdown" THEN enabled ELSE call # "disable"
        /\ alive' = IF call = "shutdown" THEN alive ELSE call # "disable"
    BY <1>7 DEF Plugin!Return
  <2>2. PluginTypes'
    BY <1>1, <2>1 DEF PluginInv, PluginTypes
  <2>3. ToBeStarted'
    BY <1>1, <2>1, NoStages DEF PluginInv, PluginTypes, ToBeStarted
  <2>4. StartedTwice'
    BY <1>4, <2>1, NoStages
  <2> QED
    BY <1>2, <2>2, <2>3, <2>4 DEF PluginInv
<1>8. CASE Plugin!ConnectFails
  <2>1. alive' = FALSE /\ call' = "none" /\ todo' = <<>> /\ UNCHANGED <<enabled, contextDone>>
    BY <1>8 DEF Plugin!ConnectFails, Plugin!GiveUp
  <2>2. PluginTypes'
    BY <1>1, <2>1, NoStages DEF PluginInv, PluginTypes
  <2>3. ToBeStarted' /\ StartedTwice'
    BY <1>4, <2>1, NoStages DEF ToBeStarted
  <2> QED
    BY <1>2, <2>2, <2>3 DEF PluginInv
<1>9. CASE Plugin!Shutdown
  <2>1. /\ call' = "shutdown" /\ UNCHANGED <<enabled, alive>> /\ contextDone'
        /\ todo' = IF alive THEN Plugin!StopStages ELSE <<>>
    BY <1>9 DEF Plugin!Shutdown, Plugin!Begin
  <2>2. StagesOK(todo') /\ \A k : ~Has(todo', <<"start", k>>)
    BY <2>1, StopStagesOK, NoStages
  <2>3. PluginTypes'
    <3>1. todo' # <<>> => current # 0
      BY <2>1 DEF PluginInv, PluginTypes
    <3>2. contextDone' \in BOOLEAN
      BY <1>9 DEF Plugin!Shutdown
    <3> QED
      BY <1>1, <2>1, <2>2, <3>1, <3>2 DEF PluginInv, PluginTypes
  <2>4. ToBeStarted' /\ StartedTwice'
    BY <1>4, <2>1, <2>2 DEF ToBeStarted
  <2> QED
    BY <1>2, <2>3, <2>4 DEF PluginInv
<1> QED
  BY <1>5, <1>6, <1>7, <1>8, <1>9

\* What a stage does to the stages to come.
LEMMA StageGoes ==
  ASSUME PluginInv, NEW does, NEW k, Plugin!At(does, k), Plugin!Go
  PROVE  /\ ~panicked /\ call # "none" /\ current \in Plugin!Generation
         /\ todo # <<>> /\ Head(todo) = <<does, k>>
         /\ UNCHANGED <<enabled, alive, call, inits, current, contextDone>>
         /\ StagesOK(todo')
         /\ \A st : Has(todo', st) <=> Has(todo, st) /\ st # <<does, k>>
         /\ Has(todo, <<does, k>>)
         /\ does \in Starting => \A l : ~Has(todo, <<"stop", l>>) /\ ~Has(todo, <<"await", l>>)
         /\ <<does, k>> = <<"stop", "collector">> => Has(todo', <<"await", "collector">>)
<1>1. /\ ~panicked /\ todo # <<>> /\ Head(todo) = <<does, k>> /\ todo' = Tail(todo)
      /\ UNCHANGED <<enabled, alive, call, inits, current, contextDone>>
  BY DEF Plugin!At, Plugin!Go
<1>2. call # "none" /\ current \in Plugin!Generation
  BY <1>1, PluginPartsAssumption DEF PluginInv, PluginTypes, Plugin!Generation
<1>3. PICK stages, rest : stages = todo /\ rest = todo' /\ rest = Tail(stages)
  BY <1>1
<1>4. StagesOK(stages) /\ stages # <<>> /\ Head(stages) = <<does, k>>
  BY <1>1, <1>3 DEF PluginInv, PluginTypes
<1>5. /\ StagesOK(rest)
      /\ \A st : Has(rest, st) <=> Has(stages, st) /\ st # <<does, k>>
      /\ Has(stages, <<does, k>>)
      /\ does \in Starting => \A l : ~Has(stages, <<"stop", l>>) /\ ~Has(stages, <<"await", l>>)
      /\ <<does, k>> = <<"stop", "collector">> => Has(rest, <<"await", "collector">>)
  BY <1>3, <1>4, StageDone
<1> QED
  BY <1>1, <1>2, <1>3, <1>5

\* The goroutines that Start makes wait on a channel that there is.
LEMMA StartedAreLoops ==
  ASSUME NEW k \in Plugin!AtStart, NEW n \in 1 .. 3, current \in 1 .. inits
  PROVE  Plugin!StartedLoops(k, n) \subseteq Loops(inits)
<1>1. /\ k \in Plugin!Kind /\ Plugin!Collecting \subseteq Plugin!Kind
      /\ n \in 0 .. 3 /\ Plugin!Busy \in 0 .. 3
  BY Kinds DEF Plugin!Busy
<1>2. \A l \in Plugin!Kind, w \in 0 .. 3 : Plugin!Loop(l, current, n, w) \in Loops(inits)
  BY DEF Plugin!Loop, Loops
<1>3. \A l \in Plugin!StartedLoops(k, n) :
        \E c \in Plugin!Kind, w \in 0 .. 3 : l = Plugin!Loop(c, current, n, w)
  BY <1>1 DEF Plugin!StartedLoops
<1> QED
  BY <1>2, <1>3

\* Something is started, with a new channel or with the one it was built with.
LEMMA StartStep ==
  ASSUME PluginInv, NEW k \in Plugin!AtStart, Plugin!Start(k)
  PROVE  PluginInv'
<1>1. /\ Plugin!At("start", k) /\ Plugin!Go
      /\ on' = on \cup {k} /\ UNCHANGED <<closed, panicked>>
  BY DEF Plugin!Start
<1>2. /\ ~panicked /\ call # "none" /\ current \in Plugin!Generation
      /\ UNCHANGED <<enabled, alive, call, inits, current, contextDone>>
      /\ StagesOK(todo')
      /\ \A st : Has(todo', st) <=> Has(todo, st) /\ st # <<"start", k>>
      /\ Has(todo, <<"start", k>>) /\ \A l : ~Has(todo, <<"stop", l>>)
  BY <1>1, StageGoes DEF Starting
<1>3. /\ k \in Plugin!Kind /\ channel[k][current] \in 1 .. 3
      /\ channel \in [Plugin!Kind -> [Plugin!Generation -> 1 .. 3]]
      /\ inits \in Nat /\ current \in 1 .. inits
  BY <1>2, Kinds, PluginPartsAssumption DEF PluginInv, PluginTypes, Plugin!Generation
<1>4. PICK n : n = channel[k][current] + 1
  OBVIOUS
<1>5. SavingStopped' = SavingStopped
  BY <1>1, <1>2 DEF SavingStopped
<1>6. ToBeStarted'
  BY <1>1, <1>2 DEF PluginInv, ToBeStarted
<1>7. CASE k \in Plugin!Remade
  <2>1. n \in 2 .. 3 /\ (~SavingStopped => n <= 2)
    <3>1. channel[k][current] <= IF SavingStopped THEN 2 ELSE 1
      BY <1>1, <1>2, <1>3, <1>7 DEF PluginInv, StartedTwice, Plugin!Generation
    <3> QED
      BY <1>3, <1>4, <3>1
  <2>2. /\ channel' = [channel EXCEPT ![k][current] = n]
        /\ loops' = loops \cup Plugin!StartedLoops(k, channel'[k][current])
    BY <1>4, <1>7 DEF Plugin!Start
  <2>4. /\ channel' \in [Plugin!Kind -> [Plugin!Generation -> 1 .. 3]]
        /\ channel'[k][current] = n
        /\ \A l \in Plugin!Kind, g \in Plugin!Generation :
             l # k \/ g # current => channel'[l][g] = channel[l][g]
    BY <1>2, <1>3, <2>1, <2>2
  <2>3. /\ loops' = loops \cup Plugin!StartedLoops(k, n)
        /\ Plugin!StartedLoops(k, n) \subseteq Loops(inits)
    BY <1>3, <2>1, <2>2, <2>4, StartedAreLoops
  <2>5. PluginTypes'
    BY <1>1, <1>2, <1>3, <2>2, <2>3, <2>4 DEF PluginInv, PluginTypes
  <2>6. Unmade'
    <3>1. ~(current > inits)
      BY <1>3
    <3> QED
      BY <1>2, <1>7, <2>4, <3>1 DEF PluginInv, Unmade
  <2>7. StartedTwice'
    <3> SUFFICES ASSUME NEW l \in Plugin!Remade
                 PROVE  /\ ~SavingStopped => channel'[l][current] <= 2
                        /\ Has(todo', <<"start", l>>) /\ ~Has(todo', <<"stop", "autosave">>) =>
                             channel'[l][current] <= IF SavingStopped THEN 2 ELSE 1
      BY <1>2, <1>5 DEF StartedTwice
    <3>1. CASE l = k
      BY <1>2, <2>1, <2>4, <3>1
    <3>2. CASE l # k
      <4>1. channel'[l][current] = channel[l][current]
        BY <1>2, <2>4, <3>2, Kinds
      <4>2. current # 0
        BY <1>3
      <4> QED
        BY <1>2, <4>1, <4>2 DEF PluginInv, StartedTwice
    <3> QED
      BY <3>1, <3>2
  <2> QED
    BY <1>6, <2>5, <2>6, <2>7 DEF PluginInv
<1>8. CASE k \notin Plugin!Remade
  <2>1. channel' = channel /\ loops' = loops \cup Plugin!StartedLoops(k, channel[k][current])
    BY <1>8 DEF Plugin!Start
  <2>2. Plugin!StartedLoops(k, channel[k][current]) \subseteq Loops(inits)
    BY <1>3, StartedAreLoops
  <2>3. PluginTypes'
    BY <1>1, <1>2, <1>3, <2>1, <2>2 DEF PluginInv, PluginTypes
  <2>4. Unmade'
    BY <1>2, <2>1 DEF PluginInv, Unmade
  <2>5. StartedTwice'
    BY <1>2, <1>5, <2>1 DEF PluginInv, StartedTwice
  <2> QED
    BY <1>6, <2>3, <2>4, <2>5 DEF PluginInv
<1> QED
  BY <1>7, <1>8

\* Something is stopped, looked at or waited for.
LEMMA OtherStages ==
  ASSUME PluginInv,
         \/ Plugin!Connect \/ Plugin!AwaitCollector
         \/ \E k \in Plugin!AtStart : Plugin!StopRunning(k)
         \/ \E k \in {"cache", "rotation"} : Plugin!StopOnce(k)
  PROVE  PluginInv'
<1>1. PICK does, k :
        /\ does \in {"test", "await", "stop"}
        /\ Plugin!At(does, k) /\ Plugin!Go
        /\ does = "stop" => k \in Plugin!Kind /\ k # "autosave"
        /\ UNCHANGED <<channel, loops, panicked>>
        /\ on' \subseteq on /\ (on' = on \/ (does = "stop" /\ on' = on \ {k}))
        /\ closed' = closed \/ (does = "stop" /\ closed' = closed \cup {Plugin!Now(k)})
  <2>1. CASE Plugin!Connect
    BY <2>1 DEF Plugin!Connect
  <2>2. CASE Plugin!AwaitCollector
    BY <2>2 DEF Plugin!AwaitCollector
  <2>3. ASSUME NEW k \in Plugin!AtStart, Plugin!StopRunning(k)
        PROVE  /\ Plugin!At("stop", k) /\ Plugin!Go /\ UNCHANGED <<channel, loops, panicked>>
               /\ k \in Plugin!Kind /\ k # "autosave" /\ on' = on \ {k}
               /\ closed' = closed \/ closed' = closed \cup {Plugin!Now(k)}
    BY <2>3, Kinds DEF Plugin!StopRunning
  <2>4. ASSUME NEW k \in {"cache", "rotation"}, Plugin!StopOnce(k)
        PROVE  /\ Plugin!At("stop", k) /\ Plugin!Go /\ UNCHANGED <<channel, loops, panicked, on>>
               /\ k \in Plugin!Kind /\ k # "autosave"
               /\ closed' = closed \cup {Plugin!Now(k)}
    BY <2>4, Kinds DEF Plugin!StopOnce
  <2> QED
    BY <2>1, <2>2, <2>3, <2>4
<1>2. /\ ~panicked /\ call # "none" /\ current \in Plugin!Generation
      /\ UNCHANGED <<enabled, alive, call, inits, current, contextDone>>
      /\ StagesOK(todo')
      /\ \A st : Has(todo', st) <=> Has(todo, st) /\ st # <<does, k>>
      /\ Has(todo, <<does, k>>)
  BY <1>1, StageGoes
<1>3. /\ channel \in [Plugin!Kind -> [Plugin!Generation -> 1 .. 3]]
      /\ inits \in Nat /\ current \in 1 .. inits
  BY <1>2, PluginPartsAssumption DEF PluginInv, PluginTypes, Plugin!Generation
<1>4. does = "stop" => Plugin!Now(k) \in Channels(inits) /\ Plugin!Now(k).kind # "autosave"
  <2> SUFFICES ASSUME does = "stop"
               PROVE  Plugin!Now(k) \in Channels(inits) /\ Plugin!Now(k).kind # "autosave"
    OBVIOUS
  <2>1. k \in Plugin!Kind /\ channel[k][current] \in 1 .. 3
    BY <1>1, <1>2, <1>3
  <2> QED
    BY <1>1, <1>3, <2>1 DEF Plugin!Now, Channels
<1>5. SavingStopped' = SavingStopped
  BY <1>1, <1>2, <1>4 DEF SavingStopped
<1>6. PluginTypes'
  BY <1>1, <1>2, <1>3, <1>4 DEF PluginInv, PluginTypes
<1>7. Unmade'
  BY <1>1, <1>2 DEF PluginInv, Unmade
<1>8. ToBeStarted'
  <2>1. \A l : Has(todo', <<"start", l>>) <=> Has(todo, <<"start", l>>)
    BY <1>1, <1>2
  <2>2. \A l : Has(todo', <<"stop", l>>) => Has(todo, <<"stop", l>>)
    BY <1>2
  <2>3. \A l : l \in on => l \in on' \/ Has(todo, <<"stop", l>>)
    BY <1>1, <1>2
  <2> QED
    BY <1>2, <2>1, <2>2, <2>3 DEF PluginInv, ToBeStarted
<1>9. StartedTwice'
  <2>1. Has(todo', <<"stop", "autosave">>) <=> Has(todo, <<"stop", "autosave">>)
    BY <1>1, <1>2
  <2>2. \A l : Has(todo', <<"start", l>>) => Has(todo, <<"start", l>>)
    BY <1>2
  <2> QED
    BY <1>1, <1>2, <1>5, <2>1, <2>2 DEF PluginInv, StartedTwice
<1> QED
  BY <1>6, <1>7, <1>8, <1>9 DEF PluginInv

\* Saving is stopped, or the program ends as it was stopped before.
LEMMA StopAutosaveStep ==
  ASSUME PluginInv, Plugin!StopAutosave
  PROVE  PluginInv'
<1>1. /\ Plugin!At("stop", "autosave") /\ Plugin!Go
      /\ panicked' = (Plugin!Now("autosave") \in closed)
      /\ closed' = closed \cup {Plugin!Now("autosave")}
      /\ UNCHANGED <<on, channel, loops>>
  BY DEF Plugin!StopAutosave
<1>2. /\ ~panicked /\ call # "none" /\ current \in Plugin!Generation
      /\ UNCHANGED <<enabled, alive, call, inits, current, contextDone>>
      /\ StagesOK(todo')
      /\ \A st : Has(todo', st) <=> Has(todo, st) /\ st # <<"stop", "autosave">>
  BY <1>1, StageGoes
<1>3. inits \in Nat /\ current \in 1 .. inits
  BY <1>2, PluginPartsAssumption DEF PluginInv, PluginTypes, Plugin!Generation
<1>4. Plugin!Now("autosave") = [kind |-> "autosave", gen |-> current, number |-> 1]
  <2>1. "autosave" \notin Plugin!Remade
    BY Kinds
  <2> QED
    BY <1>2, <2>1, Kinds DEF PluginInv, Unmade, Plugin!Now
<1>5. panicked' = SavingStopped /\ SavingStopped'
  BY <1>1, <1>2, <1>4 DEF SavingStopped
<1>6. PluginTypes'
  <2>1. Plugin!Now("autosave") \in Channels(inits)
    BY <1>3, <1>4, Kinds DEF Channels
  <2>2. panicked' \in BOOLEAN
    BY <1>1
  <2> QED
    BY <1>1, <1>2, <1>3, <2>1, <2>2 DEF PluginInv, PluginTypes
<1>7. Unmade'
  BY <1>1, <1>2 DEF PluginInv, Unmade
<1>8. ToBeStarted'
  BY <1>1, <1>2 DEF PluginInv, ToBeStarted
<1>9. StartedTwice'
  <2>1. \A l : Has(todo', <<"start", l>>) => Has(todo, <<"start", l>>)
    BY <1>2
  <2> QED
    BY <1>1, <1>2, <1>3, <1>5, <2>1 DEF PluginInv, StartedTwice
<1> QED
  BY <1>6, <1>7, <1>8, <1>9 DEF PluginInv

\* Goroutines end, tick and come round.
LEMMA LoopSteps ==
  ASSUME PluginInv,
         \/ Plugin!Exit \/ Plugin!Tick
         \/ \E k \in Plugin!Rereads, g \in Plugin!Generation : Plugin!Turn(k, g)
  PROVE  PluginInv'
<1>1. UNCHANGED <<enabled, alive, call, todo, inits, current, on, channel, closed, contextDone,
                  panicked>>
  BY DEF Plugin!Exit, Plugin!Tick, Plugin!Turn
<1>2. loops' \subseteq Loops(inits)
  <2>1. loops \subseteq Loops(inits)
    BY DEF PluginInv, PluginTypes
  <2>2. CASE Plugin!Exit
    BY <2>1, <2>2 DEF Plugin!Exit
  <2>3. ASSUME NEW l \in loops, NEW w \in 0 .. 3
        PROVE  [l EXCEPT !.waits = w] \in Loops(inits)
    BY <2>1 DEF Loops
  <2>4. CASE Plugin!Tick
    <3>1. PICK l \in loops : loops' = (loops \ {l}) \cup {[l EXCEPT !.waits = 0]}
      BY <2>4 DEF Plugin!Tick, Plugin!Busy
    <3>2. 0 \in 0 .. 3
      OBVIOUS
    <3>3. [l EXCEPT !.waits = 0] \in Loops(inits)
      BY <2>3, <3>2
    <3> QED
      BY <2>1, <3>1, <3>3
  <2>5. ASSUME NEW k \in Plugin!Rereads, NEW g \in Plugin!Generation, Plugin!Turn(k, g)
        PROVE  loops' \subseteq Loops(inits)
    <3>1. channel[Plugin!Owner(k)][g] \in 0 .. 3
      <4>1. Plugin!Owner(k) \in Plugin!Kind
        BY Kinds
      <4>2. channel[Plugin!Owner(k)][g] \in 1 .. 3
        BY <4>1 DEF PluginInv, PluginTypes
      <4> QED
        BY <4>2
    <3> QED
      BY <2>1, <2>3, <2>5, <3>1 DEF Plugin!Turn
  <2> QED
    BY <2>2, <2>4, <2>5
<1>3. PluginTypes'
  BY <1>1, <1>2 DEF PluginInv, PluginTypes
<1>4. Unmade' /\ ToBeStarted' /\ StartedTwice'
  BY <1>1 DEF PluginInv, Unmade, ToBeStarted, StartedTwice, SavingStopped
<1> QED
  BY <1>3, <1>4 DEF PluginInv

\* Every step of the plugin keeps its invariant.
LEMMA PluginSteps ==
  ASSUME PluginInv, Plugin!PluginNext
  PROVE  PluginInv'
<1>1. CASE Plugin!Stage
  BY <1>1, CallSteps, StartStep, OtherStages, StopAutosaveStep DEF Plugin!Stage
<1> QED
  BY <1>1, InitSteps, CallSteps, LoopSteps DEF Plugin!PluginNext

\* It implies the type invariant.
LEMMA PluginTyped == PluginInv => Plugin!PluginTypeOK
<1> SUFFICES ASSUME PluginInv
             PROVE  Plugin!PluginTypeOK
  OBVIOUS
<1>1. 1 .. inits \subseteq Plugin!Generation
  BY PluginPartsAssumption DEF PluginInv, PluginTypes, Plugin!Generation
<1>2. closed \subseteq [kind : Plugin!Kind, gen : Plugin!Generation, number : 1 .. 3]
  BY <1>1 DEF PluginInv, PluginTypes, Channels
<1> QED
  BY <1>2 DEF PluginInv, PluginTypes, ToBeStarted, Plugin!PluginTypeOK, Loops

\* The plugin begins with nothing.
LEMMA PluginBegins == Plugin!Init => PluginInv
<1> SUFFICES ASSUME Plugin!Init
             PROVE  PluginInv
  OBVIOUS
<1>1. PluginTypes
  <2>1. channel \in [Plugin!Kind -> [Plugin!Generation -> 1 .. 3]]
    BY DEF Plugin!Init
  <2>2. inits = 0 /\ 0 \in 0 .. MaxInits /\ current = 0 /\ 0 \in 0 .. 0
    BY PluginPartsAssumption DEF Plugin!Init
  <2> QED
    BY <2>1, <2>2, NoStages DEF Plugin!Init, PluginTypes
<1>2. Unmade /\ ToBeStarted /\ StartedTwice
  BY DEF Plugin!Init, Unmade, ToBeStarted, StartedTwice
<1> QED
  BY <1>1, <1>2 DEF PluginInv

-----------------------------------------------------------------------------

\* A loop of the collector is there only as long as the collector runs or is yet
\* to be waited for: no Start comes before it has ended.
CollectorAwaited ==
  \A l \in loops :
    l.kind \in Plugin!Collecting /\ l.gen = current =>
      "collector" \in on \/ Has(todo, <<"await", "collector">>)

\* What makes a collector's loops one of a kind, beside PluginInv.
CollectionInv == CollectorAwaited /\ OneCollection

\* It stays when each loop that is there afterwards has one before it, of the same
\* kind and of the same components, and what they wait for does.
LEMMA LoopsKept ==
  ASSUME CollectionInv, current' = current,
         "collector" \in on => "collector" \in on' \/ Has(todo', <<"await", "collector">>),
         Has(todo, <<"await", "collector">>) => Has(todo', <<"await", "collector">>),
         \A l \in loops' : l.kind \in Plugin!Collecting =>
           l \in loops \/ \E m \in loops : loops' = (loops \ {m}) \cup {l}
                                           /\ l.kind = m.kind /\ l.gen = m.gen
  PROVE  CollectionInv'
<1> USE DEF CollectionInv
<1>1. CollectorAwaited'
  <2> SUFFICES ASSUME NEW l \in loops', l.kind \in Plugin!Collecting, l.gen = current
               PROVE  "collector" \in on' \/ Has(todo', <<"await", "collector">>)
    BY DEF CollectorAwaited
  <2>1. PICK m \in loops : m.kind \in Plugin!Collecting /\ m.gen = current
    OBVIOUS
  <2> QED
    BY <2>1 DEF CollectorAwaited
<1>2. OneCollection'
  <2> SUFFICES ASSUME NEW l \in loops', NEW m \in loops', l.kind \in Plugin!Collecting,
                      m.kind = l.kind, m.gen = l.gen
               PROVE  m = l
    BY DEF OneCollection, Plugin!OneCollection
  <2>1. \A a, b \in loops :
          a.kind \in Plugin!Collecting /\ b.kind = a.kind /\ b.gen = a.gen => b = a
    BY DEF OneCollection, Plugin!OneCollection
  <2>2. CASE l \in loops /\ m \in loops
    BY <2>1, <2>2
  <2>3. CASE l \notin loops
    <3>1. PICK a \in loops : loops' = (loops \ {a}) \cup {l} /\ l.kind = a.kind /\ l.gen = a.gen
      BY <2>3
    <3> QED
      BY <2>1, <3>1
  <2>4. CASE m \notin loops
    <3>1. PICK a \in loops : loops' = (loops \ {a}) \cup {m} /\ m.kind = a.kind /\ m.gen = a.gen
      BY <2>4
    <3>2. l # m => l \in loops /\ l # a
      BY <3>1
    <3>3. l \in loops => l = a
      BY <2>1, <3>1
    <3> QED
      BY <3>2, <3>3
  <2> QED
    BY <2>2, <2>3, <2>4
<1> QED
  BY <1>1, <1>2

\* Init makes no loops of the collector.
LEMMA CollectionInits ==
  ASSUME PluginInv, CollectionInv, Plugin!InitFails \/ Plugin!EnablePlugin
  PROVE  CollectionInv'
<1> USE DEF CollectionInv
<1>1. PICK kinds : /\ kinds \subseteq Plugin!AtInit
                   /\ loops' = loops \cup Plugin!Born(kinds, inits + 1)
  BY Kinds DEF Plugin!InitFails, Plugin!EnablePlugin
<1>2. \A l \in loops' : l.kind \in Plugin!Collecting => l \in loops
  BY <1>1, Kinds DEF Plugin!Born, Plugin!Loop
<1>3. OneCollection'
  BY <1>2 DEF OneCollection, Plugin!OneCollection
<1>4. CollectorAwaited'
  <2>1. CASE Plugin!InitFails
    BY <1>2, <2>1 DEF CollectorAwaited, Plugin!InitFails
  <2>2. CASE Plugin!EnablePlugin
    <3>1. current' = inits + 1 /\ inits \in Nat /\ \A l \in loops : l.gen \in 1 .. inits
      BY <2>2, PluginPartsAssumption DEF Plugin!EnablePlugin, PluginInv, PluginTypes, Loops
    <3>2. \A l \in loops : l.gen # current'
      BY <3>1
    <3> QED
      BY <1>2, <3>2 DEF CollectorAwaited
  <2> QED
    BY <2>1, <2>2
<1> QED
  BY <1>3, <1>4

\* A call begins with the collector that there is, and ends with what there is.
LEMMA CollectionCalls ==
  ASSUME PluginInv, CollectionInv,
         \/ Plugin!DisablePlugin \/ Plugin!Shutdown \/ Plugin!Restart \/ Plugin!Return
         \/ Plugin!ConnectFails
  PROVE  CollectionInv'
<1>1. UNCHANGED <<current, on, loops>>
  BY DEF Plugin!DisablePlugin, Plugin!Shutdown, Plugin!Restart, Plugin!Return,
         Plugin!ConnectFails, Plugin!GiveUp
<1>2. Has(todo, <<"await", "collector">>) => Has(todo', <<"await", "collector">>)
  <2>1. CASE Plugin!DisablePlugin \/ Plugin!Restart
    BY <2>1, StopStagesOK, RestartStagesOK DEF Plugin!DisablePlugin, Plugin!Restart, Plugin!Begin
  <2>2. CASE Plugin!Shutdown
    <3>1. todo = <<>>
      BY <2>2 DEF Plugin!Shutdown, Plugin!Begin, Plugin!Idle, PluginInv, PluginTypes
    <3> QED
      BY <3>1, NoStages
  <2>3. CASE Plugin!Return
    BY <2>3 DEF Plugin!Return
  <2>4. CASE Plugin!ConnectFails
    <3>1. todo # <<>> /\ Head(todo) = <<"test", "client">> /\ StagesOK(todo)
      BY <2>4 DEF Plugin!ConnectFails, Plugin!At, PluginInv, PluginTypes
    <3>2. Head(todo)[1] \in Starting
      BY <3>1 DEF Starting
    <3>3. ~Has(todo, <<"await", "collector">>)
      BY <3>1, <3>2, StageDone
    <3> QED
      BY <3>3
  <2> QED
    BY <2>1, <2>2, <2>3, <2>4
<1> QED
  BY <1>1, <1>2, LoopsKept

\* The stages of Start: when the collector is started its loops have ended.
LEMMA CollectionStarts ==
  ASSUME PluginInv, CollectionInv, NEW k \in Plugin!AtStart, Plugin!Start(k)
  PROVE  CollectionInv'
<1> USE DEF CollectionInv
<1>1. /\ Plugin!At("start", k) /\ Plugin!Go /\ k \notin on /\ on' = on \cup {k}
      /\ loops' = loops \cup Plugin!StartedLoops(k, channel'[k][current])
  BY DEF Plugin!Start
<1>2. /\ current' = current /\ ~Has(todo, <<"await", "collector">>)
      /\ \A st : Has(todo', st) <=> Has(todo, st) /\ st # <<"start", k>>
  BY <1>1, StageGoes DEF Starting
<1>3. CASE k # "collector"
  <2>1. \A l \in Plugin!StartedLoops(k, channel'[k][current]) : l.kind = k
    BY <1>3 DEF Plugin!StartedLoops, Plugin!Loop
  <2>2. k \notin Plugin!Collecting
    BY <1>3, Kinds
  <2>3. \A l \in loops' : l.kind \in Plugin!Collecting => l \in loops
    BY <1>1, <2>1, <2>2
  <2> QED
    BY <1>1, <1>2, <2>3, LoopsKept
<1>4. CASE k = "collector"
  <2>1. \A l \in loops : l.kind \in Plugin!Collecting => l.gen # current
    BY <1>1, <1>2, <1>4 DEF CollectorAwaited
  <2>2. PICK n : loops' = loops \cup {Plugin!Loop(l, current, n, Plugin!Busy) :
                                       l \in Plugin!Collecting}
    BY <1>1, <1>4 DEF Plugin!StartedLoops
  <2>3. CollectorAwaited'
    BY <1>1, <1>4 DEF CollectorAwaited
  <2>4. \A l \in loops' : \/ l \in loops
                          \/ /\ l = Plugin!Loop(l.kind, current, n, Plugin!Busy)
                             /\ l.gen = current
    BY <2>2 DEF Plugin!Loop
  <2>5. OneCollection'
    BY <2>1, <2>4 DEF OneCollection, Plugin!OneCollection
  <2> QED
    BY <2>3, <2>5
<1> QED
  BY <1>3, <1>4

\* The stages of Stop: the collector is waited for once it is told.
LEMMA CollectionStops ==
  ASSUME PluginInv, CollectionInv,
         \/ Plugin!Connect \/ Plugin!AwaitCollector \/ Plugin!StopAutosave
         \/ \E k \in Plugin!AtStart : Plugin!StopRunning(k)
         \/ \E k \in {"cache", "rotation"} : Plugin!StopOnce(k)
  PROVE  CollectionInv'
<1>1. loops' = loops /\ on' \subseteq on
  BY DEF Plugin!Connect, Plugin!AwaitCollector, Plugin!StopAutosave, Plugin!StopRunning,
         Plugin!StopOnce
<1>2. ASSUME NEW does, NEW k, Plugin!At(does, k), Plugin!Go,
             <<does, k>> # <<"await", "collector">>,
             \/ "collector" \in on => "collector" \in on'
             \/ <<does, k>> = <<"stop", "collector">>
      PROVE  CollectionInv'
  <2>1. /\ current' = current
        /\ \A st : Has(todo', st) <=> Has(todo, st) /\ st # <<does, k>>
        /\ <<does, k>> = <<"stop", "collector">> => Has(todo', <<"await", "collector">>)
    BY <1>2, StageGoes
  <2>2. Has(todo, <<"await", "collector">>) => Has(todo', <<"await", "collector">>)
    BY <1>2, <2>1
  <2>3. "collector" \in on => "collector" \in on' \/ Has(todo', <<"await", "collector">>)
    BY <1>2, <2>1
  <2> QED
    BY <1>1, <2>1, <2>2, <2>3, LoopsKept
<1>3. CASE Plugin!Connect
  <2>1. Plugin!At("test", "client") /\ Plugin!Go /\ on' = on
    BY <1>3 DEF Plugin!Connect
  <2>2. <<"test", "client">> # <<"await", "collector">>
    OBVIOUS
  <2> QED
    BY <1>2, <2>1, <2>2
<1>4. CASE Plugin!StopAutosave
  <2>1. Plugin!At("stop", "autosave") /\ Plugin!Go /\ on' = on
    BY <1>4 DEF Plugin!StopAutosave
  <2>2. <<"stop", "autosave">> # <<"await", "collector">>
    OBVIOUS
  <2> QED
    BY <1>2, <2>1, <2>2
<1>5. ASSUME NEW k, Plugin!StopRunning(k) \/ Plugin!StopOnce(k)
      PROVE  CollectionInv'
  <2>1. Plugin!At("stop", k) /\ Plugin!Go /\ (on' = on \/ on' = on \ {k})
    BY <1>5 DEF Plugin!StopRunning, Plugin!StopOnce
  <2>2. /\ <<"stop", k>> # <<"await", "collector">>
        /\ k = "collector" => <<"stop", k>> = <<"stop", "collector">>
    OBVIOUS
  <2> QED
    BY <1>2, <2>1, <2>2
<1>6. CASE Plugin!AwaitCollector
  <2>1. current' = current
    BY <1>6 DEF Plugin!AwaitCollector, Plugin!Go
  <2>2. \A l \in loops' : ~(l.kind \in Plugin!Collecting /\ l.gen = current')
    BY <1>1, <1>6, <2>1 DEF Plugin!AwaitCollector
  <2> QED
    BY <1>1, <2>2 DEF CollectionInv, CollectorAwaited, OneCollection, Plugin!OneCollection
<1> QED
  BY <1>3, <1>4, <1>5, <1>6

\* Loops that end, tick and come round are those there were.
LEMMA CollectionLoops ==
  ASSUME PluginInv, CollectionInv,
         \/ Plugin!Exit \/ Plugin!Tick
         \/ \E k \in Plugin!Rereads, g \in Plugin!Generation : Plugin!Turn(k, g)
  PROVE  CollectionInv'
<1>1. UNCHANGED <<current, on, todo>>
  BY DEF Plugin!Exit, Plugin!Tick, Plugin!Turn
<1>2. CASE Plugin!Exit
  <2>1. loops' \subseteq loops
    BY <1>2 DEF Plugin!Exit
  <2> QED
    BY <1>1, <2>1, LoopsKept
<1>3. CASE Plugin!Tick \/ \E k \in Plugin!Rereads, g \in Plugin!Generation : Plugin!Turn(k, g)
  <2>1. PICK l, w : /\ l \in loops
                    /\ loops' = (loops \ {l}) \cup {[l EXCEPT !.waits = w]}
    BY <1>3 DEF Plugin!Tick, Plugin!Turn
  <2> DEFINE m == [l EXCEPT !.waits = w]
  <2>2. m.kind = l.kind /\ m.gen = l.gen
    <3>1. l \in Loops(inits)
      BY <2>1 DEF PluginInv, PluginTypes
    <3>2. \A v : [l EXCEPT !.waits = v].kind = l.kind /\ [l EXCEPT !.waits = v].gen = l.gen
      BY <3>1 DEF Loops
    <3> QED
      BY <3>2
  <2> HIDE DEF m
  <2>3. \A a \in loops' : a \in loops \/ a = m
    BY <2>1 DEF m
  <2>4. \A a \in loops' : a \in loops \/ \E b \in loops : /\ loops' = (loops \ {b}) \cup {a}
                                                          /\ a.kind = b.kind /\ a.gen = b.gen
    BY <2>1, <2>2, <2>3 DEF m
  <2> QED
    BY <1>1, <2>4, LoopsKept
<1> QED
  BY <1>2, <1>3

\* Every step of the plugin keeps that.
LEMMA CollectionSteps ==
  ASSUME PluginInv, CollectionInv, Plugin!PluginNext
  PROVE  CollectionInv'
<1>1. CASE Plugin!Stage
  BY <1>1, CollectionCalls, CollectionStarts, CollectionStops DEF Plugin!Stage
<1> QED
  BY <1>1, CollectionInits, CollectionCalls, CollectionLoops DEF Plugin!PluginNext

\* The invariant of the plugin holds.
LEMMA PluginInvAlways == Spec => []PluginInv
<1>1. Init => PluginInv
  BY PluginBegins DEF Init
<1>2. PluginInv /\ [Next]_vars => PluginInv'
  <2> SUFFICES ASSUME PluginInv, [Next]_vars
               PROVE  PluginInv'
    OBVIOUS
  <2>1. CASE PluginStep
    BY <2>1, PluginSteps DEF PluginStep
  <2>2. CASE UNCHANGED pluginVars
    BY <2>2
    DEF pluginVars, PluginInv, PluginTypes, Unmade, ToBeStarted, StartedTwice, SavingStopped
  <2> QED
    BY <2>1, <2>2 DEF Next, HistoryStep, FeedStep, vars
<1> QED
  BY <1>1, <1>2, PTL DEF Spec

\* However often the plugin is enabled, disabled, restarted by the health check
\* and shut down, and however long a loop does not notice the stop: a collector
\* never has two loops that collect, nor two that clean up.  Its Stop waits for
\* both before a Start can give them another channel to wait on.
THEOREM OneLoopCollects == Spec => []OneCollection
<1>1. Init => CollectionInv
  BY DEF Init, Plugin!Init, CollectionInv, CollectorAwaited, OneCollection, Plugin!OneCollection
<1>2. PluginInv /\ CollectionInv /\ [Next]_vars => CollectionInv'
  <2> SUFFICES ASSUME PluginInv, CollectionInv, [Next]_vars
               PROVE  CollectionInv'
    OBVIOUS
  <2>1. CASE PluginStep
    BY <2>1, CollectionSteps DEF PluginStep
  <2>2. CASE UNCHANGED pluginVars
    BY <2>2
    DEF pluginVars, CollectionInv, CollectorAwaited, OneCollection, Plugin!OneCollection
  <2> QED
    BY <2>1, <2>2 DEF Next, HistoryStep, FeedStep, vars
<1>3. CollectionInv => OneCollection
  BY DEF CollectionInv
<1> QED
  BY <1>1, <1>2, <1>3, PluginInvAlways, PTL DEF Spec

-----------------------------------------------------------------------------

\* The types of the parts, the invariants of which do not need each other.
TypesInv == CollectorTypes /\ FeedInv /\ FeedBounds

\* The plugin, its history and its subscriptions keep their types and bounds:
\* what runs has been started and its channels have been made; no series is
\* longer than it may be, and its points are in order; a subscription is active
\* as long as it has too few errors to be disabled.
THEOREM TypeCorrect == Spec => []TypeOK
<1>1. Init => TypesInv
  BY CollectorBegins, FeedInvBegins, FeedBegins DEF Init, TypesInv
<1>2. TypesInv /\ [Next]_vars => TypesInv'
  <2> SUFFICES ASSUME TypesInv, [Next]_vars
               PROVE  TypesInv'
    OBVIOUS
  <2>1. CollectorTypes'
    <3>1. CASE HistoryStep
      BY <3>1, CollectorSteps DEF HistoryStep, TypesInv
    <3>2. CASE UNCHANGED collectorVars
      BY <3>2 DEF TypesInv, collectorVars, CollectorTypes, Latest
    <3> QED
      BY <3>1, <3>2 DEF Next, PluginStep, FeedStep, vars
  <2>2. FeedInv' /\ FeedBounds'
    <3>1. CASE FeedStep
      BY <3>1, FeedInvSteps, FeedStepBounded DEF FeedStep, TypesInv
    <3>2. CASE UNCHANGED subscriptionVars
      BY <3>2, FeedInvKept
      DEF TypesInv, subscriptionVars, FeedBounds, ManagersBounded, SubsBounded, QueriesBounded
    <3> QED
      BY <3>1, <3>2 DEF Next, PluginStep, HistoryStep, vars
  <2> QED
    BY <2>1, <2>2 DEF TypesInv
<1>3. PluginInv /\ TypesInv => TypeOK
  BY PluginTyped, CollectorTyped, FeedTyped DEF TypesInv, TypeOK
<1> QED
  BY <1>1, <1>2, <1>3, PluginInvAlways, PTL DEF Spec

=============================================================================
