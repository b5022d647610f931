------------------------------- MODULE Collector -------------------------------
(***************************************************************************)
(* plugins/observability/historical/collector.go: one goroutine appends    *)
(* what a batch of queries returns to series in memory, another drops what *)
(* is too old, and both are waited for by Stop, which then writes every    *)
(* series to its file.  Between two stops a file is written only now and   *)
(* then, by a goroutine nobody waits for, and a new program begins with    *)
(* what the files have.  What goes wrong with a file, which the code       *)
(* ignores, is left out, and so are AddQuery and RemoveQuery, which        *)
(* nothing calls, and the collectors of earlier Inits.                     *)
(***************************************************************************)
EXTENDS Integers, Sequences, SequencesExt

CONSTANTS
  Query,           \* names of the queries, which are those of the series
  MaxDataPoints,   \* points a series keeps
  Retention,       \* age at which a point is dropped
  SaveEvery,       \* a collection at a multiple of this second also saves
  MaxNow,          \* bound: seconds
  MaxCollections   \* bound: collections

VARIABLES
  series,          \* in memory: the times of the points of each query
  files,           \* on disk
  running,         \* the flag of Start and Stop
  told,            \* stopChan is closed
  cancelled,       \* the context that Start was given has ended
  collecting,      \* collectionLoop: "gone", "waits", or the time of its query
  cleaning,        \* cleanupLoop is there
  stopping,        \* Stop waits for both
  savers,          \* saveHistoricalData has been started and has yet to run
  now, collections

collectorVars == <<series, files, running, told, cancelled, collecting, cleaning, stopping,
                   savers, now, collections>>

Gone == -1
Waits == 0

Init ==
  /\ series = [q \in Query |-> <<>>] /\ files = series
  /\ running = FALSE /\ told = FALSE /\ cancelled = FALSE /\ stopping = FALSE /\ savers = FALSE
  /\ collecting = Gone /\ cleaning = FALSE
  /\ now = 1 /\ collections = 0

\* With a context that has not ended: no plugin comes this far with one.
Start ==
  /\ ~running /\ ~stopping
  /\ running' = TRUE /\ told' = FALSE /\ cancelled' = FALSE
  /\ collecting' = Waits /\ cleaning' = TRUE
  /\ UNCHANGED <<series, files, stopping, savers, now, collections>>

(***************************************************************************)
(* Collecting.                                                             *)
(***************************************************************************)

CollectBegins ==
  /\ collecting = Waits /\ collections < MaxCollections
  /\ collecting' = now
  /\ collections' = collections + 1
  /\ UNCHANGED <<series, files, running, told, cancelled, cleaning, stopping, savers, now>>

CollectFails ==
  /\ collecting > Waits
  /\ collecting' = Waits
  /\ UNCHANGED <<series, files, running, told, cancelled, cleaning, stopping, savers, now,
                 collections>>

Newest(s) == IF Len(s) <= MaxDataPoints THEN s ELSE Tail(s)

\* The batch may lack some of the queries.
CollectEnds ==
  /\ collecting > Waits
  /\ \E answered \in SUBSET Query :
       series' = [q \in Query |-> IF q \in answered THEN Newest(Append(series[q], collecting))
                                                    ELSE series[q]]
  /\ savers' = (savers \/ collecting % SaveEvery = 0)
  /\ collecting' = Waits
  /\ UNCHANGED <<files, running, told, cancelled, cleaning, stopping, now, collections>>

\* What precedes the first point that is young is dropped, if there is one.
Young(s) ==
  LET keepIndex == SelectInSeq(s, LAMBDA t : t > now - Retention)
  IN IF keepIndex = 0 THEN s ELSE SubSeq(s, keepIndex, Len(s))

CleanupOldData ==
  /\ cleaning
  /\ series' = [q \in Query |-> Young(series[q])]
  /\ UNCHANGED <<files, running, told, cancelled, collecting, cleaning, stopping, savers, now,
                 collections>>

SaveHistoricalData ==
  /\ savers
  /\ files' = series /\ savers' = FALSE
  /\ UNCHANGED <<series, running, told, cancelled, collecting, cleaning, stopping, now,
                 collections>>

\* Stop of the plugin manager ends the context of its plugins before it stops
\* them, and the collector goes by its context too.
Cancel ==
  /\ running /\ ~cancelled
  /\ cancelled' = TRUE
  /\ UNCHANGED <<series, files, running, told, collecting, cleaning, stopping, savers, now,
                 collections>>

CollectionLoopEnds ==
  /\ told \/ cancelled
  /\ collecting = Waits
  /\ collecting' = Gone
  /\ UNCHANGED <<series, files, running, told, cancelled, cleaning, stopping, savers, now,
                 collections>>

\* It knows of no context.
CleanupLoopEnds ==
  /\ told /\ cleaning
  /\ cleaning' = FALSE
  /\ UNCHANGED <<series, files, running, told, cancelled, collecting, stopping, savers, now,
                 collections>>

(***************************************************************************)
(* Stopping.                                                               *)
(***************************************************************************)

StopBegins ==
  /\ running
  /\ running' = FALSE /\ told' = TRUE /\ stopping' = TRUE
  /\ UNCHANGED <<series, files, cancelled, collecting, cleaning, savers, now, collections>>

\* A mutant: the collection in progress is not waited for.
StopEndsEarly ==
  /\ stopping /\ ~cleaning
  /\ stopping' = FALSE /\ files' = series
  /\ UNCHANGED <<series, running, told, cancelled, collecting, cleaning, savers, now, collections>>

StopEnds ==
  /\ stopping /\ ~cleaning /\ collecting = Gone
  /\ stopping' = FALSE /\ files' = series
  /\ UNCHANGED <<series, running, told, cancelled, collecting, cleaning, savers, now, collections>>

\* The program ends as it is, and a new one loads the files.
Restart ==
  /\ running \/ stopping
  /\ series' = files
  /\ running' = FALSE /\ told' = FALSE /\ cancelled' = FALSE /\ stopping' = FALSE /\ savers' = FALSE
  /\ collecting' = Gone /\ cleaning' = FALSE
  /\ UNCHANGED <<files, now, collections>>

Second ==
  /\ now < MaxNow
  /\ now' = now + 1
  /\ UNCHANGED <<series, files, running, told, cancelled, collecting, cleaning, stopping,
                 savers, collections>>

CollectorNext ==
  \/ Start
  \/ CollectBegins
  \/ CollectFails
  \/ CollectEnds
  \/ CleanupOldData
  \/ SaveHistoricalData
  \/ Cancel
  \/ CollectionLoopEnds
  \/ CleanupLoopEnds
  \/ StopBegins
  \/ StopEnds
  \/ Restart
  \/ Second

-----------------------------------------------------------------------------

CollectorTypeOK ==
  /\ \A q \in Query : /\ Len(series[q]) <= MaxDataPoints
                      /\ \A i \in DOMAIN series[q] : series[q][i] \in 1 .. now
                      /\ \A i \in 2 .. Len(series[q]) : series[q][i - 1] <= series[q][i]
  /\ collecting \in {Gone, Waits} \cup 1 .. now
  /\ collections \in 0 .. MaxCollections
  /\ running => ~stopping /\ ~told /\ cleaning /\ (collecting # Gone \/ cancelled)

\* When Stop has returned, the files have every series as it is in memory, and
\* it stays so: nothing that Stop has not waited for can change a series after
\* it has been written, a collection in the middle of its queries included, and
\* it makes no difference that the loop may have ended before Stop, with its
\* context.  The writes succeed: the code ignores their errors.  And nothing is
\* said of a collector that an earlier Init has made, whose saver, which nobody
\* waits for, may still write its own series over the same files.
StoppedIsSaved == ~running /\ ~stopping => files = series

=============================================================================
