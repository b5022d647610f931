----------------------------- MODULE GlobalSearch -----------------------------
(***************************************************************************)
(* internal/views/global_search.go: every change of the text cancels the   *)
(* search before and starts another.  A search asks for seven lists at     *)
(* once, each in a goroutine that sends what matches into one channel; the *)
(* goroutine of the search collects it until the channel is closed, which  *)
(* is when all lists are through, and then queues an update of the list of *)
(* results.  Whether it is cancelled is looked at between two elements and *)
(* nowhere else.  The page around it is left out: a search goes on when a  *)
(* result has been chosen, and Esc cancels it.                             *)
(***************************************************************************)
EXTENDS Integers, Sequences

CONSTANTS
  Text,         \* texts of two letters or more
  Objects,      \* by list, its objects: their names, and by field the texts that are in it
  ChanCap,      \* capacity of the channel: 100 in the code
  MaxSearches   \* bound: searches started

(***************************************************************************)
(* What a text is looked for in, and what it counts there.                 *)
(***************************************************************************)

In(texts, t, points) == IF t \in texts THEN points ELSE 0

JobScore(o, t) ==
  In(o.id, t, 10) + In(o.name, t, 8) + In(o.user, t, 5) + In(o.partition, t, 3) + In(o.state, t, 3)
NodeScore(o, t) ==
  In(o.name, t, 10) + In(o.state, t, 5) + In(o.features, t, 3) + In(o.partitions, t, 3)
PartitionScore(o, t) == In(o.name, t, 10) + In(o.state, t, 5) + In(o.qos, t, 3)
UserScore(o, t) == In(o.name, t, 10) + In(o.defaultAccount, t, 5) + In(o.accounts, t, 3)
ReservationScore(o, t) ==
  In(o.name, t, 10) + In(o.state, t, 5) + In(o.users, t, 3) + In(o.accounts, t, 3)
AccountScore(o, t) ==
  In(o.name, t, 10) + In(o.description, t, 5) + In(o.organization, t, 3) + In(o.parent, t, 3)
QoSScore(o, t) == In(o.name, t, 10) + In(o.preemptMode, t, 5) + In(o.flags, t, 3)

ScoreOf(k, o, t) ==
  CASE k = "jobs" -> JobScore(o, t)
    [] k = "nodes" -> NodeScore(o, t)
    [] k = "partitions" -> PartitionScore(o, t)
    [] k = "users" -> UserScore(o, t)
    [] k = "reservations" -> ReservationScore(o, t)
    [] k = "accounts" -> AccountScore(o, t)
    [] k = "qos" -> QoSScore(o, t)

Lists == DOMAIN Objects

\* Object i of list k as a result for text t.
Result(k, i, t) ==
  [name |-> Objects[k][i].name, score |-> ScoreOf(k, Objects[k][i].holds, t)]

\* The objects of list k that are results for text t.
Matches(k, t) == {i \in DOMAIN Objects[k] : Result(k, i, t).score > 0}

VARIABLES
  searches,  \* every search started
  searching,   \* the search that can be cancelled, or 0
  results,   \* what the list of results shows and Enter chooses from
  from       \* history: the search they are from, or 0

searchVars == <<searches, searching, results, from>>

Init == searches = <<>> /\ searching = 0 /\ results = <<>> /\ from = 0

(***************************************************************************)
(* The text.                                                               *)
(***************************************************************************)

\* cancelSearch: the channel of the search before is closed.
CancelSearch ==
  [s \in DOMAIN searches |->
     IF s = searching THEN [searches[s] EXCEPT !.cancelled = TRUE] ELSE searches[s]]

\* onSearchChange to a text that is too short.
ClearResults ==
  /\ searches' = CancelSearch /\ searching' = 0
  /\ results' = <<>> /\ from' = 0

PerformSearch(t) ==
  [text |-> t, cancelled |-> FALSE, at |-> "collects", got |-> <<>>, channel |-> <<>>,
   lists |-> [k \in Lists |-> [at |-> "asks", left |-> {}]]]

OnSearchChange(t) ==
  /\ Len(searches) < MaxSearches
  /\ searches' = Append(CancelSearch, PerformSearch(t))
  /\ searching' = Len(searches')
  /\ UNCHANGED <<results, from>>

\* Esc.
Close ==
  /\ searches' = CancelSearch /\ searching' = 0
  /\ UNCHANGED <<results, from>>

(***************************************************************************)
(* The goroutine of list k of search s.                                    *)
(***************************************************************************)

Becomes(s, k, list) ==
  /\ searches' = [searches EXCEPT ![s].lists[k] = list]
  /\ UNCHANGED <<searching, results, from>>

\* The select before each element.
Looked(search, left) ==
  [at |-> IF search.cancelled \/ left = {} THEN "done" ELSE "sends", left |-> left]

SearchList(s, k) ==
  /\ searches[s].lists[k].at = "asks"
  /\ Becomes(s, k, Looked(searches[s], Matches(k, searches[s].text)))

\* A mutant: the goroutine of a list that cannot be read is not counted as done.
ListIsForgotten(s, k) ==
  /\ searches[s].lists[k].at = "asks"
  /\ Becomes(s, k, [at |-> "forgotten", left |-> {}])

ListFails(s, k) ==
  /\ searches[s].lists[k].at = "asks"
  /\ Becomes(s, k, [at |-> "failed", left |-> {}])

\* A send waits for room, and for nothing else.
SendsMatch(s, k) ==
  LET search == searches[s]
      left == search.lists[k].left
  IN /\ search.lists[k].at = "sends" /\ Len(search.channel) < ChanCap
     /\ \E i \in left :
          /\ \A j \in left : i <= j
          /\ searches' = [searches EXCEPT
               ![s].channel = Append(search.channel, Result(k, i, search.text)),
               ![s].lists[k] = [at |-> "looks", left |-> left \ {i}]]
     /\ UNCHANGED <<searching, results, from>>

GoesOn(s, k) ==
  /\ searches[s].lists[k].at = "looks"
  /\ Becomes(s, k, Looked(searches[s], searches[s].lists[k].left))

(***************************************************************************)
(* The goroutine of a search.                                              *)
(***************************************************************************)

Through == {"done", "failed"}

\* A mutant: the first list that is through closes the channel.
ClosedByAny(search) == \E k \in Lists : search.lists[k].at \in Through

\* wg.Wait, and close.
Closed(search) == \A k \in Lists : search.lists[k].at \in Through

\* The lists of a search that is left may wait for ever to send, and are not
\* followed any further.
Leaves(search) ==
  [search EXCEPT !.at = "left", !.channel = <<>>, !.got = <<>>,
                 !.lists = [k \in Lists |-> [at |-> "done", left |-> {}]]]

Collect(s) ==
  LET search == searches[s]
  IN /\ search.at = "collects" /\ search.channel # <<>>
     /\ searches' = [searches EXCEPT ![s] =
          IF search.cancelled THEN Leaves(search)
          ELSE [search EXCEPT !.channel = Tail(search.channel),
                              !.got = Append(search.got, Head(search.channel))]]
     /\ UNCHANGED <<searching, results, from>>

CollectEnds(s) ==
  /\ searches[s].at = "collects" /\ searches[s].channel = <<>> /\ Closed(searches[s])
  /\ searches' = [searches EXCEPT ![s].at = "queued"]
  /\ UNCHANGED <<searching, results, from>>

\* The inner loop puts the best of the results from i on at i, by exchanging them.
Exchange(found, i, j) ==
  IF found[j].score > found[i].score
  THEN [found EXCEPT ![i] = found[j], ![j] = found[i]]
  ELSE found

BestAt(found, i) ==
  LET after[j \in i .. Len(found)] == IF j = i THEN found ELSE Exchange(after[j - 1], i, j)
  IN after[Len(found)]

SortResultsByScore(found) ==
  LET after[i \in 0 .. Len(found)] == IF i = 0 THEN found ELSE BestAt(after[i - 1], i)
  IN after[Len(found)]

\* By the goroutine of tview, whether the search has been cancelled or not.
UpdateResultsList(s) ==
  /\ searches[s].at = "queued"
  /\ searches' = [searches EXCEPT ![s].at = "shown", ![s].got = <<>>]
  /\ results' = SortResultsByScore(searches[s].got) /\ from' = s
  /\ UNCHANGED searching

List(s, k) == SearchList(s, k) \/ ListFails(s, k) \/ SendsMatch(s, k) \/ GoesOn(s, k)
Collector(s) == Collect(s) \/ CollectEnds(s) \/ UpdateResultsList(s)

Goroutine ==
  \E s \in DOMAIN searches :
    Collector(s) \/ \E k \in Lists : List(s, k)

SearchNext ==
  \/ ClearResults \/ Close
  \/ \E t \in Text : OnSearchChange(t)
  \/ Goroutine

-----------------------------------------------------------------------------

SearchTypeOK ==
  /\ searching \in 0 .. Len(searches) /\ from \in 0 .. Len(searches)
  /\ \A i \in DOMAIN results : results[i].score > 0
  /\ \A s \in DOMAIN searches :
       /\ searches[s].at \in {"collects", "queued", "shown", "left"}
       /\ searches[s].cancelled \in BOOLEAN /\ (s # searching => searches[s].cancelled)
       /\ Len(searches[s].channel) <= ChanCap
       /\ \A k \in Lists :
            searches[s].lists[k].at \in {"asks", "sends", "looks", "done", "failed"}

\* What a text is looked for in.
Fields ==
  [jobs |-> {"id", "name", "user", "partition", "state"},
   nodes |-> {"name", "state", "features", "partitions"},
   partitions |-> {"name", "state", "qos"},
   users |-> {"name", "defaultAccount", "accounts"},
   reservations |-> {"name", "state", "users", "accounts"},
   accounts |-> {"name", "description", "organization", "parent"},
   qos |-> {"name", "preemptMode", "flags"}]

\* The results of a search that has not been cancelled are all there is in the
\* lists that could be read, the best first: nothing is lost or comes twice on
\* the way through the channel, which is closed only after the last send.
ShownIsComplete ==
  from # 0 /\ ~searches[from].cancelled =>
    LET search == searches[from]
        has(k, i) == \E f \in Fields[k] : search.text \in Objects[k][i].holds[f]
        found == UNION {{Objects[k][i].name : i \in {j \in DOMAIN Objects[k] : has(k, j)}} :
                          k \in {j \in Lists : search.lists[j].at = "done"}}
    IN /\ {results[i].name : i \in DOMAIN results} = found
       /\ \A i, j \in DOMAIN results :
            i < j => results[i] # results[j] /\ results[i].score >= results[j].score

\* The search for the text in the field is answered, unless the text changes or
\* the page is closed: no goroutine waits for one that has gone.
SearchIsShown ==
  \A s \in 1 .. MaxSearches :
    searching = s ~> searching # s \/ searches[s].at = "shown"

=============================================================================
