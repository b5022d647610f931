------------------------- MODULE StreamManagerProofs -------------------------
(***************************************************************************)
(* Theorems about StreamManager, for any keys, files and bounds.           *)
(***************************************************************************)
EXTENDS StreamManager, SequenceTheorems, TLAPS

\* The table leads to a stream of the key it is asked for.
Keyed == \A k \in Key : table[k] # 0 => streams[table[k]].key = k

\* What bounds the goroutines of StopStream bounds both their stages together.
CleanupsBounded == \A k \in Key : cleaning[k] + unsubbing[k] <= MaxCleanups

\* The stream that StartStream is at work on is under its key, since all who
\* would take it away wait for sm.mu, is unknown to the watcher goroutine for
\* the same reason, is not polled yet and has nothing in its buffer before its
\* first read.
StartHoldsTable ==
  /\ starting.stream = 0 => starting.next = "none"
  /\ \A s \in DOMAIN streams : starting.stream = s =>
       /\ table[streams[s].key] = s
       /\ watcher.stream # s
       /\ streams[s].poll = "none"
       /\ starting.next \in {"read", "fetch"} =>
            streams[s].log = <<>> /\ streams[s].offset = streams[s].start
       /\ starting.next = "read" => ~streams[s].remote
       /\ starting.next = "fetch" => streams[s].remote

\* What Close leaves active, the StartStream it has overtaken takes back.
ClosedButStarting ==
  closed => \A k \in Key :
    table[k] # 0 /\ table[k] # starting.stream
      => ~streams[table[k]].active \/ streams[table[k]].remote

\* A stream starts within its file, and at its beginning unless it is local.
StartsInFile ==
  \A s \in DOMAIN streams :
    /\ streams[s].start <= streams[s].offset
    /\ streams[s].start <= size[PathFor(s)]
    /\ streams[s].start # 0 => PathFor(s) \in visible

\* Only what is read over SSH is polled, and a polling goroutine between its two
\* steps holds what follows LastOffset.
Polled ==
  \A s \in DOMAIN streams :
    /\ streams[s].poll # "none" => streams[s].remote
    /\ streams[s].poll = "emit" =>
         /\ streams[s].chunk # <<>>
         /\ streams[s].chunk = Units(streams[s].offset, streams[s].offset + Len(streams[s].chunk))

\* The watcher goroutine between its two steps holds what leads to LastOffset,
\* of a stream that nobody polls.
Watched ==
  watcher.stream > 0 =>
    LET s == watcher.stream IN
    /\ ~streams[s].remote
    /\ watcher.chunk # <<>>
    /\ Len(watcher.chunk) <= streams[s].offset
    /\ watcher.chunk = Units(streams[s].offset - Len(watcher.chunk), streams[s].offset)

\* How far each stream has been emitted: LastOffset but for what is in flight.
Reach == [s \in DOMAIN streams |-> streams[s].offset - Len(InFlight(s))]

\* The output events in queue q are in order, and none is beyond what reach says
\* of its stream.
InOrderUpTo(q, reach) ==
  /\ \A i, j \in DOMAIN q :
       i < j /\ q[i].type = "output" /\ q[j].type = "output" /\ q[i].stream = q[j].stream
         => q[i].upto < q[j].upto
  /\ \A i \in DOMAIN q : /\ q[i].stream \in DOMAIN reach
                         /\ q[i].type = "output" => q[i].upto <= reach[q[i].stream]

\* Whatever waits in a channel was emitted before: what comes next lies beyond.
\* This strengthens OutputInOrder.
Queued == \A c \in DOMAIN chans : InOrderUpTo(chans[c].queue, Reach)

\* The event bus's part of TypeOK.
BusTypeOK ==
  /\ chans \in Seq(Chan) /\ Len(chans) <= MaxChans
  /\ \A c \in DOMAIN chans : Len(chans[c].queue) <= ChanCap
  /\ subscribers \in [Key -> SUBSET DOMAIN chans]

\* The inductive invariant.
IInv ==
  /\ TypeOK
  /\ Keyed
  /\ CleanupsBounded
  /\ StartHoldsTable
  /\ ClosedButStarting
  /\ StartsInFile
  /\ Polled
  /\ Watched
  /\ Queued
  /\ SubscribedIsOpen
  /\ BufferContiguous
  /\ StoppedIsCleanedUp

-----------------------------------------------------------------------------

\* A function on the first n numbers is a sequence.
LEMMA FunctionIsSeq ==
  ASSUME NEW S, NEW n \in Nat, NEW f \in [1 .. n -> S]
  PROVE  f \in Seq(S) /\ Len(f) = n /\ DOMAIN f = 1 .. n
  BY SeqDef, LenProperties

\* The units from one offset to a later one.
LEMMA UnitsProperties ==
  ASSUME NEW a \in Nat, NEW b \in Nat, a <= b
  PROVE  /\ Units(a, b) \in Seq(Nat)
         /\ Len(Units(a, b)) = b - a
         /\ \A i \in 1 .. b - a : Units(a, b)[i] = a + i
         /\ b <= MaxSize => Units(a, b) \in Seq(1 .. MaxSize)
<1>1. b - a \in Nat
  OBVIOUS
<1>2. Units(a, b) \in [1 .. (b - a) -> Nat]
  BY DEF Units
<1>3. b <= MaxSize => Units(a, b) \in [1 .. (b - a) -> 1 .. MaxSize]
  BY StreamManagerAssumption DEF Units
<1>4. \A i \in 1 .. b - a : Units(a, b)[i] = a + i
  BY DEF Units
<1> QED
  BY <1>1, <1>2, <1>3, <1>4, FunctionIsSeq

\* There are no units from an offset to one that is not after it.
LEMMA UnitsEmpty ==
  ASSUME NEW a \in Nat, NEW b \in Nat, b <= a
  PROVE  Units(a, b) = <<>>
<1>1. 1 .. (b - a) = {}
  OBVIOUS
<1>2. Units(a, b) \in [1 .. 0 -> Nat]
  BY <1>1 DEF Units
<1>3. Units(a, b) \in Seq(Nat) /\ Len(Units(a, b)) = 0
  BY <1>2, FunctionIsSeq
<1> QED
  BY <1>3, EmptySeq

\* What follows an offset is appended to what leads to it.
LEMMA UnitsConcat ==
  ASSUME NEW a \in Nat, NEW b \in Nat, NEW c \in Nat, a <= b, b <= c
  PROVE  Units(a, b) \o Units(b, c) = Units(a, c)
<1> DEFINE s == Units(a, b)
           t == Units(b, c)
           u == Units(a, c)
<1>a. s \in Seq(Nat) /\ Len(s) = b - a /\ \A i \in 1 .. b - a : s[i] = a + i
  BY UnitsProperties
<1>b. t \in Seq(Nat) /\ Len(t) = c - b /\ \A i \in 1 .. c - b : t[i] = b + i
  BY UnitsProperties
<1>c. u \in Seq(Nat) /\ Len(u) = c - a /\ \A i \in 1 .. c - a : u[i] = a + i
  <2>1. a <= c
    OBVIOUS
  <2> QED
    BY <2>1, UnitsProperties
<1> HIDE DEF s, t, u
<1>2. /\ s \o t \in Seq(Nat)
      /\ Len(s \o t) = Len(s) + Len(t)
      /\ \A i \in 1 .. Len(s) + Len(t) : (s \o t)[i] = IF i <= Len(s) THEN s[i] ELSE t[i - Len(s)]
  BY <1>a, <1>b, ConcatProperties
<1>3. Len(s \o t) = Len(u)
  BY <1>a, <1>b, <1>c, <1>2
<1>4. ASSUME NEW i \in 1 .. Len(s \o t)
      PROVE  (s \o t)[i] = u[i]
  <2>1. i \in 1 .. c - a /\ u[i] = a + i
    BY <1>a, <1>b, <1>c, <1>2
  <2>2. CASE i <= Len(s)
    BY <2>1, <2>2, <1>a, <1>b, <1>2
  <2>3. CASE ~(i <= Len(s))
    <3>1. i - Len(s) \in 1 .. c - b /\ i \in 1 .. Len(s) + Len(t)
      BY <2>1, <2>3, <1>a, <1>b
    <3>2. t[i - Len(s)] = b + (i - Len(s)) /\ (s \o t)[i] = t[i - Len(s)]
      BY <3>1, <2>3, <1>b, <1>2
    <3> QED
      BY <3>1, <3>2, <2>1, <1>a
  <2> QED
    BY <2>2, <2>3
<1>5. s \o t = u
  BY <1>c, <1>2, <1>3, <1>4, SeqEqual
<1> QED
  BY <1>5 DEF s, t, u

\* The last of some units is the offset they lead to.
LEMMA UnitsLast ==
  ASSUME NEW a \in Nat, NEW b \in Nat, a < b
  PROVE  Units(a, b) # <<>> /\ Units(a, b)[Len(Units(a, b))] = b
<1>1. Len(Units(a, b)) = b - a /\ \A i \in 1 .. b - a : Units(a, b)[i] = a + i
  BY UnitsProperties
<1>2. b - a \in 1 .. b - a /\ a + (b - a) = b /\ b - a # 0
  OBVIOUS
<1>3. Len(<<>>) = 0
  BY EmptySeq
<1> HIDE DEF Units
<1> QED
  BY <1>1, <1>2, <1>3

-----------------------------------------------------------------------------

\* What TypeOK says of the sequences, in terms of their domains.
LEMMA Types ==
  ASSUME TypeOK
  PROVE  /\ Len(streams) \in 0 .. MaxStreams
         /\ DOMAIN streams = 1 .. Len(streams)
         /\ \A s \in DOMAIN streams : streams[s] \in JobStream
         /\ Len(chans) \in Nat
         /\ DOMAIN chans = 1 .. Len(chans)
         /\ \A c \in DOMAIN chans : chans[c] \in Chan
<1>1. streams \in Seq(JobStream) /\ Len(streams) <= MaxStreams /\ MaxStreams \in Nat
  BY StreamManagerAssumption DEF TypeOK
<1>2. chans \in Seq(Chan)
  BY DEF TypeOK
<1>3. /\ Len(streams) \in Nat /\ DOMAIN streams = 1 .. Len(streams)
      /\ \A s \in DOMAIN streams : streams[s] \in JobStream
  BY <1>1, LenProperties, ElementOfSeq
<1>4. /\ Len(chans) \in Nat /\ DOMAIN chans = 1 .. Len(chans)
      /\ \A c \in DOMAIN chans : chans[c] \in Chan
  BY <1>2, LenProperties, ElementOfSeq
<1> QED
  BY <1>1, <1>3, <1>4

\* What waits in the channels.
LEMMA QueueTypes ==
  ASSUME TypeOK
  PROVE  /\ ChanCap \in Nat
         /\ \A c \in DOMAIN chans : /\ chans[c].queue \in Seq(Event)
                                    /\ Len(chans[c].queue) \in Nat
                                    /\ Len(chans[c].queue) <= ChanCap
<1>1. ChanCap \in Nat /\ \A c \in DOMAIN chans : Len(chans[c].queue) <= ChanCap
  BY StreamManagerAssumption DEF TypeOK
<1>2. \A c \in DOMAIN chans : chans[c].queue \in Seq(Event)
  BY Types DEF Chan
<1>3. \A c \in DOMAIN chans : Len(chans[c].queue) \in Nat
  BY <1>2, LenProperties
<1> QED
  BY <1>1, <1>2, <1>3

\* The types of one stream and of its file.
LEMMA StreamTypes ==
  ASSUME TypeOK, NEW s \in DOMAIN streams
  PROVE  /\ streams[s] \in JobStream
         /\ streams[s].key \in Key
         /\ streams[s].active \in BOOLEAN
         /\ streams[s].remote \in BOOLEAN
         /\ streams[s].start \in Nat /\ streams[s].start <= MaxSize
         /\ streams[s].offset \in Nat
         /\ streams[s].log \in Seq(1 .. MaxSize)
         /\ streams[s].poll \in {"none", "wait", "emit", "done"}
         /\ streams[s].chunk \in Seq(1 .. MaxSize)
         /\ Len(streams[s].chunk) \in Nat
         /\ PathFor(s) \in Path
         /\ size[PathFor(s)] \in Nat /\ size[PathFor(s)] <= MaxSize
         /\ MaxSize \in Nat
<1>1. streams[s] \in JobStream
  BY Types
<1>2. PathFor(s) \in Path
  BY <1>1, StreamManagerAssumption DEF JobStream, PathFor
<1> QED
  BY <1>1, <1>2, LenProperties, StreamManagerAssumption DEF JobStream, TypeOK

\* An assignment to one stream leaves the others as they are.
LEMMA Replaced ==
  ASSUME TypeOK, NEW s \in DOMAIN streams, NEW r \in JobStream,
         streams' = [streams EXCEPT ![s] = r]
  PROVE  /\ streams' \in Seq(JobStream)
         /\ Len(streams') = Len(streams)
         /\ DOMAIN streams' = DOMAIN streams
         /\ streams'[s] = r
         /\ \A t \in DOMAIN streams : t # s => streams'[t] = streams[t]
<1> SUFFICES ASSUME streams \in Seq(JobStream), s \in 1 .. Len(streams)
             PROVE  /\ [streams EXCEPT ![s] = r] \in Seq(JobStream)
                    /\ Len([streams EXCEPT ![s] = r]) = Len(streams)
                    /\ \A j \in 1 .. Len(streams) :
                         [streams EXCEPT ![s] = r][j] = IF j = s THEN r ELSE streams[j]
  BY Types, LenProperties DEF TypeOK
<1> QED
  BY ExceptSeq

-----------------------------------------------------------------------------

\* A queue stays in order when what has been emitted grows.
LEMMA QueueKept ==
  ASSUME NEW q \in Seq(Event), NEW f, NEW g, InOrderUpTo(q, f),
         DOMAIN f \subseteq DOMAIN g,
         \A s \in DOMAIN f : f[s] \in Int /\ g[s] \in Int /\ f[s] <= g[s]
  PROVE  InOrderUpTo(q, g)
<1>1. DOMAIN q = 1 .. Len(q) /\ \A i \in DOMAIN q : q[i] \in Event
  BY LenProperties, ElementOfSeq
<1>2. ASSUME NEW i \in DOMAIN q, q[i].type = "output"
      PROVE  q[i].upto <= g[q[i].stream]
  <2>1. q[i].upto \in Nat /\ q[i].stream \in DOMAIN f /\ q[i].upto <= f[q[i].stream]
    BY <1>1, <1>2 DEF Event, InOrderUpTo
  <2> QED
    BY <2>1
<1> QED
  BY <1>2 DEF InOrderUpTo

\* It stays so when an event is appended: an output event must lie beyond what
\* has been emitted, and not beyond what has been now.
LEMMA QueueAppended ==
  ASSUME NEW q \in Seq(Event), NEW f, NEW g, NEW e \in Event, InOrderUpTo(q, f),
         DOMAIN f \subseteq DOMAIN g,
         \A s \in DOMAIN f : f[s] \in Int /\ g[s] \in Int /\ f[s] <= g[s],
         e.stream \in DOMAIN g,
         e.type = "output" => /\ e.stream \in DOMAIN f => f[e.stream] < e.upto
                              /\ e.upto <= g[e.stream]
  PROVE  InOrderUpTo(Append(q, e), g)
<1> DEFINE p == Append(q, e)
<1>1. /\ Len(q) \in Nat /\ DOMAIN q = 1 .. Len(q)
      /\ \A i \in DOMAIN q : q[i] \in Event
  BY LenProperties, ElementOfSeq
<1>2. p \in Seq(Event) /\ Len(p) = Len(q) + 1
  BY AppendProperties
<1>3. DOMAIN p = 1 .. Len(q) + 1
  BY <1>2, LenProperties
<1>4. p[Len(q) + 1] = e /\ \A i \in DOMAIN q : p[i] = q[i]
  BY <1>1, AppendProperties
<1> HIDE DEF p
<1>5. InOrderUpTo(q, g)
  BY QueueKept
<1>6. ASSUME NEW i \in DOMAIN q, q[i].type = "output", e.type = "output", q[i].stream = e.stream
      PROVE  q[i].upto < e.upto
  <2>1. q[i].stream \in DOMAIN f /\ q[i].upto <= f[q[i].stream] /\ q[i].upto \in Nat
    BY <1>1, <1>6 DEF InOrderUpTo, Event
  <2>2. e.upto \in Nat
    BY DEF Event
  <2> QED
    BY <2>1, <2>2, <1>6
<1>7. ASSUME NEW i \in DOMAIN p
      PROVE  /\ p[i].stream \in DOMAIN g
             /\ p[i].type = "output" => p[i].upto <= g[p[i].stream]
  <2>1. CASE i \in DOMAIN q
    BY <2>1, <1>4, <1>5 DEF InOrderUpTo
  <2>2. CASE i = Len(q) + 1
    BY <2>2, <1>4
  <2> QED
    BY <2>1, <2>2, <1>1, <1>3
<1>8. ASSUME NEW i \in DOMAIN p, NEW j \in DOMAIN p, i < j, p[i].type = "output",
             p[j].type = "output", p[i].stream = p[j].stream
      PROVE  p[i].upto < p[j].upto
  <2>1. i \in DOMAIN q
    BY <1>1, <1>3, <1>8
  <2>2. CASE j \in DOMAIN q
    BY <2>1, <2>2, <1>4, <1>5, <1>8 DEF InOrderUpTo
  <2>3. CASE j = Len(q) + 1
    BY <2>1, <2>3, <1>4, <1>6, <1>8
  <2> QED
    BY <2>2, <2>3, <1>1, <1>3
<1>9. InOrderUpTo(p, g)
  BY <1>7, <1>8 DEF InOrderUpTo
<1> QED
  BY <1>9 DEF p

\* And it stays so when the first event is taken.
LEMMA QueueTaken ==
  ASSUME NEW q \in Seq(Event), NEW f, InOrderUpTo(q, f), q # <<>>
  PROVE  InOrderUpTo(Tail(q), f)
<1> DEFINE p == Tail(q)
<1>1. Len(q) \in Nat /\ DOMAIN q = 1 .. Len(q)
  BY LenProperties
<1>2. p \in Seq(Event) /\ Len(p) = Len(q) - 1 /\ \A i \in 1 .. Len(p) : p[i] = q[i + 1]
  BY HeadTailProperties
<1>3. DOMAIN p = 1 .. Len(q) - 1
  BY <1>2, LenProperties
<1> HIDE DEF p
<1>4. \A i \in DOMAIN p : i \in Int /\ i + 1 \in DOMAIN q /\ p[i] = q[i + 1]
  BY <1>1, <1>2, <1>3
<1>5. ASSUME NEW i \in DOMAIN p, NEW j \in DOMAIN p, i < j, p[i].type = "output",
             p[j].type = "output", p[i].stream = p[j].stream
      PROVE  p[i].upto < p[j].upto
  <2>1. i + 1 < j + 1
    BY <1>4, <1>5
  <2> QED
    BY <2>1, <1>4, <1>5 DEF InOrderUpTo
<1>6. InOrderUpTo(p, f)
  BY <1>4, <1>5 DEF InOrderUpTo
<1> QED
  BY <1>6 DEF p

-----------------------------------------------------------------------------

\* What is emitted is at least nothing.
LEMMA ReachTypes ==
  ASSUME TypeOK
  PROVE  DOMAIN Reach = DOMAIN streams /\ \A s \in DOMAIN streams : Reach[s] \in Int
<1> SUFFICES ASSUME NEW s \in DOMAIN streams
             PROVE  streams[s].offset - Len(InFlight(s)) \in Int
  BY DEF Reach
<1>1. watcher.chunk \in Seq(1 .. MaxSize)
  BY DEF TypeOK
<1>2. InFlight(s) \in Seq(1 .. MaxSize)
  BY <1>1, EmptySeq DEF InFlight
<1> QED
  BY <1>2, LenProperties, StreamTypes

\* Steps that leave the streams and the watcher goroutine as they are.
LEMMA ReachKept ==
  ASSUME UNCHANGED <<streams, watcher>>
  PROVE  Reach' = Reach
  BY DEF Reach, InFlight

\* A change of the records in chans: their keys stay.
LEMMA ChansChanged ==
  ASSUME TypeOK,
         DOMAIN chans' = DOMAIN chans,
         chans' = [c \in DOMAIN chans |-> chans'[c]],
         \A c \in DOMAIN chans : chans'[c] \in Chan
  PROVE  chans' \in Seq(Chan) /\ Len(chans') = Len(chans)
<1>1. Len(chans) \in Nat /\ DOMAIN chans = 1 .. Len(chans)
  BY Types
<1>2. chans' \in [1 .. Len(chans) -> Chan]
  BY <1>1
<1> QED
  BY <1>1, <1>2, FunctionIsSeq

\* The queues of some channels change, within their capacity and in order.
LEMMA QueuesChanged ==
  ASSUME IInv, subscribers' = subscribers, DOMAIN chans' = DOMAIN chans,
         chans' = [c \in DOMAIN chans |-> chans'[c]],
         \A c \in DOMAIN chans :
           \/ chans'[c] = chans[c] /\ InOrderUpTo(chans[c].queue, Reach')
           \/ \E q \in Seq(Event) : /\ chans'[c] = [chans[c] EXCEPT !.queue = q]
                                    /\ Len(q) <= ChanCap
                                    /\ InOrderUpTo(q, Reach')
  PROVE  BusTypeOK' /\ SubscribedIsOpen' /\ Queued'
<1> USE DEF IInv
<1>1. ASSUME NEW c \in DOMAIN chans
      PROVE  /\ chans'[c] \in Chan
             /\ chans'[c].key = chans[c].key /\ chans'[c].open = chans[c].open
             /\ Len(chans'[c].queue) <= ChanCap
             /\ InOrderUpTo(chans'[c].queue, Reach')
  <2>1. chans[c] \in Chan /\ Len(chans[c].queue) <= ChanCap
    BY Types, QueueTypes
  <2>2. CASE chans'[c] = chans[c] /\ InOrderUpTo(chans[c].queue, Reach')
    BY <2>1, <2>2
  <2>3. ASSUME NEW q \in Seq(Event), chans'[c] = [chans[c] EXCEPT !.queue = q],
               Len(q) <= ChanCap, InOrderUpTo(q, Reach')
        PROVE  /\ chans'[c] \in Chan
               /\ chans'[c].key = chans[c].key /\ chans'[c].open = chans[c].open
               /\ chans'[c].queue = q
    BY <2>1, <2>3 DEF Chan
  <2> QED
    BY <2>2, <2>3
<1>2. chans' \in Seq(Chan) /\ Len(chans') = Len(chans)
  BY <1>1, ChansChanged
<1>3. BusTypeOK'
  BY <1>1, <1>2 DEF BusTypeOK, TypeOK
<1>4. SubscribedIsOpen'
  BY <1>1 DEF SubscribedIsOpen, TypeOK
<1> QED
  BY <1>1, <1>3, <1>4 DEF Queued

\* An event is published: who is subscribed has it, or had no room for it.
LEMMA Published ==
  ASSUME IInv, NEW k \in Key, NEW e \in Event, Publish(k, e),
         DOMAIN Reach \subseteq DOMAIN Reach',
         \A s \in DOMAIN Reach : Reach'[s] \in Int /\ Reach[s] <= Reach'[s],
         e.stream \in DOMAIN Reach',
         e.type = "output" => /\ e.stream \in DOMAIN Reach => Reach[e.stream] < e.upto
                              /\ e.upto <= Reach'[e.stream]
  PROVE  BusTypeOK' /\ SubscribedIsOpen' /\ Queued'
<1> USE DEF IInv
<1> DEFINE sent(c) == c \in subscribers[k] /\ Len(chans[c].queue) < ChanCap
<1>1. /\ subscribers' = subscribers
      /\ chans' = [c \in DOMAIN chans |->
                     IF sent(c) THEN [chans[c] EXCEPT !.queue = Append(@, e)] ELSE chans[c]]
  BY DEF Publish
<1>2. DOMAIN chans' = DOMAIN chans /\ chans' = [c \in DOMAIN chans |-> chans'[c]]
  BY <1>1
<1>3. ASSUME NEW c \in DOMAIN chans
      PROVE  \/ chans'[c] = chans[c] /\ InOrderUpTo(chans[c].queue, Reach')
             \/ \E q \in Seq(Event) : /\ chans'[c] = [chans[c] EXCEPT !.queue = q]
                                      /\ Len(q) <= ChanCap
                                      /\ InOrderUpTo(q, Reach')
  <2>1. /\ chans[c].queue \in Seq(Event) /\ Len(chans[c].queue) \in Nat /\ ChanCap \in Nat
        /\ InOrderUpTo(chans[c].queue, Reach)
    BY QueueTypes DEF Queued
  <2>2. \A s \in DOMAIN Reach : Reach[s] \in Int
    BY ReachTypes
  <2>3. CASE sent(c)
    <3> DEFINE q == Append(chans[c].queue, e)
    <3>1. InOrderUpTo(q, Reach')
      BY <2>1, <2>2, QueueAppended
    <3>2. q \in Seq(Event) /\ Len(q) = Len(chans[c].queue) + 1
      BY <2>1, AppendProperties
    <3>3. Len(q) <= ChanCap
      BY <2>1, <2>3, <3>2
    <3>4. chans'[c] = [chans[c] EXCEPT !.queue = q]
      BY <1>1, <2>3
    <3> HIDE DEF q
    <3> QED
      BY <3>1, <3>2, <3>3, <3>4
  <2>4. CASE ~sent(c)
    <3>1. InOrderUpTo(chans[c].queue, Reach')
      BY <2>1, <2>2, QueueKept
    <3>2. chans'[c] = chans[c]
      BY <1>1, <2>4
    <3> QED
      BY <3>1, <3>2
  <2> QED
    BY <2>3, <2>4
<1> QED
  BY <1>1, <1>2, <1>3, QueuesChanged

\* Nothing is published.
LEMMA NotPublished ==
  ASSUME IInv, UNCHANGED busVars,
         DOMAIN Reach \subseteq DOMAIN Reach',
         \A s \in DOMAIN Reach : Reach'[s] \in Int /\ Reach[s] <= Reach'[s]
  PROVE  BusTypeOK' /\ SubscribedIsOpen' /\ Queued'
<1> USE DEF IInv
<1>1. BusTypeOK' /\ SubscribedIsOpen'
  BY DEF BusTypeOK, SubscribedIsOpen, TypeOK, busVars
<1>2. Queued'
  <2> SUFFICES ASSUME NEW c \in DOMAIN chans
               PROVE  InOrderUpTo(chans[c].queue, Reach')
    BY DEF Queued, busVars
  <2>1. chans[c].queue \in Seq(Event) /\ InOrderUpTo(chans[c].queue, Reach)
    BY Types DEF Chan, Queued
  <2>2. \A s \in DOMAIN Reach : Reach[s] \in Int
    BY ReachTypes
  <2> QED
    BY <2>1, <2>2, QueueKept
<1> QED
  BY <1>1, <1>2

-----------------------------------------------------------------------------

\* A step of the other components of the state in which neither streams nor
\* watcher change: what follows from what it does to the rest.
LEMMA StreamsKept ==
  ASSUME IInv, UNCHANGED <<streams, watcher>>, TypeOK',
         \A p \in Path : size[p] <= size'[p], visible \subseteq visible'
  PROVE  StartsInFile' /\ Polled' /\ Watched' /\ BufferContiguous'
<1> USE DEF IInv
<1>1. Polled' /\ Watched' /\ BufferContiguous'
  BY DEF Polled, Watched, BufferContiguous, InFlight
<1>2. StartsInFile'
  <2> SUFFICES ASSUME NEW s \in DOMAIN streams
               PROVE  /\ streams[s].start <= streams[s].offset
                      /\ streams[s].start <= size'[PathFor(s)]
                      /\ streams[s].start # 0 => PathFor(s) \in visible'
    BY DEF StartsInFile, PathFor
  <2>1. /\ PathFor(s) \in Path /\ streams[s].start \in Nat /\ size[PathFor(s)] \in Nat
        /\ size'[PathFor(s)] \in Nat
    BY StreamTypes DEF TypeOK
  <2>2. size[PathFor(s)] <= size'[PathFor(s)]
    BY <2>1
  <2> QED
    BY <2>1, <2>2 DEF StartsInFile
<1> QED
  BY <1>1, <1>2

\* Steps that have to do with the event bus alone.
LEMMA BusStep ==
  ASSUME IInv, UNCHANGED <<fileVars, streams, table, starting, watcher, cleanupVars, ctxDone, closed>>,
         BusTypeOK', SubscribedIsOpen', Queued'
  PROVE  IInv'
<1> USE DEF IInv
<1>1. TypeOK'
  BY DEF TypeOK, BusTypeOK, fileVars, cleanupVars
<1>2. StartsInFile' /\ Polled' /\ Watched' /\ BufferContiguous'
  <2>1. \A p \in Path : size[p] <= size'[p]
    BY DEF TypeOK, fileVars
  <2> QED
    BY <1>1, <2>1, StreamsKept DEF fileVars
<1>3. Keyed' /\ CleanupsBounded' /\ StartHoldsTable' /\ ClosedButStarting' /\ StoppedIsCleanedUp'
  BY DEF Keyed, CleanupsBounded, StartHoldsTable, ClosedButStarting, StoppedIsCleanedUp, cleanupVars
<1> QED
  BY <1>1, <1>2, <1>3

\* Subscribe: the new channel is open and is under its own key alone.
LEMMA SubscribeStep ==
  ASSUME IInv, NEW k \in Key, Subscribe(k)
  PROVE  IInv'
<1> USE DEF IInv
<1> DEFINE new == [key |-> k, open |-> TRUE, queue |-> <<>>]
<1>1. /\ Len(chans) < MaxChans
      /\ chans' = Append(chans, new)
      /\ subscribers' = [subscribers EXCEPT ![k] = @ \cup {Len(chans) + 1}]
  BY DEF Subscribe
<1>2. new \in Chan /\ new.key = k /\ new.open /\ new.queue = <<>>
  BY DEF Chan
<1> HIDE DEF new
<1>3. chans \in Seq(Chan) /\ Len(chans) \in Nat /\ DOMAIN chans = 1 .. Len(chans)
  BY Types DEF TypeOK
<1>4. /\ chans' \in Seq(Chan) /\ Len(chans') = Len(chans) + 1
      /\ \A c \in 1 .. Len(chans) : chans'[c] = chans[c]
      /\ chans'[Len(chans) + 1] = new
  BY <1>1, <1>2, <1>3, AppendProperties
<1>5. DOMAIN chans' = 1 .. Len(chans) + 1
  BY <1>4, LenProperties
<1>6. \A c \in DOMAIN chans' : c \in DOMAIN chans \/ c = Len(chans) + 1
  BY <1>3, <1>5
<1>7. BusTypeOK'
  <2>1. Len(chans') <= MaxChans
    BY <1>1, <1>3, <1>4, StreamManagerAssumption
  <2>2. \A c \in DOMAIN chans' : Len(chans'[c].queue) <= ChanCap
    <3>1. Len(new.queue) = 0 /\ 0 <= ChanCap
      BY <1>2, EmptySeq, QueueTypes
    <3> QED
      BY <3>1, <1>3, <1>4, <1>6, QueueTypes
  <2>3. subscribers' \in [Key -> SUBSET DOMAIN chans']
    BY <1>1, <1>3, <1>5 DEF TypeOK
  <2> QED
    BY <1>4, <2>1, <2>2, <2>3 DEF BusTypeOK
<1>8. SubscribedIsOpen'
  <2> SUFFICES ASSUME NEW j \in Key, NEW c \in subscribers'[j]
               PROVE  chans'[c].open /\ chans'[c].key = j
    BY DEF SubscribedIsOpen
  <2>1. CASE c \in subscribers[j]
    <3>1. c \in DOMAIN chans /\ chans[c].open /\ chans[c].key = j
      BY <2>1 DEF TypeOK, SubscribedIsOpen
    <3> QED
      BY <3>1, <1>3, <1>4
  <2>2. CASE c \notin subscribers[j]
    <3>1. j = k /\ c = Len(chans) + 1
      BY <2>2, <1>1 DEF TypeOK
    <3> QED
      BY <3>1, <1>2, <1>4
  <2> QED
    BY <2>1, <2>2
<1>9. Queued'
  <2>1. Reach' = Reach
    BY ReachKept DEF Subscribe
  <2>2. InOrderUpTo(new.queue, Reach)
    BY <1>2 DEF InOrderUpTo
  <2>3. \A c \in DOMAIN chans' : InOrderUpTo(chans'[c].queue, Reach)
    BY <2>2, <1>3, <1>4, <1>6 DEF Queued
  <2> QED
    BY <2>1, <2>3 DEF Queued
<1> QED
  BY <1>7, <1>8, <1>9, BusStep DEF Subscribe

\* Channels are closed whose numbers are then under no key.
LEMMA Closing ==
  ASSUME IInv, NEW cs, CloseChans(cs), subscribers' \in [Key -> SUBSET DOMAIN chans],
         \A k \in Key : subscribers'[k] \subseteq subscribers[k] \ cs,
         UNCHANGED watcher, DOMAIN streams' = DOMAIN streams,
         \A s \in DOMAIN streams : streams'[s].offset = streams[s].offset
  PROVE  BusTypeOK' /\ SubscribedIsOpen' /\ Queued'
<1> USE DEF IInv
<1>1. chans' = [c \in DOMAIN chans |-> IF c \in cs THEN [chans[c] EXCEPT !.open = FALSE] ELSE chans[c]]
  BY DEF CloseChans
<1>2. \A c \in DOMAIN chans : chans[c] \in Chan
  BY Types
<1>3. \A c \in DOMAIN chans :
        /\ chans'[c] \in Chan /\ chans'[c].queue = chans[c].queue /\ chans'[c].key = chans[c].key
        /\ c \notin cs => chans'[c].open = chans[c].open
  BY <1>1, <1>2 DEF Chan
<1>4. DOMAIN chans' = DOMAIN chans /\ chans' = [c \in DOMAIN chans |-> chans'[c]]
  BY <1>1
<1>5. chans' \in Seq(Chan) /\ Len(chans') = Len(chans)
  BY <1>3, <1>4, ChansChanged
<1>6. BusTypeOK'
  BY <1>3, <1>4, <1>5 DEF BusTypeOK, TypeOK
<1>7. SubscribedIsOpen'
  BY <1>3 DEF SubscribedIsOpen, TypeOK
<1>8. Reach' = Reach
  BY DEF Reach, InFlight
<1>9. Queued'
  BY <1>3, <1>4, <1>8 DEF Queued
<1> QED
  BY <1>6, <1>7, <1>9

\* UnsubscribeAll closes the channels of one key; they are under no other key.
LEMMA UnsubscribedAll ==
  ASSUME IInv, NEW k \in Key, UnsubscribeAll(k), UNCHANGED <<streams, watcher>>
  PROVE  BusTypeOK' /\ SubscribedIsOpen' /\ Queued'
<1> USE DEF IInv
<1>1. CloseChans(subscribers[k]) /\ subscribers' = [subscribers EXCEPT ![k] = {}]
  BY DEF UnsubscribeAll
<1>2. subscribers' \in [Key -> SUBSET DOMAIN chans]
  BY <1>1 DEF TypeOK
<1>3. ASSUME NEW j \in Key
      PROVE  subscribers'[j] \subseteq subscribers[j] \ subscribers[k]
  <2>1. CASE j = k
    BY <2>1, <1>1 DEF TypeOK
  <2>2. CASE j # k
    <3>1. subscribers'[j] = subscribers[j]
      BY <2>2, <1>1 DEF TypeOK
    <3>2. \A c \in subscribers[j] : c \notin subscribers[k]
      BY <2>2 DEF SubscribedIsOpen
    <3> QED
      BY <3>1, <3>2
  <2> QED
    BY <2>1, <2>2
<1> QED
  BY <1>1, <1>2, <1>3, Closing

\* Unsubscribe.
LEMMA UnsubscribeStep ==
  ASSUME IInv, NEW k \in Key, Unsubscribe(k)
  PROVE  IInv'
  BY UnsubscribedAll, BusStep DEF Unsubscribe

\* The subscriber takes an event.
LEMMA ReceiveStep ==
  ASSUME IInv, NEW c \in DOMAIN chans, Receive(c)
  PROVE  IInv'
<1> USE DEF IInv
<1> DEFINE r == [chans[c] EXCEPT !.queue = Tail(@)]
<1>1. chans' = [chans EXCEPT ![c] = r] /\ chans[c].queue # <<>> /\ subscribers' = subscribers
  BY DEF Receive
<1>2. chans[c] \in Chan /\ chans[c].queue \in Seq(Event)
  BY Types DEF Chan
<1>3. /\ Tail(chans[c].queue) \in Seq(Event)
      /\ Len(Tail(chans[c].queue)) = Len(chans[c].queue) - 1
      /\ Len(chans[c].queue) \in Nat
  BY <1>1, <1>2, HeadTailProperties, LenProperties
<1>4. /\ r \in Chan /\ r.key = chans[c].key /\ r.open = chans[c].open
      /\ r.queue = Tail(chans[c].queue)
  BY <1>2, <1>3 DEF Chan
<1> HIDE DEF r
<1>5. DOMAIN chans' = DOMAIN chans /\ chans' = [d \in DOMAIN chans |-> chans'[d]]
  BY <1>1
<1>6. chans'[c] = r /\ \A d \in DOMAIN chans : d # c => chans'[d] = chans[d]
  BY <1>1
<1>7. chans' \in Seq(Chan) /\ Len(chans') = Len(chans)
  BY <1>4, <1>5, <1>6, Types, ChansChanged
<1>8. BusTypeOK'
  <2>1. \A d \in DOMAIN chans : Len(chans'[d].queue) <= ChanCap
    <3>1. Len(r.queue) <= ChanCap
      BY <1>3, <1>4, QueueTypes
    <3> QED
      BY <3>1, <1>6, QueueTypes
  <2> QED
    BY <2>1, <1>1, <1>5, <1>7 DEF BusTypeOK, TypeOK
<1>9. SubscribedIsOpen'
  BY <1>1, <1>4, <1>6 DEF SubscribedIsOpen, TypeOK
<1>10. Queued'
  <2>1. Reach' = Reach
    BY ReachKept DEF Receive
  <2>2. InOrderUpTo(r.queue, Reach)
    BY <1>1, <1>2, <1>4, QueueTaken DEF Queued
  <2> QED
    BY <2>1, <2>2, <1>5, <1>6 DEF Queued
<1> QED
  BY <1>8, <1>9, <1>10, BusStep DEF Receive

\* The job writes: files only grow, and only appear.
LEMMA WriteStep ==
  ASSUME IInv, NEW p \in Path, Write(p)
  PROVE  IInv'
<1> USE DEF IInv
<1>1. UNCHANGED <<watched, streams, table, starting, watcher, cleanupVars, ctxDone, closed, busVars>>
  BY DEF Write
<1>2. TypeOK'
  <2>1. size' \in [Path -> 0 .. MaxSize]
    BY StreamManagerAssumption DEF Write, TypeOK
  <2>2. visible' \subseteq Path /\ visible \subseteq visible'
    BY DEF Write, TypeOK
  <2>3. fsEvents' \subseteq visible'
    BY <2>2 DEF Write, TypeOK
  <2> QED
    BY <1>1, <2>1, <2>2, <2>3 DEF TypeOK, cleanupVars, busVars
<1>3. \A q \in Path : size[q] <= size'[q]
  BY DEF Write, TypeOK
<1>4. visible \subseteq visible'
  BY DEF Write
<1>5. StartsInFile' /\ Polled' /\ Watched' /\ BufferContiguous'
  BY <1>1, <1>2, <1>3, <1>4, StreamsKept
<1>6. BusTypeOK' /\ SubscribedIsOpen' /\ Queued'
  <2>1. Reach' = Reach
    BY <1>1, ReachKept
  <2>2. \A s \in DOMAIN Reach : Reach'[s] \in Int /\ Reach[s] <= Reach'[s]
    BY <2>1, ReachTypes
  <2> QED
    BY <1>1, <2>1, <2>2, NotPublished
<1>7. Keyed' /\ CleanupsBounded' /\ StartHoldsTable' /\ ClosedButStarting' /\ StoppedIsCleanedUp'
  BY <1>1 DEF Keyed, CleanupsBounded, StartHoldsTable, ClosedButStarting, StoppedIsCleanedUp, cleanupVars
<1> QED
  BY <1>2, <1>5, <1>6, <1>7

-----------------------------------------------------------------------------

\* What is in flight for a stream is a sequence of units, of one stream at most.
LEMMA InFlightTypes ==
  ASSUME TypeOK, NEW s \in DOMAIN streams
  PROVE  /\ InFlight(s) \in Seq(1 .. MaxSize)
         /\ Len(InFlight(s)) \in Nat
         /\ watcher.stream # s => InFlight(s) = <<>>
         /\ Reach[s] = streams[s].offset - Len(InFlight(s))
         /\ watcher.stream # s => Reach[s] = streams[s].offset
<1>1. watcher.chunk \in Seq(1 .. MaxSize)
  BY DEF TypeOK
<1>2. /\ InFlight(s) \in Seq(1 .. MaxSize)
      /\ watcher.stream # s => InFlight(s) = <<>>
  BY <1>1, EmptySeq DEF InFlight
<1>3. Len(InFlight(s)) \in Nat /\ Len(<<>>) = 0
  BY <1>2, LenProperties, EmptySeq
<1>4. Reach[s] = streams[s].offset - Len(InFlight(s))
  BY DEF Reach
<1> QED
  BY <1>2, <1>3, <1>4, StreamTypes

\* The watcher goroutine has content of a stream that exists.
LEMMA WatcherTypes ==
  ASSUME TypeOK, watcher.stream > 0
  PROVE  watcher.stream \in DOMAIN streams /\ watcher.chunk \in Seq(1 .. MaxSize)
  BY Types DEF TypeOK

\* The events that are published are events.
LEMMA EventTypes ==
  ASSUME TypeOK, NEW s \in DOMAIN streams
  PROVE  /\ \A n \in Nat : Output(s, n) \in Event
         /\ [type |-> "start", stream |-> s, upto |-> 0] \in Event
         /\ [type |-> "stop", stream |-> s, upto |-> 0] \in Event
<1>1. s \in 1 .. MaxStreams
  BY Types, StreamManagerAssumption
<1> QED
  BY <1>1 DEF Output, Event

\* The record of one stream changes: what has to be shown of the new one.
LEMMA StreamChanged ==
  ASSUME IInv, NEW s \in DOMAIN streams, NEW r \in JobStream,
         streams' = [streams EXCEPT ![s] = r],
         UNCHANGED <<size, visible>>,
         r.key = streams[s].key, r.start = streams[s].start, r.start <= r.offset,
         \A t \in DOMAIN streams : t # s => InFlight(t)' = InFlight(t),
         r.poll # "none" => r.remote,
         r.poll = "emit" => /\ r.chunk # <<>>
                            /\ r.chunk = Units(r.offset, r.offset + Len(r.chunk)),
         r.start = 0 \/ ~r.remote => r.log \o InFlight(s)' = Units(r.start, r.offset)
  PROVE  /\ StartsInFile' /\ Polled' /\ BufferContiguous'
         /\ \A t \in DOMAIN streams : streams'[t].key = streams[t].key
<1> USE DEF IInv
<1>1. /\ DOMAIN streams' = DOMAIN streams
      /\ streams'[s] = r
      /\ \A t \in DOMAIN streams : t # s => streams'[t] = streams[t]
  BY Replaced
<1>2. \A t \in DOMAIN streams : streams'[t].key = streams[t].key
  BY <1>1
<1>3. \A t \in DOMAIN streams : PathFor(t)' = PathFor(t)
  BY <1>2 DEF PathFor
<1>4. StartsInFile'
  BY <1>1, <1>3 DEF StartsInFile
<1>5. Polled'
  BY <1>1 DEF Polled
<1>6. BufferContiguous'
  BY <1>1 DEF BufferContiguous
<1> QED
  BY <1>2, <1>4, <1>5, <1>6

\* The same for how far the streams have been emitted.
LEMMA ReachChanged ==
  ASSUME IInv, NEW s \in DOMAIN streams, NEW r \in JobStream,
         streams' = [streams EXCEPT ![s] = r],
         \A t \in DOMAIN streams : t # s => InFlight(t)' = InFlight(t),
         NEW n \in Int, r.offset - Len(InFlight(s)') = n, Reach[s] <= n
  PROVE  /\ DOMAIN Reach = DOMAIN streams /\ DOMAIN Reach' = DOMAIN Reach
         /\ Reach'[s] = n
         /\ \A t \in DOMAIN Reach : Reach'[t] \in Int /\ Reach[t] <= Reach'[t]
<1> USE DEF IInv
<1>1. /\ DOMAIN streams' = DOMAIN streams
      /\ streams'[s] = r
      /\ \A t \in DOMAIN streams : t # s => streams'[t] = streams[t]
  BY Replaced
<1>2. DOMAIN Reach = DOMAIN streams /\ \A t \in DOMAIN streams : Reach[t] \in Int
  BY ReachTypes
<1>3. /\ DOMAIN Reach' = DOMAIN streams
      /\ \A t \in DOMAIN streams : Reach'[t] = streams'[t].offset - Len(InFlight(t)')
  BY <1>1 DEF Reach
<1>4. \A t \in DOMAIN streams : t # s => Reach'[t] = Reach[t]
  BY <1>1, <1>3 DEF Reach
<1>5. Reach'[s] = n
  BY <1>1, <1>3
<1> QED
  BY <1>2, <1>3, <1>4, <1>5

\* The watcher goroutine's content stays what it was.
LEMMA WatchedKept ==
  ASSUME IInv, UNCHANGED watcher, DOMAIN streams' = DOMAIN streams,
         watcher.stream > 0 =>
           LET s == watcher.stream IN
           streams'[s].offset = streams[s].offset /\ streams'[s].remote = streams[s].remote
  PROVE  Watched'
  BY DEF IInv, Watched

\* What depends on table, starting and the state of a stream, when only records
\* of streams change, and only in what is not told here.
LEMMA TableKept ==
  ASSUME IInv, UNCHANGED <<table, starting, watcher, cleanupVars, closed>>,
         DOMAIN streams' = DOMAIN streams,
         \A t \in DOMAIN streams :
           /\ streams'[t].key = streams[t].key
           /\ streams'[t].active = streams[t].active
           /\ streams'[t].remote = streams[t].remote
           /\ t = starting.stream => streams'[t] = streams[t]
  PROVE  Keyed' /\ CleanupsBounded' /\ StartHoldsTable' /\ ClosedButStarting' /\ StoppedIsCleanedUp'
<1> USE DEF IInv
<1>1. \A k \in Key : table[k] # 0 => table[k] \in DOMAIN streams
  BY Types DEF TypeOK
<1>2. Keyed' /\ CleanupsBounded' /\ ClosedButStarting' /\ StoppedIsCleanedUp'
  BY <1>1 DEF Keyed, CleanupsBounded, ClosedButStarting, StoppedIsCleanedUp, cleanupVars
<1>3. StartHoldsTable'
  BY DEF StartHoldsTable
<1> QED
  BY <1>2, <1>3

-----------------------------------------------------------------------------

\* What is known of the stream that StartStream is at work on.
LEMMA StartingStream ==
  ASSUME IInv, NEW s \in DOMAIN streams, starting.stream = s
  PROVE  /\ ~muFree
         /\ table[streams[s].key] = s
         /\ watcher.stream # s /\ InFlight(s) = <<>> /\ Reach[s] = streams[s].offset
         /\ streams[s].poll = "none"
         /\ starting.next \in {"read", "fetch"} =>
              streams[s].log = <<>> /\ streams[s].offset = streams[s].start
<1>1. s # 0
  BY Types DEF IInv
<1> QED
  BY <1>1, InFlightTypes DEF IInv, StartHoldsTable, muFree, NotStarting

\* StartStream makes a stream and enters it in the table, under sm.mu.
LEMMA StartStreamStep ==
  ASSUME IInv, NEW k \in Key, StartStream(k)
  PROVE  IInv'
<1> USE DEF IInv
<1> DEFINE n == Len(streams) + 1
           at == LocalSize(PathOf[k])
<1>1. PICK remote \in BOOLEAN :
        /\ streams' = Append(streams, [key |-> k, active |-> TRUE, remote |-> remote, start |-> at,
                                       offset |-> at, log |-> <<>>, poll |-> "none", chunk |-> <<>>])
        /\ starting' = [stream |-> n, next |-> IF remote THEN "fetch" ELSE "read"]
  BY DEF StartStream
<1> DEFINE new == [key |-> k, active |-> TRUE, remote |-> remote, start |-> at,
                   offset |-> at, log |-> <<>>, poll |-> "none", chunk |-> <<>>]
<1>2. /\ muFree /\ Len(streams) < MaxStreams
      /\ table' = [table EXCEPT ![k] = n]
      /\ UNCHANGED <<fileVars, watcher, cleanupVars, ctxDone, closed, busVars>>
  BY DEF StartStream
<1>3. /\ PathOf[k] \in Path /\ size[PathOf[k]] \in 0 .. MaxSize /\ MaxSize \in Nat
      /\ at \in 0 .. MaxSize /\ at <= size[PathOf[k]]
      /\ at # 0 => PathOf[k] \in visible
  BY StreamManagerAssumption DEF LocalSize, TypeOK
<1>4. new \in JobStream
  BY <1>3, EmptySeq DEF JobStream
<1>5. /\ new.key = k /\ new.active /\ new.remote = remote /\ new.start = at /\ new.offset = at
      /\ new.log = <<>> /\ new.poll = "none"
  OBVIOUS
<1>6. streams' = Append(streams, new)
  BY <1>1
<1> HIDE DEF new, at
<1>7. streams \in Seq(JobStream) /\ Len(streams) \in Nat /\ DOMAIN streams = 1 .. Len(streams)
  BY Types DEF TypeOK
<1>8. /\ streams' \in Seq(JobStream) /\ Len(streams') = n
      /\ \A s \in 1 .. Len(streams) : streams'[s] = streams[s]
      /\ streams'[n] = new
  BY <1>4, <1>6, <1>7, AppendProperties
<1>9. DOMAIN streams' = 1 .. n
  BY <1>8, LenProperties
<1>10. /\ \A s \in DOMAIN streams : s \in DOMAIN streams' /\ s # n /\ streams'[s] = streams[s]
       /\ n \in DOMAIN streams' /\ n # 0
       /\ \A s \in DOMAIN streams' : s \in DOMAIN streams \/ s = n
  BY <1>7, <1>8, <1>9
<1>11. watcher.stream # n /\ watcher.stream \in Int /\ (watcher.stream > 0 => watcher.stream \in DOMAIN streams)
  BY <1>7 DEF TypeOK
<1>12. starting'.stream = n /\ starting'.next = IF remote THEN "fetch" ELSE "read"
  BY <1>1
<1>13. \A j \in Key : table'[j] = (IF j = k THEN n ELSE table[j])
                      /\ (table[j] # 0 => table[j] \in DOMAIN streams)
  BY <1>2, <1>7 DEF TypeOK
<1> HIDE DEF n
<1>t. TypeOK'
  <2>1. n \in Nat /\ n = Len(streams) + 1 /\ Len(streams') <= MaxStreams
    BY <1>2, <1>7, <1>8, StreamManagerAssumption DEF n
  <2>2. table' \in [Key -> 0 .. Len(streams')]
    BY <1>2, <1>8, <2>1, <1>7 DEF TypeOK
  <2>3. starting' \in [stream: 0 .. Len(streams'), next: {"none", "read", "watch", "fetch"}]
    BY <1>1, <1>8, <2>1, <1>7
  <2>4. watcher \in [stream: -1 .. Len(streams'), chunk: Seq(1 .. MaxSize)]
    BY <1>8, <2>1, <1>7 DEF TypeOK
  <2> QED
    BY <1>2, <1>8, <2>1, <2>2, <2>3, <2>4 DEF TypeOK, fileVars, cleanupVars, busVars
<1>k. Keyed'
  BY <1>5, <1>8, <1>10, <1>13 DEF Keyed
<1>b. CleanupsBounded'
  BY <1>2 DEF CleanupsBounded, cleanupVars
<1>h. StartHoldsTable'
  <2> SUFFICES ASSUME NEW s \in DOMAIN streams', starting'.stream = s
               PROVE  /\ table'[streams'[s].key] = s
                      /\ watcher'.stream # s
                      /\ streams'[s].poll = "none"
                      /\ starting'.next \in {"read", "fetch"} =>
                           streams'[s].log = <<>> /\ streams'[s].offset = streams'[s].start
                      /\ starting'.next = "read" => ~streams'[s].remote
                      /\ starting'.next = "fetch" => streams'[s].remote
    BY <1>10, <1>12 DEF StartHoldsTable
  <2>1. s = n /\ streams'[s] = new
    BY <1>8, <1>12
  <2> QED
    BY <2>1, <1>2, <1>5, <1>11, <1>12, <1>13
<1>c. ClosedButStarting'
  <2> SUFFICES ASSUME closed', NEW j \in Key, table'[j] # 0, table'[j] # n
               PROVE  ~streams'[table'[j]].active \/ streams'[table'[j]].remote
    BY <1>12 DEF ClosedButStarting
  <2>1. closed /\ table'[j] = table[j] /\ table[j] # 0 /\ table[j] \in DOMAIN streams
    BY <1>2, <1>13
  <2>2. table[j] # starting.stream
    BY <1>2, <2>1 DEF muFree, NotStarting
  <2> QED
    BY <2>1, <2>2, <1>10 DEF ClosedButStarting
<1>f. StartsInFile'
  <2> SUFFICES ASSUME NEW s \in DOMAIN streams'
               PROVE  /\ streams'[s].start <= streams'[s].offset
                      /\ streams'[s].start <= size[PathOf[streams'[s].key]]
                      /\ streams'[s].start # 0 => PathOf[streams'[s].key] \in visible
    BY <1>2 DEF StartsInFile, PathFor, fileVars
  <2>1. CASE s \in DOMAIN streams
    BY <2>1, <1>10 DEF StartsInFile, PathFor
  <2>2. CASE s = n
    BY <2>2, <1>3, <1>5, <1>8
  <2> QED
    BY <2>1, <2>2, <1>10
<1>p. Polled'
  BY <1>5, <1>8, <1>10 DEF Polled
<1>w. Watched'
  BY <1>2, <1>10, <1>11 DEF Watched
<1>u. BufferContiguous'
  <2> SUFFICES ASSUME NEW s \in DOMAIN streams', streams'[s].start = 0 \/ ~streams'[s].remote
               PROVE  streams'[s].log \o InFlight(s)' = Units(streams'[s].start, streams'[s].offset)
    BY DEF BufferContiguous
  <2>0. InFlight(s)' = InFlight(s)
    BY <1>2 DEF InFlight
  <2>1. CASE s \in DOMAIN streams
    BY <2>0, <2>1, <1>10 DEF BufferContiguous
  <2>2. CASE s = n
    <3>1. InFlight(s) = <<>>
      BY <2>2, <1>11 DEF InFlight
    <3>2. Units(at, at) = <<>>
      BY <1>3, UnitsEmpty
    <3>3. streams'[s].log = <<>> /\ streams'[s].start = at /\ streams'[s].offset = at
      BY <2>2, <1>5, <1>8
    <3>4. <<>> \o <<>> = <<>>
      BY EmptySeq, ConcatEmptySeq
    <3> QED
      BY <2>0, <3>1, <3>2, <3>3, <3>4
  <2> QED
    BY <2>1, <2>2, <1>10
<1>q. BusTypeOK' /\ SubscribedIsOpen' /\ Queued'
  <2>1. \A s \in DOMAIN streams : InFlight(s)' = InFlight(s)
    BY <1>2 DEF InFlight
  <2>2. DOMAIN Reach' = DOMAIN streams' /\ \A s \in DOMAIN streams : Reach'[s] = Reach[s]
    BY <2>1, <1>10 DEF Reach
  <2> QED
    BY <2>2, <1>2, <1>10, ReachTypes, NotPublished
<1>s. StoppedIsCleanedUp'
  <2> SUFFICES ASSUME NEW j \in Key, table'[j] # 0
               PROVE  streams'[table'[j]].active \/ cleaning[j] > 0 \/ closed
    BY <1>2 DEF StoppedIsCleanedUp, cleanupVars
  <2>1. CASE j = k
    BY <2>1, <1>5, <1>8, <1>13
  <2>2. CASE j # k
    BY <2>2, <1>10, <1>13 DEF StoppedIsCleanedUp
  <2> QED
    BY <2>1, <2>2
<1> QED
  BY <1>t, <1>k, <1>b, <1>h, <1>c, <1>f, <1>p, <1>w, <1>u, <1>q, <1>s

\* StartStream reads the file from the offset of its stat on, or finds that there
\* is none: then the stream starts at the beginning, and may be polled.
LEMMA StartReadStep ==
  ASSUME IInv, NEW s \in DOMAIN streams, StartRead(s)
  PROVE  IInv'
<1> USE DEF IInv
<1> DEFINE p == PathFor(s)
           from == streams[s].offset
           content == Units(from, size[p])
<1>1. /\ starting.stream = s /\ starting.next = "read"
      /\ UNCHANGED <<fileVars, table, watcher, cleanupVars, ctxDone, closed>>
  BY DEF StartRead
<1>2. /\ streams[s] \in JobStream /\ p \in Path
      /\ from \in Nat /\ size[p] \in Nat /\ size[p] <= MaxSize
      /\ streams[s].key \in Key
      /\ ~streams[s].remote /\ streams[s].log = <<>> /\ from = streams[s].start
      /\ streams[s].start <= size[p]
      /\ streams[s].start # 0 => p \in visible
      /\ s # 0
  BY <1>1, StreamTypes, Types DEF StartHoldsTable, StartsInFile
<1>3. /\ watcher.stream # s /\ InFlight(s) = <<>> /\ Reach[s] = from
      /\ table[streams[s].key] = s /\ streams[s].poll = "none"
  BY <1>1, StartingStream
<1>4. \A t \in DOMAIN streams : InFlight(t)' = InFlight(t)
  BY <1>1 DEF InFlight
<1>5. starting \in [stream : 0 .. Len(streams), next : {"none", "read", "watch", "fetch"}]
  BY DEF TypeOK
<1>6. SUFFICES ASSUME NEW r \in JobStream, streams' = [streams EXCEPT ![s] = r],
                      r.key = streams[s].key, r.active = streams[s].active,
                      r.start = from, r.poll = "none",
                      NEW next \in {"watch", "fetch"}, starting' = [starting EXCEPT !.next = next],
                      next = "fetch" => /\ r.remote /\ r.log = <<>> /\ r.offset = r.start,
                      r.start = 0 \/ ~r.remote => r.log = Units(r.start, r.offset),
                      from <= r.offset, r.log \in Seq(1 .. MaxSize),
                      \/ r.offset = from /\ UNCHANGED busVars
                      \/ from < r.offset /\ Publish(r.key, Output(s, r.offset))
               PROVE  IInv'
  <2>1. CASE p \in visible
    <3> DEFINE r == Emitted(s, content, size[p])
    <3>1. /\ streams' = [streams EXCEPT ![s] = r]
          /\ PublishContent(s, content, size[p])
          /\ starting' = [starting EXCEPT !.next = "watch"]
      BY <2>1 DEF StartRead
    <3>2. content \in Seq(1 .. MaxSize) /\ <<>> \o content = content
      BY <1>2, UnitsProperties, ConcatEmptySeq
    <3>3. /\ r \in JobStream /\ r.key = streams[s].key /\ r.active = streams[s].active
          /\ r.remote = streams[s].remote /\ r.start = from /\ r.poll = "none"
          /\ r.log = content /\ r.offset = size[p]
      BY <1>2, <1>3, <3>2 DEF Emitted, JobStream
    <3> HIDE DEF r
    <3>4. CASE from = size[p]
      <4>1. content = <<>>
        BY <3>4, <1>2, UnitsEmpty
      <4>2. UNCHANGED busVars
        BY <3>1, <4>1 DEF PublishContent
      <4> QED
        BY <1>2, <3>1, <3>2, <3>3, <3>4, <4>2, <1>6
    <3>5. CASE from < size[p]
      <4>1. content # <<>>
        BY <3>5, <1>2, UnitsLast
      <4>2. Publish(r.key, Output(s, r.offset))
        BY <3>1, <3>3, <4>1 DEF PublishContent
      <4> QED
        BY <1>2, <3>1, <3>2, <3>3, <3>5, <4>2, <1>6
    <3> QED
      BY <1>2, <3>4, <3>5
  <2>2. CASE p \notin visible
    <3>1. PICK node \in BOOLEAN :
            /\ streams' = [streams EXCEPT ![s].remote = node /\ HasExecutor]
            /\ starting' = [starting EXCEPT !.next = IF node /\ HasExecutor THEN "fetch" ELSE "watch"]
            /\ UNCHANGED busVars
      BY <2>2 DEF StartRead
    <3> DEFINE r == [streams[s] EXCEPT !.remote = node /\ HasExecutor]
    <3>2. streams' = [streams EXCEPT ![s] = r]
      BY <3>1
    <3>3. /\ r \in JobStream /\ r.key = streams[s].key /\ r.active = streams[s].active
          /\ (r.remote <=> node /\ HasExecutor) /\ r.start = from /\ r.poll = "none"
          /\ r.log = <<>> /\ r.offset = from
      BY <1>2, <1>3, StreamManagerAssumption DEF JobStream
    <3> HIDE DEF r
    <3>4. Units(from, from) = <<>> /\ <<>> \in Seq(1 .. MaxSize) /\ from <= from
      BY <1>2, UnitsEmpty, EmptySeq
    <3> HIDE DEF from
    <3>a. r.log = Units(r.start, r.offset) /\ from <= r.offset /\ r.log \in Seq(1 .. MaxSize)
      BY <3>3, <3>4
    <3>5. CASE node /\ HasExecutor
      <4>1. starting' = [starting EXCEPT !.next = "fetch"] /\ r.remote
        BY <3>1, <3>3, <3>5
      <4> QED
        BY <3>1, <3>2, <3>3, <3>a, <4>1, <1>6
    <3>6. CASE ~(node /\ HasExecutor)
      <4>1. starting' = [starting EXCEPT !.next = "watch"] /\ ~r.remote
        BY <3>1, <3>3, <3>6
      <4> QED
        BY <3>1, <3>2, <3>3, <3>a, <4>1, <1>6
    <3> QED
      BY <3>5, <3>6
  <2> QED
    BY <2>1, <2>2
<1> HIDE DEF p, content
<1> USE <1>6
<1>7. /\ DOMAIN streams' = DOMAIN streams /\ Len(streams') = Len(streams)
      /\ streams' \in Seq(JobStream) /\ streams'[s] = r
      /\ \A t \in DOMAIN streams : t # s => streams'[t] = streams[t]
  BY Replaced
<1>8. starting'.stream = s /\ starting'.next = next
  BY <1>1, <1>5
<1>9. StartsInFile' /\ Polled' /\ BufferContiguous'
  <2>1. r.log \o InFlight(s)' = r.log
    BY <1>3, <1>4, ConcatEmptySeq
  <2> QED
    BY <2>1, <1>1, <1>2, <1>4, StreamChanged DEF fileVars
<1>10. BusTypeOK' /\ SubscribedIsOpen' /\ Queued'
  <2>1. /\ r.offset \in Nat /\ r.offset \in Int /\ Reach[s] <= r.offset
        /\ r.offset - Len(InFlight(s)') = r.offset
    BY <1>3, <1>4, EmptySeq DEF JobStream
  <2>2. /\ DOMAIN Reach = DOMAIN streams /\ DOMAIN Reach' = DOMAIN Reach
        /\ Reach'[s] = r.offset
        /\ \A t \in DOMAIN Reach : Reach'[t] \in Int /\ Reach[t] <= Reach'[t]
    BY <2>1, <1>3, <1>4, ReachChanged
  <2>3. CASE UNCHANGED busVars
    BY <2>2, <2>3, NotPublished
  <2>4. CASE from < r.offset /\ Publish(r.key, Output(s, r.offset))
    <3> DEFINE e == Output(s, r.offset)
    <3>1. e \in Event /\ e.stream = s /\ e.upto = r.offset
      BY <2>1, EventTypes DEF Output
    <3>2. Reach[s] < r.offset /\ r.offset <= Reach'[s]
      BY <2>1, <2>2, <2>4, <1>3
    <3> HIDE DEF e
    <3>3. Publish(r.key, e) /\ r.key \in Key
      BY <2>4, <1>2 DEF e
    <3> QED
      BY <2>2, <3>1, <3>2, <3>3, Published
  <2> QED
    BY <2>3, <2>4
<1>t. TypeOK'
  <2>1. starting' \in [stream : 0 .. Len(streams'), next : {"none", "read", "watch", "fetch"}]
    BY <1>5, <1>7
  <2> QED
    BY <2>1, <1>1, <1>7, <1>10 DEF TypeOK, BusTypeOK, fileVars, cleanupVars
<1>k. Keyed' /\ CleanupsBounded' /\ StoppedIsCleanedUp'
  <2>1. \A t \in DOMAIN streams : /\ streams'[t].key = streams[t].key
                                 /\ streams'[t].active = streams[t].active
    BY <1>7
  <2>2. \A k \in Key : table[k] # 0 => table[k] \in DOMAIN streams
    BY Types DEF TypeOK
  <2> QED
    BY <2>1, <2>2, <1>1 DEF Keyed, CleanupsBounded, StoppedIsCleanedUp, cleanupVars
<1>h. StartHoldsTable'
  BY <1>1, <1>2, <1>3, <1>7, <1>8 DEF StartHoldsTable
<1>c. ClosedButStarting'
  BY <1>1, <1>7, <1>8, Types DEF ClosedButStarting, TypeOK
<1>w. Watched'
  BY <1>1, <1>3, <1>7, WatchedKept
<1> QED
  BY <1>t, <1>k, <1>h, <1>c, <1>w, <1>9, <1>10

\* The end of a StartStream of a local file: it is watched and sm.mu released.
\* That Close has not closed the watcher is what ClosedButStarting needs.
LEMMA StartWatchStep ==
  ASSUME IInv, NEW s \in DOMAIN streams, StartWatch(s)
  PROVE  IInv'
<1> USE DEF IInv
<1> DEFINE e == [type |-> "start", stream |-> s, upto |-> 0]
<1>1. /\ starting.stream = s /\ ~closed
      /\ starting' = NotStarting
      /\ Publish(streams[s].key, e)
      /\ watched' = watched \cup ({PathFor(s)} \cap visible)
      /\ UNCHANGED <<size, visible, fsEvents, streams, table, watcher, cleanupVars, ctxDone, closed>>
  BY DEF StartWatch, Started
<1>2. e \in Event /\ e.stream = s /\ e.type = "start" /\ streams[s].key \in Key
  BY EventTypes, StreamTypes
<1> HIDE DEF e
<1>3. Reach' = Reach /\ DOMAIN Reach = DOMAIN streams /\ \A t \in DOMAIN Reach : Reach[t] \in Int
  BY <1>1, ReachKept, ReachTypes
<1>4. BusTypeOK' /\ SubscribedIsOpen' /\ Queued'
  <2>1. \A t \in DOMAIN Reach : Reach'[t] \in Int /\ Reach[t] <= Reach'[t]
    BY <1>3
  <2> QED
    BY <2>1, <1>1, <1>2, <1>3, Published
<1>5. TypeOK'
  <2>1. starting' \in [stream : 0 .. Len(streams), next : {"none", "read", "watch", "fetch"}]
    BY <1>1, Types DEF NotStarting
  <2> QED
    BY <2>1, <1>1, <1>4 DEF TypeOK, BusTypeOK, cleanupVars
<1>6. StartsInFile' /\ Polled' /\ Watched' /\ BufferContiguous'
  <2>1. \A p \in Path : size[p] <= size'[p]
    BY <1>1 DEF TypeOK
  <2> QED
    BY <2>1, <1>1, <1>5, StreamsKept
<1>7. Keyed' /\ CleanupsBounded' /\ StoppedIsCleanedUp' /\ ClosedButStarting'
  BY <1>1 DEF Keyed, CleanupsBounded, StoppedIsCleanedUp, ClosedButStarting, cleanupVars
<1>8. StartHoldsTable'
  BY <1>1, Types DEF StartHoldsTable, NotStarting
<1> QED
  BY <1>4, <1>5, <1>6, <1>7, <1>8

\* StartStream gives up: the entry that it takes back is its own.
LEMMA StartFailsStep ==
  ASSUME IInv, NEW s \in DOMAIN streams, StartFails(s)
  PROVE  IInv'
<1> USE DEF IInv
<1>1. /\ starting.stream = s
      /\ starting' = NotStarting
      /\ table' = [table EXCEPT ![streams[s].key] = 0]
      /\ UNCHANGED <<fileVars, streams, watcher, cleanupVars, ctxDone, closed, busVars>>
  BY DEF StartFails
<1>2. table[streams[s].key] = s /\ streams[s].key \in Key
  BY <1>1, StartingStream, StreamTypes
<1>3. \A k \in Key : table'[k] # 0 => table'[k] = table[k] /\ k # streams[s].key
  BY <1>1, <1>2 DEF TypeOK
<1>4. Reach' = Reach /\ \A t \in DOMAIN Reach : Reach'[t] \in Int /\ Reach[t] <= Reach'[t]
  BY <1>1, ReachKept, ReachTypes
<1>5. BusTypeOK' /\ SubscribedIsOpen' /\ Queued'
  BY <1>1, <1>4, NotPublished
<1>6. TypeOK'
  <2>1. starting' \in [stream : 0 .. Len(streams), next : {"none", "read", "watch", "fetch"}]
    BY <1>1, Types DEF NotStarting
  <2>2. table' \in [Key -> 0 .. Len(streams)]
    <3>1. 0 \in 0 .. Len(streams)
      BY Types
    <3> QED
      BY <3>1, <1>1 DEF TypeOK
  <2> QED
    BY <2>1, <2>2, <1>1 DEF TypeOK, fileVars, cleanupVars, busVars
<1>7. StartsInFile' /\ Polled' /\ Watched' /\ BufferContiguous'
  <2>1. (\A p \in Path : size[p] <= size'[p]) /\ visible \subseteq visible'
    BY <1>1 DEF TypeOK, fileVars
  <2> QED
    BY <2>1, <1>1, <1>6, StreamsKept
<1>8. Keyed' /\ CleanupsBounded' /\ StoppedIsCleanedUp'
  BY <1>1, <1>3 DEF Keyed, CleanupsBounded, StoppedIsCleanedUp, cleanupVars
<1>9. StartHoldsTable'
  BY <1>1, Types DEF StartHoldsTable, NotStarting
<1>10. ClosedButStarting'
  <2> SUFFICES ASSUME closed, NEW k \in Key, table'[k] # 0
               PROVE  ~streams[table'[k]].active \/ streams[table'[k]].remote
    BY <1>1 DEF ClosedButStarting
  <2>1. table'[k] = table[k] /\ table[k] # s
    BY <1>2, <1>3 DEF Keyed
  <2> QED
    BY <2>1, <1>1 DEF ClosedButStarting
<1> QED
  BY <1>5, <1>6, <1>7, <1>8, <1>9, <1>10

\* A sequence that begins like another one, cut to its length.
LEMMA Prefix ==
  ASSUME NEW S, NEW p \in Seq(S), NEW q \in Seq(S), Len(q) <= Len(p),
         \A i \in 1 .. Len(q) : p[i] = q[i]
  PROVE  SubSeq(p, 1, Len(q)) = q
<1>1. Len(p) \in Nat /\ Len(q) \in Nat
  BY LenProperties
<1>2. \A i \in 1 .. Len(q) : p[i] \in S
  BY <1>1, ElementOfSeq
<1> DEFINE t == SubSeq(p, 1, Len(q))
<1>3. /\ t \in Seq(S)
      /\ Len(t) = IF 1 <= Len(q) THEN Len(q) - 1 + 1 ELSE 0
      /\ \A i \in 1 .. Len(q) - 1 + 1 : t[i] = p[1 + i - 1]
  BY <1>1, <1>2, SubSeqProperties
<1> HIDE DEF t
<1>4. Len(t) = Len(q) /\ \A i \in 1 .. Len(t) : t[i] = q[i]
  BY <1>1, <1>3
<1>5. t = q
  BY <1>3, <1>4, SeqEqual
<1> QED
  BY <1>5 DEF t

\* The queue of a subscriber after several events, as StartFetch has it.
Cut(q, events) ==
  LET p == q \o events
  IN SubSeq(p, 1, IF Len(p) > ChanCap THEN ChanCap ELSE Len(p))

\* One event more, or none when there is no room.
LEMMA CutOne ==
  ASSUME NEW q \in Seq(Event), Len(q) <= ChanCap, ChanCap \in Nat, NEW e \in Event
  PROVE  /\ Cut(q, <<e>>) \in Seq(Event) /\ Len(Cut(q, <<e>>)) <= ChanCap
         /\ Cut(q, <<e>>) \in {q, Append(q, e)}
<1> DEFINE p == q \o <<e>>
<1>1. Len(q) \in Nat
  BY LenProperties
<1>2. p = Append(q, e) /\ p \in Seq(Event) /\ Len(p) = Len(q) + 1 /\ \A i \in 1 .. Len(q) : p[i] = q[i]
  BY AppendIsConcat, AppendProperties
<1>3. Cut(q, <<e>>) = SubSeq(p, 1, IF Len(p) > ChanCap THEN ChanCap ELSE Len(p))
  BY DEF Cut
<1> HIDE DEF p
<1>4. CASE Len(p) > ChanCap
  <2>1. ChanCap = Len(q) /\ Len(q) <= Len(p)
    BY <1>1, <1>2, <1>4
  <2>2. SubSeq(p, 1, Len(q)) = q
    BY <1>2, <2>1, Prefix
  <2> QED
    BY <1>3, <1>4, <2>1, <2>2
<1>5. CASE ~(Len(p) > ChanCap)
  <2>1. SubSeq(p, 1, Len(p)) = p /\ Len(p) <= ChanCap
    BY <1>1, <1>2, <1>5, SubSeqFull
  <2> QED
    BY <1>2, <1>3, <1>5, <2>1
<1> QED
  BY <1>4, <1>5

\* Two events, the first alone, or none.
LEMMA CutTwo ==
  ASSUME NEW q \in Seq(Event), Len(q) <= ChanCap, ChanCap \in Nat, NEW d \in Event, NEW e \in Event
  PROVE  /\ Cut(q, <<d, e>>) \in Seq(Event) /\ Len(Cut(q, <<d, e>>)) <= ChanCap
         /\ Cut(q, <<d, e>>) \in {q, Append(q, d), Append(Append(q, d), e)}
<1> DEFINE p == q \o <<d, e>>
           o == Append(q, d)
           r == Append(o, e)
<1>1. Len(q) \in Nat
  BY LenProperties
<1>2. <<d, e>> \in Seq(Event) /\ Len(<<d, e>>) = 2 /\ <<d, e>>[1] = d /\ <<d, e>>[2] = e
  OBVIOUS
<1>3. /\ p \in Seq(Event) /\ Len(p) = Len(q) + 2
      /\ \A i \in 1 .. Len(q) + 2 : p[i] = IF i <= Len(q) THEN q[i] ELSE <<d, e>>[i - Len(q)]
  BY <1>2, ConcatProperties
<1>4. /\ \A i \in 1 .. Len(q) : p[i] = q[i]
      /\ p[Len(q) + 1] = d /\ p[Len(q) + 2] = e
  <2>1. /\ Len(q) + 1 \in 1 .. Len(q) + 2 /\ (Len(q) + 1) - Len(q) = 1 /\ ~(Len(q) + 1 <= Len(q))
        /\ Len(q) + 2 \in 1 .. Len(q) + 2 /\ (Len(q) + 2) - Len(q) = 2 /\ ~(Len(q) + 2 <= Len(q))
        /\ \A i \in 1 .. Len(q) : i \in 1 .. Len(q) + 2 /\ i <= Len(q)
    BY <1>1
  <2> QED
    BY <2>1, <1>2, <1>3
<1>5. /\ o \in Seq(Event) /\ Len(o) = Len(q) + 1
      /\ o[Len(q) + 1] = d /\ \A i \in 1 .. Len(q) : o[i] = q[i]
  BY AppendProperties
<1> HIDE DEF p, o
<1>6. /\ r \in Seq(Event) /\ Len(r) = Len(q) + 2
      /\ r[Len(q) + 2] = e /\ \A i \in 1 .. Len(q) + 1 : r[i] = o[i]
  <2>1. Len(o) + 1 = Len(q) + 2
    BY <1>1, <1>5
  <2> QED
    BY <1>5, <2>1, AppendProperties
<1> HIDE DEF r
<1>7. \A i \in 1 .. Len(q) + 1 : p[i] = o[i]
  BY <1>1, <1>4, <1>5
<1>8. \A i \in 1 .. Len(q) + 2 : p[i] = r[i]
  BY <1>1, <1>4, <1>6, <1>7
<1>9. Cut(q, <<d, e>>) = SubSeq(p, 1, IF Len(p) > ChanCap THEN ChanCap ELSE Len(p))
  BY DEF Cut, p
<1>10. CASE ChanCap = Len(q)
  <2>1. SubSeq(p, 1, Len(q)) = q
    BY <1>1, <1>3, <1>4, Prefix
  <2>2. Len(p) > ChanCap
    BY <1>1, <1>3, <1>10
  <2> QED
    BY <1>9, <1>10, <2>1, <2>2
<1>11. CASE ChanCap = Len(q) + 1
  <2>1. SubSeq(p, 1, Len(o)) = o
    BY <1>1, <1>3, <1>5, <1>7, Prefix
  <2>2. Len(p) > ChanCap
    BY <1>1, <1>3, <1>11
  <2>a. Len(o) = ChanCap /\ Len(o) <= ChanCap
    BY <1>1, <1>5, <1>11
  <2>3. Cut(q, <<d, e>>) = o /\ Len(o) <= ChanCap
    BY <1>9, <2>a, <2>1, <2>2
  <2> QED
    BY <1>5, <2>3 DEF o
<1>12. CASE ChanCap > Len(q) + 1
  <2>1. SubSeq(p, 1, Len(r)) = r
    BY <1>1, <1>3, <1>6, <1>8, Prefix
  <2>2. ~(Len(p) > ChanCap) /\ Len(p) = Len(r) /\ Len(r) <= ChanCap
    BY <1>1, <1>3, <1>6, <1>12
  <2>3. Cut(q, <<d, e>>) = r
    BY <1>9, <2>1, <2>2
  <2> QED
    BY <1>6, <2>2, <2>3 DEF r, o
<1>13. ChanCap = Len(q) \/ ChanCap = Len(q) + 1 \/ ChanCap > Len(q) + 1
  BY <1>1
<1> QED
  BY <1>10, <1>11, <1>12, <1>13

\* StartStream reads the whole file over SSH, or fails to, and releases sm.mu;
\* the stream is polled from now on.
LEMMA StartFetchStep ==
  ASSUME IInv, NEW s \in DOMAIN streams, StartFetch(s)
  PROVE  IInv'
<1> USE DEF IInv
<1>1. /\ starting.stream = s /\ starting.next = "fetch" /\ starting' = NotStarting
      /\ subscribers' = subscribers
      /\ UNCHANGED <<fileVars, table, watcher, cleanupVars, ctxDone, closed>>
  BY DEF StartFetch
<1>2. PICK failed \in BOOLEAN :
        LET content == IF failed \/ ctxDone THEN <<>> ELSE Units(0, size[PathFor(s)])
            upto == streams[s].offset + Len(content)
            start == [type |-> "start", stream |-> s, upto |-> 0]
            events == IF content = <<>> THEN <<start>> ELSE <<Output(s, upto), start>>
            k == streams[s].key
        IN /\ streams' = [streams EXCEPT ![s] = [Emitted(s, content, upto) EXCEPT !.poll = "wait"]]
           /\ chans' = [c \in DOMAIN chans |->
                IF c \in subscribers[k]
                THEN [chans[c] EXCEPT !.queue = Cut(@, events)]
                ELSE chans[c]]
  BY DEF StartFetch, Cut
<1> DEFINE content == IF failed \/ ctxDone THEN <<>> ELSE Units(0, size[PathFor(s)])
           upto == streams[s].offset + Len(content)
           start == [type |-> "start", stream |-> s, upto |-> 0]
           out == Output(s, upto)
           events == IF content = <<>> THEN <<start>> ELSE <<out, start>>
           r == [Emitted(s, content, upto) EXCEPT !.poll = "wait"]
<1>3. /\ streams' = [streams EXCEPT ![s] = r]
      /\ chans' = [c \in DOMAIN chans |->
           IF c \in subscribers[streams[s].key]
           THEN [chans[c] EXCEPT !.queue = Cut(@, events)]
           ELSE chans[c]]
  BY <1>2
<1>4. /\ watcher.stream # s /\ InFlight(s) = <<>> /\ Reach[s] = streams[s].offset
      /\ streams[s].log = <<>> /\ streams[s].offset = streams[s].start /\ streams[s].remote
  BY <1>1, StartingStream DEF StartHoldsTable
<1>5. /\ streams[s].offset \in Nat /\ streams[s].key \in Key /\ streams[s] \in JobStream
      /\ size[PathFor(s)] \in Nat /\ size[PathFor(s)] <= MaxSize
  BY StreamTypes
<1>6. /\ content \in Seq(1 .. MaxSize) /\ Len(content) \in Nat
      /\ content = Units(0, Len(content))
      /\ content # <<>> => Len(content) > 0
  <2>1. CASE failed \/ ctxDone
    <3>1. content = <<>> /\ <<>> \in Seq(1 .. MaxSize) /\ Len(<<>>) = 0
      BY <2>1, EmptySeq
    <3>2. Units(0, 0) = <<>>
      BY UnitsEmpty
    <3> HIDE DEF content
    <3> QED
      BY <3>1, <3>2
  <2>2. CASE ~(failed \/ ctxDone)
    <3>1. content = Units(0, size[PathFor(s)])
      BY <2>2
    <3> DEFINE n == size[PathFor(s)]
    <3>0. n \in Nat /\ n <= MaxSize /\ 0 <= n /\ n - 0 = n
      BY <1>5
    <3> HIDE DEF content, n
    <3>2. content \in Seq(1 .. MaxSize) /\ Len(content) = n
      <4>1. Units(0, n) \in Seq(1 .. MaxSize) /\ Len(Units(0, n)) = n - 0
        BY <3>0, UnitsProperties
      <4> QED
        BY <4>1, <3>0, <3>1 DEF n
    <3>3. n = 0 => content = <<>>
      BY <3>1, UnitsEmpty DEF n
    <3> QED
      BY <3>0, <3>1, <3>2, <3>3 DEF n
  <2> QED
    BY <2>1, <2>2
<1> HIDE DEF content
<1>7. upto \in Nat /\ streams[s].offset <= upto /\ (content # <<>> => streams[s].offset < upto)
  BY <1>5, <1>6
<1>8. <<>> \o content = content
  BY <1>6, ConcatEmptySeq
<1>9. /\ r \in JobStream /\ r.key = streams[s].key /\ r.active = streams[s].active
      /\ r.remote = streams[s].remote /\ r.start = streams[s].start
      /\ r.offset = upto /\ r.log = content /\ r.poll = "wait"
  BY <1>4, <1>5, <1>6, <1>7, <1>8 DEF Emitted, JobStream
<1> HIDE DEF r
<1>10. \A t \in DOMAIN streams : InFlight(t)' = InFlight(t)
  BY <1>1 DEF InFlight
<1>11. /\ DOMAIN streams' = DOMAIN streams /\ Len(streams') = Len(streams)
       /\ streams' \in Seq(JobStream) /\ streams'[s] = r
       /\ \A t \in DOMAIN streams : t # s => streams'[t] = streams[t]
  BY <1>3, <1>9, Replaced
<1>12. StartsInFile' /\ Polled' /\ BufferContiguous'
  <2>1. r.start = 0 \/ ~r.remote => r.log \o InFlight(s)' = Units(r.start, r.offset)
    <3>1. SUFFICES ASSUME r.start = 0
                   PROVE  content \o <<>> = Units(0, upto)
      BY <1>4, <1>9, <1>10
    <3>2. upto = Len(content) /\ content \o <<>> = content
      BY <3>1, <1>4, <1>6, <1>9, ConcatEmptySeq
    <3> QED
      BY <3>2, <1>6
  <2>2. r.start <= r.offset
    BY <1>4, <1>7, <1>9
  <2> QED
    BY <2>1, <2>2, <1>1, <1>3, <1>4, <1>9, <1>10, StreamChanged DEF fileVars
<1>13. /\ DOMAIN Reach = DOMAIN streams /\ DOMAIN Reach' = DOMAIN Reach
       /\ Reach'[s] = upto
       /\ \A t \in DOMAIN Reach : Reach'[t] \in Int /\ Reach[t] <= Reach'[t]
  <2>1. r.offset - Len(InFlight(s)') = upto /\ upto \in Int /\ Reach[s] <= upto
    BY <1>4, <1>7, <1>9, <1>10, EmptySeq
  <2> HIDE DEF upto
  <2> QED
    BY <2>1, <1>3, <1>9, <1>10, ReachChanged
<1>14. BusTypeOK' /\ SubscribedIsOpen' /\ Queued'
  <2>1. start \in Event /\ start.type = "start" /\ start.stream = s
    BY EventTypes
  <2>2. out \in Event /\ out.type = "output" /\ out.stream = s /\ out.upto = upto
    BY <1>7, EventTypes DEF Output
  <2> HIDE DEF start, out, upto
  <2>3. ASSUME NEW q \in Seq(Event), Len(q) <= ChanCap, ChanCap \in Nat, InOrderUpTo(q, Reach)
        PROVE  /\ Cut(q, events) \in Seq(Event) /\ Len(Cut(q, events)) <= ChanCap
               /\ InOrderUpTo(Cut(q, events), Reach')
    <3>0. \A t \in DOMAIN Reach : Reach[t] \in Int
      BY ReachTypes
    <3>1. InOrderUpTo(q, Reach')
      BY <2>3, <3>0, <1>13, QueueKept
    <3>2. \A t \in DOMAIN Reach' : Reach'[t] \in Int /\ Reach'[t] <= Reach'[t]
      BY <1>13
    <3>3. CASE content = <<>>
      <4>1. events = <<start>>
        BY <3>3
      <4>2. InOrderUpTo(Append(q, start), Reach')
        BY <2>1, <3>1, <3>2, <1>13, QueueAppended
      <4> QED
        BY <4>1, <4>2, <2>1, <2>3, <3>1, CutOne
    <3>4. CASE content # <<>>
      <4>1. events = <<out, start>>
        BY <3>4
      <4>2. Reach[s] < upto /\ upto <= Reach'[s]
        BY <3>4, <1>4, <1>7, <1>13
      <4>3. Append(q, out) \in Seq(Event)
        BY <2>2, AppendProperties
      <4>a. Reach[out.stream] < out.upto /\ out.upto <= Reach'[out.stream] /\ out.stream \in DOMAIN Reach'
        BY <2>2, <4>2, <1>13
      <4>b. InOrderUpTo(Append(q, out), Reach')
        BY <2>2, <2>3, <3>0, <4>a, <1>13, QueueAppended
      <4>4. InOrderUpTo(Append(Append(q, out), start), Reach')
        BY <2>1, <3>2, <4>3, <4>b, <1>13, QueueAppended
      <4> QED
        BY <4>1, <4>b, <4>4, <2>1, <2>2, <2>3, <3>1, CutTwo
    <3> QED
      BY <3>3, <3>4
  <2> HIDE DEF events
  <2>4. ASSUME NEW c \in DOMAIN chans
        PROVE  \/ chans'[c] = chans[c] /\ InOrderUpTo(chans[c].queue, Reach')
               \/ \E q \in Seq(Event) : /\ chans'[c] = [chans[c] EXCEPT !.queue = q]
                                        /\ Len(q) <= ChanCap
                                        /\ InOrderUpTo(q, Reach')
    <3>1. /\ chans[c].queue \in Seq(Event) /\ ChanCap \in Nat
          /\ Len(chans[c].queue) <= ChanCap /\ InOrderUpTo(chans[c].queue, Reach)
      BY QueueTypes DEF Queued
    <3>2. CASE c \in subscribers[streams[s].key]
      <4>1. chans'[c] = [chans[c] EXCEPT !.queue = Cut(chans[c].queue, events)]
        BY <1>3, <3>2
      <4> QED
        BY <4>1, <3>1, <2>3
    <3>3. CASE c \notin subscribers[streams[s].key]
      <4>1. chans'[c] = chans[c]
        BY <1>3, <3>3
      <4>2. InOrderUpTo(chans[c].queue, Reach')
        BY <3>1, <1>13, ReachTypes, QueueKept
      <4> QED
        BY <4>1, <4>2
    <3> QED
      BY <3>2, <3>3
  <2>5. DOMAIN chans' = DOMAIN chans /\ chans' = [c \in DOMAIN chans |-> chans'[c]]
    BY <1>3
  <2> QED
    BY <2>4, <2>5, <1>1, QueuesChanged
<1>t. TypeOK'
  <2>1. starting' \in [stream : 0 .. Len(streams'), next : {"none", "read", "watch", "fetch"}]
    BY <1>1, <1>11, Types DEF NotStarting
  <2> QED
    BY <2>1, <1>1, <1>11, <1>14 DEF TypeOK, BusTypeOK, fileVars, cleanupVars
<1>k. Keyed' /\ CleanupsBounded' /\ StoppedIsCleanedUp'
  <2>1. \A t \in DOMAIN streams : /\ streams'[t].key = streams[t].key
                                 /\ streams'[t].active = streams[t].active
    BY <1>9, <1>11
  <2>2. \A k \in Key : table[k] # 0 => table[k] \in DOMAIN streams
    BY Types DEF TypeOK
  <2> QED
    BY <2>1, <2>2, <1>1 DEF Keyed, CleanupsBounded, StoppedIsCleanedUp, cleanupVars
<1>h. StartHoldsTable'
  <2>1. starting'.stream = 0 /\ starting'.next = "none" /\ 0 \notin DOMAIN streams'
    BY <1>1, <1>11, Types DEF NotStarting
  <2> QED
    BY <2>1 DEF StartHoldsTable
<1>c. ClosedButStarting'
  <2> SUFFICES ASSUME closed, NEW k \in Key, table[k] # 0
               PROVE  ~streams'[table[k]].active \/ streams'[table[k]].remote
    BY <1>1 DEF ClosedButStarting
  <2>1. table[k] \in DOMAIN streams
    BY Types DEF TypeOK
  <2> QED
    BY <2>1, <1>1, <1>4, <1>9, <1>11 DEF ClosedButStarting
<1>w. Watched'
  BY <1>1, <1>4, <1>11, WatcherTypes, WatchedKept
<1> QED
  BY <1>12, <1>14, <1>t, <1>k, <1>h, <1>c, <1>w

-----------------------------------------------------------------------------

\* StopStream: the stream is no longer active, and a goroutine will delete its entry.
LEMMA StopStreamStep ==
  ASSUME IInv, NEW k \in Key, StopStream(k)
  PROVE  IInv'
<1> USE DEF IInv
<1>0. PICK s \in DOMAIN streams : s = table[k]
  <2>1. table[k] \in 0 .. Len(streams) /\ table[k] # 0
    BY DEF TypeOK, StopStream
  <2> QED
    BY <2>1, Types
<1> DEFINE r == [streams[s] EXCEPT !.active = FALSE]
           e == [type |-> "stop", stream |-> s, upto |-> 0]
<1>1. /\ muFree /\ s # 0 /\ cleaning[k] + unsubbing[k] < MaxCleanups
      /\ streams' = [streams EXCEPT ![s] = r]
      /\ watched' = IF streams[s].remote THEN watched ELSE watched \ {PathOf[k]}
      /\ Publish(k, e)
      /\ cleaning' = [cleaning EXCEPT ![k] = @ + 1]
      /\ UNCHANGED <<size, visible, fsEvents, table, starting, watcher, unsubbing, ctxDone, closed>>
  BY <1>0, Types DEF StopStream
<1>2. s \in DOMAIN streams /\ streams[s].key = k
  BY <1>0, <1>1 DEF Keyed
<1>3. e \in Event /\ e.stream = s /\ e.type = "stop"
  BY <1>2, EventTypes
<1>4. /\ r \in JobStream /\ r.key = k /\ ~r.active
      /\ r.remote = streams[s].remote /\ r.start = streams[s].start
      /\ r.offset = streams[s].offset /\ r.log = streams[s].log
      /\ r.poll = streams[s].poll /\ r.chunk = streams[s].chunk
  <2>1. streams[s] \in JobStream
    BY <1>2, StreamTypes
  <2> QED
    BY <2>1, <1>2 DEF JobStream
<1> HIDE DEF r, e
<1>5. /\ DOMAIN streams' = DOMAIN streams /\ Len(streams') = Len(streams)
      /\ streams' \in Seq(JobStream) /\ streams'[s] = r
      /\ \A t \in DOMAIN streams : t # s => streams'[t] = streams[t]
  BY <1>1, <1>2, <1>4, Replaced
<1>6. \A t \in DOMAIN streams : InFlight(t)' = InFlight(t)
  BY <1>1 DEF InFlight
<1>7. StartsInFile' /\ Polled' /\ BufferContiguous'
  <2>1. r.start <= r.offset
    BY <1>2, <1>4 DEF StartsInFile
  <2>2. /\ r.poll # "none" => r.remote
        /\ r.poll = "emit" => /\ r.chunk # <<>>
                              /\ r.chunk = Units(r.offset, r.offset + Len(r.chunk))
    BY <1>2, <1>4 DEF Polled
  <2>3. r.start = 0 \/ ~r.remote => r.log \o InFlight(s)' = Units(r.start, r.offset)
    BY <1>2, <1>4, <1>6 DEF BufferContiguous
  <2> QED
    BY <2>1, <2>2, <2>3, <1>1, <1>2, <1>4, <1>6, StreamChanged
<1>8. /\ DOMAIN Reach' = DOMAIN streams /\ DOMAIN Reach = DOMAIN streams
      /\ \A t \in DOMAIN Reach : Reach'[t] \in Int /\ Reach[t] <= Reach'[t]
  <2>1. r.offset - Len(InFlight(s)') = Reach[s] /\ Reach[s] \in Int /\ Reach[s] <= Reach[s]
    BY <1>2, <1>4, <1>6, InFlightTypes, ReachTypes
  <2> QED
    BY <2>1, <1>1, <1>2, <1>4, <1>6, ReachChanged
<1>9. BusTypeOK' /\ SubscribedIsOpen' /\ Queued'
  BY <1>1, <1>2, <1>3, <1>8, Published
<1>10. \A j \in Key : table[j] # 0 => table[j] \in DOMAIN streams /\ (j # k => table[j] # s)
  BY <1>0, <1>2, Types DEF TypeOK, Keyed
<1>11. cleaning'[k] = cleaning[k] + 1 /\ \A j \in Key : j # k => cleaning'[j] = cleaning[j]
  BY <1>1 DEF TypeOK
<1>12. cleaning[k] \in Nat /\ unsubbing[k] \in Nat /\ MaxCleanups \in Nat
  BY StreamManagerAssumption DEF TypeOK
<1>t. TypeOK'
  <2>1. cleaning' \in [Key -> 0 .. MaxCleanups]
    <3>1. cleaning[k] + 1 \in 0 .. MaxCleanups
      BY <1>1, <1>12
    <3> QED
      BY <3>1, <1>1 DEF TypeOK
  <2>2. watched' \subseteq visible
    BY <1>1 DEF TypeOK
  <2> QED
    BY <2>1, <2>2, <1>1, <1>5, <1>9 DEF TypeOK, BusTypeOK
<1>k. Keyed'
  BY <1>0, <1>1, <1>4, <1>5, <1>10 DEF Keyed
<1>b. CleanupsBounded'
  <2>1. cleaning'[k] + unsubbing[k] <= MaxCleanups
    BY <1>1, <1>11, <1>12
  <2> QED
    BY <2>1, <1>1, <1>11 DEF CleanupsBounded
<1>h. StartHoldsTable'
  <2>1. starting.stream = 0 /\ starting.next = "none" /\ 0 \notin DOMAIN streams
    BY <1>1, Types DEF muFree, NotStarting
  <2> QED
    BY <2>1, <1>1, <1>5 DEF StartHoldsTable
<1>c. ClosedButStarting'
  BY <1>0, <1>1, <1>4, <1>5, <1>10 DEF ClosedButStarting
<1>s. StoppedIsCleanedUp'
  <2>1. cleaning'[k] > 0
    BY <1>11, <1>12
  <2> QED
    BY <2>1, <1>0, <1>1, <1>5, <1>10, <1>11 DEF StoppedIsCleanedUp
<1>w. Watched'
  BY <1>1, <1>2, <1>4, <1>5, WatcherTypes, WatchedKept
<1> QED
  BY <1>7, <1>9, <1>t, <1>k, <1>b, <1>h, <1>c, <1>s, <1>w

\* A second later the entry goes, whichever stream it leads to.
LEMMA CleanupDeleteStep ==
  ASSUME IInv, NEW k \in Key, CleanupDelete(k)
  PROVE  IInv'
<1> USE DEF IInv
<1>1. /\ muFree /\ cleaning[k] > 0
      /\ table' = [table EXCEPT ![k] = 0]
      /\ cleaning' = [cleaning EXCEPT ![k] = @ - 1]
      /\ unsubbing' = [unsubbing EXCEPT ![k] = @ + 1]
      /\ UNCHANGED <<fileVars, streams, starting, watcher, ctxDone, closed, busVars>>
  BY DEF CleanupDelete
<1>2. \A j \in Key : table'[j] # 0 => j # k /\ table'[j] = table[j]
  BY <1>1 DEF TypeOK
<1>3. \A j \in Key : j # k => cleaning'[j] = cleaning[j] /\ unsubbing'[j] = unsubbing[j]
  BY <1>1 DEF TypeOK
<1>4. /\ cleaning[k] \in Nat /\ unsubbing[k] \in Nat /\ MaxCleanups \in Nat
      /\ cleaning'[k] = cleaning[k] - 1 /\ unsubbing'[k] = unsubbing[k] + 1
      /\ cleaning[k] + unsubbing[k] <= MaxCleanups
  BY <1>1, StreamManagerAssumption DEF TypeOK, CleanupsBounded
<1>5. BusTypeOK' /\ SubscribedIsOpen' /\ Queued'
  <2>1. Reach' = Reach /\ \A t \in DOMAIN Reach : Reach'[t] \in Int /\ Reach[t] <= Reach'[t]
    BY <1>1, ReachKept, ReachTypes
  <2> QED
    BY <2>1, <1>1, NotPublished
<1>6. TypeOK'
  <2>1. /\ cleaning[k] - 1 \in 0 .. MaxCleanups /\ unsubbing[k] + 1 \in 0 .. MaxCleanups
        /\ 0 \in 0 .. Len(streams)
    BY <1>1, <1>4, Types
  <2>2. /\ cleaning' \in [Key -> 0 .. MaxCleanups] /\ unsubbing' \in [Key -> 0 .. MaxCleanups]
        /\ table' \in [Key -> 0 .. Len(streams)]
    BY <2>1, <1>1 DEF TypeOK
  <2> QED
    BY <2>2, <1>1 DEF TypeOK, fileVars, busVars
<1>7. StartsInFile' /\ Polled' /\ Watched' /\ BufferContiguous'
  <2>1. (\A p \in Path : size[p] <= size'[p]) /\ visible \subseteq visible'
    BY <1>1 DEF TypeOK, fileVars
  <2> QED
    BY <2>1, <1>1, <1>6, StreamsKept
<1>8. CleanupsBounded'
  <2>1. cleaning'[k] + unsubbing'[k] <= MaxCleanups
    BY <1>4
  <2> QED
    BY <2>1, <1>3 DEF CleanupsBounded
<1>9. Keyed' /\ ClosedButStarting' /\ StoppedIsCleanedUp'
  BY <1>1, <1>2, <1>3 DEF Keyed, ClosedButStarting, StoppedIsCleanedUp
<1>10. StartHoldsTable'
  <2>1. starting.stream = 0 /\ starting.next = "none" /\ 0 \notin DOMAIN streams
    BY <1>1, Types DEF muFree, NotStarting
  <2> QED
    BY <2>1, <1>1 DEF StartHoldsTable
<1> QED
  BY <1>5, <1>6, <1>7, <1>8, <1>9, <1>10

\* Then the subscribers of the key are closed.
LEMMA CleanupUnsubscribeStep ==
  ASSUME IInv, NEW k \in Key, CleanupUnsubscribe(k)
  PROVE  IInv'
<1> USE DEF IInv
<1>1. /\ unsubbing[k] > 0
      /\ unsubbing' = [unsubbing EXCEPT ![k] = @ - 1]
      /\ UnsubscribeAll(k)
      /\ UNCHANGED <<fileVars, streams, table, starting, watcher, cleaning, ctxDone, closed>>
  BY DEF CleanupUnsubscribe
<1>2. BusTypeOK' /\ SubscribedIsOpen' /\ Queued'
  BY <1>1, UnsubscribedAll
<1>3. /\ unsubbing[k] \in Nat /\ unsubbing[k] <= MaxCleanups /\ MaxCleanups \in Nat
      /\ unsubbing'[k] = unsubbing[k] - 1 /\ cleaning[k] \in Nat
      /\ \A j \in Key : j # k => unsubbing'[j] = unsubbing[j]
  BY <1>1, StreamManagerAssumption DEF TypeOK
<1>4. TypeOK'
  <2>1. unsubbing[k] - 1 \in 0 .. MaxCleanups
    BY <1>1, <1>3
  <2>2. unsubbing' \in [Key -> 0 .. MaxCleanups]
    BY <2>1, <1>1 DEF TypeOK
  <2> QED
    BY <2>2, <1>1, <1>2 DEF TypeOK, BusTypeOK, fileVars
<1>5. StartsInFile' /\ Polled' /\ Watched' /\ BufferContiguous'
  <2>1. (\A p \in Path : size[p] <= size'[p]) /\ visible \subseteq visible'
    BY <1>1 DEF TypeOK, fileVars
  <2> QED
    BY <2>1, <1>1, <1>4, StreamsKept
<1>6. CleanupsBounded'
  <2>1. cleaning[k] + unsubbing'[k] <= MaxCleanups
    BY <1>3 DEF CleanupsBounded
  <2> QED
    BY <2>1, <1>1, <1>3 DEF CleanupsBounded
<1>7. Keyed' /\ ClosedButStarting' /\ StoppedIsCleanedUp' /\ StartHoldsTable'
  BY <1>1 DEF Keyed, ClosedButStarting, StoppedIsCleanedUp, StartHoldsTable
<1> QED
  BY <1>2, <1>4, <1>5, <1>6, <1>7

-----------------------------------------------------------------------------

\* The watcher goroutine takes an event: for one of the streams of the file it
\* moves the offset and holds what it has read; for others nothing changes.
LEMMA HandleFileEventStep ==
  ASSUME IInv, NEW p \in Path, HandleFileEvent(p)
  PROVE  IInv'
<1> USE DEF IInv
<1>1. /\ watcher = Idle /\ muFree
      /\ fsEvents' = fsEvents \ {p}
      /\ UNCHANGED <<size, visible, watched, table, starting, cleanupVars, ctxDone, closed, busVars>>
  BY DEF HandleFileEvent
<1>2. \/ UNCHANGED <<streams, watcher>>
      \/ \E s \in Readers(p) :
           LET content == Units(streams[s].offset, size[p]) IN
           /\ content # <<>>
           /\ streams' = [streams EXCEPT ![s].offset = size[p]]
           /\ watcher' = [stream |-> s, chunk |-> content]
  BY DEF HandleFileEvent
<1>3. CASE UNCHANGED <<streams, watcher>>
  <2>1. TypeOK'
    BY <1>1, <1>3 DEF TypeOK, cleanupVars, busVars
  <2>2. StartsInFile' /\ Polled' /\ Watched' /\ BufferContiguous'
    <3>1. \A q \in Path : size[q] <= size'[q]
      BY <1>1 DEF TypeOK
    <3> QED
      BY <3>1, <2>1, <1>1, <1>3, StreamsKept
  <2>3. BusTypeOK' /\ SubscribedIsOpen' /\ Queued'
    <3>1. Reach' = Reach /\ \A t \in DOMAIN Reach : Reach'[t] \in Int /\ Reach[t] <= Reach'[t]
      BY <1>3, ReachKept, ReachTypes
    <3> QED
      BY <3>1, <1>1, NotPublished
  <2>4. Keyed' /\ CleanupsBounded' /\ StartHoldsTable' /\ ClosedButStarting' /\ StoppedIsCleanedUp'
    BY <1>1, <1>3 DEF Keyed, CleanupsBounded, StartHoldsTable, ClosedButStarting,
                      StoppedIsCleanedUp, cleanupVars
  <2> QED
    BY <2>1, <2>2, <2>3, <2>4
<1>4. ASSUME NEW s \in Readers(p), Units(streams[s].offset, size[p]) # <<>>,
             streams' = [streams EXCEPT ![s].offset = size[p]],
             watcher' = [stream |-> s, chunk |-> Units(streams[s].offset, size[p])]
      PROVE  IInv'
  <2> DEFINE from == streams[s].offset
             content == Units(from, size[p])
             r == [streams[s] EXCEPT !.offset = size[p]]
  <2>1. s \in DOMAIN streams /\ PathFor(s) = p /\ ~streams[s].remote
    BY DEF Readers
  <2>2. /\ streams[s] \in JobStream /\ streams[s].log \in Seq(1 .. MaxSize)
        /\ from \in Nat /\ size[p] \in Nat /\ size[p] <= MaxSize
        /\ streams[s].start \in Nat /\ streams[s].start <= from
    BY <2>1, StreamTypes DEF StartsInFile
  <2>3. from < size[p]
    BY <1>4, <2>2, UnitsEmpty
  <2>4. /\ content \in Seq(1 .. MaxSize) /\ content # <<>>
        /\ Len(content) = size[p] - from
    BY <1>4, <2>2, <2>3, UnitsProperties
  <2>5. /\ r \in JobStream /\ r.key = streams[s].key /\ r.active = streams[s].active
        /\ r.remote = streams[s].remote /\ r.start = streams[s].start
        /\ r.log = streams[s].log /\ r.offset = size[p]
        /\ r.poll = streams[s].poll
    BY <2>2 DEF JobStream
  <2>6. streams' = [streams EXCEPT ![s] = r]
    BY <1>4
  <2>7. watcher'.stream = s /\ watcher'.chunk = content
    BY <1>4
  <2> HIDE DEF r, content
  <2>8. InFlight(s)' = content /\ InFlight(s) = <<>> /\ Reach[s] = from /\ watcher.stream = 0
    <3>1. watcher.stream = 0 /\ s # 0
      BY <1>1, <2>1, Types DEF Idle
    <3> QED
      BY <3>1, <2>1, <2>7, InFlightTypes DEF InFlight
  <2>9. \A t \in DOMAIN streams : t # s => InFlight(t)' = InFlight(t)
    <3>1. \A t \in DOMAIN streams : t # 0
      BY Types
    <3> QED
      BY <3>1, <2>7, <2>8 DEF InFlight
  <2>10. /\ DOMAIN streams' = DOMAIN streams /\ Len(streams') = Len(streams)
         /\ streams' \in Seq(JobStream) /\ streams'[s] = r
         /\ \A t \in DOMAIN streams : t # s => streams'[t] = streams[t]
    BY <2>1, <2>5, <2>6, Replaced
  <2>11. StartsInFile' /\ Polled' /\ BufferContiguous'
    <3>1. r.start <= r.offset
      BY <2>2, <2>3, <2>5
    <3>2. r.poll = "none"
      BY <2>1, <2>5 DEF Polled
    <3>3. streams[s].log = Units(streams[s].start, from)
      <4>1. streams[s].log \o <<>> = Units(streams[s].start, from)
        BY <2>1, <2>8 DEF BufferContiguous
      <4> QED
        BY <4>1, <2>2, ConcatEmptySeq
    <3>4. r.log \o content = Units(r.start, r.offset)
      <4> DEFINE a == streams[s].start
                 b == size[p]
      <4>1. a \in Nat /\ b \in Nat /\ from \in Nat /\ a <= from /\ from <= b
        BY <2>2, <2>3
      <4>2. r.log = Units(a, from) /\ content = Units(from, b) /\ r.start = a /\ r.offset = b
        BY <3>3, <2>5 DEF content
      <4> HIDE DEF a, b, from
      <4>3. Units(a, from) \o Units(from, b) = Units(a, b)
        BY <4>1, UnitsConcat
      <4> QED
        BY <4>2, <4>3
    <3> QED
      BY <3>1, <3>2, <3>4, <1>1, <2>1, <2>5, <2>6, <2>8, <2>9, StreamChanged
  <2>12. BusTypeOK' /\ SubscribedIsOpen' /\ Queued'
    <3>1. from \in Int /\ Reach[s] <= from /\ r.offset - Len(InFlight(s)') = from
      BY <2>2, <2>4, <2>5, <2>8
    <3>2. DOMAIN Reach' = DOMAIN Reach /\ \A t \in DOMAIN Reach : Reach'[t] \in Int /\ Reach[t] <= Reach'[t]
      BY <3>1, <2>1, <2>5, <2>6, <2>9, ReachChanged
    <3> QED
      BY <3>2, <1>1, NotPublished
  <2>13. TypeOK'
    <3>1. watcher' \in [stream : -1 .. Len(streams'), chunk : Seq(1 .. MaxSize)]
      <4>1. s \in -1 .. Len(streams')
        BY <2>1, <2>10, Types
      <4> QED
        BY <4>1, <1>4, <2>4 DEF content
    <3> QED
      BY <3>1, <1>1, <2>10, <2>12 DEF TypeOK, BusTypeOK, cleanupVars
  <2>14. Watched'
    <3>1. size[p] - Len(content) = from /\ Len(content) <= size[p]
      BY <2>2, <2>3, <2>4
    <3> QED
      BY <3>1, <2>1, <2>4, <2>5, <2>7, <2>10 DEF Watched, content
  <2>15. starting.stream = 0 /\ starting.next = "none" /\ 0 \notin DOMAIN streams
    BY <1>1, Types DEF muFree, NotStarting
  <2>16. StartHoldsTable'
    BY <2>15, <1>1, <2>10 DEF StartHoldsTable
  <2>17. Keyed' /\ CleanupsBounded' /\ ClosedButStarting' /\ StoppedIsCleanedUp'
    <3>1. \A t \in DOMAIN streams : /\ streams'[t].key = streams[t].key
                                    /\ streams'[t].active = streams[t].active
                                    /\ streams'[t].remote = streams[t].remote
      BY <2>5, <2>10
    <3>2. \A k \in Key : table[k] # 0 => table[k] \in DOMAIN streams
      BY Types DEF TypeOK
    <3> QED
      BY <3>1, <3>2, <1>1 DEF Keyed, CleanupsBounded, ClosedButStarting, StoppedIsCleanedUp, cleanupVars
  <2> QED
    BY <2>11, <2>12, <2>13, <2>14, <2>16, <2>17
<1> QED
  BY <1>2, <1>3, <1>4

\* The watcher goroutine emits what it holds: that ends at LastOffset, and what
\* was published of the stream before ends where it begins.
LEMMA EmitFileEventStep ==
  ASSUME IInv, EmitFileEvent
  PROVE  IInv'
<1> USE DEF IInv
<1>0. PICK s \in DOMAIN streams : s = watcher.stream
  BY WatcherTypes DEF EmitFileEvent
<1> DEFINE r == [streams[s] EXCEPT !.log = @ \o watcher.chunk]
           e == Output(s, watcher.chunk[Len(watcher.chunk)])
<1>1. /\ streams' = [streams EXCEPT ![s] = r]
      /\ Publish(streams[s].key, e)
      /\ watcher' = Idle
      /\ UNCHANGED <<fileVars, table, starting, cleanupVars, ctxDone, closed>>
  BY <1>0 DEF EmitFileEvent
<1>2. /\ watcher.stream > 0
      /\ ~streams[s].remote
      /\ watcher.chunk \in Seq(1 .. MaxSize) /\ watcher.chunk # <<>>
      /\ Len(watcher.chunk) <= streams[s].offset
      /\ watcher.chunk = Units(streams[s].offset - Len(watcher.chunk), streams[s].offset)
      /\ InFlight(s) = watcher.chunk
  BY <1>0 DEF EmitFileEvent, Watched, InFlight, TypeOK
<1>3. /\ streams[s] \in JobStream /\ streams[s].log \in Seq(1 .. MaxSize) /\ streams[s].key \in Key
      /\ streams[s].offset \in Nat /\ streams[s].start \in Nat
      /\ streams[s].start <= streams[s].offset
      /\ Len(watcher.chunk) \in Nat /\ Len(watcher.chunk) > 0
  BY <1>2, StreamTypes, EmptySeq DEF StartsInFile
<1>4. streams[s].log \o watcher.chunk \in Seq(1 .. MaxSize)
  BY <1>2, <1>3, ConcatProperties
<1>5. /\ r \in JobStream /\ r.key = streams[s].key /\ r.active = streams[s].active
      /\ r.remote = streams[s].remote /\ r.start = streams[s].start
      /\ r.log = streams[s].log \o watcher.chunk /\ r.offset = streams[s].offset
      /\ r.poll = streams[s].poll
  BY <1>3, <1>4 DEF JobStream
<1>6. e \in Event /\ e.stream = s /\ e.upto = streams[s].offset
  <2>1. streams[s].offset - Len(watcher.chunk) \in Nat
    BY <1>2, <1>3
  <2>2. watcher.chunk[Len(watcher.chunk)] = streams[s].offset
    <3> DEFINE a == streams[s].offset - Len(watcher.chunk)
               b == streams[s].offset
    <3>1. a \in Nat /\ b \in Nat /\ a < b /\ watcher.chunk = Units(a, b)
      BY <1>2, <1>3, <2>1
    <3> HIDE DEF a, b
    <3>2. watcher.chunk[Len(watcher.chunk)] = b
      BY <3>1, UnitsLast
    <3> QED
      BY <3>2 DEF b
  <2> QED
    BY <1>3, <2>2, EventTypes DEF Output
<1> HIDE DEF r, e
<1>7. \A t \in DOMAIN streams : InFlight(t)' = IF t = s THEN <<>> ELSE InFlight(t)
  <2>1. \A t \in DOMAIN streams : t # 0
    BY Types
  <2> QED
    BY <2>1, <1>0, <1>1 DEF InFlight, Idle
<1>8. /\ DOMAIN streams' = DOMAIN streams /\ Len(streams') = Len(streams)
      /\ streams' \in Seq(JobStream) /\ streams'[s] = r
      /\ \A t \in DOMAIN streams : t # s => streams'[t] = streams[t]
  BY <1>1, <1>5, Replaced
<1>9. StartsInFile' /\ Polled' /\ BufferContiguous'
  <2>1. r.poll = "none"
    BY <1>2, <1>5 DEF Polled
  <2>2. r.log = Units(r.start, r.offset)
    BY <1>2, <1>5 DEF BufferContiguous
  <2>3. r.log \o InFlight(s)' = r.log
    BY <1>4, <1>5, <1>7, ConcatEmptySeq
  <2> QED
    BY <2>1, <2>2, <2>3, <1>1, <1>3, <1>5, <1>7, StreamChanged DEF fileVars
<1>10. BusTypeOK' /\ SubscribedIsOpen' /\ Queued'
  <2> DEFINE n == streams[s].offset
  <2>1. n \in Int /\ Reach[s] <= n /\ Reach[s] < n /\ r.offset - Len(InFlight(s)') = n
    BY <1>2, <1>3, <1>5, <1>7, EmptySeq, InFlightTypes
  <2>2. e \in Event /\ e.stream = s /\ e.upto = n
    BY <1>6
  <2> HIDE DEF n
  <2>3. /\ DOMAIN Reach = DOMAIN streams /\ DOMAIN Reach' = DOMAIN Reach
        /\ Reach'[s] = n
        /\ \A t \in DOMAIN Reach : Reach'[t] \in Int /\ Reach[t] <= Reach'[t]
    BY <2>1, <1>1, <1>5, <1>7, ReachChanged
  <2>4. Reach[e.stream] < e.upto /\ e.upto <= Reach'[e.stream] /\ e.stream \in DOMAIN Reach'
    BY <2>1, <2>2, <2>3
  <2> QED
    BY <2>2, <2>3, <2>4, <1>1, <1>3, Published
<1>11. TypeOK'
  <2>1. watcher' \in [stream : -1 .. Len(streams'), chunk : Seq(1 .. MaxSize)]
    BY <1>1, <1>8, Types, EmptySeq DEF Idle
  <2> QED
    BY <2>1, <1>1, <1>8, <1>10 DEF TypeOK, BusTypeOK, fileVars, cleanupVars
<1>12. Watched'
  BY <1>1 DEF Watched, Idle
<1>13. StartHoldsTable'
  <2> SUFFICES ASSUME NEW t \in DOMAIN streams, starting.stream = t
               PROVE  t # s /\ watcher'.stream # t
    BY <1>1, <1>8 DEF StartHoldsTable
  <2> QED
    BY <1>0, <1>1, Types DEF StartHoldsTable, Idle
<1>14. Keyed' /\ CleanupsBounded' /\ ClosedButStarting' /\ StoppedIsCleanedUp'
  <2>1. \A t \in DOMAIN streams : /\ streams'[t].key = streams[t].key
                                  /\ streams'[t].active = streams[t].active
                                  /\ streams'[t].remote = streams[t].remote
    BY <1>5, <1>8
  <2>2. \A k \in Key : table[k] # 0 => table[k] \in DOMAIN streams
    BY Types DEF TypeOK
  <2> QED
    BY <2>1, <2>2, <1>1 DEF Keyed, CleanupsBounded, ClosedButStarting, StoppedIsCleanedUp, cleanupVars
<1> QED
  BY <1>9, <1>10, <1>11, <1>12, <1>13, <1>14

\* The watcher goroutine ends.
LEMMA WatcherExitStep ==
  ASSUME IInv, WatcherExit
  PROVE  IInv'
<1> USE DEF IInv
<1>1. /\ watcher = Idle /\ watcher' = Exited
      /\ UNCHANGED <<fileVars, streams, table, starting, cleanupVars, ctxDone, closed, busVars>>
  BY DEF WatcherExit
<1>2. \A t \in DOMAIN streams : InFlight(t)' = InFlight(t)
  BY <1>1 DEF InFlight, Idle, Exited
<1>3. Reach' = Reach
  BY <1>1, <1>2 DEF Reach
<1>4. BusTypeOK' /\ SubscribedIsOpen' /\ Queued'
  BY <1>1, <1>3, ReachTypes, NotPublished
<1>5. TypeOK'
  <2>1. watcher' \in [stream : -1 .. Len(streams), chunk : Seq(1 .. MaxSize)]
    BY <1>1, Types, EmptySeq DEF Exited
  <2> QED
    BY <2>1, <1>1 DEF TypeOK, fileVars, cleanupVars, busVars
<1>6. StartsInFile' /\ Polled' /\ Watched' /\ BufferContiguous'
  <2>1. StartsInFile'
    BY <1>1 DEF StartsInFile, PathFor, fileVars
  <2>2. Polled' /\ Watched'
    BY <1>1 DEF Polled, Watched, Exited
  <2>3. BufferContiguous'
    BY <1>1, <1>2 DEF BufferContiguous
  <2> QED
    BY <2>1, <2>2, <2>3
<1>7. Keyed' /\ CleanupsBounded' /\ ClosedButStarting' /\ StoppedIsCleanedUp'
  BY <1>1 DEF Keyed, CleanupsBounded, ClosedButStarting, StoppedIsCleanedUp, cleanupVars
<1>8. StartHoldsTable'
  BY <1>1, Types DEF StartHoldsTable, Exited
<1> QED
  BY <1>4, <1>5, <1>6, <1>7, <1>8

-----------------------------------------------------------------------------

\* A step of the polling goroutine of stream s, which nobody starts or watches:
\* the stream has been emitted up to LastOffset and goes on from there.
LEMMA PollReach ==
  ASSUME IInv, NEW s \in DOMAIN streams, NEW r \in JobStream,
         streams[s].poll # "none", UNCHANGED watcher,
         streams' = [streams EXCEPT ![s] = r], streams[s].offset <= r.offset
  PROVE  /\ s # starting.stream /\ s # watcher.stream
         /\ \A t \in DOMAIN streams : InFlight(t)' = InFlight(t)
         /\ InFlight(s) = <<>>
         /\ DOMAIN Reach = DOMAIN streams /\ DOMAIN Reach' = DOMAIN Reach
         /\ Reach[s] = streams[s].offset /\ Reach'[s] = r.offset
         /\ \A t \in DOMAIN Reach : Reach'[t] \in Int /\ Reach[t] <= Reach'[t]
<1> USE DEF IInv
<1>1. s # starting.stream /\ streams[s].remote
  BY DEF StartHoldsTable, Polled
<1>2. s # watcher.stream
  <2>1. s > 0
    BY Types
  <2> QED
    BY <1>1, <2>1 DEF Watched
<1>3. \A t \in DOMAIN streams : InFlight(t)' = InFlight(t)
  BY DEF InFlight
<1>4. InFlight(s) = <<>> /\ Reach[s] = streams[s].offset /\ Len(<<>>) = 0
  BY <1>2, InFlightTypes, EmptySeq
<1>5. r.offset \in Nat /\ r.offset - Len(InFlight(s)') = r.offset
  <2>1. r.offset \in Nat
    BY DEF JobStream
  <2> QED
    BY <2>1, <1>3, <1>4
<1>6. /\ DOMAIN Reach = DOMAIN streams /\ DOMAIN Reach' = DOMAIN Reach
      /\ Reach'[s] = r.offset
      /\ \A t \in DOMAIN Reach : Reach'[t] \in Int /\ Reach[t] <= Reach'[t]
  <2> DEFINE n == r.offset
  <2>1. n \in Int /\ r.offset - Len(InFlight(s)') = n /\ Reach[s] <= n
    BY <1>4, <1>5
  <2> HIDE DEF n
  <2>2. /\ DOMAIN Reach = DOMAIN streams /\ DOMAIN Reach' = DOMAIN Reach
        /\ Reach'[s] = n
        /\ \A t \in DOMAIN Reach : Reach'[t] \in Int /\ Reach[t] <= Reach'[t]
    BY <2>1, <1>3, ReachChanged
  <2> QED
    BY <2>2 DEF n
<1> QED
  BY <1>1, <1>2, <1>3, <1>4, <1>6

\* What is left to show of such a step.
LEMMA PollChanged ==
  ASSUME IInv, NEW s \in DOMAIN streams, NEW r \in JobStream,
         streams[s].poll # "none", streams' = [streams EXCEPT ![s] = r],
         UNCHANGED <<fileVars, table, starting, watcher, cleanupVars, ctxDone, closed>>,
         r.key = streams[s].key, r.active = streams[s].active,
         r.remote = streams[s].remote, r.start = streams[s].start,
         streams[s].offset <= r.offset,
         r.poll = "emit" => /\ r.chunk # <<>>
                            /\ r.chunk = Units(r.offset, r.offset + Len(r.chunk)),
         r.start = 0 => r.log = Units(r.start, r.offset),
         BusTypeOK', SubscribedIsOpen', Queued'
  PROVE  IInv'
<1> USE DEF IInv
<1>1. /\ s # starting.stream /\ s # watcher.stream /\ InFlight(s) = <<>>
      /\ \A t \in DOMAIN streams : InFlight(t)' = InFlight(t)
  BY PollReach
<1>2. /\ DOMAIN streams' = DOMAIN streams /\ Len(streams') = Len(streams)
      /\ streams' \in Seq(JobStream) /\ streams'[s] = r
      /\ \A t \in DOMAIN streams : t # s => streams'[t] = streams[t]
  BY Replaced
<1>3. streams[s].remote
  BY DEF Polled
<1>4. StartsInFile' /\ Polled' /\ BufferContiguous'
  <2>1. r.start <= r.offset
    <3>1. streams[s].start \in Nat /\ streams[s].offset \in Nat /\ r.offset \in Nat
      BY StreamTypes DEF JobStream
    <3>2. streams[s].start <= streams[s].offset
      BY DEF StartsInFile
    <3> QED
      BY <3>1, <3>2
  <2>2. r.log \o InFlight(s)' = r.log
    <3>1. r.log \in Seq(1 .. MaxSize)
      BY DEF JobStream
    <3> QED
      BY <3>1, <1>1, ConcatEmptySeq
  <2> QED
    BY <2>1, <2>2, <1>1, <1>3, StreamChanged DEF fileVars
<1>5. Watched'
  BY <1>1, <1>2, WatcherTypes, WatchedKept
<1>6. Keyed' /\ CleanupsBounded' /\ StartHoldsTable' /\ ClosedButStarting' /\ StoppedIsCleanedUp'
  BY <1>1, <1>2, TableKept
<1>7. TypeOK'
  BY <1>2 DEF TypeOK, BusTypeOK, fileVars, cleanupVars
<1> QED
  BY <1>4, <1>5, <1>6, <1>7

\* A tick of the polling goroutine: it holds what follows LastOffset, unless
\* nothing has come.
LEMMA PollFetchStep ==
  ASSUME IInv, NEW s \in DOMAIN streams, PollFetch(s)
  PROVE  IInv'
<1> USE DEF IInv
<1> DEFINE content == Units(streams[s].offset, size[PathFor(s)])
           r == [streams[s] EXCEPT !.poll = "emit", !.chunk = content]
<1>1. /\ streams[s].poll = "wait"
      /\ \/ streams' = streams
         \/ content # <<>> /\ streams' = [streams EXCEPT ![s] = r]
      /\ UNCHANGED <<fileVars, table, starting, watcher, cleanupVars, ctxDone, closed, busVars>>
  BY DEF PollFetch
<1>2. CASE streams' = streams
  <2>1. Reach' = Reach /\ \A t \in DOMAIN Reach : Reach'[t] \in Int /\ Reach[t] <= Reach'[t]
    BY <1>1, <1>2, ReachKept, ReachTypes
  <2>2. BusTypeOK' /\ SubscribedIsOpen' /\ Queued'
    BY <2>1, <1>1, NotPublished
  <2> QED
    BY <2>2, <1>1, <1>2, BusStep
<1>3. CASE content # <<>> /\ streams' = [streams EXCEPT ![s] = r]
  <2>1. /\ streams[s] \in JobStream /\ streams[s].offset \in Nat
        /\ size[PathFor(s)] \in Nat /\ size[PathFor(s)] <= MaxSize
    BY StreamTypes
  <2>2. streams[s].offset < size[PathFor(s)]
    BY <1>3, <2>1, UnitsEmpty
  <2>3. content \in Seq(1 .. MaxSize) /\ Len(content) = size[PathFor(s)] - streams[s].offset
    BY <2>1, <2>2, UnitsProperties
  <2>4. content = Units(streams[s].offset, streams[s].offset + Len(content))
    <3>1. streams[s].offset + Len(content) = size[PathFor(s)]
      BY <2>1, <2>3
    <3> QED
      BY <3>1
  <2>5. /\ r \in JobStream /\ r.key = streams[s].key /\ r.active = streams[s].active
        /\ r.remote = streams[s].remote /\ r.start = streams[s].start
        /\ r.log = streams[s].log /\ r.offset = streams[s].offset
        /\ r.poll = "emit" /\ r.chunk = content
    BY <2>1, <2>3 DEF JobStream
  <2> HIDE DEF r, content
  <2>6. streams[s].offset <= r.offset
    BY <2>1, <2>5
  <2>7. /\ InFlight(s) = <<>> /\ DOMAIN Reach' = DOMAIN Reach
        /\ \A t \in DOMAIN Reach : Reach'[t] \in Int /\ Reach[t] <= Reach'[t]
    BY <1>1, <1>3, <2>5, <2>6, PollReach
  <2>8. r.start = 0 => r.log = Units(r.start, r.offset)
    BY <2>5, <2>7, StreamTypes, ConcatEmptySeq DEF BufferContiguous
  <2>9. BusTypeOK' /\ SubscribedIsOpen' /\ Queued'
    BY <2>7, <1>1, NotPublished
  <2> QED
    BY <1>1, <1>3, <2>4, <2>5, <2>6, <2>8, <2>9, PollChanged
<1> QED
  BY <1>1, <1>2, <1>3

\* The polling goroutine emits what it holds and moves LastOffset.
LEMMA PollEmitStep ==
  ASSUME IInv, NEW s \in DOMAIN streams, PollEmit(s)
  PROVE  IInv'
<1> USE DEF IInv
<1> DEFINE content == streams[s].chunk
           upto == streams[s].offset + Len(content)
           r == [Emitted(s, content, upto) EXCEPT !.poll = "wait", !.chunk = <<>>]
           e == Output(s, upto)
<1>1. /\ streams[s].poll = "emit"
      /\ streams' = [streams EXCEPT ![s] = r]
      /\ Publish(streams[s].key, e)
      /\ UNCHANGED <<fileVars, table, starting, watcher, cleanupVars, ctxDone, closed>>
  BY DEF PollEmit
<1>2. /\ streams[s] \in JobStream /\ streams[s].offset \in Nat /\ streams[s].key \in Key
      /\ streams[s].start \in Nat /\ streams[s].start <= streams[s].offset
      /\ streams[s].log \in Seq(1 .. MaxSize)
      /\ content \in Seq(1 .. MaxSize) /\ Len(content) \in Nat
  BY StreamTypes DEF StartsInFile
<1>3. content # <<>> /\ content = Units(streams[s].offset, upto)
  BY <1>1 DEF Polled
<1>4. Len(content) > 0 /\ upto \in Nat /\ streams[s].offset < upto
  <2>1. Len(content) # 0
    BY <1>2, <1>3, EmptySeq
  <2> QED
    BY <2>1, <1>2
<1>5. streams[s].log \o content \in Seq(1 .. MaxSize) /\ <<>> \in Seq(1 .. MaxSize)
  BY <1>2, ConcatProperties, EmptySeq
<1>6. e \in Event /\ e.stream = s /\ e.upto = upto
  BY <1>4, EventTypes DEF Output
<1> HIDE DEF e, upto
<1>7. /\ r \in JobStream /\ r.key = streams[s].key /\ r.active = streams[s].active
      /\ r.remote = streams[s].remote /\ r.start = streams[s].start
      /\ r.log = streams[s].log \o content /\ r.offset = upto /\ r.poll = "wait"
  BY <1>2, <1>4, <1>5 DEF Emitted, JobStream
<1> HIDE DEF r
<1>8. streams[s].offset <= r.offset
  BY <1>2, <1>4, <1>7
<1>9. /\ InFlight(s) = <<>> /\ Reach[s] = streams[s].offset /\ Reach'[s] = upto
      /\ DOMAIN Reach = DOMAIN streams /\ DOMAIN Reach' = DOMAIN Reach
      /\ \A t \in DOMAIN Reach : Reach'[t] \in Int /\ Reach[t] <= Reach'[t]
  BY <1>1, <1>7, <1>8, PollReach
<1>10. r.start = 0 => r.log = Units(r.start, r.offset)
  <2> DEFINE a == streams[s].start
             b == streams[s].offset
  <2> SUFFICES ASSUME r.start = 0
               PROVE  r.log = Units(r.start, r.offset)
    OBVIOUS
  <2>1. streams[s].log \o <<>> = Units(a, b)
    BY <1>7, <1>9 DEF BufferContiguous
  <2>2. streams[s].log = Units(a, b) /\ content = Units(b, upto)
    BY <2>1, <1>2, <1>3, ConcatEmptySeq
  <2>3. a \in Nat /\ b \in Nat /\ upto \in Nat /\ a <= b /\ b <= upto
    BY <1>2, <1>4
  <2>4. r.log = streams[s].log \o content /\ r.start = a /\ r.offset = upto
    BY <1>7
  <2> HIDE DEF a, b, content
  <2>5. Units(a, b) \o Units(b, upto) = Units(a, upto)
    BY <2>3, UnitsConcat
  <2> QED
    BY <2>2, <2>4, <2>5
<1>11. BusTypeOK' /\ SubscribedIsOpen' /\ Queued'
  <2>1. upto <= upto
    BY <1>4
  <2> QED
    BY <2>1, <1>1, <1>2, <1>4, <1>6, <1>9, Published
<1> QED
  BY <1>1, <1>7, <1>8, <1>10, <1>11, PollChanged

\* The polling goroutine ends.
LEMMA PollExitStep ==
  ASSUME IInv, NEW s \in DOMAIN streams, PollExit(s)
  PROVE  IInv'
<1> USE DEF IInv
<1> DEFINE r == [streams[s] EXCEPT !.poll = "done"]
<1>1. /\ streams[s].poll = "wait"
      /\ streams' = [streams EXCEPT ![s] = r]
      /\ UNCHANGED <<fileVars, table, starting, watcher, cleanupVars, ctxDone, closed, busVars>>
  BY DEF PollExit
<1>2. streams[s] \in JobStream /\ streams[s].offset \in Nat
  BY StreamTypes
<1>3. /\ r \in JobStream /\ r.key = streams[s].key /\ r.active = streams[s].active
      /\ r.remote = streams[s].remote /\ r.start = streams[s].start
      /\ r.log = streams[s].log /\ r.offset = streams[s].offset /\ r.poll = "done"
  BY <1>2 DEF JobStream
<1> HIDE DEF r
<1>4. streams[s].offset <= r.offset
  BY <1>2, <1>3
<1>5. /\ InFlight(s) = <<>> /\ DOMAIN Reach' = DOMAIN Reach
      /\ \A t \in DOMAIN Reach : Reach'[t] \in Int /\ Reach[t] <= Reach'[t]
  BY <1>1, <1>3, <1>4, PollReach
<1>6. r.start = 0 => r.log = Units(r.start, r.offset)
  BY <1>3, <1>5, StreamTypes, ConcatEmptySeq DEF BufferContiguous
<1>7. BusTypeOK' /\ SubscribedIsOpen' /\ Queued'
  BY <1>1, <1>5, NotPublished
<1> QED
  BY <1>1, <1>3, <1>4, <1>6, <1>7, PollChanged

-----------------------------------------------------------------------------

\* Close cancels the context.
LEMMA CloseCancelStep ==
  ASSUME IInv, CloseCancel
  PROVE  IInv'
<1> USE DEF IInv
<1>1. /\ ctxDone' = TRUE
      /\ UNCHANGED <<fileVars, streams, table, starting, watcher, cleanupVars, closed, busVars>>
  BY DEF CloseCancel
<1>2. BusTypeOK' /\ SubscribedIsOpen' /\ Queued'
  <2>1. Reach' = Reach /\ \A t \in DOMAIN Reach : Reach'[t] \in Int /\ Reach[t] <= Reach'[t]
    BY <1>1, ReachKept, ReachTypes
  <2> QED
    BY <2>1, <1>1, NotPublished
<1>3. TypeOK'
  BY <1>1 DEF TypeOK, fileVars, cleanupVars, busVars
<1>4. StartsInFile' /\ Polled' /\ Watched' /\ BufferContiguous'
  <2>1. \A p \in Path : size[p] <= size'[p]
    BY <1>1 DEF TypeOK, fileVars
  <2> QED
    BY <1>1, <1>3, <2>1, StreamsKept DEF fileVars
<1>5. Keyed' /\ CleanupsBounded' /\ StartHoldsTable' /\ ClosedButStarting' /\ StoppedIsCleanedUp'
  BY <1>1 DEF Keyed, CleanupsBounded, StartHoldsTable, ClosedButStarting, StoppedIsCleanedUp, cleanupVars
<1> QED
  BY <1>2, <1>3, <1>4, <1>5

\* Close has sm.mu: no StartStream is at work, and every stream of the table
\* becomes inactive.
LEMMA CloseStep ==
  ASSUME IInv, Close
  PROVE  IInv'
<1> USE DEF IInv
<1> DEFINE r(t) == IF table[streams[t].key] = t THEN [streams[t] EXCEPT !.active = FALSE]
                                                ELSE streams[t]
<1>1. /\ muFree
      /\ streams' = [t \in DOMAIN streams |-> r(t)]
      /\ watched' = {} /\ closed' = TRUE
      /\ Clear
      /\ UNCHANGED <<size, visible, fsEvents, table, starting, watcher, cleanupVars, ctxDone>>
  BY DEF Close
<1>2. ASSUME NEW t \in DOMAIN streams
      PROVE  /\ r(t) \in JobStream /\ r(t).key = streams[t].key /\ r(t).remote = streams[t].remote
             /\ r(t).start = streams[t].start /\ r(t).offset = streams[t].offset
             /\ r(t).log = streams[t].log /\ r(t).poll = streams[t].poll
             /\ r(t).chunk = streams[t].chunk
             /\ table[streams[t].key] = t => ~r(t).active
  <2>1. streams[t] \in JobStream
    BY StreamTypes
  <2> QED
    BY <2>1 DEF JobStream
<1>3. /\ DOMAIN streams' = DOMAIN streams /\ Len(streams') = Len(streams)
      /\ streams' \in Seq(JobStream)
      /\ \A t \in DOMAIN streams : streams'[t] = r(t)
  <2>1. DOMAIN streams = 1 .. Len(streams) /\ Len(streams) \in Nat
    BY Types
  <2>2. streams' \in [1 .. Len(streams) -> JobStream]
    BY <2>1, <1>1, <1>2
  <2> QED
    BY <2>1, <2>2, <1>1, FunctionIsSeq
<1>4. \A t \in DOMAIN streams :
        /\ streams'[t].key = streams[t].key /\ streams'[t].remote = streams[t].remote
        /\ streams'[t].start = streams[t].start /\ streams'[t].offset = streams[t].offset
        /\ streams'[t].log = streams[t].log /\ streams'[t].poll = streams[t].poll
        /\ streams'[t].chunk = streams[t].chunk
        /\ table[streams[t].key] = t => ~streams'[t].active
  <2> HIDE DEF r
  <2> QED
    BY <1>2, <1>3
<1> HIDE DEF r
<1>5. \A t \in DOMAIN streams : InFlight(t)' = InFlight(t) /\ PathFor(t)' = PathFor(t)
  BY <1>1, <1>4 DEF InFlight, PathFor
<1>6. BusTypeOK' /\ SubscribedIsOpen' /\ Queued'
  <2> DEFINE cs == UNION {subscribers[k] : k \in Key}
  <2>1. CloseChans(cs) /\ subscribers' = [k \in Key |-> {}]
    BY <1>1 DEF Clear
  <2> HIDE DEF cs
  <2>2. subscribers' \in [Key -> SUBSET DOMAIN chans] /\ \A k \in Key : subscribers'[k] = {}
    BY <2>1
  <2> QED
    BY <2>1, <2>2, <1>1, <1>3, <1>4, Closing
<1>7. TypeOK'
  BY <1>1, <1>3, <1>6 DEF TypeOK, BusTypeOK, cleanupVars
<1>8. StartsInFile'
  BY <1>1, <1>3, <1>4, <1>5 DEF StartsInFile
<1>9. Polled'
  BY <1>3, <1>4 DEF Polled
<1>10. Watched'
  BY <1>1, <1>3, <1>4, WatcherTypes, WatchedKept
<1>11. BufferContiguous'
  BY <1>3, <1>4, <1>5 DEF BufferContiguous
<1>12. /\ starting.stream = 0 /\ 0 \notin DOMAIN streams
       /\ \A k \in Key : table[k] # 0 => table[k] \in DOMAIN streams
  BY <1>1, Types DEF muFree, NotStarting, TypeOK
<1>13. Keyed' /\ CleanupsBounded'
  BY <1>1, <1>4, <1>12 DEF Keyed, CleanupsBounded, cleanupVars
<1>14. StartHoldsTable'
  BY <1>1, <1>3, <1>12 DEF StartHoldsTable
<1>15. ClosedButStarting'
  <2> SUFFICES ASSUME NEW k \in Key, table[k] # 0
               PROVE  ~streams'[table[k]].active
    BY <1>1 DEF ClosedButStarting
  <2> QED
    BY <1>4, <1>12 DEF Keyed
<1>16. StoppedIsCleanedUp'
  BY <1>1 DEF StoppedIsCleanedUp
<1> QED
  BY <1>6, <1>7, <1>8, <1>9, <1>10, <1>11, <1>13, <1>14, <1>15, <1>16

-----------------------------------------------------------------------------

\* The invariant holds initially.
LEMMA InitIInv ==
  ASSUME Init
  PROVE  IInv
<1> USE DEF Init
<1>1. /\ streams = <<>> /\ chans = <<>> /\ Len(<<>>) = 0 /\ DOMAIN streams = {} /\ DOMAIN chans = {}
      /\ streams \in Seq(JobStream) /\ chans \in Seq(Chan)
      /\ <<>> \in Seq(1 .. MaxSize)
  <2>1. DOMAIN <<>> = {}
    BY EmptySeq, LenProperties
  <2> QED
    BY <2>1, EmptySeq
<1>2. {MaxSize, MaxStreams, MaxChans, MaxCleanups, ChanCap} \subseteq Nat
  BY StreamManagerAssumption
<1>3. TypeOK
  <2>1. starting \in [stream : 0 .. Len(streams), next : {"none", "read", "watch", "fetch"}]
    BY <1>1 DEF NotStarting
  <2>2. watcher \in [stream : -1 .. Len(streams), chunk : Seq(1 .. MaxSize)]
    BY <1>1 DEF Idle
  <2>3. table \in [Key -> 0 .. Len(streams)]
    BY <1>1
  <2>4. Len(streams) <= MaxStreams /\ Len(chans) <= MaxChans
    BY <1>1, <1>2
  <2>5. /\ size \in [Path -> 0 .. MaxSize]
        /\ cleaning \in [Key -> 0 .. MaxCleanups] /\ unsubbing \in [Key -> 0 .. MaxCleanups]
    BY <1>2
  <2>6. visible \subseteq Path /\ watched \subseteq visible /\ fsEvents \subseteq visible
    OBVIOUS
  <2>7. subscribers \in [Key -> SUBSET DOMAIN chans]
    OBVIOUS
  <2>8. ctxDone \in BOOLEAN /\ closed \in BOOLEAN
    OBVIOUS
  <2> QED
    BY <1>1, <2>1, <2>2, <2>3, <2>4, <2>5, <2>6, <2>7, <2>8 DEF TypeOK
<1>4. Keyed /\ ClosedButStarting /\ StoppedIsCleanedUp
  BY DEF Keyed, ClosedButStarting, StoppedIsCleanedUp
<1>5. CleanupsBounded
  BY <1>2 DEF CleanupsBounded
<1>6. StartHoldsTable
  BY <1>1 DEF StartHoldsTable, NotStarting
<1>7. StartsInFile /\ Polled /\ BufferContiguous
  BY <1>1 DEF StartsInFile, Polled, BufferContiguous
<1>8. Watched
  BY DEF Watched, Idle
<1>9. Queued /\ SubscribedIsOpen
  BY <1>1 DEF Queued, SubscribedIsOpen
<1> QED
  BY <1>3, <1>4, <1>5, <1>6, <1>7, <1>8, <1>9 DEF IInv

\* A step that changes nothing.
LEMMA StutterStep ==
  ASSUME IInv, UNCHANGED vars
  PROVE  IInv'
<1>1. UNCHANGED <<fileVars, streams, table, starting, watcher, cleanupVars, ctxDone, closed, busVars>>
  BY DEF vars
<1>2. Reach' = Reach /\ \A t \in DOMAIN Reach : Reach'[t] \in Int /\ Reach[t] <= Reach'[t]
  BY <1>1, ReachKept, ReachTypes DEF IInv
<1>3. BusTypeOK' /\ SubscribedIsOpen' /\ Queued'
  BY <1>1, <1>2, NotPublished
<1> QED
  BY <1>1, <1>3, BusStep

\* The inductive invariant of StreamManager.
THEOREM Invariance == Spec => []IInv
<1>1. Init => IInv
  BY InitIInv
<1>2. IInv /\ [Next]_vars => IInv'
  <2> SUFFICES ASSUME IInv, [Next]_vars
               PROVE  IInv'
    OBVIOUS
  <2>1. CASE Client
    <3>1. ASSUME NEW k \in Key, StartStream(k) \/ StopStream(k) \/ Subscribe(k) \/ Unsubscribe(k)
          PROVE  IInv'
      BY <3>1, StartStreamStep, StopStreamStep, SubscribeStep, UnsubscribeStep
    <3> QED
      BY <2>1, <3>1, ReceiveStep, CloseCancelStep DEF Client
  <2>2. CASE \E p \in Path : Write(p)
    BY <2>2, WriteStep
  <2>3. CASE StartStep
    BY <2>3, StartReadStep, StartWatchStep, StartFetchStep, StartFailsStep DEF StartStep
  <2>4. CASE Cleanup
    BY <2>4, CleanupDeleteStep, CleanupUnsubscribeStep DEF Cleanup
  <2>5. CASE \E p \in Path : HandleFileEvent(p)
    BY <2>5, HandleFileEventStep
  <2>6. CASE EmitFileEvent
    BY <2>6, EmitFileEventStep
  <2>7. CASE WatcherExit
    BY <2>7, WatcherExitStep
  <2>8. CASE Poll
    BY <2>8, PollFetchStep, PollEmitStep, PollExitStep DEF Poll
  <2>9. CASE Close
    BY <2>9, CloseStep
  <2>10. CASE UNCHANGED vars
    BY <2>10, StutterStep
  <2> QED
    BY <2>1, <2>2, <2>3, <2>4, <2>5, <2>6, <2>7, <2>8, <2>9, <2>10 DEF Next
<1> QED
  BY <1>1, <1>2, PTL DEF Spec

\* Every variable stays within its type: the offsets within the file, the
\* queues within the capacity of the channels.
THEOREM TypeCorrect == Spec => []TypeOK
<1>1. IInv => TypeOK
  BY DEF IInv
<1> QED
  BY <1>1, Invariance, PTL

\* Publish never sends on a closed channel, and no channel is closed twice.
THEOREM ChannelsOpen == Spec => []SubscribedIsOpen
<1>1. IInv => SubscribedIsOpen
  BY DEF IInv
<1> QED
  BY <1>1, Invariance, PTL

\* The three emitters put every unit into a stream's buffer once and in order.
THEOREM NothingLostNorTwice == Spec => []BufferContiguous
<1>1. IInv => BufferContiguous
  BY DEF IInv
<1> QED
  BY <1>1, Invariance, PTL

\* A subscriber that is slow sees the output of a stream in order.
THEOREM EventsInOrder == Spec => []OutputInOrder
<1>1. IInv => OutputInOrder
  BY DEF IInv, Queued, InOrderUpTo, OutputInOrder
<1> QED
  BY <1>1, Invariance, PTL

\* A stopped stream does not stay in sm.activeStreams for want of a goroutine.
THEOREM StoppedGoes == Spec => []StoppedIsCleanedUp
<1>1. IInv => StoppedIsCleanedUp
  BY DEF IInv
<1> QED
  BY <1>1, Invariance, PTL

\* A StartStream that Close overtakes leaves no active local stream behind.
THEOREM NoLocalAfterClose == Spec => []ClosedStopsLocal
<1>1. IInv => ClosedStopsLocal
  <2> SUFFICES ASSUME IInv, closed, muFree, NEW k \in Key, table[k] # 0
               PROVE  ~streams[table[k]].active \/ streams[table[k]].remote
    BY DEF ClosedStopsLocal
  <2>1. table[k] # starting.stream
    BY DEF muFree, NotStarting
  <2> QED
    BY <2>1 DEF IInv, ClosedButStarting
<1> QED
  BY <1>1, Invariance, PTL

=============================================================================
