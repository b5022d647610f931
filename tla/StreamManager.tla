---------------------------- MODULE StreamManager ----------------------------
(***************************************************************************)
(* internal/streaming/manager.go with internal/streaming/eventbus.go: the  *)
(* streaming of job output files to subscribers.                           *)
(*                                                                         *)
(* A file is the number of units written to it so far; unit i is the i-th. *)
(* A stream object keeps its identity when the table entry under its key   *)
(* is replaced, so streams are numbered.  Publish and the other operations *)
(* of the event bus hold its lock throughout and are part of the action    *)
(* that calls them.  StartStream holds sm.mu from its first line to its    *)
(* last, but the job goes on writing meanwhile: its stat, its read and its *)
(* adding the watch are steps of their own, and starting tells which one   *)
(* is next.  Files grow and are not truncated; reads of an existing file   *)
(* succeed; commands over SSH may fail.                                    *)
(***************************************************************************)
EXTENDS Integers, Sequences, FiniteSets

CONSTANTS
  Key,          \* jobID:outputType
  Path,         \* output files
  PathOf,       \* PathOf[k]: the file ResolveOutputPath finds for key k
  Elsewhere,    \* keys whose job may run on a node that is not local
  HasExecutor,  \* an SSHCommandExecutor is configured
  MaxSize,      \* bound: units written to a file
  MaxStreams,   \* bound: calls of StartStream that create a stream
  MaxChans,     \* bound: calls of Subscribe
  MaxCleanups,  \* bound: delayed cleanups of a key at one time
  ChanCap       \* capacity of a subscriber's channel: 100

ASSUME StreamManagerAssumption ==
  /\ PathOf \in [Key -> Path]
  /\ Elsewhere \subseteq Key
  /\ HasExecutor \in BOOLEAN
  /\ {MaxSize, MaxStreams, MaxChans, MaxCleanups, ChanCap} \subseteq Nat

VARIABLES
  size,       \* external: units in each file
  visible,    \* external: files that exist in the local file system
  watched,    \* external: paths added to the fsnotify watcher
  fsEvents,   \* external: paths with a Write event not yet received
  streams,    \* every JobStream made so far
  table,      \* sm.activeStreams: the number of the stream under a key, or 0
  starting,   \* the StartStream that holds sm.mu, if any: [stream, next]
  watcher,    \* watchFileEvents: its state and the content it is to emit
  cleaning,   \* cleaning[k]: StopStream goroutines asleep
  unsubbing,  \* unsubbing[k]: those that have deleted the entry of k
  ctxDone,    \* sm.ctx is cancelled
  closed,     \* Close has returned: the fsnotify watcher is closed
  chans,      \* every channel made by Subscribe: [key, open, queue]
  subscribers \* eb.subscribers

fileVars == <<size, visible, watched, fsEvents>>
busVars == <<chans, subscribers>>
cleanupVars == <<cleaning, unsubbing>>
vars == <<fileVars, streams, table, starting, watcher, cleanupVars, ctxDone, closed, busVars>>

Units(from, upto) == [i \in 1 .. (upto - from) |-> from + i]

\* The struct JobStream.  start is the offset it was made with; log is its
\* Buffer; poll and chunk are the local state of its pollRemoteFile goroutine.
JobStream ==
  [key: Key, active: BOOLEAN, remote: BOOLEAN, start: 0 .. MaxSize, offset: Nat,
   log: Seq(1 .. MaxSize), poll: {"none", "wait", "emit", "done"}, chunk: Seq(1 .. MaxSize)]

Event == [type: {"start", "stop", "output"}, stream: 1 .. MaxStreams, upto: Nat]
Chan == [key: Key, open: BOOLEAN, queue: Seq(Event)]

NotStarting == [stream |-> 0, next |-> "none"]
Idle == [stream |-> 0, chunk |-> <<>>]   \* watchFileEvents is in its select
Exited == [stream |-> -1, chunk |-> <<>>]

TypeOK ==
  /\ size \in [Path -> 0 .. MaxSize]
  /\ visible \subseteq Path
  /\ watched \subseteq visible
  /\ fsEvents \subseteq visible
  /\ streams \in Seq(JobStream) /\ Len(streams) <= MaxStreams
  /\ table \in [Key -> 0 .. Len(streams)]
  /\ starting \in [stream: 0 .. Len(streams), next: {"none", "read", "watch", "fetch"}]
  /\ watcher \in [stream: -1 .. Len(streams), chunk: Seq(1 .. MaxSize)]
  /\ cleaning \in [Key -> 0 .. MaxCleanups]
  /\ unsubbing \in [Key -> 0 .. MaxCleanups]
  /\ ctxDone \in BOOLEAN
  /\ closed \in BOOLEAN
  /\ chans \in Seq(Chan) /\ Len(chans) <= MaxChans
  /\ \A c \in DOMAIN chans : Len(chans[c].queue) <= ChanCap
  /\ subscribers \in [Key -> SUBSET DOMAIN chans]

Init ==
  /\ size = [p \in Path |-> 0]
  /\ visible \in SUBSET Path
  /\ watched = {}
  /\ fsEvents = {}
  /\ streams = <<>>
  /\ table = [k \in Key |-> 0]
  /\ starting = NotStarting
  /\ watcher = Idle
  /\ cleaning = [k \in Key |-> 0]
  /\ unsubbing = [k \in Key |-> 0]
  /\ ctxDone = FALSE
  /\ closed = FALSE
  /\ chans = <<>>
  /\ subscribers = [k \in Key |-> {}]

muFree == starting = NotStarting
PathFor(s) == PathOf[streams[s].key]

(***************************************************************************)
(* The event bus.                                                          *)
(***************************************************************************)

\* A mutant: the send does not give up on a full channel.
PublishToFull(k, event) ==
  /\ chans' = [c \in DOMAIN chans |->
                 IF c \in subscribers[k] THEN [chans[c] EXCEPT !.queue = Append(@, event)]
                                         ELSE chans[c]]
  /\ UNCHANGED subscribers

\* Publish: a non-blocking send to every subscriber of the key.
Publish(k, event) ==
  /\ chans' = [c \in DOMAIN chans |->
                 IF c \in subscribers[k] /\ Len(chans[c].queue) < ChanCap
                 THEN [chans[c] EXCEPT !.queue = Append(@, event)]
                 ELSE chans[c]]
  /\ UNCHANGED subscribers

CloseChans(cs) ==
  chans' = [c \in DOMAIN chans |->
              IF c \in cs THEN [chans[c] EXCEPT !.open = FALSE] ELSE chans[c]]

\* A mutant: the closed channels stay in the map.
UnsubscribeAllKeepsThem(k) == CloseChans(subscribers[k]) /\ UNCHANGED subscribers

UnsubscribeAll(k) ==
  /\ CloseChans(subscribers[k])
  /\ subscribers' = [subscribers EXCEPT ![k] = {}]

Clear ==
  /\ CloseChans(UNION {subscribers[k] : k \in Key})
  /\ subscribers' = [k \in Key |-> {}]

Subscribe(k) ==
  /\ Len(chans) < MaxChans
  /\ chans' = Append(chans, [key |-> k, open |-> TRUE, queue |-> <<>>])
  /\ subscribers' = [subscribers EXCEPT ![k] = @ \cup {Len(chans) + 1}]
  /\ UNCHANGED <<fileVars, streams, table, starting, watcher, cleanupVars, ctxDone, closed>>

\* StreamManager.Unsubscribe ignores which channel it is given.
Unsubscribe(k) ==
  /\ UnsubscribeAll(k)
  /\ UNCHANGED <<fileVars, streams, table, starting, watcher, cleanupVars, ctxDone, closed>>

\* The subscriber takes the next event.
Receive(c) ==
  /\ chans[c].queue # <<>>
  /\ chans' = [chans EXCEPT ![c].queue = Tail(@)]
  /\ UNCHANGED <<fileVars, streams, table, starting, watcher, cleanupVars, ctxDone, closed,
                 subscribers>>

(***************************************************************************)
(* Files and the watcher library.                                          *)
(***************************************************************************)

\* The job writes a unit; a file can also appear in the local file system
\* with its first units in it.
Write(p) ==
  /\ size[p] < MaxSize
  /\ size' = [size EXCEPT ![p] = @ + 1]
  /\ visible' \in {visible, visible \cup {p}}
  /\ fsEvents' = IF p \in watched THEN fsEvents \cup {p} ELSE fsEvents
  /\ UNCHANGED <<watched, streams, table, starting, watcher, cleanupVars, ctxDone, closed,
                 busVars>>

(***************************************************************************)
(* emitNewContent: into the stream's buffer and out to the subscribers.    *)
(***************************************************************************)

Output(s, upto) == [type |-> "output", stream |-> s, upto |-> upto]

\* A mutant: LastOffset is not moved.
EmittedInPlace(s, content, upto) == [streams[s] EXCEPT !.log = @ \o content]

\* The record of stream s once it has emitted content and moved to an offset.
Emitted(s, content, upto) ==
  [streams[s] EXCEPT !.log = @ \o content, !.offset = upto]

PublishContent(s, content, upto) ==
  IF content = <<>> THEN UNCHANGED busVars ELSE Publish(streams[s].key, Output(s, upto))

(***************************************************************************)
(* StartStream.                                                            *)
(***************************************************************************)

LocalSize(p) == IF p \in visible THEN size[p] ELSE 0

\* Until the stat of the file.  Where the job runs is asked of SLURM each time.
StartStream(k) ==
  /\ muFree
  /\ Len(streams) < MaxStreams
  /\ table[k] # 0 => ~streams[table[k]].active
  /\ \E remote \in IF k \in Elsewhere THEN BOOLEAN ELSE {FALSE} :
       /\ streams' = Append(streams,
            [key |-> k, active |-> TRUE, remote |-> remote, start |-> LocalSize(PathOf[k]),
             offset |-> LocalSize(PathOf[k]), log |-> <<>>, poll |-> "none", chunk |-> <<>>])
       /\ starting' = [stream |-> Len(streams) + 1,
                       next |-> IF remote THEN "fetch" ELSE "read"]
  /\ table' = [table EXCEPT ![k] = Len(streams) + 1]
  /\ UNCHANGED <<fileVars, watcher, cleanupVars, ctxDone, closed, busVars>>

\* The file is read from the offset of the stat on.  When it is not there the
\* stream falls back to SSH polling, if it can.
StartRead(s) ==
  /\ starting = [stream |-> s, next |-> "read"]
  /\ LET p == PathFor(s)
         content == Units(streams[s].offset, size[p])
     IN \/ /\ p \in visible
           /\ streams' = [streams EXCEPT ![s] = Emitted(s, content, size[p])]
           /\ PublishContent(s, content, size[p])
           /\ starting' = [starting EXCEPT !.next = "watch"]
        \/ /\ p \notin visible
           /\ \E node \in BOOLEAN :   \* SLURM named a node of the job
                /\ streams' = [streams EXCEPT ![s].remote = node /\ HasExecutor]
                /\ starting' = [starting EXCEPT !.next =
                                  IF node /\ HasExecutor THEN "fetch" ELSE "watch"]
           /\ UNCHANGED busVars
  /\ UNCHANGED <<fileVars, table, watcher, cleanupVars, ctxDone, closed>>

\* The end of a StartStream that succeeds.
Started(s) ==
  /\ starting' = NotStarting
  /\ Publish(streams[s].key, [type |-> "start", stream |-> s, upto |-> 0])

\* A mutant: an error of fileWatcher.Add is taken for a missing file.
StartWatchIgnoresErrors(s) ==
  /\ starting = [stream |-> s, next |-> "watch"]
  /\ watched' = IF closed THEN watched ELSE watched \cup ({PathFor(s)} \cap visible)
  /\ Started(s)
  /\ UNCHANGED <<size, visible, fsEvents, streams, table, watcher, cleanupVars, ctxDone,
                 closed>>

\* A missing file cannot be watched and is not an error.
StartWatch(s) ==
  /\ starting = [stream |-> s, next |-> "watch"]
  /\ ~closed
  /\ watched' = watched \cup ({PathFor(s)} \cap visible)
  /\ Started(s)
  /\ UNCHANGED <<size, visible, fsEvents, streams, table, watcher, cleanupVars, ctxDone,
                 closed>>

\* fetchInitialRemoteContent: cat prints the file from its beginning.
StartFetch(s) ==
  /\ starting = [stream |-> s, next |-> "fetch"]
  /\ HasExecutor
  /\ \E failed \in BOOLEAN :
       LET content == IF failed \/ ctxDone THEN <<>> ELSE Units(0, size[PathFor(s)])
           upto == streams[s].offset + Len(content)
       IN /\ streams' = [streams EXCEPT ![s] = [Emitted(s, content, upto)
                                                  EXCEPT !.poll = "wait"]]
          /\ starting' = NotStarting
          /\ LET start == [type |-> "start", stream |-> s, upto |-> 0]
                 events == IF content = <<>> THEN <<start>> ELSE <<Output(s, upto), start>>
                 k == streams[s].key
             IN chans' = [c \in DOMAIN chans |->
                  IF c \in subscribers[k]
                  THEN [chans[c] EXCEPT !.queue =
                          LET q == @ \o events
                          IN SubSeq(q, 1, IF Len(q) > ChanCap THEN ChanCap ELSE Len(q))]
                  ELSE chans[c]]
          /\ UNCHANGED subscribers
  /\ UNCHANGED <<fileVars, table, watcher, cleanupVars, ctxDone, closed>>

\* No executor, or a watcher that Close has closed: the entry is deleted.
StartFails(s) ==
  /\ starting.stream = s
  /\ \/ starting.next = "fetch" /\ ~HasExecutor
     \/ starting.next = "watch" /\ closed
  /\ starting' = NotStarting
  /\ table' = [table EXCEPT ![streams[s].key] = 0]
  /\ UNCHANGED <<fileVars, streams, watcher, cleanupVars, ctxDone, closed, busVars>>

StartStep ==
  \E s \in DOMAIN streams : StartRead(s) \/ StartWatch(s) \/ StartFetch(s) \/ StartFails(s)

(***************************************************************************)
(* StopStream and the goroutine it leaves behind.                          *)
(***************************************************************************)

\* A mutant: the goroutine is started only when there is someone to unsubscribe.
StopStreamUnheard(k) ==
  /\ muFree
  /\ table[k] # 0
  /\ cleaning[k] + unsubbing[k] < MaxCleanups
  /\ LET s == table[k]
     IN /\ streams' = [streams EXCEPT ![s].active = FALSE]
        /\ watched' = IF streams[s].remote THEN watched ELSE watched \ {PathOf[k]}
        /\ Publish(k, [type |-> "stop", stream |-> s, upto |-> 0])
  /\ cleaning' = [cleaning EXCEPT ![k] = IF subscribers[k] = {} THEN @ ELSE @ + 1]
  /\ UNCHANGED <<size, visible, fsEvents, table, starting, watcher, unsubbing, ctxDone, closed>>

StopStream(k) ==
  /\ muFree
  /\ table[k] # 0
  /\ cleaning[k] + unsubbing[k] < MaxCleanups
  /\ LET s == table[k]
     IN /\ streams' = [streams EXCEPT ![s].active = FALSE]
        /\ watched' = IF streams[s].remote THEN watched ELSE watched \ {PathOf[k]}
        /\ Publish(k, [type |-> "stop", stream |-> s, upto |-> 0])
  /\ cleaning' = [cleaning EXCEPT ![k] = @ + 1]
  /\ UNCHANGED <<size, visible, fsEvents, table, starting, watcher, unsubbing, ctxDone, closed>>

\* A mutant: the goroutine gives way to a stream that has been started since.
CleanupGivesWay(k) ==
  /\ muFree
  /\ cleaning[k] > 0
  /\ LET restarted == table[k] # 0 /\ streams[table[k]].active
     IN /\ table' = IF restarted THEN table ELSE [table EXCEPT ![k] = 0]
        /\ unsubbing' = IF restarted THEN unsubbing ELSE [unsubbing EXCEPT ![k] = @ + 1]
  /\ cleaning' = [cleaning EXCEPT ![k] = @ - 1]
  /\ UNCHANGED <<fileVars, streams, starting, watcher, ctxDone, closed, busVars>>

\* A second later: whatever is under the key now is deleted ...
CleanupDelete(k) ==
  /\ muFree
  /\ cleaning[k] > 0
  /\ table' = [table EXCEPT ![k] = 0]
  /\ cleaning' = [cleaning EXCEPT ![k] = @ - 1]
  /\ unsubbing' = [unsubbing EXCEPT ![k] = @ + 1]
  /\ UNCHANGED <<fileVars, streams, starting, watcher, ctxDone, closed, busVars>>

\* ... and, the lock released, its subscribers are closed.
CleanupUnsubscribe(k) ==
  /\ unsubbing[k] > 0
  /\ unsubbing' = [unsubbing EXCEPT ![k] = @ - 1]
  /\ UnsubscribeAll(k)
  /\ UNCHANGED <<fileVars, streams, table, starting, watcher, cleaning, ctxDone, closed>>

(***************************************************************************)
(* The goroutine watchFileEvents.                                          *)
(***************************************************************************)

\* A mutant: streams that are polled over SSH are picked as well.
ReadersOfAnyKind(p) ==
  {s \in DOMAIN streams : table[streams[s].key] = s /\ PathFor(s) = p /\ streams[s].active}

\* The streams readNewContent may pick for a path, whichever the map yields.
Readers(p) ==
  {s \in DOMAIN streams : /\ table[streams[s].key] = s
                          /\ PathFor(s) = p
                          /\ streams[s].active
                          /\ ~streams[s].remote}

\* A Write event is received and readNewContent moves the offset under sm.mu.
HandleFileEvent(p) ==
  /\ watcher = Idle
  /\ muFree
  /\ p \in fsEvents
  /\ ~closed
  /\ fsEvents' = fsEvents \ {p}
  /\ IF Readers(p) = {} THEN UNCHANGED <<streams, watcher>>
     ELSE \E s \in Readers(p) :
            LET content == Units(streams[s].offset, size[p])
            IN IF content = <<>> THEN UNCHANGED <<streams, watcher>>
               ELSE /\ streams' = [streams EXCEPT ![s].offset = size[p]]
                    /\ watcher' = [stream |-> s, chunk |-> content]
  /\ UNCHANGED <<size, visible, watched, table, starting, cleanupVars, ctxDone, closed, busVars>>

\* A mutant: the goroutine returns when the stream was stopped meanwhile.
EmitUnlessStopped ==
  /\ watcher.stream > 0
  /\ LET s == watcher.stream
     IN /\ streams' = [streams EXCEPT ![s].log = @ \o watcher.chunk]
        /\ Publish(streams[s].key, Output(s, watcher.chunk[Len(watcher.chunk)]))
        /\ watcher' = IF streams[s].active THEN Idle ELSE Exited
  /\ UNCHANGED <<fileVars, table, starting, cleanupVars, ctxDone, closed>>

\* The content is emitted without the lock.
EmitFileEvent ==
  /\ watcher.stream > 0
  /\ LET s == watcher.stream
     IN /\ streams' = [streams EXCEPT ![s].log = @ \o watcher.chunk]
        /\ Publish(streams[s].key, Output(s, watcher.chunk[Len(watcher.chunk)]))
  /\ watcher' = Idle
  /\ UNCHANGED <<fileVars, table, starting, cleanupVars, ctxDone, closed>>

WatcherExit ==
  /\ watcher = Idle
  /\ ctxDone
  /\ watcher' = Exited
  /\ UNCHANGED <<fileVars, streams, table, starting, cleanupVars, ctxDone, closed, busVars>>

(***************************************************************************)
(* The goroutine pollRemoteFile of stream s: it holds no lock.             *)
(***************************************************************************)

\* A tick: tail prints what follows the offset, while others take steps.
PollFetch(s) ==
  /\ streams[s].poll = "wait"
  /\ streams[s].active
  /\ \E failed \in BOOLEAN :
       LET content == Units(streams[s].offset, size[PathFor(s)])
       IN IF failed \/ ctxDone \/ content = <<>>
          THEN UNCHANGED streams
          ELSE streams' = [streams EXCEPT ![s].poll = "emit", ![s].chunk = content]
  /\ UNCHANGED <<fileVars, table, starting, watcher, cleanupVars, ctxDone, closed, busVars>>

PollEmit(s) ==
  /\ streams[s].poll = "emit"
  /\ LET content == streams[s].chunk
         upto == streams[s].offset + Len(content)
     IN /\ streams' = [streams EXCEPT ![s] = [Emitted(s, content, upto)
                                                EXCEPT !.poll = "wait", !.chunk = <<>>]]
        /\ Publish(streams[s].key, Output(s, upto))
  /\ UNCHANGED <<fileVars, table, starting, watcher, cleanupVars, ctxDone, closed>>

PollExit(s) ==
  /\ streams[s].poll = "wait"
  /\ ctxDone \/ ~streams[s].active
  /\ streams' = [streams EXCEPT ![s].poll = "done"]
  /\ UNCHANGED <<fileVars, table, starting, watcher, cleanupVars, ctxDone, closed, busVars>>

(***************************************************************************)
(* Close: the context is cancelled before the lock is taken.               *)
(***************************************************************************)

CloseCancel ==
  /\ ~ctxDone
  /\ ctxDone' = TRUE
  /\ UNCHANGED <<fileVars, streams, table, starting, watcher, cleanupVars, closed, busVars>>

Close ==
  /\ ctxDone
  /\ ~closed
  /\ muFree
  /\ streams' = [s \in DOMAIN streams |->
                   IF table[streams[s].key] = s THEN [streams[s] EXCEPT !.active = FALSE]
                                                ELSE streams[s]]
  /\ watched' = {}
  /\ closed' = TRUE
  /\ Clear
  /\ UNCHANGED <<size, visible, fsEvents, table, starting, watcher, cleanupVars, ctxDone>>

-----------------------------------------------------------------------------

Client ==
  \/ \E k \in Key : StartStream(k) \/ StopStream(k) \/ Subscribe(k) \/ Unsubscribe(k)
  \/ \E c \in DOMAIN chans : Receive(c)
  \/ CloseCancel

Cleanup == \E k \in Key : CleanupDelete(k) \/ CleanupUnsubscribe(k)

Poll == \E s \in DOMAIN streams : PollFetch(s) \/ PollEmit(s) \/ PollExit(s)

Next ==
  \/ Client
  \/ \E p \in Path : Write(p)
  \/ StartStep
  \/ Cleanup
  \/ \E p \in Path : HandleFileEvent(p)
  \/ EmitFileEvent
  \/ WatcherExit
  \/ Poll
  \/ Close

\* Started operations run on, sleeping goroutines wake up, and the watcher
\* goroutine serves its channels.  No call, write or receive has to happen.
Spec ==
  /\ Init
  /\ [][Next]_vars
  /\ WF_vars(StartStep)
  /\ WF_vars(EmitFileEvent)
  /\ \A k \in Key : SF_vars(CleanupDelete(k)) /\ WF_vars(CleanupUnsubscribe(k))
  /\ \A p \in Path : SF_vars(HandleFileEvent(p))

-----------------------------------------------------------------------------

\* No send on a closed channel and no second close, which panic: whoever is
\* subscribed to a key has a channel that is open, and only under that key
\* (Publish, UnsubscribeAll and Clear trust eb.subscribers to be so).
SubscribedIsOpen ==
  \A k \in Key : \A c \in subscribers[k] : chans[c].open /\ chans[c].key = k

\* What the watcher goroutine has read for stream s and not yet emitted.
InFlight(s) == IF watcher.stream = s THEN watcher.chunk ELSE <<>>

\* Between them the initial read, the watcher goroutine (which moves the
\* offset before it emits) and the polling goroutine (which moves it after)
\* put every unit from the start offset to LastOffset into the buffer once and
\* in order.  Not so for a stream read over SSH whose start offset
\* is not 0: fetchInitialRemoteContent reads it from the beginning.
BufferContiguous ==
  \A s \in DOMAIN streams :
    streams[s].start = 0 \/ ~streams[s].remote
      => streams[s].log \o InFlight(s) = Units(streams[s].start, streams[s].offset)

\* The output events of one stream that wait in a channel have increasing file
\* offsets, whichever of its three emitters published them.
OutputInOrder ==
  \A c \in DOMAIN chans :
    LET q == chans[c].queue IN
    \A i, j \in DOMAIN q :
      i < j /\ q[i].type = "output" /\ q[j].type = "output" /\ q[i].stream = q[j].stream
        => q[i].upto < q[j].upto

\* A stopped stream that is still in sm.activeStreams has a goroutine asleep
\* that will delete it, however often the key was stopped and started again.
StoppedIsCleanedUp ==
  \A k \in Key :
    table[k] # 0 => streams[table[k]].active \/ cleaning[k] > 0 \/ closed

\* Once Close has returned no stream that reads a local file is active: a
\* StartStream that Close overtakes finds the fsnotify watcher closed, fails
\* and takes its entry back.
ClosedStopsLocal ==
  closed /\ muFree =>
    \A k \in Key : table[k] # 0 => ~streams[table[k]].active \/ streams[table[k]].remote

\* A Write event is not lost: the file is read at least as far as it reached
\* then, unless no local stream wants it any more or the manager shuts down.
EventuallyRead ==
  \A p \in Path : \A n \in 1 .. MaxSize :
    (p \in fsEvents /\ size[p] = n)
      ~> \/ \E s \in DOMAIN streams : PathFor(s) = p /\ streams[s].offset >= n
         \/ Readers(p) = {}
         \/ ctxDone

\* Whoever is subscribed to a key while one of its streams awaits cleaning up
\* has the channel closed in the end, and so learns that it is over.
SubscribersReleased ==
  \A c \in 1 .. MaxChans :
    (c \in DOMAIN chans /\ cleaning[chans[c].key] > 0) ~> (c \in DOMAIN chans /\ ~chans[c].open)

=============================================================================
