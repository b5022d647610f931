----------------------------- MODULE SSHSessions -----------------------------
(***************************************************************************)
(* internal/ssh/session_manager.go with internal/ssh/persistence.go: the   *)
(* sessions of the SSH terminal manager.                                   *)
(*                                                                         *)
(* A session object keeps its identity when it leaves the table, since the *)
(* goroutines that looked it up go on with it, so objects are numbered.    *)
(* The table is guarded by sm.mu, each object by a mutex of its own.  An   *)
(* operation looks its session up under sm.mu, gives sm.mu up and waits    *)
(* for the object; CloseSession and the sweep keep sm.mu while they wait.  *)
(* ssh itself is external: a connection attempt takes a while, with the    *)
(* object locked, and may fail; a master that serves the control socket of *)
(* a host may exit at any time.                                            *)
(*                                                                         *)
(* Left out: ExecuteCommand and CreateTunnel, which only hold an object    *)
(* for a while, the queries, tags, and CloseAllSessions and Shutdown, which *)
(* nothing in the program calls: it exits with what it last saved.         *)
(***************************************************************************)
EXTENDS Integers, Sequences, FiniteSets

CONSTANTS
  Host,         \* username@hostname
  Client,       \* goroutines that call the manager
  Nobody,       \* the holder of a mutex that is free
  Cleaner,      \* the goroutine cleanupLoop
  MaxSeconds,   \* bound: seconds in which sessions are created
  MaxSessions,  \* bound: session objects in one life of the program
  MaxProcesses, \* bound: interactive terminals in one life of the program
  MaxRestarts   \* bound: exits of the program

ASSUME SSHSessionsAssumption ==
  /\ Nobody \notin Client \cup {Cleaner}
  /\ Cleaner \notin Client
  /\ {MaxSeconds, MaxSessions, MaxProcesses, MaxRestarts} \subseteq Nat
  /\ MaxSeconds # 0

VARIABLES
  now,       \* the second of the last CreateSession
  sessions,  \* every session object made
  table,     \* sm.sessions: the number of the object under an id, or 0
  mu,        \* who holds sm.mu for writing
  client,    \* how far the operation of each client is
  cleaner,   \* how far cleanupLoop is; it holds sm.mu for reading while it saves
  processes, \* external: the interactive ssh processes
  served,    \* external: hosts whose control socket a master serves
  saved,     \* external: the ids in sessions.json
  restarts,  \* exits of the program
  closed     \* history: ids closed, and no connection to their host made since

disk == <<served, saved>>
vars == <<now, sessions, table, mu, client, cleaner, processes, disk, restarts, closed>>

\* "%s@%s_%d"
Id == [host: Host, second: 1 .. MaxSeconds]
State == {"idle", "connecting", "connected", "active", "disconnected", "error"}

\* The struct Session: who holds its mutex, its Process, and, as a history,
\* whether cmd.Start was called for it never, once, or more often.
Session == [id: Id, state: State, lock: Client \cup {Nobody}, process: Nat, starts: 0 .. 2]

NewSession(id, state) ==
  [id |-> id, state |-> state, lock |-> Nobody, process |-> 0, starts |-> 0]

\* A client: the object StartInteractiveSession is for, if any, and the one
\* ConnectSession or CloseSession has found.
Resting == [pc |-> "idle", session |-> 0, target |-> 0]
Clients == [pc: {"idle", "connect", "ssh", "start", "reconnect", "launch", "close"},
            session: 0 .. MaxSessions, target: 0 .. MaxSessions]

\* The cleaner: the ids it has still to visit, those to be saved.
Asleep == [pc |-> "asleep", todo |-> {}, found |-> {}]
Cleaners == [pc: {"asleep", "sweep", "swept", "save"},
             todo: SUBSET Id, found: SUBSET Id]

\* The goroutine of a process that has exited is still to take note of it
\* until the process is reaped.
Process == [session: 1 .. MaxSessions, status: {"running", "exited", "reaped"}]

Tabled == {id \in Id : table[id] # 0}
Up == {"connected", "active"}

TypeOK ==
  /\ now \in 1 .. MaxSeconds
  /\ sessions \in Seq(Session) /\ Len(sessions) <= MaxSessions
  /\ table \in [Id -> 0 .. Len(sessions)]
  /\ mu \in Client \cup {Nobody, Cleaner}
  /\ client \in [Client -> Clients]
  /\ cleaner \in Cleaners
  /\ processes \in Seq(Process)
  /\ served \subseteq Host
  /\ saved \subseteq Id
  /\ restarts \in 0 .. MaxRestarts
  /\ closed \subseteq Id
  /\ \A s \in DOMAIN sessions : sessions[s].process \in 0 .. Len(processes)
  /\ \A id \in Tabled : sessions[table[id]].id = id

Init ==
  /\ now = 1
  /\ sessions = <<>>
  /\ table = [id \in Id |-> 0]
  /\ mu = Nobody
  /\ client = [c \in Client |-> Resting]
  /\ cleaner = Asleep
  /\ processes = <<>>
  /\ served = {}
  /\ saved = {}
  /\ restarts = 0
  /\ closed = {}

MayRead == mu = Nobody
MayWrite == mu = Nobody /\ cleaner.pc # "save"
Free(s) == sessions[s].lock = Nobody

(***************************************************************************)
(* CreateSession and ConnectSession.                                       *)
(***************************************************************************)

\* Some seconds may have passed.  A session made in the same second is returned,
\* not made again.
CreateSession(h) ==
  /\ MayWrite
  /\ Len(sessions) < MaxSessions
  /\ now' \in now .. MaxSeconds
  /\ LET id == [host |-> h, second |-> now']
     IN /\ table[id] = 0
        /\ sessions' = Append(sessions, NewSession(id, "idle"))
        /\ table' = [table EXCEPT ![id] = Len(sessions) + 1]
        /\ closed' = closed \ {id}
  /\ UNCHANGED <<mu, client, cleaner, processes, disk, restarts>>

ConnectSession(c, id) ==
  /\ client[c] = Resting
  /\ MayRead
  /\ id \in Tabled
  /\ client' = [client EXCEPT ![c] = [pc |-> "connect", session |-> 0, target |-> table[id]]]
  /\ UNCHANGED <<now, sessions, table, mu, cleaner, processes, disk, restarts, closed>>

\* Where a client goes on after a ConnectSession that has succeeded.
AfterConnect(c) ==
  IF client[c].session = 0 THEN Resting ELSE [client[c] EXCEPT !.pc = "launch", !.target = 0]

ConnectLocks(c) ==
  /\ client[c].pc = "connect"
  /\ LET s == client[c].target
     IN /\ Free(s)
        /\ IF sessions[s].state \in Up
           THEN /\ client' = [client EXCEPT ![c] = AfterConnect(c)]
                /\ UNCHANGED sessions
           ELSE /\ client' = [client EXCEPT ![c].pc = "ssh"]
                /\ sessions' = [sessions EXCEPT ![s] = [@ EXCEPT !.lock = c, !.state = "connecting"]]
  /\ UNCHANGED <<now, table, mu, cleaner, processes, disk, restarts, closed>>

\* ssh -M made the connection, or there was a master already.
Connected(c) ==
  /\ client[c].pc = "ssh"
  /\ LET s == client[c].target
         h == sessions[s].id.host
     IN /\ sessions' = [sessions EXCEPT ![s] = [@ EXCEPT !.lock = Nobody, !.state = "connected"]]
        /\ served' = served \cup {h}
        /\ closed' = {id \in closed : id.host # h}
  /\ client' = [client EXCEPT ![c] = AfterConnect(c)]
  /\ UNCHANGED <<now, table, mu, cleaner, processes, saved, restarts>>

\* Mutant: StartInteractiveSession goes on although it could not connect.
ConnectFailsUnnoticed(c) ==
  /\ client[c].pc = "ssh"
  /\ LET s == client[c].target
     IN sessions' = [sessions EXCEPT ![s] = [@ EXCEPT !.lock = Nobody, !.state = "error"]]
  /\ client' = [client EXCEPT ![c] = AfterConnect(c)]
  /\ UNCHANGED <<now, table, mu, cleaner, processes, disk, restarts, closed>>

ConnectFails(c) ==
  /\ client[c].pc = "ssh"
  /\ LET s == client[c].target
     IN sessions' = [sessions EXCEPT ![s] = [@ EXCEPT !.lock = Nobody, !.state = "error"]]
  /\ client' = [client EXCEPT ![c] = Resting]
  /\ UNCHANGED <<now, table, mu, cleaner, processes, disk, restarts, closed>>

(***************************************************************************)
(* StartInteractiveSession.                                                *)
(***************************************************************************)

Starting == {c \in Client : client[c].session # 0}

StartInteractiveSession(c, id) ==
  /\ client[c] = Resting
  /\ MayRead
  /\ id \in Tabled
  /\ Len(processes) + Cardinality(Starting) < MaxProcesses
  /\ client' = [client EXCEPT ![c] = [pc |-> "start", session |-> table[id], target |-> 0]]
  /\ UNCHANGED <<now, sessions, table, mu, cleaner, processes, disk, restarts, closed>>

\* Mutant: the object stays locked while ConnectSession is called.
StartKeepsLock(c) ==
  /\ client[c].pc = "start"
  /\ LET s == client[c].session
     IN /\ Free(s)
        /\ sessions[s].state \notin Up
        /\ sessions' = [sessions EXCEPT ![s] = [@ EXCEPT !.lock = c]]
  /\ client' = [client EXCEPT ![c].pc = "reconnect"]
  /\ UNCHANGED <<now, table, mu, cleaner, processes, disk, restarts, closed>>

\* The object is not connected: it is unlocked for ConnectSession.
StartUnlocks(c) ==
  /\ client[c].pc = "start"
  /\ LET s == client[c].session
     IN Free(s) /\ sessions[s].state \notin Up
  /\ client' = [client EXCEPT ![c].pc = "reconnect"]
  /\ UNCHANGED <<now, sessions, table, mu, cleaner, processes, disk, restarts, closed>>

\* ConnectSession looks the id up again: by now it may be gone, or be that of
\* another object, made in the second in which the first was closed.
StartReconnects(c) ==
  /\ client[c].pc = "reconnect"
  /\ MayRead
  /\ LET s == table[sessions[client[c].session].id]
     IN client' = [client EXCEPT ![c] =
                     IF s = 0 THEN Resting ELSE [@ EXCEPT !.pc = "connect", !.target = s]]
  /\ UNCHANGED <<now, sessions, table, mu, cleaner, processes, disk, restarts, closed>>

Again(n) == IF n < 2 THEN n + 1 ELSE n

\* The object is locked again, or still, and the terminal is started.
Launch(c) ==
  /\ client[c].pc \in {"start", "launch"}
  /\ LET s == client[c].session
         p == Len(processes) + 1
     IN /\ Free(s)
        /\ client[c].pc = "start" => sessions[s].state \in Up
        /\ \/ /\ sessions' = [sessions EXCEPT ![s] = [@ EXCEPT !.state = "active", !.process = p,
                                                          !.starts = Again(sessions[s].starts)]]
              /\ processes' = Append(processes, [session |-> s, status |-> "running"])
           \/ /\ sessions' = [sessions EXCEPT ![s] = [@ EXCEPT !.state = "error", !.starts = Again(sessions[s].starts)]]
              /\ UNCHANGED processes
  /\ client' = [client EXCEPT ![c] = Resting]
  /\ UNCHANGED <<now, table, mu, cleaner, disk, restarts, closed>>

ProcessExits(p) ==
  /\ processes[p].status = "running"
  /\ processes' = [processes EXCEPT ![p].status = "exited"]
  /\ UNCHANGED <<now, sessions, table, mu, client, cleaner, disk, restarts, closed>>

\* The goroutine behind cmd.Wait: whatever process the session has by now.
WaitReturns(p) ==
  /\ processes[p].status = "exited"
  /\ LET s == processes[p].session
     IN /\ Free(s)
        /\ sessions' = [sessions EXCEPT ![s] = [@ EXCEPT !.state = "disconnected", !.process = 0]]
  /\ processes' = [processes EXCEPT ![p].status = "reaped"]
  /\ UNCHANGED <<now, table, mu, client, cleaner, disk, restarts, closed>>

(***************************************************************************)
(* CloseSession: it waits for the object with the table locked.            *)
(***************************************************************************)

CloseSession(c, id) ==
  /\ client[c] = Resting
  /\ MayWrite
  /\ id \in Tabled
  /\ mu' = c
  /\ client' = [client EXCEPT ![c] = [pc |-> "close", session |-> 0, target |-> table[id]]]
  /\ UNCHANGED <<now, sessions, table, cleaner, processes, disk, restarts, closed>>

\* Mutant: the process is forgotten and not killed.
Spared(p) == processes

\* Process.Kill of a process that has exited is an error, and ignored.
Killed(p) ==
  IF p = 0 THEN processes
  ELSE [processes EXCEPT ![p].status = IF @ = "running" THEN "exited" ELSE @]

\* Mutant: the control connection is left to its ten minutes.
CloseLeavesMaster(c) ==
  /\ client[c].pc = "close"
  /\ LET s == client[c].target
         id == sessions[s].id
     IN /\ Free(s)
        /\ processes' = Killed(sessions[s].process)
        /\ sessions' = [sessions EXCEPT ![s] = [@ EXCEPT !.state = "disconnected", !.process = 0]]
        /\ table' = [table EXCEPT ![id] = 0]
        /\ closed' = closed \cup {id}
  /\ mu' = Nobody
  /\ client' = [client EXCEPT ![c] = Resting]
  /\ UNCHANGED <<now, cleaner, disk, restarts>>

CloseReturns(c) ==
  /\ client[c].pc = "close"
  /\ LET s == client[c].target
         id == sessions[s].id
     IN /\ Free(s)
        /\ processes' = Killed(sessions[s].process)
        /\ served' = served \ {id.host}
        /\ sessions' = [sessions EXCEPT ![s] = [@ EXCEPT !.state = "disconnected", !.process = 0]]
        /\ table' = [table EXCEPT ![id] = 0]
        /\ closed' = closed \cup {id}
  /\ mu' = Nobody
  /\ client' = [client EXCEPT ![c] = Resting]
  /\ UNCHANGED <<now, cleaner, saved, restarts>>

(***************************************************************************)
(* cleanupLoop: every five minutes it sweeps the table and then saves it.  *)
(***************************************************************************)

SweepBegins ==
  /\ cleaner = Asleep
  /\ MayWrite
  /\ mu' = Cleaner
  /\ cleaner' = [Asleep EXCEPT !.pc = "sweep", !.todo = Tabled]
  /\ UNCHANGED <<now, sessions, table, client, processes, disk, restarts, closed>>

Over(s) == sessions[s].state \in {"disconnected", "error"}

\* A session that is over goes, as does one that has been idle for half an
\* hour, and the file of the socket with it.
SweepRemoves(id) ==
  /\ Over(table[id]) \/ sessions[table[id]].state = "idle"
  /\ table' = [table EXCEPT ![id] = 0]
  /\ served' = served \ {id.host}

SweepKeeps(id) == ~Over(table[id]) /\ UNCHANGED <<table, served>>

SweepVisits(id) ==
  /\ cleaner.pc = "sweep"
  /\ id \in cleaner.todo
  /\ Free(table[id])
  /\ SweepRemoves(id) \/ SweepKeeps(id)
  /\ cleaner' = [cleaner EXCEPT !.todo = @ \ {id}]
  /\ UNCHANGED <<now, sessions, mu, client, processes, saved, restarts, closed>>

SweepEnds ==
  /\ cleaner.pc = "sweep"
  /\ cleaner.todo = {}
  /\ mu' = Nobody
  /\ cleaner' = [Asleep EXCEPT !.pc = "swept"]
  /\ UNCHANGED <<now, sessions, table, client, processes, disk, restarts, closed>>

SaveBegins ==
  /\ cleaner.pc = "swept"
  /\ MayRead
  /\ cleaner' = [Asleep EXCEPT !.pc = "save", !.todo = Tabled]
  /\ UNCHANGED <<now, sessions, table, mu, client, processes, disk, restarts, closed>>

\* Its state is read without its lock, though after it has been free.
SaveVisits(id) ==
  /\ cleaner.pc = "save"
  /\ id \in cleaner.todo
  /\ cleaner' = [cleaner EXCEPT
                   !.todo = @ \ {id},
                   !.found = IF sessions[table[id]].state \in Up THEN @ \cup {id} ELSE @]
  /\ UNCHANGED <<now, sessions, table, mu, client, processes, disk, restarts, closed>>

SaveEnds ==
  /\ cleaner.pc = "save"
  /\ cleaner.todo = {}
  /\ saved' = cleaner.found
  /\ cleaner' = Asleep
  /\ UNCHANGED <<now, sessions, table, mu, client, processes, served, restarts, closed>>

(***************************************************************************)
(* A master exits on its own; the program exits and is started again.      *)
(***************************************************************************)

MasterExits(h) ==
  /\ h \in served
  /\ served' = served \ {h}
  /\ UNCHANGED <<now, sessions, table, mu, client, cleaner, processes, saved, restarts, closed>>

\* What loadPersistentSessions restores: a socket is there and ssh -O check
\* finds a master behind it.
Restorable == {id \in saved : id.host \in served}

\* They come in the order in which the map yielded them when they were saved.
Restart ==
  /\ restarts < MaxRestarts
  /\ restarts' = restarts + 1
  /\ \E n \in 0 .. MaxSessions : \E order \in [1 .. n -> Restorable] :
       /\ n = Cardinality(Restorable)
       /\ \A id \in Restorable : \E s \in 1 .. n : order[s] = id
       /\ sessions' = [s \in 1 .. n |-> NewSession(order[s], "connected")]
       /\ table' = [id \in Id |-> IF id \in Restorable
                                  THEN CHOOSE s \in 1 .. n : order[s] = id ELSE 0]
  /\ mu' = Nobody
  /\ client' = [c \in Client |-> Resting]
  /\ cleaner' = Asleep
  /\ processes' = <<>>
  /\ UNCHANGED <<now, disk, closed>>

-----------------------------------------------------------------------------

Continues(c) ==
  \/ ConnectLocks(c) \/ Connected(c) \/ ConnectFails(c)
  \/ StartUnlocks(c) \/ StartReconnects(c) \/ Launch(c)
  \/ CloseReturns(c)

CleanerContinues ==
  \/ \E id \in Id : SweepVisits(id) \/ SaveVisits(id)
  \/ SweepEnds \/ SaveBegins \/ SaveEnds

Next ==
  \/ \E h \in Host : CreateSession(h) \/ MasterExits(h)
  \/ \E c \in Client : \E id \in Id :
       ConnectSession(c, id) \/ StartInteractiveSession(c, id) \/ CloseSession(c, id)
  \/ \E c \in Client : Continues(c)
  \/ \E p \in DOMAIN processes : ProcessExits(p) \/ WaitReturns(p)
  \/ SweepBegins \/ CleanerContinues
  \/ Restart

\* Nothing has to happen: all that is said of the sessions is safety.
Spec == Init /\ [][Next]_vars

-----------------------------------------------------------------------------

\* While the terminal of a session runs, the session is active and knows its
\* process, so that CloseSession ends it and neither the sweep nor MonitorSession
\* takes it for over: provided cmd.Start was called once.  The goroutine that
\* waits for the first of two terminals resets the session of the second.
ProcessTracked ==
  \A p \in DOMAIN processes :
    LET s == sessions[processes[p].session] IN
    processes[p].status = "running" /\ s.starts = 1
      => s.state = "active" /\ s.process = p

\* "Ensure connection is established": a terminal is started in a session that
\* is connected, although it is unlocked to connect it and not looked at again,
\* unless it was closed or swept meanwhile or cmd.Start was called before.
StartsConnected ==
  [][\A s \in DOMAIN sessions :
       s \in DOMAIN sessions' /\ sessions'[s].starts > sessions[s].starts
         => \/ sessions[s].state \in Up
            \/ table[sessions[s].id] # s
            \/ sessions[s].starts > 0]_vars

\* A session that CloseSession has closed does not come back when the program is
\* started again, although sessions.json may still name it: it could only be
\* restored over a connection made to its host since.
ClosedNotRestored == \A id \in closed : table[id] = 0

\* Nobody waits in a circle: who holds a session's mutex is trying to connect it
\* and waits for ssh alone; who holds sm.mu for writing is closing a session or
\* sweeping, and waits at most for those; and nobody writes while it is saved.
HoldersWaitForSSH ==
  /\ \A s \in DOMAIN sessions : ~Free(s) =>
       client[sessions[s].lock].pc = "ssh" /\ client[sessions[s].lock].target = s
  /\ mu \in Client => client[mu].pc = "close"
  /\ mu = Cleaner <=> cleaner.pc = "sweep"
  /\ cleaner.pc = "save" => mu = Nobody

=============================================================================
