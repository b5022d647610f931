------------------------- MODULE SSHSessionsProofs -------------------------
(***************************************************************************)
(* Theorems about SSHSessions, for any hosts, clients and bounds.          *)
(***************************************************************************)
EXTENDS SSHSessions, SequenceTheorems, TLAPS

\* A client inside an operation works on an object that exists.
Placed ==
  \A c \in Client :
    /\ client[c].session <= Len(sessions)
    /\ client[c].target <= Len(sessions)
    /\ client[c].pc \in {"connect", "ssh", "close"} => client[c].target # 0
    /\ client[c].pc \in {"start", "reconnect", "launch"} => client[c].session # 0

\* Who holds an object's mutex is trying to connect that very object, and who
\* tries to connect one holds its mutex.  This strengthens HoldersWaitForSSH.
Holders ==
  /\ \A s \in DOMAIN sessions : ~Free(s) =>
       /\ sessions[s].state = "connecting"
       /\ client[sessions[s].lock].pc = "ssh"
       /\ client[sessions[s].lock].target = s
  /\ \A c \in Client : client[c].pc = "ssh" => sessions[client[c].target].lock = c

\* sm.mu is held for writing by a client that closes a session and by the sweep,
\* by nobody else, and by nobody while the cleaner saves.
TableHeld ==
  /\ \A c \in Client : client[c].pc = "close" <=> mu = c
  /\ mu = Cleaner <=> cleaner.pc = "sweep"
  /\ cleaner.pc = "save" => mu = Nobody

\* A process belongs to an object for which cmd.Start was called; where it was
\* called once there is no other process.  Without it WaitReturns could reset an
\* object whose own terminal still runs, and ProcessTracked would not be inductive.
Started ==
  \A p \in DOMAIN processes :
    /\ processes[p].session \in DOMAIN sessions
    /\ sessions[processes[p].session].starts # 0
    /\ sessions[processes[p].session].starts = 1 =>
         \A q \in DOMAIN processes : processes[q].session = processes[p].session => q = p

\* A closed session has left the table, and no master serves its host: that is
\* why nothing of it can be restored, whatever sessions.json says.
Silent == \A id \in closed : id.host \notin served /\ table[id] = 0

\* The table still leads to object s under its id.
Entered(s) == table[sessions[s].id] = s

\* A client that has come back from ConnectSession finds its object connected,
\* unless the object has left the table, which may lead to another one under the
\* same id that was connected in its place, or a terminal was started before.
Ready ==
  \A c \in Client :
    /\ client[c].pc = "launch" =>
         \/ sessions[client[c].session].state \in Up
         \/ ~Entered(client[c].session)
         \/ sessions[client[c].session].starts > 0
    /\ /\ client[c].pc \in {"connect", "ssh"}
       /\ client[c].session # 0
       /\ client[c].target # client[c].session
       => ~Entered(client[c].session)

\* The inductive invariant.
IInv ==
  /\ TypeOK
  /\ Placed
  /\ Holders
  /\ TableHeld
  /\ Started
  /\ ProcessTracked
  /\ Silent
  /\ Ready

-----------------------------------------------------------------------------

\* What TypeOK says of the two sequences, in terms of their domains.
LEMMA Types ==
  ASSUME TypeOK
  PROVE  /\ Len(sessions) \in 0 .. MaxSessions
         /\ DOMAIN sessions = 1 .. Len(sessions)
         /\ \A s \in DOMAIN sessions : sessions[s] \in Session
         /\ Len(processes) \in Nat
         /\ DOMAIN processes = 1 .. Len(processes)
         /\ \A p \in DOMAIN processes : processes[p] \in Process
  BY LenProperties, ElementOfSeq, SSHSessionsAssumption DEF TypeOK

\* The object numbers of a client are in the domain of sessions where it uses them.
LEMMA Placement ==
  ASSUME TypeOK, Placed, NEW c \in Client
  PROVE  /\ client[c] \in Clients
         /\ client[c].pc \in {"connect", "ssh", "close"} => client[c].target \in DOMAIN sessions
         /\ client[c].pc \in {"start", "reconnect", "launch"} => client[c].session \in DOMAIN sessions
         /\ client[c].session # 0 => client[c].session \in DOMAIN sessions
         /\ client[c].target # 0 => client[c].target \in DOMAIN sessions
<1>1. client[c] \in Clients
  BY DEF TypeOK
<1>2. client[c].session \in 0 .. MaxSessions /\ client[c].target \in 0 .. MaxSessions
  BY <1>1 DEF Clients
<1> QED
  BY <1>1, <1>2, Types DEF Placed

\* An assignment to one session object leaves the others as they are.
LEMMA Replaced ==
  ASSUME TypeOK, NEW s \in DOMAIN sessions, NEW r \in Session,
         sessions' = [sessions EXCEPT ![s] = r]
  PROVE  /\ sessions' \in Seq(Session)
         /\ Len(sessions') = Len(sessions)
         /\ DOMAIN sessions' = DOMAIN sessions
         /\ sessions'[s] = r
         /\ \A t \in DOMAIN sessions : t # s => sessions'[t] = sessions[t]
<1> SUFFICES ASSUME sessions \in Seq(Session), s \in 1 .. Len(sessions)
             PROVE  /\ [sessions EXCEPT ![s] = r] \in Seq(Session)
                    /\ Len([sessions EXCEPT ![s] = r]) = Len(sessions)
                    /\ \A j \in 1 .. Len(sessions) :
                         [sessions EXCEPT ![s] = r][j] = IF j = s THEN r ELSE sessions[j]
  BY Types, LenProperties DEF TypeOK
<1> QED
  BY ExceptSeq

\* An assignment to one process leaves the others as they are.
LEMMA ProcessReplaced ==
  ASSUME TypeOK, NEW p \in DOMAIN processes, NEW r \in Process,
         processes' = [processes EXCEPT ![p] = r]
  PROVE  /\ processes' \in Seq(Process)
         /\ Len(processes') = Len(processes)
         /\ DOMAIN processes' = DOMAIN processes
         /\ processes'[p] = r
         /\ \A q \in DOMAIN processes : q # p => processes'[q] = processes[q]
<1> SUFFICES ASSUME processes \in Seq(Process), p \in 1 .. Len(processes)
             PROVE  /\ [processes EXCEPT ![p] = r] \in Seq(Process)
                    /\ Len([processes EXCEPT ![p] = r]) = Len(processes)
                    /\ \A j \in 1 .. Len(processes) :
                         [processes EXCEPT ![p] = r][j] = IF j = p THEN r ELSE processes[j]
  BY Types, LenProperties DEF TypeOK
<1> QED
  BY ExceptSeq

\* ConnectSession begins: a client has found the object under an id.
LEMMA ConnectSessionStep ==
  ASSUME IInv, NEW c \in Client, NEW id \in Id, ConnectSession(c, id)
  PROVE  IInv'
<1> USE DEF IInv
<1> DEFINE r == [pc |-> "connect", session |-> 0, target |-> table[id]]
<1>0. client' = [client EXCEPT ![c] = r] /\ id \in Tabled /\ client[c] = Resting /\ mu = Nobody
  BY DEF ConnectSession, MayRead
<1>1. table[id] \in DOMAIN sessions /\ r \in Clients
  BY <1>0, Types, SSHSessionsAssumption DEF TypeOK, Tabled, Clients
<1>2. client' \in [Client -> Clients] /\ client'[c] = r /\ \A d \in Client : d # c => client'[d] = client[d]
  BY <1>0, <1>1 DEF TypeOK
<1> HIDE DEF r
<1>t. TypeOK'
  BY <1>2 DEF ConnectSession, TypeOK, disk, Tabled
<1>p. Placed'
  BY <1>2, <1>1 DEF ConnectSession, Placed, r
<1>h. Holders'
  BY <1>2, <1>1, <1>0 DEF ConnectSession, Holders, r, Free, Resting
<1>m. TableHeld'
  BY <1>2, <1>0 DEF ConnectSession, TableHeld, r, Resting
<1>s. Started' /\ ProcessTracked' /\ Silent'
  BY DEF ConnectSession, Started, ProcessTracked, Silent, disk
<1>r. Ready'
  BY <1>2 DEF ConnectSession, Ready, r, Entered
<1> QED
  BY <1>t, <1>p, <1>h, <1>m, <1>s, <1>r

\* StartInteractiveSession begins in the same way.
LEMMA StartInteractiveSessionStep ==
  ASSUME IInv, NEW c \in Client, NEW id \in Id, StartInteractiveSession(c, id)
  PROVE  IInv'
<1> USE DEF IInv
<1> DEFINE r == [pc |-> "start", session |-> table[id], target |-> 0]
<1>1. client' = [client EXCEPT ![c] = r] /\ id \in Tabled /\ client[c] = Resting /\ mu = Nobody
  BY DEF StartInteractiveSession, MayRead
<1>2. table[id] \in DOMAIN sessions /\ r \in Clients
  BY <1>1, Types, SSHSessionsAssumption DEF TypeOK, Tabled, Clients
<1>3. client' \in [Client -> Clients] /\ client'[c] = r /\ \A d \in Client : d # c => client'[d] = client[d]
  BY <1>1, <1>2 DEF TypeOK
<1> HIDE DEF r
<1>4. TypeOK'
  BY <1>3 DEF StartInteractiveSession, TypeOK, disk, Tabled
<1>5. Placed'
  BY <1>2, <1>3 DEF StartInteractiveSession, Placed, r
<1>6. Holders' /\ TableHeld'
  BY <1>1, <1>2, <1>3 DEF StartInteractiveSession, Holders, TableHeld, r, Free, Resting
<1>7. Started' /\ ProcessTracked' /\ Silent'
  BY DEF StartInteractiveSession, Started, ProcessTracked, Silent, disk
<1>8. Ready'
  BY <1>3 DEF StartInteractiveSession, Ready, r, Entered
<1> QED
  BY <1>4, <1>5, <1>6, <1>7, <1>8

\* CloseSession begins: a client has found the object and keeps sm.mu.
LEMMA CloseSessionStep ==
  ASSUME IInv, NEW c \in Client, NEW id \in Id, CloseSession(c, id)
  PROVE  IInv'
<1> USE DEF IInv
<1> DEFINE r == [pc |-> "close", session |-> 0, target |-> table[id]]
<1>1. /\ client' = [client EXCEPT ![c] = r]
      /\ id \in Tabled
      /\ client[c] = Resting
      /\ mu = Nobody /\ mu' = c /\ cleaner.pc # "save"
  BY DEF CloseSession, MayWrite
<1>2. table[id] \in DOMAIN sessions /\ r \in Clients
  BY <1>1, Types, SSHSessionsAssumption DEF TypeOK, Tabled, Clients
<1>3. client' \in [Client -> Clients] /\ client'[c] = r /\ \A d \in Client : d # c => client'[d] = client[d]
  BY <1>1, <1>2 DEF TypeOK
<1> HIDE DEF r
<1>4. TypeOK'
  BY <1>1, <1>3 DEF CloseSession, TypeOK, disk, Tabled
<1>5. Placed'
  BY <1>2, <1>3 DEF CloseSession, Placed, r
<1>6. Holders'
  BY <1>1, <1>2, <1>3 DEF CloseSession, Holders, r, Free, Resting
<1>7. TableHeld'
  BY <1>1, <1>3, SSHSessionsAssumption DEF CloseSession, TableHeld, r
<1>8. Started' /\ ProcessTracked' /\ Silent'
  BY DEF CloseSession, Started, ProcessTracked, Silent, disk
<1>9. Ready'
  BY <1>3 DEF CloseSession, Ready, r, Entered
<1> QED
  BY <1>4, <1>5, <1>6, <1>7, <1>8, <1>9

\* StartInteractiveSession gives the object up to connect it.
LEMMA StartUnlocksStep ==
  ASSUME IInv, NEW c \in Client, StartUnlocks(c)
  PROVE  IInv'
<1> USE DEF IInv
<1> DEFINE r == [client[c] EXCEPT !.pc = "reconnect"]
<1>1. client' = [client EXCEPT ![c] = r] /\ client[c].pc = "start"
  BY DEF StartUnlocks
<1>2. client[c] \in Clients /\ r \in Clients /\ client[c].session \in DOMAIN sessions
  BY <1>1, Placement DEF Clients
<1>3. client' \in [Client -> Clients] /\ client'[c] = r /\ \A d \in Client : d # c => client'[d] = client[d]
  BY <1>1, <1>2 DEF TypeOK
<1>4. r.pc = "reconnect" /\ r.session = client[c].session /\ r.target = client[c].target
  BY <1>2 DEF Clients
<1> HIDE DEF r
<1>5. TypeOK'
  BY <1>3 DEF StartUnlocks, TypeOK, disk, Tabled
<1>6. Placed'
  BY <1>1, <1>3, <1>4 DEF StartUnlocks, Placed
<1>7. Holders' /\ TableHeld'
  BY <1>1, <1>3, <1>4 DEF StartUnlocks, Holders, TableHeld, Free
<1>8. Started' /\ ProcessTracked' /\ Silent'
  BY DEF StartUnlocks, Started, ProcessTracked, Silent, disk
<1>9. Ready'
  BY <1>3, <1>4 DEF StartUnlocks, Ready, Entered
<1> QED
  BY <1>5, <1>6, <1>7, <1>8, <1>9

\* ConnectSession called from StartInteractiveSession finds no object, the same
\* or another one: only in the last case does Ready have something to say.
LEMMA StartReconnectsStep ==
  ASSUME IInv, NEW c \in Client, StartReconnects(c)
  PROVE  IInv'
<1> USE DEF IInv
<1> DEFINE s == table[sessions[client[c].session].id]
           r == IF s = 0 THEN Resting ELSE [client[c] EXCEPT !.pc = "connect", !.target = s]
<1>1. client' = [client EXCEPT ![c] = r] /\ client[c].pc = "reconnect"
  BY DEF StartReconnects
<1>2. client[c] \in Clients /\ client[c].session \in DOMAIN sessions
  BY <1>1, Placement
<1>3. s \in 0 .. Len(sessions) /\ s \in 0 .. MaxSessions
  BY <1>2, Types, SSHSessionsAssumption DEF TypeOK, Session
<1>4. /\ r \in Clients
      /\ \/ r = Resting
         \/ /\ s # 0
            /\ r.pc = "connect" /\ r.session = client[c].session /\ r.target = s
  BY <1>2, <1>3, SSHSessionsAssumption DEF Clients, Resting
<1>5. client' \in [Client -> Clients] /\ client'[c] = r /\ \A d \in Client : d # c => client'[d] = client[d]
  BY <1>1, <1>4 DEF TypeOK
<1> HIDE DEF r
<1>6. TypeOK'
  BY <1>5 DEF StartReconnects, TypeOK, disk, Tabled
<1>7. Placed'
  BY <1>1, <1>2, <1>3, <1>4, <1>5 DEF StartReconnects, Placed, Resting
<1>8. r.pc # "ssh" /\ r.pc # "close" /\ r.pc # "launch"
  BY <1>4 DEF Resting
<1>9. Holders' /\ TableHeld'
  BY <1>1, <1>5, <1>8 DEF StartReconnects, Holders, TableHeld, Free
<1>10. Started' /\ ProcessTracked' /\ Silent'
  BY DEF StartReconnects, Started, ProcessTracked, Silent, disk
<1>11. Ready'
  <2>1. CASE r = Resting
    <3>1. r.pc = "idle"
      BY <2>1 DEF Resting
    <3> QED
      BY <1>5, <3>1 DEF StartReconnects, Ready, Entered
  <2>2. CASE r.pc = "connect" /\ r.session = client[c].session /\ r.target = s
    BY <1>5, <2>2 DEF StartReconnects, Ready, Entered
  <2> QED
    BY <1>4, <2>1, <2>2
<1> QED
  BY <1>6, <1>7, <1>9, <1>10, <1>11

\* The steps of cleanupLoop that concern the cleaner, sm.mu and the file alone.
LEMMA CleanerStep ==
  ASSUME IInv,
         SweepBegins \/ SweepEnds \/ SaveBegins \/ (\E id \in Id : SaveVisits(id)) \/ SaveEnds
  PROVE  IInv'
<1> USE DEF IInv
<1>1. UNCHANGED <<now, sessions, table, client, processes, served, restarts, closed>>
  BY DEF SweepBegins, SweepEnds, SaveBegins, SaveVisits, SaveEnds, disk
<1>2. mu' \in {Nobody, Cleaner, mu} /\ cleaner' \in Cleaners /\ saved' \subseteq Id
  <2>1. CASE SweepBegins
    BY <2>1 DEF SweepBegins, Asleep, Cleaners, disk, TypeOK, Tabled
  <2>2. CASE SweepEnds
    BY <2>2 DEF SweepEnds, Asleep, Cleaners, disk, TypeOK
  <2>3. CASE SaveBegins
    BY <2>3 DEF SaveBegins, Asleep, Cleaners, disk, TypeOK, Tabled
  <2>4. ASSUME NEW id \in Id, SaveVisits(id)
        PROVE  mu' \in {Nobody, Cleaner, mu} /\ cleaner' \in Cleaners /\ saved' \subseteq Id
    BY <2>4 DEF SaveVisits, Cleaners, disk, TypeOK
  <2>5. CASE SaveEnds
    BY <2>5 DEF SaveEnds, Asleep, Cleaners, TypeOK
  <2> QED
    BY <2>1, <2>2, <2>3, <2>4, <2>5
<1>3. TypeOK'
  BY <1>1, <1>2 DEF TypeOK, Tabled
<1>4. Placed' /\ Holders' /\ Started' /\ ProcessTracked' /\ Silent' /\ Ready'
  BY <1>1 DEF Placed, Holders, Started, ProcessTracked, Silent, Ready, Free, Entered
<1>5. TableHeld'
  <2>1. CASE SweepBegins
    BY <2>1, SSHSessionsAssumption DEF SweepBegins, MayWrite, Asleep, TableHeld
  <2>2. CASE SweepEnds
    BY <2>2, SSHSessionsAssumption DEF SweepEnds, Asleep, TableHeld
  <2>3. CASE SaveBegins
    BY <2>3, SSHSessionsAssumption DEF SaveBegins, MayRead, Asleep, TableHeld
  <2>4. ASSUME NEW id \in Id, SaveVisits(id)
        PROVE  TableHeld'
    BY <2>4 DEF SaveVisits, TableHeld, TypeOK, Cleaners
  <2>5. CASE SaveEnds
    BY <2>5 DEF SaveEnds, Asleep, TableHeld
  <2> QED
    BY <2>1, <2>2, <2>3, <2>4, <2>5
<1> QED
  BY <1>3, <1>4, <1>5

\* What a client does after a ConnectSession that has succeeded.
LEMMA Afterwards ==
  ASSUME TypeOK, NEW c \in Client
  PROVE  /\ AfterConnect(c) \in Clients
         /\ client[c].session = 0 => AfterConnect(c) = Resting
         /\ client[c].session # 0 =>
              /\ AfterConnect(c).pc = "launch"
              /\ AfterConnect(c).session = client[c].session
              /\ AfterConnect(c).target = 0
<1>1. client[c] \in Clients
  BY DEF TypeOK
<1>2. CASE client[c].session = 0
  BY <1>2, SSHSessionsAssumption DEF AfterConnect, Resting, Clients
<1>3. CASE client[c].session # 0
  <2>1. AfterConnect(c) = [client[c] EXCEPT !.pc = "launch", !.target = 0]
    BY <1>3 DEF AfterConnect
  <2>0. 0 \in 0 .. MaxSessions
    BY SSHSessionsAssumption
  <2>2. [client[c] EXCEPT !.pc = "launch", !.target = 0] \in Clients
    BY <1>1, <2>0 DEF Clients
  <2> QED
    BY <1>1, <1>3, <2>1, <2>2 DEF Clients
<1> QED
  BY <1>2, <1>3

\* ConnectSession finds the object connected.
LEMMA AlreadyConnectedStep ==
  ASSUME IInv, NEW c \in Client, client[c].pc = "connect",
         sessions[client[c].target].state \in Up,
         client' = [client EXCEPT ![c] = AfterConnect(c)],
         UNCHANGED <<now, sessions, table, mu, cleaner, processes, disk, restarts, closed>>
  PROVE  IInv'
<1> USE DEF IInv
<1> DEFINE r == AfterConnect(c)
<1>1. client[c] \in Clients /\ client[c].target \in DOMAIN sessions
  BY Placement
<1>2. client' \in [Client -> Clients] /\ client'[c] = r /\ \A d \in Client : d # c => client'[d] = client[d]
  BY Afterwards DEF TypeOK
<1>3. /\ r.pc \in {"idle", "launch"} /\ r.target = 0
      /\ r.session = client[c].session
      /\ r.pc = "launch" => r.session # 0
  BY Afterwards DEF Resting
<1> HIDE DEF r
<1>4. TypeOK'
  BY <1>2 DEF TypeOK, disk, Tabled
<1>5. Placed'
  BY <1>2, <1>3, Types DEF Placed
<1>6. Holders' /\ TableHeld'
  BY <1>2, <1>3 DEF Holders, TableHeld, Free
<1>7. Started' /\ ProcessTracked' /\ Silent'
  BY DEF Started, ProcessTracked, Silent, disk
<1>8. Ready'
  BY <1>2, <1>3 DEF Ready, Entered
<1> QED
  BY <1>4, <1>5, <1>6, <1>7, <1>8

\* ConnectSession locks the object: its state changes only if it was not
\* connected, so that no running terminal loses its session.
LEMMA ConnectLocksStep ==
  ASSUME IInv, NEW c \in Client, ConnectLocks(c)
  PROVE  IInv'
<1> USE DEF IInv
<1> DEFINE s == client[c].target
           r == [sessions[s] EXCEPT !.lock = c, !.state = "connecting"]
           k == [client[c] EXCEPT !.pc = "ssh"]
<1>1. CASE sessions[s].state \in Up
  BY <1>1, AlreadyConnectedStep DEF ConnectLocks
<1>2. CASE sessions[s].state \notin Up
  <2>1. /\ client' = [client EXCEPT ![c] = k]
        /\ sessions' = [sessions EXCEPT ![s] = r]
        /\ client[c].pc = "connect" /\ Free(s)
        /\ UNCHANGED <<now, table, mu, cleaner, processes, disk, restarts, closed>>
    BY <1>2 DEF ConnectLocks
  <2>2. client[c] \in Clients /\ s \in DOMAIN sessions /\ sessions[s] \in Session
    BY <2>1, Placement, Types
  <2>3. /\ r \in Session
        /\ r.id = sessions[s].id /\ r.state = "connecting" /\ r.lock = c
        /\ r.process = sessions[s].process /\ r.starts = sessions[s].starts
    BY <2>2 DEF Session, State
  <2>4. k \in Clients /\ k.pc = "ssh" /\ k.session = client[c].session /\ k.target = s
    BY <2>2 DEF Clients
  <2> HIDE DEF r, k
  <2>5. /\ sessions' \in Seq(Session)
        /\ Len(sessions') = Len(sessions) /\ DOMAIN sessions' = DOMAIN sessions
        /\ sessions'[s] = r
        /\ \A t \in DOMAIN sessions : t # s => sessions'[t] = sessions[t]
    BY <2>1, <2>2, <2>3, Replaced
  <2>6. client' \in [Client -> Clients] /\ client'[c] = k /\ \A d \in Client : d # c => client'[d] = client[d]
    BY <2>1, <2>4 DEF TypeOK
  <2>7. TypeOK'
    BY <2>1, <2>3, <2>5, <2>6, Types DEF TypeOK, disk, Tabled
  <2>8. Placed'
    BY <2>1, <2>4, <2>5, <2>6 DEF Placed
  <2>9. Holders'
    BY <2>1, <2>2, <2>3, <2>4, <2>5, <2>6, SSHSessionsAssumption DEF Holders, Free
  <2>10. TableHeld'
    BY <1>2, <2>1, <2>4, <2>6 DEF ConnectLocks, TableHeld
  <2>11. Started'
    BY <1>2, <2>3, <2>5 DEF ConnectLocks, Started
  <2>12. ProcessTracked'
    BY <1>2, <2>3, <2>5 DEF ConnectLocks, Started, ProcessTracked, Up
  <2>13. Silent'
    BY <1>2 DEF ConnectLocks, Silent, disk
  <2>14. Ready'
    BY <1>2, <2>1, <2>3, <2>4, <2>5, <2>6, Placement DEF ConnectLocks, Ready, Entered
  <2> QED
    BY <2>7, <2>8, <2>9, <2>10, <2>11, <2>12, <2>13, <2>14
<1> QED
  BY <1>1, <1>2

\* The mutex of one object is given back by the client that held it, and the
\* others keep theirs.
LEMMA Unlocked ==
  ASSUME TypeOK, Placed, Holders,
         NEW c \in Client, client[c].pc = "ssh",
         DOMAIN sessions' = DOMAIN sessions,
         sessions'[client[c].target].lock = Nobody,
         \A t \in DOMAIN sessions : t # client[c].target => sessions'[t] = sessions[t],
         client'[c].pc # "ssh",
         \A d \in Client : d # c => client'[d] = client[d]
  PROVE  Holders'
<1>1. ASSUME NEW t \in DOMAIN sessions, sessions'[t].lock # Nobody
      PROVE  /\ sessions'[t].state = "connecting"
             /\ client'[sessions'[t].lock].pc = "ssh"
             /\ client'[sessions'[t].lock].target = t
  <2>1. t # client[c].target /\ sessions'[t] = sessions[t]
    BY <1>1
  <2>2. sessions[t].lock \in Client
    BY <1>1, <2>1, Types DEF Session
  <2>3. client[sessions[t].lock].target = t
    BY <1>1, <2>1 DEF Holders, Free
  <2> QED
    BY <1>1, <2>1, <2>2, <2>3 DEF Holders, Free
<1>2. ASSUME NEW d \in Client, client'[d].pc = "ssh"
      PROVE  sessions'[client'[d].target].lock = d
  <2>1. d # c /\ client'[d] = client[d] /\ client[d].target \in DOMAIN sessions
    BY <1>2, Placement
  <2>2. sessions[client[d].target].lock = d /\ sessions[client[c].target].lock = c
    BY <1>2, <2>1 DEF Holders
  <2> QED
    BY <2>1, <2>2
<1> QED
  BY <1>1, <1>2 DEF Holders, Free

\* ssh has made the connection.
LEMMA ConnectedStep ==
  ASSUME IInv, NEW c \in Client, Connected(c)
  PROVE  IInv'
<1> USE DEF IInv
<1> DEFINE s == client[c].target
           h == sessions[s].id.host
           r == [sessions[s] EXCEPT !.lock = Nobody, !.state = "connected"]
           k == AfterConnect(c)
<1>1. /\ client' = [client EXCEPT ![c] = k]
      /\ sessions' = [sessions EXCEPT ![s] = r]
      /\ client[c].pc = "ssh"
      /\ served' = served \cup {h}
      /\ closed' = {id \in closed : id.host # h}
  BY DEF Connected
<1>2. client[c] \in Clients /\ s \in DOMAIN sessions /\ sessions[s] \in Session
  BY <1>1, Placement, Types
<1>3. /\ r \in Session
      /\ r.id = sessions[s].id /\ r.state = "connected" /\ r.lock = Nobody
      /\ r.process = sessions[s].process /\ r.starts = sessions[s].starts
  BY <1>2 DEF Session, State
<1>4. /\ k \in Clients
      /\ k.pc \in {"idle", "launch"} /\ k.target = 0
      /\ k.session = client[c].session
      /\ k.pc = "launch" => k.session # 0
  BY Afterwards DEF Resting
<1>5. h \in Host
  BY <1>2 DEF Session, Id
<1> HIDE DEF r, k, h
<1>6. /\ sessions' \in Seq(Session)
      /\ Len(sessions') = Len(sessions) /\ DOMAIN sessions' = DOMAIN sessions
      /\ sessions'[s] = r
      /\ \A t \in DOMAIN sessions : t # s => sessions'[t] = sessions[t]
  BY <1>1, <1>2, <1>3, Replaced
<1>7. client' \in [Client -> Clients] /\ client'[c] = k /\ \A d \in Client : d # c => client'[d] = client[d]
  BY <1>1, <1>4 DEF TypeOK
<1>8. sessions[s].lock = c /\ sessions[s].state = "connecting"
  BY <1>1, <1>2, SSHSessionsAssumption DEF Holders, Free
<1>9. TypeOK'
  BY <1>1, <1>3, <1>5, <1>6, <1>7, Types DEF Connected, TypeOK, Tabled
<1>10. Placed'
  BY <1>4, <1>6, <1>7, Types DEF Placed
<1>11. Holders'
  BY <1>1, <1>3, <1>4, <1>6, <1>7, Unlocked
<1>12. TableHeld'
  BY <1>1, <1>4, <1>7 DEF Connected, TableHeld
<1>13. Started'
  BY <1>3, <1>6 DEF Connected, Started
<1>14. ProcessTracked'
  BY <1>3, <1>6, <1>8 DEF Connected, Started, ProcessTracked
<1>15. Silent'
  BY <1>1 DEF Connected, Silent
<1>16. Ready'
  BY <1>1, <1>2, <1>3, <1>4, <1>6, <1>7, Placement DEF Connected, Ready, Entered, Up
<1> QED
  BY <1>9, <1>10, <1>11, <1>12, <1>13, <1>14, <1>15, <1>16

\* ssh has failed, and the operation of the client with it.
LEMMA ConnectFailsStep ==
  ASSUME IInv, NEW c \in Client, ConnectFails(c)
  PROVE  IInv'
<1> USE DEF IInv
<1> DEFINE s == client[c].target
           r == [sessions[s] EXCEPT !.lock = Nobody, !.state = "error"]
<1>1. /\ client' = [client EXCEPT ![c] = Resting]
      /\ sessions' = [sessions EXCEPT ![s] = r]
      /\ client[c].pc = "ssh"
  BY DEF ConnectFails
<1>2. client[c] \in Clients /\ s \in DOMAIN sessions /\ sessions[s] \in Session
  BY <1>1, Placement, Types
<1>3. /\ r \in Session
      /\ r.id = sessions[s].id /\ r.state = "error" /\ r.lock = Nobody
      /\ r.process = sessions[s].process /\ r.starts = sessions[s].starts
  BY <1>2 DEF Session, State
<1>4. Resting \in Clients /\ Resting.pc = "idle" /\ Resting.session = 0 /\ Resting.target = 0
  BY SSHSessionsAssumption DEF Resting, Clients
<1> HIDE DEF r
<1>5. /\ sessions' \in Seq(Session)
      /\ Len(sessions') = Len(sessions) /\ DOMAIN sessions' = DOMAIN sessions
      /\ sessions'[s] = r
      /\ \A t \in DOMAIN sessions : t # s => sessions'[t] = sessions[t]
  BY <1>1, <1>2, <1>3, Replaced
<1>6. client' \in [Client -> Clients] /\ client'[c] = Resting /\ \A d \in Client : d # c => client'[d] = client[d]
  BY <1>1, <1>4 DEF TypeOK
<1>7. sessions[s].lock = c /\ sessions[s].state = "connecting"
  BY <1>1, <1>2, SSHSessionsAssumption DEF Holders, Free
<1>8. TypeOK'
  BY <1>3, <1>5, <1>6, Types DEF ConnectFails, TypeOK, Tabled, disk
<1>9. Placed'
  BY <1>4, <1>5, <1>6, Types DEF Placed
<1>10. Holders'
  BY <1>1, <1>3, <1>4, <1>5, <1>6, Unlocked
<1>11. TableHeld'
  BY <1>1, <1>4, <1>6 DEF ConnectFails, TableHeld
<1>12. Started'
  BY <1>3, <1>5 DEF ConnectFails, Started
<1>13. ProcessTracked'
  BY <1>3, <1>5, <1>7 DEF ConnectFails, Started, ProcessTracked
<1>14. Silent'
  BY DEF ConnectFails, Silent, disk
<1>15. Ready'
  BY <1>2, <1>3, <1>4, <1>5, <1>6, <1>7, Placement DEF ConnectFails, Ready, Entered, Up
<1> QED
  BY <1>8, <1>9, <1>10, <1>11, <1>12, <1>13, <1>14, <1>15

\* The terminal is started, or cmd.Start fails.  Of an object for which it was
\* called before, nothing is claimed any more.
LEMMA LaunchStep ==
  ASSUME IInv, NEW c \in Client, Launch(c)
  PROVE  IInv'
<1> USE DEF IInv
<1> DEFINE s == client[c].session
           p == Len(processes) + 1
           n == Again(sessions[s].starts)
           made == [session |-> s, status |-> "running"]
           up == [sessions[s] EXCEPT !.state = "active", !.process = p, !.starts = n]
           failed == [sessions[s] EXCEPT !.state = "error", !.starts = n]
<1>1. /\ client[c].pc \in {"start", "launch"}
      /\ Free(s)
      /\ client' = [client EXCEPT ![c] = Resting]
      /\ UNCHANGED <<now, table, mu, cleaner, disk, restarts, closed>>
      /\ \/ sessions' = [sessions EXCEPT ![s] = up] /\ processes' = Append(processes, made)
         \/ sessions' = [sessions EXCEPT ![s] = failed] /\ UNCHANGED processes
  BY DEF Launch
<1>2. s \in DOMAIN sessions /\ sessions[s] \in Session /\ s \in 1 .. MaxSessions
  BY <1>1, Placement, Types, SSHSessionsAssumption
<1>3. n \in 1 .. 2 /\ (n = 1 => sessions[s].starts = 0) /\ n >= sessions[s].starts
  BY <1>2 DEF Again, Session
<1>4. made \in Process /\ made.session = s /\ made.status = "running"
  BY <1>2 DEF Process
<1>5. Resting \in Clients /\ Resting.pc = "idle" /\ Resting.session = 0 /\ Resting.target = 0
  BY SSHSessionsAssumption DEF Resting, Clients
<1>6. p \in Nat
  BY Types
<1> HIDE DEF n, made, p
<1>7. /\ up \in Session
      /\ up.id = sessions[s].id /\ up.state = "active" /\ up.lock = Nobody
      /\ up.process = p /\ up.starts = n
  <2>1. n \in 0 .. 2 /\ "active" \in State /\ p \in Nat
    BY <1>3, <1>6 DEF State
  <2>2. up \in Session
    BY <1>2, <2>1 DEF Session
  <2> QED
    BY <1>1, <1>2, <2>2 DEF Session, Free
<1>8. /\ failed \in Session
      /\ failed.id = sessions[s].id /\ failed.state = "error" /\ failed.lock = Nobody
      /\ failed.process = sessions[s].process /\ failed.starts = n
  <2>1. n \in 0 .. 2 /\ "error" \in State
    BY <1>3 DEF State
  <2>2. failed \in Session
    BY <1>2, <2>1 DEF Session
  <2> QED
    BY <1>1, <1>2, <2>2 DEF Session, Free
<1> HIDE DEF up, failed
<1>9. PICK r \in Session :
        /\ sessions' = [sessions EXCEPT ![s] = r]
        /\ r.id = sessions[s].id /\ r.lock = Nobody /\ r.starts = n
        /\ \/ /\ r.state = "active" /\ r.process = p
              /\ processes' = Append(processes, made)
           \/ /\ r.state = "error" /\ r.process = sessions[s].process
              /\ UNCHANGED processes
  BY <1>1, <1>7, <1>8
<1>10. /\ sessions' \in Seq(Session)
       /\ Len(sessions') = Len(sessions) /\ DOMAIN sessions' = DOMAIN sessions
       /\ sessions'[s] = r
       /\ \A t \in DOMAIN sessions : t # s => sessions'[t] = sessions[t]
  BY <1>2, <1>9, Replaced
<1>11. client' \in [Client -> Clients] /\ client'[c] = Resting /\ \A d \in Client : d # c => client'[d] = client[d]
  BY <1>1, <1>5 DEF TypeOK
<1>12. /\ processes' \in Seq(Process)
       /\ Len(processes') \in Nat /\ Len(processes') >= Len(processes)
       /\ r.state = "active" => Len(processes') = p
       /\ DOMAIN processes' = 1 .. Len(processes')
       /\ \A q \in DOMAIN processes : processes'[q] = processes[q]
       /\ \A q \in DOMAIN processes' : q \in DOMAIN processes \/ (q = p /\ processes'[q] = made /\ r.state = "active" /\ r.process = p)
  <2>1. CASE processes' = Append(processes, made) /\ r.process = p /\ r.state = "active"
    BY <1>4, <2>1, AppendProperties, LenProperties, Types DEF TypeOK, p
  <2>2. CASE UNCHANGED processes /\ r.state = "error"
    BY <2>2, Types DEF TypeOK
  <2> QED
    BY <1>9, <2>1, <2>2
<1>13. TypeOK'
  <2>1. \A t \in DOMAIN sessions' : sessions'[t].process \in 0 .. Len(processes')
    <3>1. \A t \in DOMAIN sessions : sessions[t].process \in 0 .. Len(processes')
      BY <1>12, Types DEF TypeOK
    <3>2. CASE r.state = "active"
      BY <1>6, <1>9, <1>10, <1>12, <3>1, <3>2
    <3>3. CASE r.state = "error"
      BY <1>2, <1>9, <1>10, <3>1, <3>3
    <3> QED
      BY <1>9, <3>2, <3>3
  <2>2. \A id \in Tabled' : sessions'[table'[id]].id = id
    BY <1>1, <1>9, <1>10, Types DEF TypeOK, Tabled
  <2> QED
    BY <1>1, <1>10, <1>11, <1>12, <2>1, <2>2 DEF TypeOK, disk
<1>14. Placed'
  BY <1>5, <1>10, <1>11, Types DEF Placed
<1>15. Holders'
  BY <1>1, <1>2, <1>5, <1>9, <1>10, <1>11, Placement, SSHSessionsAssumption DEF Holders, Free
<1>16. TableHeld'
  BY <1>1, <1>5, <1>11 DEF TableHeld
<1>17. \A q \in DOMAIN processes : processes[q].session = s => n = 2
  BY <1>3 DEF Started
<1>18. ASSUME NEW q \in DOMAIN processes'
       PROVE  /\ processes'[q].session \in DOMAIN sessions'
              /\ sessions'[processes'[q].session].starts # 0
              /\ sessions'[processes'[q].session].starts = 1 =>
                   \A x \in DOMAIN processes' : processes'[x].session = processes'[q].session => x = q
              /\ processes'[q].status = "running" /\ sessions'[processes'[q].session].starts = 1 =>
                   /\ sessions'[processes'[q].session].state = "active"
                   /\ sessions'[processes'[q].session].process = q
  <2>1. CASE q \in DOMAIN processes /\ processes[q].session = s
    <3>1. processes'[q].session = s /\ n = 2
      BY <1>12, <1>17, <2>1
    <3>2. sessions'[s].starts = 2
      BY <1>9, <1>10, <3>1
    <3> QED
      BY <1>2, <1>10, <3>1, <3>2
  <2>2. CASE q \in DOMAIN processes /\ processes[q].session # s
    <3> DEFINE t == processes[q].session
    <3>1. processes'[q] = processes[q] /\ t \in DOMAIN sessions /\ sessions'[t] = sessions[t]
      BY <1>10, <1>12, <2>2 DEF Started
    <3>2. \A x \in DOMAIN processes' : processes'[x].session = t => x \in DOMAIN processes /\ processes[x].session = t
      BY <1>4, <1>12, <2>2
    <3> HIDE DEF t
    <3> QED
      BY <1>10, <2>2, <3>1, <3>2 DEF Started, ProcessTracked, t
  <2>3. CASE q \notin DOMAIN processes
    <3>1. q = p /\ processes'[q] = made /\ r.state = "active" /\ r.process = p
      BY <1>12, <2>3
    <3> QED
      BY <1>2, <1>3, <1>4, <1>9, <1>10, <1>12, <1>17, <3>1
  <2> QED
    BY <2>1, <2>2, <2>3
<1>19. Silent'
  BY <1>1 DEF Silent, disk
<1>20. Ready'
  BY <1>1, <1>2, <1>3, <1>5, <1>9, <1>10, <1>11, Placement DEF Ready, Entered
<1> QED
  BY <1>13, <1>14, <1>15, <1>16, <1>18, <1>19, <1>20 DEF Started, ProcessTracked

\* A terminal ends.
LEMMA ProcessExitsStep ==
  ASSUME IInv, NEW p \in DOMAIN processes, ProcessExits(p)
  PROVE  IInv'
<1> USE DEF IInv
<1> DEFINE r == [processes[p] EXCEPT !.status = "exited"]
<1>1. /\ processes' = [processes EXCEPT ![p] = r]
      /\ UNCHANGED <<now, sessions, table, mu, client, cleaner, disk, restarts, closed>>
  BY DEF ProcessExits
<1>2. r \in Process /\ r.session = processes[p].session /\ r.status = "exited"
  BY Types DEF Process
<1> HIDE DEF r
<1>3. /\ processes' \in Seq(Process)
      /\ Len(processes') = Len(processes) /\ DOMAIN processes' = DOMAIN processes
      /\ processes'[p] = r
      /\ \A q \in DOMAIN processes : q # p => processes'[q] = processes[q]
  BY <1>1, <1>2, ProcessReplaced
<1>4. TypeOK'
  BY <1>1, <1>3 DEF TypeOK, Tabled, disk
<1>5. Placed' /\ Holders' /\ TableHeld' /\ Silent' /\ Ready'
  BY <1>1 DEF Placed, Holders, TableHeld, Silent, Ready, Free, Entered, disk
<1>6. Started' /\ ProcessTracked'
  BY <1>1, <1>2, <1>3 DEF Started, ProcessTracked
<1> QED
  BY <1>4, <1>5, <1>6

\* The goroutine behind cmd.Wait resets the object: where cmd.Start was called
\* once, the process it waited for was the only one.
LEMMA WaitReturnsStep ==
  ASSUME IInv, NEW p \in DOMAIN processes, WaitReturns(p)
  PROVE  IInv'
<1> USE DEF IInv
<1> DEFINE s == processes[p].session
           r == [sessions[s] EXCEPT !.state = "disconnected", !.process = 0]
           e == [processes[p] EXCEPT !.status = "reaped"]
<1>1. /\ Free(s)
      /\ sessions' = [sessions EXCEPT ![s] = r]
      /\ processes' = [processes EXCEPT ![p] = e]
      /\ UNCHANGED <<now, table, mu, client, cleaner, disk, restarts, closed>>
  BY DEF WaitReturns
<1>2. s \in DOMAIN sessions /\ sessions[s] \in Session /\ sessions[s].starts # 0
  BY Types DEF Started
<1>3. /\ r \in Session
      /\ r.id = sessions[s].id /\ r.state = "disconnected" /\ r.lock = Nobody
      /\ r.process = 0 /\ r.starts = sessions[s].starts
  BY <1>1, <1>2 DEF Session, State, Free
<1>4. e \in Process /\ e.session = s /\ e.status = "reaped"
  BY Types DEF Process
<1> HIDE DEF r, e
<1>5. /\ sessions' \in Seq(Session)
      /\ Len(sessions') = Len(sessions) /\ DOMAIN sessions' = DOMAIN sessions
      /\ sessions'[s] = r
      /\ \A t \in DOMAIN sessions : t # s => sessions'[t] = sessions[t]
  BY <1>1, <1>2, <1>3, Replaced
<1>6. /\ processes' \in Seq(Process)
      /\ Len(processes') = Len(processes) /\ DOMAIN processes' = DOMAIN processes
      /\ processes'[p] = e
      /\ \A q \in DOMAIN processes : q # p => processes'[q] = processes[q]
  BY <1>1, <1>4, ProcessReplaced
<1>7. TypeOK'
  BY <1>1, <1>3, <1>5, <1>6, Types DEF TypeOK, Tabled, disk
<1>8. Placed'
  BY <1>1, <1>5 DEF Placed
<1>9. Holders'
  BY <1>1, <1>3, <1>5, Placement, SSHSessionsAssumption DEF Holders, Free
<1>10. TableHeld' /\ Silent'
  BY <1>1 DEF TableHeld, Silent, disk
<1>11. Started' /\ ProcessTracked'
  <2>1. \A t \in DOMAIN sessions : sessions'[t].starts = sessions[t].starts
    BY <1>3, <1>5
  <2>2. \A q \in DOMAIN processes :
          /\ processes'[q].session = processes[q].session
          /\ processes'[q].status = "running" => processes[q].status = "running" /\ q # p
    BY <1>4, <1>6
  <2>3. Started'
    BY <1>5, <1>6, <2>1, <2>2 DEF Started
  <2>4. ASSUME NEW q \in DOMAIN processes, processes'[q].status = "running",
               sessions'[processes[q].session].starts = 1
        PROVE  /\ sessions'[processes[q].session].state = "active"
               /\ sessions'[processes[q].session].process = q
    <3>1. processes[q].session \in DOMAIN sessions /\ processes[q].session # s
      BY <2>1, <2>2, <2>4 DEF Started
    <3> QED
      BY <1>5, <2>2, <2>4, <3>1 DEF ProcessTracked
  <2> QED
    BY <1>6, <2>2, <2>3, <2>4 DEF ProcessTracked
<1>12. Ready'
  BY <1>1, <1>2, <1>3, <1>5, Placement, Types DEF Ready, Entered, Session
<1> QED
  BY <1>7, <1>8, <1>9, <1>10, <1>11, <1>12

\* Process.Kill: afterwards process p does not run, and the others as before.
LEMMA Kills ==
  ASSUME TypeOK, NEW p \in 0 .. Len(processes)
  PROVE  /\ Killed(p) \in Seq(Process)
         /\ Len(Killed(p)) = Len(processes)
         /\ DOMAIN Killed(p) = DOMAIN processes
         /\ \A q \in DOMAIN processes :
              /\ Killed(p)[q].session = processes[q].session
              /\ Killed(p)[q].status = "running" => processes[q].status = "running" /\ q # p
<1>1. CASE p = 0
  BY <1>1, Types DEF Killed, TypeOK
<1>2. CASE p # 0
  <2> DEFINE r == [processes[p] EXCEPT !.status = IF @ = "running" THEN "exited" ELSE @]
  <2>1. Killed(p) = [processes EXCEPT ![p] = r]
    BY <1>2 DEF Killed
  <2>2. p \in 1 .. Len(processes) /\ p \in DOMAIN processes /\ processes[p] \in Process
    BY <1>2, Types
  <2>3. r \in Process /\ r.session = processes[p].session /\ r.status # "running"
    BY <2>2 DEF Process
  <2> HIDE DEF r
  <2>4. processes \in Seq(Process)
    BY DEF TypeOK
  <2>5. /\ [processes EXCEPT ![p] = r] \in Seq(Process)
        /\ Len([processes EXCEPT ![p] = r]) = Len(processes)
        /\ \A j \in 1 .. Len(processes) :
             [processes EXCEPT ![p] = r][j] = IF j = p THEN r ELSE processes[j]
    BY <2>2, <2>3, <2>4, ExceptSeq
  <2>6. DOMAIN [processes EXCEPT ![p] = r] = DOMAIN processes
    OBVIOUS
  <2> QED
    BY <2>1, <2>2, <2>3, <2>5, <2>6, Types
<1> QED
  BY <1>1, <1>2

\* CloseSession has got the object: the terminal it knows is killed, the master
\* of its host told to exit, the entry deleted.
LEMMA CloseReturnsStep ==
  ASSUME IInv, NEW c \in Client, CloseReturns(c)
  PROVE  IInv'
<1> USE DEF IInv
<1> DEFINE s == client[c].target
           id == sessions[s].id
           r == [sessions[s] EXCEPT !.state = "disconnected", !.process = 0]
<1>1. /\ client[c].pc = "close"
      /\ Free(s)
      /\ processes' = Killed(sessions[s].process)
      /\ served' = served \ {id.host}
      /\ sessions' = [sessions EXCEPT ![s] = r]
      /\ table' = [table EXCEPT ![id] = 0]
      /\ closed' = closed \cup {id}
      /\ mu' = Nobody
      /\ client' = [client EXCEPT ![c] = Resting]
      /\ UNCHANGED <<now, cleaner, saved, restarts>>
  BY DEF CloseReturns
<1>2. s \in DOMAIN sessions /\ sessions[s] \in Session /\ sessions[s].process \in 0 .. Len(processes)
  BY <1>1, Placement, Types DEF TypeOK
<1>3. id \in Id
  BY <1>2 DEF Session
<1>4. /\ r \in Session
      /\ r.id = id /\ r.state = "disconnected" /\ r.lock = Nobody
      /\ r.process = 0 /\ r.starts = sessions[s].starts
  BY <1>1, <1>2 DEF Session, State, Free
<1>5. Resting \in Clients /\ Resting.pc = "idle" /\ Resting.session = 0 /\ Resting.target = 0
  BY SSHSessionsAssumption DEF Resting, Clients
<1> HIDE DEF r, id
<1>6. /\ sessions' \in Seq(Session)
      /\ Len(sessions') = Len(sessions) /\ DOMAIN sessions' = DOMAIN sessions
      /\ sessions'[s] = r
      /\ \A t \in DOMAIN sessions : t # s => sessions'[t] = sessions[t]
  BY <1>1, <1>2, <1>4, Replaced
<1>7. client' \in [Client -> Clients] /\ client'[c] = Resting /\ \A d \in Client : d # c => client'[d] = client[d]
  BY <1>1, <1>5 DEF TypeOK
<1>8. /\ processes' \in Seq(Process)
      /\ Len(processes') = Len(processes) /\ DOMAIN processes' = DOMAIN processes
      /\ \A q \in DOMAIN processes :
           /\ processes'[q].session = processes[q].session
           /\ processes'[q].status = "running" => processes[q].status = "running" /\ q # sessions[s].process
  BY <1>1, <1>2, Kills
<1>9. /\ table' \in [Id -> 0 .. Len(sessions)]
      /\ table'[id] = 0
      /\ \A i \in Id : i # id => table'[i] = table[i]
  BY <1>1, <1>3, Types DEF TypeOK
<1>10. \A t \in DOMAIN sessions : sessions'[t].id = sessions[t].id /\ sessions[t].id \in Id
  BY <1>4, <1>6, Types DEF id, Session
<1>11. TypeOK'
  <2>1. \A i \in Tabled' : sessions'[table'[i]].id = i
    <3> SUFFICES ASSUME NEW i \in Id, table'[i] # 0
                 PROVE  sessions'[table'[i]].id = i
      BY DEF Tabled
    <3>1. i # id /\ table'[i] = table[i]
      BY <1>9
    <3>2. table[i] \in DOMAIN sessions /\ sessions[table[i]].id = i
      BY <3>1, Types DEF TypeOK, Tabled
    <3> QED
      BY <1>10, <3>1, <3>2
  <2>2. \A t \in DOMAIN sessions' : sessions'[t].process \in 0 .. Len(processes')
    BY <1>4, <1>6, <1>8, Types DEF TypeOK
  <2> QED
    BY <1>1, <1>3, <1>6, <1>7, <1>8, <1>9, <2>1, <2>2 DEF TypeOK
<1>12. Placed'
  BY <1>5, <1>6, <1>7, Types DEF Placed
<1>13. Holders'
  BY <1>1, <1>2, <1>4, <1>5, <1>6, <1>7, Placement, SSHSessionsAssumption DEF Holders, Free
<1>14. TableHeld'
  BY <1>1, <1>5, <1>7, SSHSessionsAssumption DEF TableHeld
<1>15. Started'
  BY <1>4, <1>6, <1>8 DEF Started
<1>16. ProcessTracked'
  <2> SUFFICES ASSUME NEW q \in DOMAIN processes, processes'[q].status = "running",
                      sessions'[processes[q].session].starts = 1
               PROVE  /\ sessions'[processes[q].session].state = "active"
                      /\ sessions'[processes[q].session].process = q
    BY <1>8 DEF ProcessTracked
  <2> DEFINE t == processes[q].session
  <2>1. t \in DOMAIN sessions /\ sessions[t].starts = 1
    BY <1>4, <1>6 DEF Started
  <2>2. sessions[t].state = "active" /\ sessions[t].process = q /\ q # sessions[s].process
    BY <1>8, <2>1 DEF ProcessTracked
  <2>3. sessions'[t] = sessions[t]
    BY <1>6, <2>1, <2>2
  <2> QED
    BY <2>2, <2>3
<1>17. Silent'
  BY <1>1, <1>3, <1>9 DEF Silent, TypeOK
<1>18. Ready'
  BY <1>1, <1>2, <1>3, <1>4, <1>5, <1>6, <1>7, <1>9, <1>10, Placement, Types DEF Ready, Entered, id
<1> QED
  BY <1>11, <1>12, <1>13, <1>14, <1>15, <1>16, <1>17, <1>18

\* The sweep visits an entry: entries and sockets are only ever taken away.
LEMMA SweepVisitsStep ==
  ASSUME IInv, NEW id \in Id, SweepVisits(id)
  PROVE  IInv'
<1> USE DEF IInv
<1>1. UNCHANGED <<now, sessions, mu, client, processes, saved, restarts, closed>>
  BY DEF SweepVisits
<1>2. /\ table' \in [Id -> 0 .. Len(sessions)]
      /\ \A i \in Id : table'[i] = table[i] \/ table'[i] = 0
      /\ served' \subseteq served
  <2>1. table \in [Id -> 0 .. Len(sessions)] /\ 0 \in 0 .. Len(sessions)
    BY Types DEF TypeOK
  <2> QED
    BY <2>1 DEF SweepVisits, SweepRemoves, SweepKeeps
<1>3. cleaner' \in Cleaners /\ cleaner'.pc = cleaner.pc /\ cleaner.pc = "sweep"
  BY DEF SweepVisits, Cleaners, TypeOK
<1>4. TypeOK'
  BY <1>1, <1>2, <1>3 DEF TypeOK, Tabled
<1>5. Placed' /\ Holders' /\ Started' /\ ProcessTracked'
  BY <1>1 DEF Placed, Holders, Started, ProcessTracked, Free
<1>6. TableHeld'
  BY <1>1, <1>3 DEF TableHeld
<1>7. Silent'
  BY <1>1, <1>2 DEF Silent, TypeOK
<1>8. Ready'
  <2>1. \A s \in DOMAIN sessions : ~Entered(s) => ~Entered(s)'
    BY <1>1, <1>2, Types DEF Entered, Session
  <2> QED
    BY <1>1, <2>1, Placement DEF Ready
<1> QED
  BY <1>4, <1>5, <1>6, <1>7, <1>8

\* A master exits on its own.
LEMMA MasterExitsStep ==
  ASSUME IInv, NEW h \in Host, MasterExits(h)
  PROVE  IInv'
<1> USE DEF IInv
<1>1. /\ served' \subseteq served
      /\ UNCHANGED <<now, sessions, table, mu, client, cleaner, processes, saved, restarts, closed>>
  BY DEF MasterExits
<1>2. TypeOK'
  BY <1>1 DEF TypeOK, Tabled
<1>3. Placed' /\ Holders' /\ TableHeld' /\ Started' /\ ProcessTracked' /\ Silent' /\ Ready'
  BY <1>1 DEF Placed, Holders, TableHeld, Started, ProcessTracked, Silent, Ready, Free, Entered
<1> QED
  BY <1>2, <1>3

\* CreateSession: a new object under an id that was free.
LEMMA CreateSessionStep ==
  ASSUME IInv, NEW h \in Host, CreateSession(h)
  PROVE  IInv'
<1> USE DEF IInv
<1> DEFINE n == Len(sessions) + 1
           id == [host |-> h, second |-> now']
           new == NewSession(id, "idle")
<1>1. /\ n <= MaxSessions
      /\ now' \in 1 .. MaxSeconds
      /\ sessions' = Append(sessions, new)
      /\ table' = [table EXCEPT ![id] = n]
      /\ closed' = closed \ {id}
      /\ UNCHANGED <<mu, client, cleaner, processes, disk, restarts>>
  BY Types, SSHSessionsAssumption DEF CreateSession, TypeOK
<1>2. id \in Id
  BY <1>1 DEF Id
<1>3. new \in Session /\ new.id = id /\ new.lock = Nobody /\ new.process = 0
  BY <1>2 DEF NewSession, Session, State
<1> HIDE DEF id, new
<1>4. /\ sessions' \in Seq(Session)
      /\ Len(sessions') = n /\ n \in Nat
      /\ DOMAIN sessions' = 1 .. n
      /\ DOMAIN sessions' = DOMAIN sessions \cup {n} /\ n \notin DOMAIN sessions
      /\ \A s \in DOMAIN sessions : sessions'[s] = sessions[s]
      /\ sessions'[n] = new
  BY <1>1, <1>3, AppendProperties, LenProperties, Types DEF TypeOK
<1>5. /\ table' \in [Id -> 0 .. n]
      /\ table'[id] = n
      /\ \A i \in Id : i # id => table'[i] = table[i]
  <2>1. table \in [Id -> 0 .. n] /\ n \in 0 .. n
    BY <1>4, Types DEF TypeOK
  <2> HIDE DEF n
  <2> QED
    BY <1>1, <1>2, <2>1
<1>6. TypeOK'
  <2>1. \A i \in Tabled' : sessions'[table'[i]].id = i
    <3> SUFFICES ASSUME NEW i \in Id, table'[i] # 0
                 PROVE  sessions'[table'[i]].id = i
      BY DEF Tabled
    <3>1. CASE i = id
      BY <1>3, <1>4, <1>5, <3>1
    <3>2. CASE i # id
      <4>1. table'[i] = table[i] /\ table[i] \in DOMAIN sessions /\ sessions[table[i]].id = i
        BY <1>5, <3>2, Types DEF TypeOK, Tabled
      <4> QED
        BY <1>4, <4>1
    <3> QED
      BY <3>1, <3>2
  <2>2. \A s \in DOMAIN sessions' : sessions'[s].process \in 0 .. Len(processes')
    BY <1>1, <1>3, <1>4, Types DEF TypeOK
  <2> QED
    BY <1>1, <1>4, <1>5, <2>1, <2>2 DEF TypeOK, disk
<1>7. Placed'
  BY <1>1, <1>4, Types, Placement DEF Placed, Clients
<1>8. Holders'
  BY <1>1, <1>3, <1>4, Placement DEF Holders, Free
<1>9. TableHeld'
  BY <1>1 DEF TableHeld
<1>10. Started' /\ ProcessTracked'
  BY <1>1, <1>4 DEF Started, ProcessTracked
<1>11. Silent'
  BY <1>1, <1>5 DEF Silent, TypeOK, disk
<1>12. Ready'
  <2>1. \A s \in DOMAIN sessions : ~Entered(s) => ~Entered(s)'
    BY <1>4, <1>5, Types DEF Entered, Session
  <2> QED
    BY <1>1, <1>4, <2>1, Placement DEF Ready
<1> QED
  BY <1>6, <1>7, <1>8, <1>9, <1>10, <1>11, <1>12

\* The program exits and loadPersistentSessions restores what it can: nothing
\* that is in closed, since no master serves its host.
LEMMA RestartStep ==
  ASSUME IInv, Restart
  PROVE  IInv'
<1> USE DEF IInv
<1>1. /\ restarts' \in 0 .. MaxRestarts
      /\ mu' = Nobody
      /\ client' = [c \in Client |-> Resting]
      /\ cleaner' = Asleep
      /\ processes' = <<>>
      /\ UNCHANGED <<now, served, saved, closed>>
  BY SSHSessionsAssumption DEF Restart, TypeOK, disk
<1>2. PICK n \in 0 .. MaxSessions : \E order \in [1 .. n -> Restorable] :
        /\ \A id \in Restorable : \E s \in 1 .. n : order[s] = id
        /\ sessions' = [s \in 1 .. n |-> NewSession(order[s], "connected")]
        /\ table' = [id \in Id |-> IF id \in Restorable
                                   THEN CHOOSE s \in 1 .. n : order[s] = id ELSE 0]
  BY DEF Restart
<1>3. PICK order \in [1 .. n -> Restorable] :
        /\ \A id \in Restorable : \E s \in 1 .. n : order[s] = id
        /\ sessions' = [s \in 1 .. n |-> NewSession(order[s], "connected")]
        /\ table' = [id \in Id |-> IF id \in Restorable
                                   THEN CHOOSE s \in 1 .. n : order[s] = id ELSE 0]
  BY <1>2
<1>4. n \in Nat /\ n <= MaxSessions /\ Restorable \subseteq Id
  BY SSHSessionsAssumption DEF Restorable, TypeOK
<1>5. \A s \in 1 .. n :
        /\ sessions'[s] \in Session
        /\ sessions'[s].id = order[s] /\ sessions'[s].lock = Nobody /\ sessions'[s].process = 0
  BY <1>3, <1>4 DEF NewSession, Session, State
<1>6. sessions' \in [1 .. n -> Session]
  BY <1>3, <1>5
<1>7. sessions' \in Seq(Session) /\ DOMAIN sessions' = 1 .. n /\ Len(sessions') = n
  <2>1. sessions' \in Seq(Session)
    BY <1>4, <1>6, SeqDef
  <2>2. DOMAIN sessions' = 1 .. n
    BY <1>6
  <2> QED
    BY <1>4, <2>1, <2>2, LenProperties
<1>8. \A id \in Id : /\ id \in Restorable => table'[id] \in 1 .. n /\ order[table'[id]] = id
                     /\ id \notin Restorable => table'[id] = 0
  BY <1>3
<1>9. table' \in [Id -> 0 .. n]
  <2>1. \A id \in Id : table'[id] \in 0 .. n
    BY <1>4, <1>8
  <2> QED
    BY <1>3, <2>1
<1>10. /\ Resting \in Clients /\ Resting.pc = "idle" /\ Resting.session = 0 /\ Resting.target = 0
       /\ Asleep \in Cleaners /\ Asleep.pc = "asleep"
  BY SSHSessionsAssumption DEF Resting, Clients, Asleep, Cleaners
<1>11. \A c \in Client : client'[c] = Resting
  BY <1>1
<1>12. processes' \in Seq(Process) /\ DOMAIN processes' = {} /\ Len(processes') = 0
  BY <1>1, EmptySeq
<1>13. TypeOK'
  <2>1. \A id \in Tabled' : sessions'[table'[id]].id = id
    BY <1>5, <1>8 DEF Tabled
  <2>2. client' \in [Client -> Clients]
    BY <1>1, <1>10
  <2> QED
    BY <1>1, <1>4, <1>5, <1>7, <1>9, <1>10, <1>12, <2>1, <2>2 DEF TypeOK
<1>14. Placed' /\ Ready'
  BY <1>4, <1>7, <1>10, <1>11 DEF Placed, Ready
<1>15. Holders'
  BY <1>5, <1>7, <1>10, <1>11 DEF Holders, Free
<1>16. TableHeld'
  BY <1>1, <1>10, <1>11, SSHSessionsAssumption DEF TableHeld
<1>17. Started' /\ ProcessTracked'
  BY <1>12 DEF Started, ProcessTracked
<1>18. Silent'
  <2> SUFFICES ASSUME NEW id \in closed
               PROVE  id.host \notin served /\ table'[id] = 0
    BY <1>1 DEF Silent
  <2>1. id \in Id /\ id.host \notin served /\ id \notin Restorable
    BY DEF Silent, TypeOK, Restorable
  <2> QED
    BY <1>8, <2>1
<1> QED
  BY <1>13, <1>14, <1>15, <1>16, <1>17, <1>18

\* The invariant holds when the program is started for the first time.
LEMMA InitEstablishes ==
  ASSUME Init
  PROVE  IInv
<1>1. /\ now = 1 /\ sessions = <<>> /\ table = [id \in Id |-> 0] /\ mu = Nobody
      /\ client = [c \in Client |-> Resting] /\ cleaner = Asleep /\ processes = <<>>
      /\ served = {} /\ saved = {} /\ restarts = 0 /\ closed = {}
  BY DEF Init
<1>2. /\ sessions \in Seq(Session) /\ DOMAIN sessions = {} /\ Len(sessions) = 0
      /\ processes \in Seq(Process) /\ DOMAIN processes = {}
  BY <1>1, EmptySeq
<1>3. /\ Resting \in Clients /\ Resting.pc = "idle" /\ Resting.session = 0 /\ Resting.target = 0
      /\ Asleep \in Cleaners /\ Asleep.pc = "asleep"
  BY SSHSessionsAssumption DEF Resting, Clients, Asleep, Cleaners
<1>4. TypeOK
  <2>1. MaxSessions \in Nat /\ MaxRestarts \in Nat /\ 1 \in 1 .. MaxSeconds
    BY SSHSessionsAssumption
  <2>2. table \in [Id -> 0 .. Len(sessions)] /\ Tabled = {}
    BY <1>1, <1>2 DEF Tabled
  <2>3. client \in [Client -> Clients]
    BY <1>1, <1>3
  <2> QED
    BY <1>1, <1>2, <1>3, <2>1, <2>2, <2>3 DEF TypeOK
<1>5. Placed /\ Ready
  BY <1>1, <1>2, <1>3 DEF Placed, Ready
<1>6. Holders
  BY <1>1, <1>2, <1>3 DEF Holders
<1>7. TableHeld
  BY <1>1, <1>3, SSHSessionsAssumption DEF TableHeld
<1>8. Started /\ ProcessTracked /\ Silent
  BY <1>1, <1>2 DEF Started, ProcessTracked, Silent
<1> QED
  BY <1>4, <1>5, <1>6, <1>7, <1>8 DEF IInv

\* Every step preserves the invariant.
LEMMA NextPreserves ==
  ASSUME IInv, [Next]_vars
  PROVE  IInv'
<1>1. ASSUME NEW h \in Host, CreateSession(h) \/ MasterExits(h)
      PROVE  IInv'
  BY <1>1, CreateSessionStep, MasterExitsStep
<1>2. ASSUME NEW c \in Client, NEW id \in Id,
             ConnectSession(c, id) \/ StartInteractiveSession(c, id) \/ CloseSession(c, id)
      PROVE  IInv'
  BY <1>2, ConnectSessionStep, StartInteractiveSessionStep, CloseSessionStep
<1>3. ASSUME NEW c \in Client, Continues(c)
      PROVE  IInv'
  BY <1>3, ConnectLocksStep, ConnectedStep, ConnectFailsStep, StartUnlocksStep,
     StartReconnectsStep, LaunchStep, CloseReturnsStep DEF Continues
<1>4. ASSUME NEW p \in DOMAIN processes, ProcessExits(p) \/ WaitReturns(p)
      PROVE  IInv'
  BY <1>4, ProcessExitsStep, WaitReturnsStep
<1>5. CASE SweepBegins \/ CleanerContinues
  BY <1>5, CleanerStep, SweepVisitsStep DEF CleanerContinues
<1>6. CASE Restart
  BY <1>6, RestartStep
<1>7. CASE UNCHANGED vars
  BY <1>7 DEF vars, disk, IInv, TypeOK, Tabled, Placed, Holders, TableHeld, Started, ProcessTracked,
     Silent, Ready, Free, Entered
<1> QED
  BY <1>1, <1>2, <1>3, <1>4, <1>5, <1>6, <1>7 DEF Next

\* IInv is an invariant of the sessions.
THEOREM Invariance == Spec => []IInv
<1>1. Init => IInv
  BY InitEstablishes
<1>2. IInv /\ [Next]_vars => IInv'
  BY NextPreserves
<1> QED
  BY <1>1, <1>2, PTL DEF Spec

\* The variables keep their types.
THEOREM TypeCorrect == Spec => []TypeOK
<1>1. IInv => TypeOK
  BY DEF IInv
<1> QED
  BY <1>1, Invariance, PTL

\* A running terminal belongs to an active session that knows its process, where
\* cmd.Start was called once: for any number of clients, sessions and restarts.
THEOREM TerminalsTracked == Spec => []ProcessTracked
<1>1. IInv => ProcessTracked
  BY DEF IInv
<1> QED
  BY <1>1, Invariance, PTL

\* Who holds a mutex waits for ssh alone, or for someone who does.
THEOREM NobodyWaitsInACircle == Spec => []HoldersWaitForSSH
<1>1. ASSUME IInv
      PROVE  HoldersWaitForSSH
  BY <1>1, SSHSessionsAssumption DEF IInv, TypeOK, Holders, TableHeld, HoldersWaitForSSH
<1> QED
  BY <1>1, Invariance, PTL

\* What CloseSession has closed is not restored by loadPersistentSessions.
THEOREM ClosedStaysClosed == Spec => []ClosedNotRestored
<1>1. IInv => ClosedNotRestored
  BY DEF IInv, Silent, ClosedNotRestored
<1> QED
  BY <1>1, Invariance, PTL

\* The action that StartsConnected demands of every step.
StartsOnlyConnected ==
  \A s \in DOMAIN sessions :
    s \in DOMAIN sessions' /\ sessions'[s].starts > sessions[s].starts
      => \/ sessions[s].state \in Up
         \/ table[sessions[s].id] # s
         \/ sessions[s].starts > 0

\* No step but Launch counts a call of cmd.Start.
LEMMA OnlyLaunchStarts ==
  ASSUME IInv, [Next]_vars, \A c \in Client : ~Launch(c)
  PROVE  \A s \in DOMAIN sessions :
           s \in DOMAIN sessions' => sessions'[s].starts \in 0 .. sessions[s].starts
<1> DEFINE Goal == \A s \in DOMAIN sessions :
                     s \in DOMAIN sessions' => sessions'[s].starts \in 0 .. sessions[s].starts
<1> USE DEF IInv
<1>1. \A s \in DOMAIN sessions : sessions[s] \in Session /\ sessions[s].starts \in 0 .. 2
  BY Types DEF Session
<1>2. CASE UNCHANGED sessions
  BY <1>1, <1>2
<1>3. ASSUME NEW h \in Host, CreateSession(h)
      PROVE  Goal
  <2> DEFINE id == [host |-> h, second |-> now']
  <2>1. sessions' = Append(sessions, NewSession(id, "idle")) /\ id \in Id
    BY <1>3, SSHSessionsAssumption DEF CreateSession, TypeOK, Id
  <2>2. NewSession(id, "idle") \in Session
    BY <2>1 DEF NewSession, Session, State
  <2>3. \A s \in DOMAIN sessions : sessions'[s] = sessions[s]
    BY <2>1, <2>2, AppendProperties, Types DEF TypeOK
  <2> QED
    BY <1>1, <2>3
<1>4. ASSUME NEW s, NEW r, s \in DOMAIN sessions, r.starts = sessions[s].starts,
             sessions' = [sessions EXCEPT ![s] = r]
      PROVE  Goal
  BY <1>1, <1>4
<1>5. ASSUME NEW c \in Client, ConnectLocks(c) \/ Connected(c) \/ ConnectFails(c) \/ CloseReturns(c)
      PROVE  Goal
  <2> DEFINE s == client[c].target
  <2>1. s \in DOMAIN sessions /\ sessions[s] \in Session
    BY <1>1, <1>5, Placement DEF ConnectLocks, Connected, ConnectFails, CloseReturns
  <2>2. CASE UNCHANGED sessions
    BY <1>2, <2>2
  <2>3. CASE sessions' = [sessions EXCEPT ![s] = [@ EXCEPT !.lock = c, !.state = "connecting"]]
    BY <1>4, <2>1, <2>3 DEF Session
  <2>4. CASE sessions' = [sessions EXCEPT ![s] = [@ EXCEPT !.lock = Nobody, !.state = "connected"]]
    BY <1>4, <2>1, <2>4 DEF Session
  <2>5. CASE sessions' = [sessions EXCEPT ![s] = [@ EXCEPT !.lock = Nobody, !.state = "error"]]
    BY <1>4, <2>1, <2>5 DEF Session
  <2>6. CASE sessions' = [sessions EXCEPT ![s] = [@ EXCEPT !.state = "disconnected", !.process = 0]]
    BY <1>4, <2>1, <2>6 DEF Session
  <2> QED
    BY <1>5, <2>2, <2>3, <2>4, <2>5, <2>6 DEF ConnectLocks, Connected, ConnectFails, CloseReturns
<1>6. ASSUME NEW p \in DOMAIN processes, WaitReturns(p)
      PROVE  Goal
  <2> DEFINE s == processes[p].session
  <2>1. s \in DOMAIN sessions /\ sessions[s] \in Session
    BY <1>1 DEF Started
  <2>2. sessions' = [sessions EXCEPT ![s] = [@ EXCEPT !.state = "disconnected", !.process = 0]]
    BY <1>6 DEF WaitReturns
  <2> QED
    BY <1>4, <2>1, <2>2 DEF Session
<1>7. CASE Restart
  <2>1. \A s \in DOMAIN sessions' : sessions'[s].starts = 0
    BY <1>7 DEF Restart, NewSession
  <2> QED
    BY <1>1, <2>1
<1> QED
  BY <1>2, <1>3, <1>5, <1>6, <1>7
  DEF Next, Continues, CleanerContinues, MasterExits, ConnectSession, StartInteractiveSession,
      CloseSession, StartUnlocks, StartReconnects, ProcessExits, SweepBegins, SweepVisits, SweepEnds,
      SaveBegins, SaveVisits, SaveEnds, vars

\* Launch calls cmd.Start for a connected object: seen to be so under its lock,
\* or known to be so by Ready.
LEMMA LaunchStartsConnected ==
  ASSUME IInv, NEW c \in Client, Launch(c)
  PROVE  StartsOnlyConnected
<1> USE DEF IInv
<1> DEFINE s == client[c].session
<1>1. s \in DOMAIN sessions /\ client[c].pc \in {"start", "launch"}
  BY Placement DEF Launch
<1>2. \A t \in DOMAIN sessions : t # s => sessions'[t] = sessions[t]
  BY <1>1 DEF Launch
<1>3. \/ sessions[s].state \in Up
      \/ table[sessions[s].id] # s
      \/ sessions[s].starts > 0
  BY <1>1 DEF Launch, Ready, Entered
<1>4. \A t \in DOMAIN sessions : sessions[t].starts \in 0 .. 2
  BY Types DEF Session
<1> QED
  BY <1>2, <1>3, <1>4 DEF StartsOnlyConnected

\* StartInteractiveSession starts a terminal in a connected session, although it
\* does not look again after it has locked the object for the second time.
THEOREM TerminalsStartConnected == Spec => StartsConnected
<1>1. ASSUME IInv, [Next]_vars
      PROVE  StartsOnlyConnected
  <2>1. CASE \E c \in Client : Launch(c)
    BY <1>1, <2>1, LaunchStartsConnected
  <2>2. CASE \A c \in Client : ~Launch(c)
    <3>1. \A s \in DOMAIN sessions : s \in DOMAIN sessions' => sessions'[s].starts \in 0 .. sessions[s].starts
      BY <1>1, <2>2, OnlyLaunchStarts
    <3>2. \A s \in DOMAIN sessions : sessions[s].starts \in 0 .. 2
      BY <1>1, Types DEF IInv, Session
    <3> QED
      BY <3>1, <3>2 DEF StartsOnlyConnected
  <2> QED
    BY <2>1, <2>2
<1>2. IInv /\ [Next]_vars => [StartsOnlyConnected]_vars
  BY <1>1
<1> QED
  BY <1>2, Invariance, PTL DEF Spec, StartsConnected, StartsOnlyConnected
=============================================================================
