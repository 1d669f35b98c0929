------------------------------ MODULE NetHogs -------------------------------
(***************************************************************************)
(* The traffic accounting engine procnet-monitor/ (a vendored and adapted  *)
(* libnethogs), run by the ProcessNetwork thread.  Captured packets are    *)
(* put on Connection objects, a Connection belongs to one Process object,  *)
(* and about once a second nethogsmonitor_handle_update recomputes every   *)
(* Process's speed, drops silent connections and silent processes, and     *)
(* calls the subscriber back with what changed.                            *)
(*                                                                         *)
(* The module models the caches that attribute a packet to a pid           *)
(* (conninode, inodeproc), the two object lists, the record map and the    *)
(* clock readings they are compared with.  The kernel's sockets are        *)
(* external.  The start and the end of the loop are in MonitorLoop.        *)
(***************************************************************************)
EXTENDS PackList, FiniteSets

CONSTANTS
  Flows,          \* 4-tuples seen from the local end: [addr, port, peer, v6]
  Pids, Inodes,   \* positive numbers; 0 is "none" for both, as in the code
  Objs,           \* pool of ProcList/Process nodes (their addresses)
  Unknown,        \* the node process_init allocates for unknowntcp
  Dirs,           \* "sent", "recv"
  Sizes,          \* packet lengths
  MaxPerSecond,   \* bound: bytes captured of one flow in one second
  None,           \* no Connection with this refpacket
  Orphan,         \* owner of a Connection whose Process has been deleted
  CONNTIMEOUT, PROCESSTIMEOUT,
  StartTime, MaxTime,  \* first and last value of the wall clock
  MaxGap,         \* longest time between two polls, in seconds
  Lag             \* how far behind the wall clock a packet's stamp may be

NoPid   == 0
NoInode == 0

ASSUME NetHogsAssumption ==
  /\ IsFiniteSet(Flows)
  /\ Pids \subseteq Nat \ {0} /\ IsFiniteSet(Pids)
  /\ Inodes \subseteq Nat \ {0}
  /\ Unknown \in Objs
  /\ Orphan \notin Objs /\ None \notin Flows
  /\ Dirs \subseteq {"sent", "recv"}
  /\ Sizes \subseteq Byte32
  /\ CONNTIMEOUT \in Nat \ {0} /\ PROCESSTIMEOUT \in Nat \ {0}
  /\ MaxTime \in Nat /\ StartTime \in 1 .. MaxTime /\ MaxGap \in Nat
  /\ Lag \in 0 .. (StartTime - 1)

VARIABLES
  sock,        \* kernel: inode of the socket behind a flow, or NoInode
  holders,     \* kernel: pids that have a file descriptor on an inode
  conninode,   \* cache /proc/net/{tcp,udp}*: flow -> inode
  inodeproc,   \* cache /proc/<pid>/fd: inode -> pid
  conn,        \* the global list: the Connection with this refpacket, or None
  procs,       \* the nodes of the list `processes'
  pidOf,       \* Process::pid of a node
  record,      \* monitor_record_map: node -> NethogsMonitorRecord
  clock,       \* time(NULL)
  curtime,     \* curtime.tv_sec; 0 until the first poll
  lastRefresh, \* monitor_last_refresh_time
  pc           \* where nethogsmonitor_loop is: "dispatch" or "update"

(***************************************************************************)
(* History variables: what the properties compare the state with.          *)
(***************************************************************************)
VARIABLES
  seen,        \* value of curtime at the last update (StartTime before it)
  wire,        \* flow, second -> bytes captured with that stamp, still in window
  heard,       \* node -> stamp of the last packet counted for it (0: none)
  told,        \* pid -> speed in the last SET for it (what a subscriber shows)
  held,        \* inode -> pids that have ever held it
  opened       \* flow -> inodes that its row has ever had

kernel  == <<sock, holders, held, opened>>
caches  == <<conninode, inodeproc>>
lists   == <<conn, procs, pidOf, record>>
clocks  == <<clock, curtime, lastRefresh, seen>>
history == <<wire, heard, told>>
vars    == <<kernel, caches, lists, clocks, history, pc>>

-----------------------------------------------------------------------------
Time == 0 .. MaxTime

Connection == [last : Time, sent : Seq(Node), recv : Seq(Node),
               sumSent : Byte32, sumRecv : Byte32, owner : Objs \cup {Orphan}]

ASSUME NoneAssumption == None \notin Connection

Live      == {f \in Flows : conn[f] # None}
ConnsOf(o) == {f \in Live : conn[f].owner = o}

(***************************************************************************)
(* addtoconninode writes a row under its own address and again under every *)
(* local address, so the rows of one local port and one remote end share   *)
(* their entries and the row read last wins.                               *)
(***************************************************************************)
SameRow(f, g) == f.port = g.port /\ f.peer = g.peer /\ f.v6 = g.v6

\* mutated form: the remote end is not part of the key
RowsOfPort(f) == {sock[g] : g \in {h \in Flows : f.port = h.port}} \ {NoInode}

Rows(f) == {sock[g] : g \in {h \in Flows : SameRow(f, h)}} \ {NoInode}

\* refreshconninode: what is no longer listed keeps its old entry
RefreshedConnInode(m) ==
  /\ m \in [Flows -> Inodes \cup {NoInode}]
  /\ \A f \in Flows : IF Rows(f) = {} THEN m[f] = conninode[f] ELSE m[f] \in Rows(f)
  /\ \A f, g \in Flows : SameRow(f, g) /\ Rows(f) # {} => m[f] = m[g]

\* reread_mapping: /proc is walked in pid order, setnode keeps the last holder
Reread == [i \in Inodes |-> IF holders[i] = {} THEN inodeproc[i] ELSE Max(holders[i])]

(***************************************************************************)
(* findConnection: the Connection whose refpacket matches, else the first  *)
(* whose refpacket has the same source.  The source comparison reads the   *)
(* IPv4 address, which an IPv6 packet never initialises: between two flows *)
(* of the same local port, one of them IPv6, it may go either way.         *)
(***************************************************************************)
SameSource(f, g) == f.port = g.port /\ ~f.v6 /\ ~g.v6 /\ f.addr = g.addr
MaybeSource(f, g) == f.port = g.port /\ (f.v6 \/ g.v6)

\* mutated form: no second pass by source
FindExactConnection(f) == IF f \in Live THEN {f} ELSE {None}

FindConnection(f) ==
  LET must == {g \in Live : SameSource(f, g)}
      may  == {g \in Live : MaybeSource(f, g)}
  IN  IF f \in Live THEN {f}
      ELSE IF must = {} THEN may \cup {None} ELSE must \cup may

-----------------------------------------------------------------------------
Init ==
  /\ sock      = [f \in Flows |-> NoInode]
  /\ holders   = [i \in Inodes |-> {}]
  /\ held      = holders
  /\ opened    = [f \in Flows |-> {}]
  /\ conninode = sock
  /\ inodeproc = [i \in Inodes |-> NoPid]
  /\ conn      = [f \in Flows |-> None]
  /\ procs     = {Unknown}
  /\ pidOf     = [o \in Objs |-> NoPid]
  /\ record    = <<>>
  /\ clock     = StartTime
  /\ curtime   = 0
  /\ lastRefresh = 0
  /\ seen      = StartTime
  /\ pc        = "dispatch"
  /\ wire      = [f \in Flows |-> [t \in Time |-> 0]]
  /\ heard     = [o \in Objs |-> 0]
  /\ told      = [p \in Pids |-> 0]

(***************************************************************************)
(* The kernel.  An inode number is not used twice.                         *)
(***************************************************************************)
Connect(f, i, p) ==
  /\ sock[f] = NoInode /\ held[i] = {}
  /\ sock' = [sock EXCEPT ![f] = i]
  /\ holders' = [holders EXCEPT ![i] = {p}]
  /\ held' = [held EXCEPT ![i] = {p}]
  /\ opened' = [g \in Flows |-> IF SameRow(f, g) THEN opened[g] \cup {i} ELSE opened[g]]
  /\ UNCHANGED <<caches, lists, clocks, history, pc>>

Inherit(i, p) ==
  /\ holders[i] # {} /\ p \notin holders[i]
  /\ holders' = [holders EXCEPT ![i] = @ \cup {p}]
  /\ held' = [held EXCEPT ![i] = @ \cup {p}]
  /\ UNCHANGED <<sock, opened, caches, lists, clocks, history, pc>>

Release(i, p) ==
  /\ p \in holders[i]
  /\ holders' = [holders EXCEPT ![i] = @ \ {p}]
  /\ sock' = IF holders'[i] = {} THEN [f \in Flows |-> IF sock[f] = i THEN NoInode ELSE sock[f]]
             ELSE sock
  /\ UNCHANGED <<held, opened, caches, lists, clocks, history, pc>>

(***************************************************************************)
(* One second passes.  The loop is assumed to poll again within MaxGap     *)
(* seconds of its last poll and of the poll before its last update.        *)
(***************************************************************************)
Tick ==
  /\ clock < MaxTime
  /\ clock < seen + MaxGap
  /\ curtime = 0 \/ clock < curtime + MaxGap
  /\ clock' = clock + 1
  /\ UNCHANGED <<kernel, caches, lists, curtime, lastRefresh, seen, history, pc>>

-----------------------------------------------------------------------------
(***************************************************************************)
(* process_tcp and process_udp: a packet of flow f, direction d, length n  *)
(* and stamp ts is put on a Connection; a new Connection is created, and   *)
(* given to a Process, when findConnection finds none.                     *)
(***************************************************************************)
\* mutated form: the stamp of the last packet is left alone
WithUnstampedPacket(c, d, n, ts) ==
  IF d = "sent" THEN [c EXCEPT !.sumSent = U32(@ + n), !.sent = Add(@, ts, n)]
                ELSE [c EXCEPT !.sumRecv = U32(@ + n), !.recv = Add(@, ts, n)]

WithPacket(c, d, n, ts) ==
  IF d = "sent"
    THEN [c EXCEPT !.last = ts, !.sumSent = U32(@ + n), !.sent = Add(@, ts, n)]
    ELSE [c EXCEPT !.last = ts, !.sumRecv = U32(@ + n), !.recv = Add(@, ts, n)]

NewConnection(o, ts) ==
  [last |-> ts, sent |-> <<>>, recv |-> <<>>, sumSent |-> 0, sumRecv |-> 0, owner |-> o]

AddToConnection(g, d, n, ts) ==
  /\ conn' = [conn EXCEPT ![g] = WithPacket(@, d, n, ts)]
  /\ heard' = IF conn[g].owner = Orphan THEN heard
              ELSE [heard EXCEPT ![conn[g].owner] = ts]
  /\ UNCHANGED <<caches, procs, pidOf, record>>

(***************************************************************************)
(* getProcess(Connection): the caches are refreshed when the flow has no   *)
(* inode, and inodeproc again when the inode has no pid.                   *)
(***************************************************************************)
LookUp(f) ==
  /\ IF conninode[f] = NoInode THEN RefreshedConnInode(conninode') ELSE UNCHANGED conninode
  /\ inodeproc' = IF \/ conninode[f] = NoInode
                     \/ conninode'[f] # NoInode /\ inodeproc[conninode'[f]] = NoPid
                  THEN Reread ELSE inodeproc

FoundPid(f) == IF conninode'[f] = NoInode THEN NoPid ELSE inodeproc'[conninode'[f]]

\* mutated form: only the node that process_init allocated is looked at
FindProcessAtEnd(p) == {o \in {Unknown} : pidOf[o] = p /\ p # NoPid}

\* findProcess
FindProcess(p) == {o \in procs : pidOf[o] = p /\ p # NoPid}

GetProcess(f, d, n, ts) ==
  /\ LookUp(f)
  /\ \E o \in Objs :
       /\ IF FindProcess(FoundPid(f)) # {}
            THEN /\ o \in FindProcess(FoundPid(f))
                 /\ UNCHANGED <<procs, pidOf>>
            ELSE /\ o \notin procs
                 /\ o = CHOOSE q \in Objs : q \notin procs
                 /\ procs' = procs \cup {o}
                 /\ pidOf' = [pidOf EXCEPT ![o] = FoundPid(f)]
       /\ conn' = [conn EXCEPT ![f] = WithPacket(NewConnection(o, ts), d, n, ts)]
       /\ heard' = [heard EXCEPT ![o] = ts]
  /\ UNCHANGED record

Packet(f, d, n, ts) ==
  /\ pc = "dispatch"
  /\ wire[f][ts] + n <= MaxPerSecond
  /\ curtime' = ts
  /\ wire' = [wire EXCEPT ![f][ts] = @ + n]
  /\ \E g \in FindConnection(f) :
       IF g = None THEN GetProcess(f, d, n, ts) ELSE AddToConnection(g, d, n, ts)
  /\ UNCHANGED <<kernel, clock, lastRefresh, seen, told, pc>>

\* dp_dispatch returned 0 for a device: curtime comes from gettimeofday
DispatchIdle ==
  /\ pc = "dispatch"
  /\ curtime' = clock
  /\ UNCHANGED <<kernel, caches, lists, clock, lastRefresh, seen, history, pc>>

(***************************************************************************)
(* All devices have been polled (one that failed leaves curtime alone):    *)
(* update if the last one is a second old, else poll again.                *)
(***************************************************************************)
EndDispatch ==
  /\ pc = "dispatch"
  /\ lastRefresh + 1 <= clock
  /\ lastRefresh' = clock
  /\ pc' = "update"
  /\ UNCHANGED <<kernel, caches, lists, clock, curtime, seen, history>>

-----------------------------------------------------------------------------
(***************************************************************************)
(* nethogsmonitor_handle_update.                                           *)
(***************************************************************************)
LastPacket(o) == Max({0} \cup {conn[f].last : f \in ConnsOf(o)})

\* mutated form: a process has the time-out of a connection
TimedOutAsConnection(o) == o # Unknown /\ LastPacket(o) + CONNTIMEOUT <= curtime

TimedOut(o) == o # Unknown /\ LastPacket(o) + PROCESSTIMEOUT <= curtime

Removed == {o \in procs : TimedOut(o)}

\* mutated form: one second too late
StalledLate(f) == conn[f].last < curtime - CONNTIMEOUT

Stalled(f) == conn[f].last <= curtime - CONNTIMEOUT

\* Process::getkbps on the connections of the processes that stay; those of
\* a process that is deleted stay in the global list
Settled(f) ==
  IF conn[f] = None THEN None
  ELSE IF conn[f].owner = Orphan THEN conn[f]
  ELSE IF conn[f].owner \in Removed THEN [conn[f] EXCEPT !.owner = Orphan]
  ELSE IF Stalled(f) THEN None
  ELSE [conn[f] EXCEPT !.sent = Kept(@, curtime), !.recv = Kept(@, curtime)]

\* Process::getkbps and gettotal of a process that stays, after the pruning
Figures(o) ==
  LET mine == {f \in Flows : conn'[f] # None /\ conn'[f].owner = o}
  IN  [sent_kbs   |-> U32(SumFunction([f \in mine |-> Bytes(conn'[f].sent)])),
       recv_kbs   |-> U32(SumFunction([f \in mine |-> Bytes(conn'[f].recv)])),
       sent_bytes |-> U32(SumFunction([f \in mine |-> conn'[f].sumSent])),
       recv_bytes |-> U32(SumFunction([f \in mine |-> conn'[f].sumRecv]))]

Speed(r) == r.sent_kbs + r.recv_kbs

\* the SET callbacks: only a new or changed record is reported
\* mutated form: a record is reported once, when it is new
TellNew(p) ==
  IF \E o \in procs' : pidOf'[o] = p /\ o \notin DOMAIN record
    THEN Speed(record'[CHOOSE o \in procs' : pidOf'[o] = p])
    ELSE told[p]

Tell(p) ==
  IF \E o \in procs' : pidOf'[o] = p /\ (o \in DOMAIN record => record'[o] # record[o])
    THEN Speed(record'[CHOOSE o \in procs' : pidOf'[o] = p])
    ELSE told[p]

Update ==
  /\ pc = "update"
  /\ RefreshedConnInode(conninode')
  /\ conn' = [f \in Flows |-> Settled(f)]
  /\ procs' = procs \ Removed
  /\ pidOf' = [o \in Objs |-> IF o \in procs' THEN pidOf[o] ELSE NoPid]
  /\ record' = [o \in procs' |-> Figures(o)]
  /\ told' = [p \in Pids |-> Tell(p)]
  /\ heard' = [o \in Objs |-> IF o \in procs' THEN heard[o] ELSE 0]
  /\ wire' = [f \in Flows |-> [t \in Time |-> IF t <= curtime - PERIOD THEN 0 ELSE wire[f][t]]]
  /\ seen' = IF curtime = 0 THEN seen ELSE curtime
  /\ pc' = "dispatch"
  /\ UNCHANGED <<kernel, inodeproc, clock, curtime, lastRefresh>>

-----------------------------------------------------------------------------
Kernel ==
  \/ \E f \in Flows, i \in Inodes, p \in Pids : Connect(f, i, p)
  \/ \E i \in Inodes, p \in Pids : Inherit(i, p) \/ Release(i, p)

Capture ==
  \E f \in Flows, d \in Dirs, n \in Sizes, ts \in (clock - Lag) .. clock : Packet(f, d, n, ts)

Next == Kernel \/ Tick \/ Capture \/ DispatchIdle \/ EndDispatch \/ Update

Spec == Init /\ [][Next]_vars
-----------------------------------------------------------------------------
(***************************************************************************)
(* Properties.                                                             *)
(***************************************************************************)

\* The types of the state (the figures of a record are u_int32_t sums).
TypeOK ==
  /\ sock \in [Flows -> Inodes \cup {NoInode}]
  /\ conninode \in [Flows -> Inodes \cup {NoInode}]
  /\ holders \in [Inodes -> SUBSET Pids]
  /\ held \in [Inodes -> SUBSET Pids]
  /\ opened \in [Flows -> SUBSET Inodes]
  /\ inodeproc \in [Inodes -> Pids \cup {NoPid}]
  /\ conn \in [Flows -> Connection \cup {None}]
  /\ procs \in SUBSET Objs
  /\ pidOf \in [Objs -> Pids \cup {NoPid}]
  /\ clock \in StartTime .. MaxTime
  /\ curtime \in Time /\ lastRefresh \in Time /\ seen \in Time
  /\ heard \in [Objs -> Time]
  /\ pc \in {"dispatch", "update"}

(***************************************************************************)
(* Every Connection in the global list is in the list of exactly one live  *)
(* Process: deleting a Process (libnethogs.cpp:219) never leaves behind    *)
(* connections that later packets would still be added to, unreported.     *)
(* This is what getkbps's CONNTIMEOUT owes to handle_update's              *)
(* PROCESSTIMEOUT; it depends on how long the loop can stay away.          *)
(***************************************************************************)
ConnectionsOwned == \A f \in Live : conn[f].owner \in procs

(***************************************************************************)
(* Which it does when the loop stays away for at most the difference of    *)
(* the two: then every Connection has had a packet less than CONNTIMEOUT   *)
(* seconds before the last update, whatever the order of pruning           *)
(* (getkbps) and deletion (handle_update), and the clocks are this close.  *)
(***************************************************************************)
GapsAreShort ==
  /\ MaxGap + CONNTIMEOUT <= PROCESSTIMEOUT
  /\ Lag <= MaxGap /\ Lag < CONNTIMEOUT

(***************************************************************************)
(* The clock, the engine's curtime and the time of the last update are     *)
(* within one stay of each other (the premise ConnectionsOwned needs).     *)
(***************************************************************************)
ClocksClose ==
  /\ curtime <= clock /\ seen <= clock /\ clock <= seen + MaxGap
  /\ curtime # 0 => clock <= curtime + MaxGap

(***************************************************************************)
(* No Connection survives an update that finds it silent for CONNTIMEOUT:  *)
(* its last packet is newer than that at the last update.                  *)
(***************************************************************************)
ConnectionsFresh == \A f \in Live : conn[f].last > seen - CONNTIMEOUT

(***************************************************************************)
(* There is one Process per pid: findProcess and the subscriber, which     *)
(* both go by the pid, mean the same one.                                  *)
(***************************************************************************)
OneProcessPerPid ==
  \A o, q \in procs : pidOf[o] = pidOf[q] /\ pidOf[o] # NoPid => o = q

(***************************************************************************)
(* Two IPv4 Connections never share their source address and port, so that *)
(* the fallback of findConnection has at most one answer.                  *)
(***************************************************************************)
OneConnectionPerSource ==
  \A f, g \in Live : SameSource(f, g) => f = g

(***************************************************************************)
(* A Process is only charged with connections of a socket its pid has held *)
(* (under that address or another local one): a stale cache entry may name *)
(* a former holder, never a stranger.                                      *)
(***************************************************************************)
OwnerHeldSocket ==
  \A f \in Live :
    conn[f].owner \in procs /\ pidOf[conn[f].owner] # NoPid =>
      \E i \in Inodes : /\ pidOf[conn[f].owner] \in held[i]
                        /\ i \in opened[f]

(***************************************************************************)
(* A subscriber that keeps the last speed it was told for a pid shows 0    *)
(* once the process is gone from the list: the REMOVE callback reaches     *)
(* nobody (procDeleted is connected to nothing), so a SET of 0 has to      *)
(* come first.                                                             *)
(***************************************************************************)
ToldSpeedIsLive ==
  \A p \in Pids : told[p] # 0 =>
    \E o \in procs \cap DOMAIN record : pidOf[o] = p /\ told[p] = Speed(record[o])

Updates == pc = "update" /\ pc' = "dispatch"

\* the bytes captured with a stamp after second t
Crossed(t) == SumFunction([f \in Flows |-> SumFunctionOnSet(wire[f], {s \in Time : s > t})])

(***************************************************************************)
(* An update reports every byte captured in the last PERIOD seconds in     *)
(* exactly one process's speed, and no byte that is older.                 *)
(***************************************************************************)
TrafficConserved ==
  [][Updates =>
       SumFunction([o \in procs' |-> Speed(record'[o])]) = Crossed(curtime - PERIOD)]_vars

\* What that needs: the bytes of PERIOD seconds fit in an u_int32_t.
WindowFits == Crossed(curtime - PERIOD) < WORD

(***************************************************************************)
(* A Process is deleted only when nothing has been received for it for     *)
(* CONNTIMEOUT seconds ...                                                 *)
(***************************************************************************)
RemovedOnlyWhenIdle ==
  [][Updates => \A o \in procs \ procs' : heard[o] + CONNTIMEOUT <= curtime]_vars

(***************************************************************************)
(* ... and at the latest by the update after the one that found it idle.   *)
(***************************************************************************)
IdleRemovedPromptly ==
  [][Updates /\ curtime # 0 =>
       \A o \in procs' \ {Unknown} : heard[o] > seen - CONNTIMEOUT]_vars

-----------------------------------------------------------------------------
(***************************************************************************)
(* What comments of the code say and the code does not do.                 *)
(***************************************************************************)

\* nethogs.h:47 "the amount of time after the last packet was received after
\* which a process is removed": PROCESSTIMEOUT seconds, not fewer.
RemovedAfterProcessTimeout ==
  [][Updates => \A o \in procs \ procs' : heard[o] + PROCESSTIMEOUT <= curtime]_vars

\* libnethogs.cpp:187 "throwing away connections that haven't received a
\* package in the last PROCESSTIMEOUT seconds": none is left after an update.
SilentConnectionsDropped ==
  [][Updates => \A f \in Flows : conn'[f] # None => conn'[f].last + PROCESSTIMEOUT > curtime]_vars
=============================================================================
