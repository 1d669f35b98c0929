--------------------------- MODULE SingleInstance ---------------------------
(***************************************************************************)
(* Which process has the window.  main asks QtSingleApplication whether    *)
(* another instance runs: QtLocalPeer takes a lock on a file and, if it    *)
(* gets it, listens on a local socket; otherwise it sends a message over   *)
(* that socket and main returns.  Processes start, end and are killed at   *)
(* any moment.  Three things are shared: the lock, the name of the socket  *)
(* in the file system, and the connections that wait at a server.          *)
(*                                                                         *)
(* The destructors run in the order of C++: the lock file is a member of   *)
(* QtLocalPeer and goes first, the server is a child object and goes last. *)
(* The lock file in the directory for temporary files can be opened.       *)
(***************************************************************************)
EXTENDS Naturals, Sequences

CONSTANTS
  Proc,        \* processes
  None, Stale, \* nobody; a socket file nobody listens to
  MaxStarts,   \* bound: starts, of all processes
  MaxKills,    \* bound: processes killed
  Overlap      \* an owner may end while other processes start

ASSUME SingleInstanceAssumption ==
  /\ None \notin Proc /\ Stale \notin Proc /\ None # Stale
  /\ MaxStarts \in Nat /\ MaxKills \in Nat /\ Overlap \in BOOLEAN

VARIABLES
  pc,        \* where each process is, see Places
  lock,      \* external: the process whose fcntl lock is on the file
  file,      \* external: the process the socket file leads to
  listening, \* processes whose QLocalServer listens
  backlog,   \* connections that wait at each server, oldest first
  asked,     \* processes to which isRunning said true
  heard,     \* history: clients whose message has been emitted
  gaveUp,    \* history: clients that could not connect
  calm,      \* history: processes in whose life one owner has been up
  starts, kills  \* bounds

shared  == <<lock, file, listening>>
history == <<heard, gaveUp, calm>>
bounds  == <<starts, kills>>
vars    == <<pc, shared, backlog, asked, history, bounds>>

\* registerSignals: SIGTERM and the rest end the process as a crash does
Opening == {"listen", "remove", "listenAgain"}
Client  == {"sendMessage", "connect", "connectAgain", "write", "ack"}
Window  == {"build", "loop", "receive", "leave"}
Places  == {"off", "isClient", "destroy", "close"} \cup Opening \cup Client \cup Window

Up(p)   == pc[p] \in Window
Goto(p, place) == pc' = [pc EXCEPT ![p] = place]

\* a connection: who made it, its message has been written, it is open still
Conn(p) == [peer |-> p, data |-> FALSE, open |-> TRUE]
IsOf(c, p) == c.peer = p /\ c.open
Connected(p) == \E q \in listening : \E i \in DOMAIN backlog[q] : IsOf(backlog[q][i], p)
Marked(p, field, b) ==
  [q \in Proc |-> [i \in DOMAIN backlog[q] |->
     IF IsOf(backlog[q][i], p) THEN [backlog[q][i] EXCEPT ![field] = b] ELSE backlog[q][i]]]
HungUp(p) == Marked(p, "open", FALSE)

Init ==
  /\ pc = [p \in Proc |-> "off"] /\ lock = None /\ file = None /\ listening = {}
  /\ backlog = [p \in Proc |-> <<>>] /\ asked = {}
  /\ heard = {} /\ gaveUp = {} /\ calm = {}
  /\ starts = 0 /\ kills = 0

-----------------------------------------------------------------------------
(***************************************************************************)
(* Starting: QtLocalPeer::isClient, called by isRunning and a second time  *)
(* by sendMessage.  The client whose second call gets the lock listens     *)
(* too, and then leaves main all the same.                                 *)
(***************************************************************************)
Start(p) ==
  /\ pc[p] = "off" /\ starts < MaxStarts
  /\ Overlap \/ \A q \in Proc : pc[q] # "close"
  /\ Goto(p, "isClient")
  /\ starts' = starts + 1
  /\ heard' = heard \ {p} /\ gaveUp' = gaveUp \ {p} /\ asked' = asked \ {p}
  /\ calm' = IF \E q \in Proc : Up(q) THEN calm \cup {p} ELSE calm \ {p}
  /\ UNCHANGED <<shared, backlog, kills>>

\* mutated form: the lock is not looked at
TakesLock(p, refused) ==
  IF lock = None THEN lock' = p /\ Goto(p, "listen")
                 ELSE Goto(p, "listen") /\ UNCHANGED lock

\* external: fcntl(F_SETLK) on the lock file
TryLock(p, refused) ==
  IF lock = None THEN lock' = p /\ Goto(p, "listen")
                 ELSE Goto(p, refused) /\ UNCHANGED lock

IsRunning(p) ==
  /\ pc[p] = "isClient"
  /\ TryLock(p, "sendMessage")
  /\ asked' = (IF pc'[p] = "sendMessage" THEN asked \cup {p} ELSE asked)
  /\ UNCHANGED <<file, listening, backlog, history, bounds>>

IsClientAgain(p) ==
  /\ pc[p] = "sendMessage"
  /\ TryLock(p, "connect")
  /\ UNCHANGED <<file, listening, backlog, asked, history, bounds>>

\* isClient has returned false: isRunning too and main goes on, or
\* sendMessage, and main returns all the same
Owner(p)   == IF p \in asked THEN "destroy" ELSE "build"
Listens(p) == file' = p /\ listening' = listening \cup {p} /\ Goto(p, Owner(p))

Listen(p) ==
  /\ pc[p] = "listen"
  /\ IF file = None THEN Listens(p) ELSE Goto(p, "remove") /\ UNCHANGED <<file, listening>>
  /\ UNCHANGED <<lock, backlog, asked, history, bounds>>

\* mutated form: the workaround for a file left behind is dropped
NoRemove(p) ==
  /\ pc[p] = "remove"
  /\ Goto(p, "listenAgain")
  /\ UNCHANGED <<shared, backlog, asked, history, bounds>>

RemoveFile(p) ==
  /\ pc[p] = "remove"
  /\ file' = None /\ Goto(p, "listenAgain")
  /\ UNCHANGED <<lock, listening, backlog, asked, history, bounds>>

ListenAgain(p) ==
  /\ pc[p] = "listenAgain"
  /\ IF file = None THEN Listens(p) ELSE Goto(p, Owner(p)) /\ UNCHANGED <<file, listening>>
  /\ UNCHANGED <<lock, backlog, asked, history, bounds>>

\* SystemMonitor is built and shown, app.exec()
Exec(p) ==
  /\ pc[p] = "build"
  /\ Goto(p, "loop")
  /\ UNCHANGED <<shared, backlog, asked, history, bounds>>

-----------------------------------------------------------------------------
(***************************************************************************)
(* The client: QtLocalPeer::sendMessage.                                   *)
(***************************************************************************)
\* the place after an attempt that failed
Retry(p) == IF pc[p] = "connect" THEN "connectAgain" ELSE "destroy"

Connect(p) ==
  /\ pc[p] \in {"connect", "connectAgain"}
  /\ IF file \in listening
       THEN /\ backlog' = [backlog EXCEPT ![file] = Append(@, Conn(p))]
            /\ Goto(p, "write") /\ UNCHANGED gaveUp
       ELSE /\ Goto(p, Retry(p)) /\ UNCHANGED backlog
            /\ gaveUp' = IF pc[p] = "connectAgain" THEN gaveUp \cup {p} ELSE gaveUp
  /\ UNCHANGED <<shared, asked, heard, calm, bounds>>

Write(p) ==
  /\ pc[p] = "write"
  /\ IF Connected(p)
       THEN backlog' = Marked(p, "data", TRUE) /\ Goto(p, "ack")
       ELSE Goto(p, "destroy") /\ UNCHANGED backlog
  /\ UNCHANGED <<shared, asked, history, bounds>>

\* the acknowledgement, the end of the server, or the timeout
ReadAck(p) ==
  /\ pc[p] = "ack"
  /\ Goto(p, "destroy") /\ backlog' = HungUp(p)
  /\ UNCHANGED <<shared, asked, history, bounds>>

-----------------------------------------------------------------------------
(***************************************************************************)
(* The server: QtLocalPeer::receiveConnection, in a slot of the event loop.*)
(***************************************************************************)
NewConnection(p) ==
  /\ pc[p] = "loop" /\ backlog[p] # <<>>
  /\ Goto(p, "receive")
  /\ UNCHANGED <<shared, backlog, asked, history, bounds>>

\* blocks in waitForReadyRead while the client is there and silent
ReadMessage(p) ==
  /\ pc[p] = "receive"
  /\ LET c == Head(backlog[p]) IN
       \/ c.data /\ Goto(p, "leave") /\ UNCHANGED backlog
       \/ /\ ~c.data /\ ~c.open
          /\ backlog' = [backlog EXCEPT ![p] = Tail(@)]
          /\ Goto(p, "loop")
  /\ UNCHANGED <<shared, asked, history, bounds>>

\* mutated form: the connection is not taken from the queue
NotDeleted(p) ==
  /\ pc[p] = "leave"
  /\ heard' = heard \cup {Head(backlog[p]).peer}
  /\ Goto(p, "loop")
  /\ UNCHANGED <<shared, backlog, asked, gaveUp, calm, bounds>>

\* waitForDisconnected(1000) is over: the socket is deleted, messageReceived
\* is emitted
EmitMessage(p) ==
  /\ pc[p] = "leave"
  /\ heard' = heard \cup {Head(backlog[p]).peer}
  /\ backlog' = [backlog EXCEPT ![p] = Tail(@)]
  /\ Goto(p, "loop")
  /\ UNCHANGED <<shared, asked, gaveUp, calm, bounds>>

-----------------------------------------------------------------------------
(***************************************************************************)
(* The end: the window is closed and destroyed, or main returns; then      *)
(* ~QtLocalPeer.  A signal runs no destructor: the kernel drops the lock   *)
(* and the socket, the file stays.                                         *)
(***************************************************************************)
Quit(p) ==
  /\ pc[p] = "loop"
  /\ Goto(p, "destroy") /\ calm' = {}
  /\ UNCHANGED <<shared, backlog, asked, heard, gaveUp, bounds>>

Unlock(p) ==
  /\ pc[p] = "destroy"
  /\ Overlap \/ lock # p \/ \A q \in Proc \ {p} : pc[q] = "off"
  /\ lock' = (IF lock = p THEN None ELSE lock)
  /\ Goto(p, "close")
  /\ UNCHANGED <<file, listening, backlog, asked, history, bounds>>

\* mutated form: the server outlives the process's lock
KeepsListening(p) ==
  /\ pc[p] = "close"
  /\ Goto(p, "off")
  /\ UNCHANGED <<shared, backlog, asked, history, bounds>>

\* external: ~QLocalServer removes the name, whoever it leads to by now
Close(p) ==
  /\ pc[p] = "close"
  /\ file' = (IF p \in listening THEN None ELSE file)
  /\ listening' = listening \ {p}
  /\ backlog' = [backlog EXCEPT ![p] = <<>>]
  /\ Goto(p, "off")
  /\ UNCHANGED <<lock, asked, history, bounds>>

Kill(p) ==
  /\ pc[p] # "off" /\ kills < MaxKills
  /\ kills' = kills + 1
  /\ lock' = (IF lock = p THEN None ELSE lock)
  /\ file' = (IF file = p THEN Stale ELSE file)
  /\ listening' = listening \ {p}
  /\ backlog' = [HungUp(p) EXCEPT ![p] = <<>>]
  /\ calm' = (IF Up(p) THEN {} ELSE calm)
  /\ Goto(p, "off")
  /\ UNCHANGED <<asked, heard, gaveUp, starts>>

\* what a process does on its own once it has been started
Step(p) ==
  \/ IsRunning(p) \/ IsClientAgain(p) \/ Listen(p) \/ RemoveFile(p) \/ ListenAgain(p)
  \/ Exec(p) \/ Connect(p) \/ Write(p) \/ ReadAck(p)
  \/ NewConnection(p) \/ ReadMessage(p) \/ EmitMessage(p) \/ Unlock(p) \/ Close(p)

Next == \E p \in Proc : Start(p) \/ Step(p) \/ Quit(p) \/ Kill(p)

Spec == Init /\ [][Next]_vars /\ \A p \in Proc : WF_vars(Step(p))

-----------------------------------------------------------------------------
\* Every variable has its type.
TypeOK ==
  /\ pc \in [Proc -> Places]
  /\ lock \in Proc \cup {None} /\ file \in Proc \cup {None, Stale}
  /\ listening \subseteq Proc /\ asked \subseteq Proc
  /\ backlog \in [Proc -> Seq([peer: Proc, data: BOOLEAN, open: BOOLEAN])]
  /\ heard \subseteq Proc /\ gaveUp \subseteq Proc /\ calm \subseteq Proc
  /\ starts \in Nat /\ kills \in Nat

\* Two processes never have a window at once, whatever is started, ended or
\* killed in between (isRunning, main).
OneWindow == \A p, q \in Proc : Up(p) /\ Up(q) => p = q

\* Who listens owns the lock, until its destructor has run half: no message
\* goes to a process that another one has taken over from.
ListenerOwns == \A p \in listening : lock = p \/ pc[p] = "close"

\* There is one instance, seen from the screen and from the socket.
OneInstance == OneWindow /\ ListenerOwns

\* A start that cannot reach the socket had no owner that was up all the time
\* ("the already running instance will be activated instead").
Answered == gaveUp \cap calm = {}

\* A message that was written is read, even after its writer's timeout,
\* unless the server ends; receiveConnection does not block for good.
Waits(p) == Up(p) /\ \E i \in DOMAIN backlog[p] : backlog[p][i].data
MessagesAreRead == \A p \in Proc : Waits(p) ~> (~Up(p) \/ backlog[p] = <<>>)

\* The window and the messages are those of a single-instance application.
Abstract == INSTANCE Presence WITH windows <- {p \in Proc : Up(p)}
IsSingle == Abstract!PSpec
=============================================================================
