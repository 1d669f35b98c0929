------------------------ MODULE SingleInstanceProofs ------------------------
(***************************************************************************)
(* What holds of the single instance for any number of processes, starts   *)
(* and kills.  The lock is the whole argument: it is held from the moment  *)
(* isClient returns false until ~QtLocalPeer, and the kernel drops it only *)
(* with its holder.                                                        *)
(***************************************************************************)
EXTENDS SingleInstance, TLAPS

\* Every transition is a step of one process.
LEMMA Transitions ==
  ASSUME [Next]_vars
  PROVE  \/ UNCHANGED vars
         \/ \E p \in Proc :
              \/ Start(p) \/ IsRunning(p) \/ IsClientAgain(p)
              \/ Listen(p) \/ RemoveFile(p) \/ ListenAgain(p) \/ Exec(p)
              \/ Connect(p) \/ Write(p) \/ ReadAck(p)
              \/ NewConnection(p) \/ ReadMessage(p) \/ EmitMessage(p)
              \/ Quit(p) \/ Unlock(p) \/ Close(p) \/ Kill(p)
BY DEF Next, Step

-----------------------------------------------------------------------------
(***************************************************************************)
(* Who holds the lock.  pc and listening need their types, no more.        *)
(***************************************************************************)
Kinds == pc \in [Proc -> Places] /\ listening \subseteq Proc /\ None \notin Proc

Holds(p)  == pc[p] \in Window \cup Opening => lock = p
Serves(p) == p \in listening =>
  pc[p] = "close" \/ (lock = p /\ pc[p] \in Window \cup Opening \cup {"destroy"})
Locked == \A p \in Proc : Holds(p) /\ Serves(p)

LEMMA LockedInductive ==
  ASSUME Kinds, Locked, [Next]_vars PROVE Kinds' /\ Locked'
<1> USE DEF Kinds, Locked, Holds, Serves, Places, Window, Opening, Client, Goto,
            shared, history, bounds
<1>0. CASE UNCHANGED vars
  BY <1>0 DEF vars
<1> SUFFICES ASSUME NEW p \in Proc,
              \/ Start(p) \/ IsRunning(p) \/ IsClientAgain(p)
              \/ Listen(p) \/ RemoveFile(p) \/ ListenAgain(p) \/ Exec(p)
              \/ Connect(p) \/ Write(p) \/ ReadAck(p)
              \/ NewConnection(p) \/ ReadMessage(p) \/ EmitMessage(p)
              \/ Quit(p) \/ Unlock(p) \/ Close(p) \/ Kill(p)
             PROVE Kinds' /\ Locked'
  BY <1>0, Transitions
<1>1. CASE Start(p)
  BY <1>1 DEF Start
<1>2. CASE IsRunning(p)
  BY <1>2 DEF IsRunning, TryLock
<1>3. CASE IsClientAgain(p)
  BY <1>3 DEF IsClientAgain, TryLock
<1>4. CASE Listen(p) \/ ListenAgain(p)
  BY <1>4 DEF Listen, ListenAgain, Listens, Owner
<1>5. CASE RemoveFile(p) \/ Exec(p) \/ Quit(p)
  BY <1>5 DEF RemoveFile, Exec, Quit
<1>6. CASE Connect(p)
  BY <1>6 DEF Connect, Retry
<1>7. CASE Write(p) \/ ReadAck(p)
  BY <1>7 DEF Write, ReadAck
<1>8. CASE NewConnection(p) \/ ReadMessage(p) \/ EmitMessage(p)
  BY <1>8 DEF NewConnection, ReadMessage, EmitMessage
<1>9. CASE Unlock(p)
  BY <1>9 DEF Unlock
<1>10. CASE Close(p)
  BY <1>10 DEF Close
<1>11. CASE Kill(p)
  BY <1>11 DEF Kill
<1> QED
  BY <1>1, <1>2, <1>3, <1>4, <1>5, <1>6, <1>7, <1>8, <1>9, <1>10, <1>11

LEMMA LockedInvariant == Spec => [](Kinds /\ Locked)
<1>1. Init => Kinds /\ Locked
  BY SingleInstanceAssumption
     DEF Init, Kinds, Locked, Holds, Serves, Places, Window, Opening
<1>2. Kinds /\ Locked /\ [Next]_vars => Kinds' /\ Locked'
  BY LockedInductive
<1> QED
  BY <1>1, <1>2, PTL DEF Spec

\* There is one instance, for any number of processes, on the screen and
\* behind the socket.
THEOREM OneInstanceAlways == Spec => []OneInstance
<1>1. Kinds /\ Locked => OneInstance
  <2>1. ASSUME Locked, NEW p \in Proc, NEW q \in Proc, Up(p), Up(q) PROVE p = q
    BY <2>1 DEF Locked, Holds, Up
  <2>2. ASSUME Kinds, Locked, NEW p \in listening PROVE lock = p \/ pc[p] = "close"
    BY <2>2 DEF Kinds, Locked, Serves
  <2> QED
    BY <2>1, <2>2 DEF OneInstance, OneWindow, ListenerOwns
<1> QED
  BY <1>1, LockedInvariant, PTL

-----------------------------------------------------------------------------
(***************************************************************************)
(* The connections.  A server that receives has a connection to take: the  *)
(* clients write and hang up, but only the server removes.                 *)
(***************************************************************************)
Connections == [peer: Proc, data: BOOLEAN, open: BOOLEAN]
Queues ==
  /\ backlog \in [Proc -> Seq(Connections)]
  /\ \A p \in Proc : pc[p] \in {"receive", "leave"} => backlog[p] # <<>>

\* Marking connections changes neither who made them nor how many they are.
LEMMA MarkedKeeps ==
  ASSUME backlog \in [Proc -> Seq(Connections)], NEW p \in Proc, NEW b \in BOOLEAN,
         NEW field \in {"data", "open"}
  PROVE  /\ Marked(p, field, b) \in [Proc -> Seq(Connections)]
         /\ \A q \in Proc : backlog[q] # <<>> => Marked(p, field, b)[q] # <<>>
<1> DEFINE New(q) == [i \in DOMAIN backlog[q] |->
     IF IsOf(backlog[q][i], p) THEN [backlog[q][i] EXCEPT ![field] = b] ELSE backlog[q][i]]
<1>1. ASSUME NEW q \in Proc
      PROVE  New(q) \in Seq(Connections) /\ (backlog[q] # <<>> => New(q) # <<>>)
  <2>1. backlog[q] \in Seq(Connections)
    OBVIOUS
  <2>2. Len(backlog[q]) \in Nat /\ DOMAIN backlog[q] = 1 .. Len(backlog[q])
    BY <2>1
  <2>3. ASSUME NEW i \in DOMAIN backlog[q] PROVE New(q)[i] \in Connections
    <3>1. backlog[q][i] \in Connections
      BY <2>1, <2>2
    <3> QED
      BY <3>1 DEF Connections
  <2>4. New(q) \in Seq(Connections) /\ Len(New(q)) = Len(backlog[q])
    BY <2>2, <2>3
  <2> QED
    BY <2>1, <2>4
<1> QED
  BY <1>1 DEF Marked

LEMMA QueuesInductive ==
  ASSUME Kinds, Queues, [Next]_vars PROVE Queues'
<1> USE DEF Kinds, Queues, Goto, shared, history, bounds
<1>0. CASE UNCHANGED vars
  BY <1>0 DEF vars
<1> SUFFICES ASSUME NEW p \in Proc,
              \/ Start(p) \/ IsRunning(p) \/ IsClientAgain(p)
              \/ Listen(p) \/ RemoveFile(p) \/ ListenAgain(p) \/ Exec(p)
              \/ Connect(p) \/ Write(p) \/ ReadAck(p)
              \/ NewConnection(p) \/ ReadMessage(p) \/ EmitMessage(p)
              \/ Quit(p) \/ Unlock(p) \/ Close(p) \/ Kill(p)
             PROVE Queues'
  BY <1>0, Transitions
<1>1. CASE Start(p) \/ IsRunning(p) \/ IsClientAgain(p)
  BY <1>1 DEF Start, IsRunning, IsClientAgain, TryLock
<1>2. CASE Listen(p) \/ ListenAgain(p) \/ RemoveFile(p) \/ Exec(p) \/ Quit(p) \/ Unlock(p)
  BY <1>2 DEF Listen, ListenAgain, Listens, Owner, RemoveFile, Exec, Quit, Unlock
<1>3. CASE Connect(p)
  <2>1. CASE file \in listening
    <3> DEFINE new == Append(backlog[file], Conn(p))
    <3>1. Conn(p) \in Connections
      BY DEF Conn, Connections
    <3>2. new \in Seq(Connections) /\ new # <<>>
      <4>1. backlog[file] \in Seq(Connections)
        BY <2>1
      <4>2. new \in Seq(Connections) /\ Len(new) = Len(backlog[file]) + 1
        BY <3>1, <4>1
      <4>3. Len(backlog[file]) \in Nat
        BY <4>1
      <4> HIDE DEF new
      <4>4. Len(new) # 0
        BY <4>2, <4>3
      <4> QED
        BY <4>2, <4>4
    <3>3. backlog' = [backlog EXCEPT ![file] = new] /\ pc' = [pc EXCEPT ![p] = "write"]
      BY <1>3, <2>1 DEF Connect
    <3> HIDE DEF new
    <3> QED
      BY <3>2, <3>3, <2>1
  <2>2. CASE file \notin listening
    BY <1>3, <2>2 DEF Connect, Retry
  <2> QED
    BY <2>1, <2>2
<1>4. CASE Write(p)
  <2>1. CASE backlog' = Marked(p, "data", TRUE) /\ pc' = [pc EXCEPT ![p] = "ack"]
    BY <2>1, MarkedKeeps
  <2>2. CASE UNCHANGED backlog
    BY <1>4, <2>2 DEF Write
  <2> QED
    BY <1>4, <2>1, <2>2 DEF Write
<1>5. CASE ReadAck(p)
  BY <1>5, MarkedKeeps DEF ReadAck, HungUp
<1>6. CASE NewConnection(p)
  BY <1>6 DEF NewConnection
<1>7. CASE ReadMessage(p) \/ EmitMessage(p)
  <2>1. CASE UNCHANGED backlog
    BY <1>7, <2>1 DEF ReadMessage, EmitMessage
  <2>2. CASE backlog' = [backlog EXCEPT ![p] = Tail(@)] /\ pc' = [pc EXCEPT ![p] = "loop"]
    <3>1. backlog[p] # <<>>
      BY <1>7 DEF ReadMessage, EmitMessage
    <3>2. Tail(backlog[p]) \in Seq(Connections)
      BY <3>1
    <3> QED
      BY <2>2, <3>2
  <2> QED
    BY <1>7, <2>1, <2>2 DEF ReadMessage, EmitMessage
<1>8. CASE Close(p)
  <2>1. <<>> \in Seq(Connections)
    OBVIOUS
  <2> QED
    BY <1>8, <2>1 DEF Close
<1>9. CASE Kill(p)
  <2>1. <<>> \in Seq(Connections)
    OBVIOUS
  <2> QED
    BY <1>9, <2>1, MarkedKeeps DEF Kill, HungUp
<1> QED
  BY <1>1, <1>2, <1>3, <1>4, <1>5, <1>6, <1>7, <1>8, <1>9

-----------------------------------------------------------------------------
(***************************************************************************)
(* The promise.  Windows appear and vanish one at a time, and a message is *)
(* heard while there is a window to hear it.                               *)
(***************************************************************************)
\* No step that leaves the window where it is changes who has one.
Windows == {p \in Proc : Up(p)}

LEMMA WindowsStay ==
  ASSUME Kinds, NEW p \in Proc, NEW place, pc' = [pc EXCEPT ![p] = place],
         pc[p] \in Window <=> place \in Window
  PROVE  Windows' = Windows
BY DEF Windows, Up, Kinds

LEMMA StepRefines ==
  ASSUME Kinds, Locked, Queues, [Next]_vars
  PROVE  [Abstract!PNext]_<<Windows, heard>>
<1> USE DEF Goto, shared, history, bounds
<1> DEFINE Stays == Windows' = Windows
<1>0. CASE UNCHANGED vars
  BY <1>0 DEF vars, Windows, Up
<1> SUFFICES ASSUME NEW p \in Proc,
              \/ Start(p) \/ IsRunning(p) \/ IsClientAgain(p)
              \/ Listen(p) \/ RemoveFile(p) \/ ListenAgain(p) \/ Exec(p)
              \/ Connect(p) \/ Write(p) \/ ReadAck(p)
              \/ NewConnection(p) \/ ReadMessage(p) \/ EmitMessage(p)
              \/ Quit(p) \/ Unlock(p) \/ Close(p) \/ Kill(p)
             PROVE [Abstract!PNext]_<<Windows, heard>>
  BY <1>0, Transitions
<1>u. ASSUME NEW q \in Proc, pc[p] \in Opening \cup Window, Up(q) PROVE q = p
  BY <1>u DEF Locked, Holds, Up
<1>1. CASE Start(p)
  <2>1. Windows' = Windows
    BY <1>1, WindowsStay DEF Start, Window
  <2>2. heard' = heard \ {p}
    BY <1>1 DEF Start
  <2> QED
    BY <2>1, <2>2 DEF Abstract!PNext, Abstract!Renew, Windows
<1>2. CASE IsRunning(p) \/ IsClientAgain(p) \/ RemoveFile(p) \/ Exec(p)
  <2>1. Windows' = Windows
    BY <1>2, WindowsStay
       DEF IsRunning, IsClientAgain, TryLock, RemoveFile, Exec, Window
  <2> QED
    BY <1>2, <2>1 DEF IsRunning, IsClientAgain, RemoveFile, Exec
<1>3. CASE Listen(p) \/ ListenAgain(p)
  <2>1. heard' = heard /\ pc[p] \in Opening /\ ~Up(p)
    BY <1>3 DEF Listen, ListenAgain, Opening, Up, Window
  <2>2. Windows = {}
    BY <2>1, <1>u DEF Windows
  <2>3. \/ pc' = [pc EXCEPT ![p] = "build"]
        \/ pc' = [pc EXCEPT ![p] = "destroy"] \/ pc' = [pc EXCEPT ![p] = "remove"]
    BY <1>3 DEF Listen, ListenAgain, Listens, Owner
  <2>4. CASE pc' = [pc EXCEPT ![p] = "build"]
    <3>1. Windows' = {p}
      BY <2>4, <2>2 DEF Windows, Up, Kinds, Window
    <3> QED
      BY <2>1, <2>2, <3>1 DEF Abstract!PNext, Abstract!Appear, Windows
  <2>5. CASE pc' = [pc EXCEPT ![p] = "destroy"] \/ pc' = [pc EXCEPT ![p] = "remove"]
    <3>1. Windows' = Windows
      BY <2>5, <2>1, WindowsStay DEF Window, Up
    <3> QED
      BY <2>1, <3>1
  <2> QED
    BY <2>3, <2>4, <2>5
<1>4. CASE Connect(p) \/ Write(p) \/ ReadAck(p) \/ NewConnection(p) \/ ReadMessage(p)
  <2>1. Windows' = Windows
    BY <1>4, WindowsStay
       DEF Connect, Retry, Write, ReadAck, NewConnection, ReadMessage, Window
  <2> QED
    BY <1>4, <2>1 DEF Connect, Write, ReadAck, NewConnection, ReadMessage
<1>5. CASE EmitMessage(p)
  <2> DEFINE who == Head(backlog[p]).peer
  <2>1. who \in Proc
    <3>1. backlog[p] \in Seq(Connections) /\ backlog[p] # <<>>
      BY <1>5 DEF EmitMessage, Queues
    <3>2. Head(backlog[p]) \in Connections
      BY <3>1
    <3> QED
      BY <3>2 DEF Connections
  <2>2. Windows' = Windows
    BY <1>5, WindowsStay DEF EmitMessage, Window
  <2>3. Windows # {} /\ heard' = heard \cup {who}
    BY <1>5 DEF EmitMessage, Windows, Up, Window
  <2> HIDE DEF who
  <2> QED
    BY <2>1, <2>2, <2>3 DEF Abstract!PNext, Abstract!Hear, Windows
<1>6. CASE Quit(p)
  <2>1. Up(p) /\ heard' = heard /\ pc' = [pc EXCEPT ![p] = "destroy"]
    BY <1>6 DEF Quit, Up, Window
  <2>2. Windows' = {}
    BY <2>1, <1>u DEF Windows, Up, Kinds, Window
  <2> QED
    BY <2>1, <2>2 DEF Abstract!PNext, Abstract!Vanish, Windows
<1>7. CASE Unlock(p) \/ Close(p)
  <2>1. Windows' = Windows
    BY <1>7, WindowsStay DEF Unlock, Close, Window
  <2> QED
    BY <1>7, <2>1 DEF Unlock, Close
<1>8. CASE Kill(p)
  <2>1. heard' = heard /\ pc' = [pc EXCEPT ![p] = "off"]
    BY <1>8 DEF Kill
  <2>2. CASE Up(p)
    <3>1. Windows' = {}
      BY <2>1, <2>2, <1>u DEF Windows, Up, Kinds, Window
    <3> QED
      BY <2>1, <3>1 DEF Abstract!PNext, Abstract!Vanish, Windows
  <2>3. CASE ~Up(p)
    <3>1. Windows' = Windows
      BY <2>1, <2>3, WindowsStay DEF Up, Window
    <3> QED
      BY <2>1, <3>1
  <2> QED
    BY <2>2, <2>3
<1> QED
  BY <1>1, <1>2, <1>3, <1>4, <1>5, <1>6, <1>7, <1>8

\* The processes, their lock, their files and their sockets implement the
\* single-instance application of Presence.
THEOREM Implements == Spec => IsSingle
<1>1. Init => Kinds /\ Locked /\ Queues
  BY SingleInstanceAssumption
     DEF Init, Kinds, Locked, Holds, Serves, Queues, Connections, Places, Window, Opening
<1>2. Kinds /\ Locked /\ Queues /\ [Next]_vars => Kinds' /\ Locked' /\ Queues'
  BY LockedInductive, QueuesInductive
<1>3. Init => Abstract!PInit
  BY DEF Init, Abstract!PInit, Up, Window
<1>4. Kinds /\ Locked /\ Queues /\ [Next]_vars => [Abstract!PNext]_(Abstract!presenceVars)
  BY StepRefines DEF Windows, Abstract!presenceVars
<1> QED
  BY <1>1, <1>2, <1>3, <1>4, PTL DEF Spec, IsSingle, Abstract!PSpec

-----------------------------------------------------------------------------
(***************************************************************************)
(* The answer.  Where no process starts while an owner ends, the file      *)
(* leads to the window as long as there is one: the owner that removes a   *)
(* file holds the lock, and the one that ends is alone.  With Overlap it   *)
(* is not so: the ending owner removes the file of its successor.          *)
(***************************************************************************)
Reachable ==
  /\ \A p \in Proc : Up(p) => file = p /\ p \in listening
  /\ \A p \in Proc : pc[p] = "listenAgain" => file = None
  /\ \A p \in listening : pc[p] = "close" => \A q \in Proc \ {p} : pc[q] = "off"
Watched == calm # {} => \E p \in Proc : Up(p)

LEMMA ReachableInductive ==
  ASSUME ~Overlap, Kinds, Locked, Reachable, [Next]_vars PROVE Reachable'
<1> USE DEF Kinds, Reachable, Up, Goto, Window, shared, history, bounds
<1>0. CASE UNCHANGED vars
  BY <1>0 DEF vars
<1> SUFFICES ASSUME NEW p \in Proc,
              \/ Start(p) \/ IsRunning(p) \/ IsClientAgain(p)
              \/ Listen(p) \/ RemoveFile(p) \/ ListenAgain(p) \/ Exec(p)
              \/ Connect(p) \/ Write(p) \/ ReadAck(p)
              \/ NewConnection(p) \/ ReadMessage(p) \/ EmitMessage(p)
              \/ Quit(p) \/ Unlock(p) \/ Close(p) \/ Kill(p)
             PROVE Reachable'
  BY <1>0, Transitions
<1>1. CASE Start(p)
  BY <1>1 DEF Start
<1>2. CASE IsRunning(p) \/ IsClientAgain(p)
  BY <1>2 DEF IsRunning, IsClientAgain, TryLock
<1>3. CASE Listen(p) \/ RemoveFile(p) \/ ListenAgain(p)
  <2>1. ASSUME NEW q \in Proc, q # p PROVE ~Up(q) /\ pc[q] # "listenAgain"
    BY <1>3, <2>1 DEF Listen, RemoveFile, ListenAgain, Locked, Holds, Opening
  <2> QED
    BY <1>3, <2>1 DEF Listen, RemoveFile, ListenAgain, Listens, Owner
<1>4. CASE Exec(p) \/ Quit(p)
  BY <1>4 DEF Exec, Quit
<1>5. CASE Connect(p) \/ Write(p) \/ ReadAck(p)
  BY <1>5 DEF Connect, Retry, Write, ReadAck
<1>6. CASE NewConnection(p) \/ ReadMessage(p) \/ EmitMessage(p)
  BY <1>6 DEF NewConnection, ReadMessage, EmitMessage
<1>7. CASE Unlock(p)
  <2>1. p \in listening => lock = p
    BY <1>7 DEF Unlock, Locked, Serves
  <2> QED
    BY <1>7, <2>1 DEF Unlock
<1>8. CASE Close(p)
  BY <1>8 DEF Close
<1>9. CASE Kill(p)
  BY <1>9 DEF Kill
<1> QED
  BY <1>1, <1>2, <1>3, <1>4, <1>5, <1>6, <1>7, <1>8, <1>9

LEMMA WatchedInductive ==
  ASSUME Kinds, Locked, Watched, [Next]_vars PROVE Watched'
<1> USE DEF Kinds, Watched, Up, Goto, Window, shared, history, bounds
<1>0. CASE UNCHANGED vars
  BY <1>0 DEF vars
<1> SUFFICES ASSUME NEW p \in Proc,
              \/ Start(p) \/ IsRunning(p) \/ IsClientAgain(p)
              \/ Listen(p) \/ RemoveFile(p) \/ ListenAgain(p) \/ Exec(p)
              \/ Connect(p) \/ Write(p) \/ ReadAck(p)
              \/ NewConnection(p) \/ ReadMessage(p) \/ EmitMessage(p)
              \/ Quit(p) \/ Unlock(p) \/ Close(p) \/ Kill(p)
             PROVE Watched'
  BY <1>0, Transitions
<1>1. CASE Start(p)
  BY <1>1 DEF Start
<1>2. CASE IsRunning(p) \/ IsClientAgain(p) \/ Listen(p) \/ RemoveFile(p) \/ ListenAgain(p)
  BY <1>2 DEF IsRunning, IsClientAgain, TryLock, Listen, RemoveFile, ListenAgain,
              Listens, Owner
<1>3. CASE Exec(p) \/ Connect(p) \/ Write(p) \/ ReadAck(p) \/ Unlock(p) \/ Close(p)
  BY <1>3 DEF Exec, Connect, Retry, Write, ReadAck, Unlock, Close
<1>4. CASE NewConnection(p) \/ ReadMessage(p) \/ EmitMessage(p)
  BY <1>4 DEF NewConnection, ReadMessage, EmitMessage
<1>5. CASE Quit(p) \/ Kill(p)
  BY <1>5 DEF Quit, Kill
<1> QED
  BY <1>1, <1>2, <1>3, <1>4, <1>5

LEMMA AnsweredInductive ==
  ASSUME Reachable, Watched, Answered, [Next]_vars PROVE Answered'
<1> USE DEF Answered, Goto, shared, history, bounds
<1>0. CASE UNCHANGED vars
  BY <1>0 DEF vars
<1> SUFFICES ASSUME NEW p \in Proc,
              \/ Start(p) \/ IsRunning(p) \/ IsClientAgain(p)
              \/ Listen(p) \/ RemoveFile(p) \/ ListenAgain(p) \/ Exec(p)
              \/ Connect(p) \/ Write(p) \/ ReadAck(p)
              \/ NewConnection(p) \/ ReadMessage(p) \/ EmitMessage(p)
              \/ Quit(p) \/ Unlock(p) \/ Close(p) \/ Kill(p)
             PROVE Answered'
  BY <1>0, Transitions
<1>1. CASE Start(p)
  BY <1>1 DEF Start
<1>2. CASE Connect(p)
  <2>1. CASE file \in listening
    BY <1>2, <2>1 DEF Connect
  <2>2. CASE file \notin listening
    <3>1. calm = {}
      BY <2>2 DEF Reachable, Watched
    <3> QED
      BY <1>2, <3>1 DEF Connect
  <2> QED
    BY <2>1, <2>2
<1>3. CASE IsRunning(p) \/ IsClientAgain(p) \/ Listen(p) \/ RemoveFile(p) \/ ListenAgain(p)
  BY <1>3 DEF IsRunning, IsClientAgain, Listen, RemoveFile, ListenAgain
<1>4. CASE Exec(p) \/ Write(p) \/ ReadAck(p) \/ Unlock(p) \/ Close(p)
  BY <1>4 DEF Exec, Write, ReadAck, Unlock, Close
<1>5. CASE NewConnection(p) \/ ReadMessage(p) \/ EmitMessage(p)
  BY <1>5 DEF NewConnection, ReadMessage, EmitMessage
<1>6. CASE Quit(p) \/ Kill(p)
  BY <1>6 DEF Quit, Kill
<1> QED
  BY <1>1, <1>2, <1>3, <1>4, <1>5, <1>6

\* A start in whose life the owner was up all the time reaches it, unless
\* starts overlap with ends.
THEOREM StartsAreAnswered == ASSUME ~Overlap PROVE Spec => []Answered
<1> DEFINE Inv == Kinds /\ Locked /\ Reachable /\ Watched /\ Answered
<1>1. Init => Inv
  BY SingleInstanceAssumption
     DEF Init, Kinds, Locked, Holds, Serves, Reachable, Watched, Answered,
         Places, Window, Opening, Up
<1>2. Inv /\ [Next]_vars => Inv'
  BY LockedInductive, ReachableInductive, WatchedInductive, AnsweredInductive
<1>3. Inv => Answered
  OBVIOUS
<1> QED
  BY <1>1, <1>2, <1>3, PTL DEF Spec
=============================================================================
