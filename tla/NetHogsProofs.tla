--------------------------- MODULE NetHogsProofs ----------------------------
(***************************************************************************)
(* What holds of the accounting engine for any number of flows, pids,      *)
(* sockets and nodes and for any time-outs:                                *)
(*   - its state keeps its types (TypeCorrect);                            *)
(*   - one Process per pid (OneProcess), one IPv4 Connection per source    *)
(*     (OneConnection), and no Process charged with a stranger's socket    *)
(*     (HeldSocket);                                                       *)
(*   - no Connection is left without its Process as long as the loop is    *)
(*     never away for more than PROCESSTIMEOUT - CONNTIMEOUT seconds       *)
(*     (Owned);                                                            *)
(*   - what the subscriber may rely on when traffic stops, under the same  *)
(*     condition: a speed that it was told and that is not 0 belongs to a  *)
(*     process of the list (ToldIsLive), and, if packets are stamped in    *)
(*     order, a process leaves the list when it has been idle for          *)
(*     CONNTIMEOUT seconds (OnlyIdleRemoved, IdleRemoved).                 *)
(* First, facts about the packet lists, for every list, window and word    *)
(* size.                                                                   *)
(***************************************************************************)
EXTENDS NetHogs, Lemmas

-----------------------------------------------------------------------------
LEMMA MinOfNaturals ==
  ASSUME NEW S \in SUBSET Nat, S # {}
  PROVE  Min(S) \in S /\ \A x \in S : Min(S) <= x
BY LeastNumber DEF Min

(***************************************************************************)
(* A nonempty finite set of naturals has a maximum: its smallest final     *)
(* segment has one element.                                                *)
(***************************************************************************)
LEMMA MaxOfNaturals ==
  ASSUME NEW S \in SUBSET Nat, S # {}, IsFiniteSet(S)
  PROVE  Max(S) \in S /\ \A x \in S : x <= Max(S)
<1> DEFINE From(x) == {y \in S : x <= y}
           Segments == {From(x) : x \in S}
<1>1. Segments \subseteq FiniteSubsetsOf(S) /\ Segments # {}
  <2>1. FiniteSubsetsOf(S) = SUBSET S
    BY FS_FiniteSubsetsOfFinite
  <2>2. Segments \subseteq SUBSET S /\ Segments # {}
    OBVIOUS
  <2> HIDE DEF Segments
  <2> QED
    BY <2>1, <2>2
<1>2. \E T \in Segments : \A U \in Segments : ~ (<<U, T>> \in StrictSubsetOrdering(S))
  <2> HIDE DEF Segments
  <2> QED
    BY <1>1, FS_StrictSubsetOrderingWellFounded, WFMin
<1>3. PICK m \in S : \A U \in Segments : ~ (<<U, From(m)>> \in StrictSubsetOrdering(S))
  BY <1>2
<1>4. \A x \in S : x <= m
  <2> SUFFICES ASSUME NEW x \in S, x > m
               PROVE  FALSE
    OBVIOUS
  <2>0. x \in Nat /\ m \in Nat /\ (\A y \in S : y \in Nat)
    OBVIOUS
  <2>1. From(x) \subseteq From(m) /\ m \in From(m) /\ m \notin From(x)
    <3>1. ASSUME NEW y \in From(x) PROVE y \in From(m)
      BY <2>0, <3>1
    <3>2. m <= m /\ ~ (x <= m)
      BY <2>0
    <3> QED
      BY <3>1, <3>2
  <2>2. <<From(x), From(m)>> \in StrictSubsetOrdering(S)
    BY <2>1, FS_Subset DEF StrictSubsetOrdering, FiniteSubsetsOf
  <2> QED
    BY <2>2, <1>3
<1> QED
  BY <1>4 DEF Max

(***************************************************************************)
(* Sums of lengths are u_int32_t.                                          *)
(***************************************************************************)
LEMMA U32Type ==
  ASSUME NEW x \in Int
  PROVE  U32(x) \in Byte32
<1>1. WORD \in Nat /\ WORD > 0
  BY PackListAssumption
<1> QED
  BY <1>1 DEF U32, Byte32

(***************************************************************************)
(* The nodes of a list are nodes.                                          *)
(***************************************************************************)
LEMMA NodeTypes ==
  ASSUME NEW pl \in Seq(Node)
  PROVE  /\ DOMAIN pl = 1 .. Len(pl)
         /\ \A i \in 1 .. Len(pl) : pl[i].sec \in Nat /\ pl[i].len \in Byte32
<1>1. \A i \in 1 .. Len(pl) : pl[i] \in Node
  OBVIOUS
<1>2. \A n \in Node : n.sec \in Nat /\ n.len \in Byte32
  BY DEF Node
<1> QED
  BY <1>1, <1>2

(***************************************************************************)
(* PackList::add keeps a list of packets.                                  *)
(***************************************************************************)
LEMMA AddType ==
  ASSUME NEW pl \in Seq(Node), NEW sec \in Nat, NEW len \in Byte32
  PROVE  Add(pl, sec, len) \in Seq(Node)
<1>1. CASE pl # <<>> /\ Head(pl).sec = sec
  <2>1. 1 \in DOMAIN pl /\ pl[1] \in Node
    BY <1>1
  <2>2. U32(pl[1].len + len) \in Byte32
    <3>1. pl[1].len \in Int /\ len \in Int
      BY <2>1, PackListAssumption DEF Node, Byte32
    <3> QED
      BY <3>1, U32Type
  <2>3. [pl[1] EXCEPT !.len = U32(pl[1].len + len)] \in Node
    BY <2>1, <2>2 DEF Node
  <2>4. Add(pl, sec, len) = [pl EXCEPT ![1] = [pl[1] EXCEPT !.len = U32(pl[1].len + len)]]
    BY <1>1 DEF Add
  <2> QED
    BY <2>1, <2>3, <2>4
<1>2. CASE ~ (pl # <<>> /\ Head(pl).sec = sec)
  <2>1. [sec |-> sec, len |-> len] \in Node
    BY DEF Node
  <2> QED
    BY <1>2, <2>1 DEF Add
<1> QED
  BY <1>1, <1>2

(***************************************************************************)
(* PackList::sumanddel leaves a prefix of the list, ...                    *)
(***************************************************************************)
LEMMA KeptPrefix ==
  ASSUME NEW pl \in Seq(Node), NEW t \in Int
  PROVE  \E n \in 0 .. Len(pl) : /\ Kept(pl, t) = SubSeq(pl, 1, n)
                                 /\ \A i \in 1 .. n : pl[i].sec > t - PERIOD
                                 /\ n < Len(pl) => pl[n + 1].sec <= t - PERIOD
<1>1. \A i \in DOMAIN pl : i \in 1 .. Len(pl) /\ pl[i].sec \in Nat
  BY NodeTypes
<1>2. CASE Expired(pl, t) = {}
  <2>1. \A i \in 1 .. Len(pl) : pl[i].sec > t - PERIOD
    BY <1>1, <1>2, PackListAssumption DEF Expired
  <2>2. Kept(pl, t) = SubSeq(pl, 1, Len(pl))
    BY <1>2 DEF Kept
  <2> QED
    BY <2>1, <2>2
<1>3. CASE Expired(pl, t) # {}
  <2> DEFINE m == Min(Expired(pl, t))
  <2>1. m \in Expired(pl, t) /\ \A i \in Expired(pl, t) : m <= i
    <3>1. Expired(pl, t) \in SUBSET Nat
      BY <1>1 DEF Expired
    <3> QED
      BY <1>3, <3>1, MinOfNaturals
  <2>2. m \in 1 .. Len(pl) /\ pl[m].sec <= t - PERIOD
    BY <1>1, <2>1 DEF Expired
  <2>3. Kept(pl, t) = SubSeq(pl, 1, m - 1)
    BY <1>3 DEF Kept
  <2> HIDE DEF m
  <2>4. \A i \in 1 .. m - 1 : pl[i].sec > t - PERIOD
    <3>1. TAKE i \in 1 .. m - 1
    <3>2. i \in DOMAIN pl /\ i \notin Expired(pl, t)
      BY <2>1, <2>2
    <3> QED
      BY <1>1, <3>2, PackListAssumption DEF Expired
  <2>5. m - 1 \in 0 .. Len(pl) /\ (m - 1) + 1 = m
    BY <2>2
  <2> QED
    BY <2>2, <2>3, <2>4, <2>5
<1> QED
  BY <1>2, <1>3

(***************************************************************************)
(* ... so it keeps a list of packets ...                                   *)
(***************************************************************************)
LEMMA KeptType ==
  ASSUME NEW pl \in Seq(Node), NEW t \in Int
  PROVE  Kept(pl, t) \in Seq(Node)
<1>1. PICK n \in 0 .. Len(pl) : Kept(pl, t) = SubSeq(pl, 1, n)
  BY KeptPrefix
<1>2. SubSeq(pl, 1, n) \in Seq(Node)
  BY <1>1
<1> QED
  BY <1>1, <1>2

(***************************************************************************)
(* ... and, when the stamps never increase from the head on, it drops      *)
(* exactly the packets that are PERIOD seconds old.                        *)
(***************************************************************************)
NewestFirst(pl) == \A i, j \in 1 .. Len(pl) : i <= j => pl[i].sec >= pl[j].sec

THEOREM KeptDropsOnlyOldPackets ==
  ASSUME NEW pl \in Seq(Node), NEW t \in Int, NewestFirst(pl)
  PROVE  /\ Len(Kept(pl, t)) \in 0 .. Len(pl)
         /\ \A i \in 1 .. Len(pl) :
              IF i <= Len(Kept(pl, t)) THEN Kept(pl, t)[i] = pl[i] /\ pl[i].sec > t - PERIOD
                                       ELSE pl[i].sec <= t - PERIOD
<1>1. PICK n \in 0 .. Len(pl) : /\ Kept(pl, t) = SubSeq(pl, 1, n)
                                /\ \A i \in 1 .. n : pl[i].sec > t - PERIOD
                                /\ n < Len(pl) => pl[n + 1].sec <= t - PERIOD
  BY KeptPrefix
<1>2. Len(SubSeq(pl, 1, n)) = n /\ \A i \in 1 .. n : SubSeq(pl, 1, n)[i] = pl[i]
  BY <1>1
<1>3. \A i \in 1 .. Len(pl) : i > n => pl[i].sec <= t - PERIOD
  <2>1. SUFFICES ASSUME NEW i \in 1 .. Len(pl), i > n
                 PROVE  pl[i].sec <= t - PERIOD
    OBVIOUS
  <2>2. n + 1 \in 1 .. Len(pl) /\ n + 1 <= i /\ n < Len(pl)
    BY <2>1
  <2>3. pl[n + 1].sec >= pl[i].sec /\ pl[n + 1].sec <= t - PERIOD
    BY <1>1, <2>2 DEF NewestFirst
  <2>4. pl[n + 1].sec \in Nat /\ pl[i].sec \in Nat
    BY <2>2, NodeTypes
  <2> QED
    BY <2>3, <2>4, PackListAssumption
<1> QED
  BY <1>1, <1>2, <1>3

(***************************************************************************)
(* PackList::add keeps a list newest first when the packet is not older    *)
(* than the head.                                                          *)
(***************************************************************************)
THEOREM AddKeepsNewestFirst ==
  ASSUME NEW pl \in Seq(Node), NEW sec \in Nat, NEW len \in Byte32, NewestFirst(pl),
         pl # <<>> => Head(pl).sec <= sec
  PROVE  NewestFirst(Add(pl, sec, len))
<1>1. CASE pl # <<>> /\ Head(pl).sec = sec
  <2>1. /\ Len(Add(pl, sec, len)) = Len(pl)
        /\ \A i \in 1 .. Len(pl) : Add(pl, sec, len)[i].sec = pl[i].sec
    BY <1>1 DEF Add, Node
  <2> QED
    BY <2>1 DEF NewestFirst
<1>2. CASE ~ (pl # <<>> /\ Head(pl).sec = sec)
  <2> DEFINE new == <<[sec |-> sec, len |-> len]>> \o pl
  <2>1. /\ Len(new) = Len(pl) + 1
        /\ new[1].sec = sec
        /\ \A i \in 2 .. Len(new) : new[i] = pl[i - 1] /\ i - 1 \in 1 .. Len(pl)
    OBVIOUS
  <2>2. \A i \in 1 .. Len(pl) : pl[i].sec \in Nat /\ pl[i].sec <= sec
    <3>1. TAKE i \in 1 .. Len(pl)
    <3>2. 1 \in 1 .. Len(pl) /\ 1 <= i /\ pl # <<>> /\ pl[1] = Head(pl)
      OBVIOUS
    <3>3. pl[1].sec <= sec /\ pl[1].sec \in Nat /\ pl[i].sec \in Nat
      BY <3>2, NodeTypes
    <3>4. pl[1].sec >= pl[i].sec
      BY <3>2 DEF NewestFirst
    <3> QED
      BY <3>3, <3>4
  <2>3. Add(pl, sec, len) = new
    BY <1>2 DEF Add
  <2> HIDE DEF new
  <2>4. ASSUME NEW i \in 1 .. Len(new), NEW j \in 1 .. Len(new), i <= j
        PROVE  new[i].sec >= new[j].sec
    <3>1. CASE j = 1
      BY <2>1, <2>4, <3>1
    <3>2. CASE i = 1 /\ j # 1
      <4>1. new[j] = pl[j - 1] /\ j - 1 \in 1 .. Len(pl)
        BY <2>1, <3>2
      <4> QED
        BY <2>1, <2>2, <3>2, <4>1
    <3>3. CASE i # 1
      <4>1. /\ new[j] = pl[j - 1] /\ j - 1 \in 1 .. Len(pl)
            /\ new[i] = pl[i - 1] /\ i - 1 \in 1 .. Len(pl)
        BY <2>1, <2>4, <3>3
      <4> QED
        BY <2>4, <4>1 DEF NewestFirst
    <3> QED
      BY <3>1, <3>2, <3>3
  <2> QED
    BY <2>3, <2>4 DEF NewestFirst
<1> QED
  BY <1>1, <1>2

-----------------------------------------------------------------------------
(***************************************************************************)
(* Types of the operators.                                                 *)
(***************************************************************************)

\* reread_mapping fills the cache with pids.
LEMMA RereadType ==
  ASSUME TypeOK
  PROVE  Reread \in [Inodes -> Pids \cup {NoPid}]
<1>1. ASSUME NEW i \in Inodes, holders[i] # {}
      PROVE  Max(holders[i]) \in Pids
  <2>1. holders[i] \in SUBSET Pids /\ holders[i] \in SUBSET Nat
    BY NetHogsAssumption DEF TypeOK
  <2>2. IsFiniteSet(holders[i])
    BY <2>1, FS_Subset, NetHogsAssumption
  <2> QED
    BY <1>1, <2>1, <2>2, MaxOfNaturals
<1> QED
  BY <1>1 DEF Reread, TypeOK

\* getLastPacket is 0 or the stamp of a connection, the largest one.
LEMMA LastPacketIsLast ==
  ASSUME TypeOK, NEW o \in Objs
  PROVE  /\ LastPacket(o) \in Nat
         /\ \A f \in ConnsOf(o) : conn[f].last <= LastPacket(o)
<1> DEFINE S == {0} \cup {conn[f].last : f \in ConnsOf(o)}
<1>1. \A f \in Live : conn[f].last \in Time
  BY DEF TypeOK, Live, Connection
<1>2. S \subseteq 0 .. MaxTime /\ 0 \in S
  BY <1>1, NetHogsAssumption DEF ConnsOf, Time
<1>3. IsFiniteSet(S)
  <2>1. IsFiniteSet(0 .. MaxTime)
    BY FS_Interval, NetHogsAssumption
  <2> HIDE DEF S
  <2> QED
    BY <1>2, <2>1, FS_Subset
<1>4. S \in SUBSET Nat /\ S # {}
  BY <1>2
<1>5. \A f \in ConnsOf(o) : conn[f].last \in S
  OBVIOUS
<1> HIDE DEF S
<1>6. Max(S) \in S /\ \A x \in S : x <= Max(S)
  BY <1>3, <1>4, MaxOfNaturals
<1> QED
  BY <1>4, <1>5, <1>6 DEF S, LastPacket

\* A Connection stays one when a packet is put on it.
LEMMA WithPacketType ==
  ASSUME NEW c \in Connection, NEW d, NEW n \in Byte32, NEW ts \in Time
  PROVE  WithPacket(c, d, n, ts) \in Connection
<1>1. /\ c.sent \in Seq(Node) /\ c.recv \in Seq(Node)
      /\ c.sumSent \in Byte32 /\ c.sumRecv \in Byte32
  BY DEF Connection
<1>2. ts \in Nat
  BY NetHogsAssumption DEF Time
<1>3. Add(c.sent, ts, n) \in Seq(Node) /\ Add(c.recv, ts, n) \in Seq(Node)
  BY <1>1, <1>2, AddType
<1>4. U32(c.sumSent + n) \in Byte32 /\ U32(c.sumRecv + n) \in Byte32
  <2>1. c.sumSent + n \in Int /\ c.sumRecv + n \in Int
    BY <1>1, PackListAssumption DEF Byte32
  <2> QED
    BY <2>1, U32Type
<1>5. CASE d = "sent"
  BY <1>3, <1>4, <1>5 DEF WithPacket, Connection
<1>6. CASE d # "sent"
  BY <1>3, <1>4, <1>6 DEF WithPacket, Connection
<1> QED
  BY <1>5, <1>6

LEMMA WithPacketFields ==
  ASSUME NEW c \in Connection, NEW d, NEW n, NEW ts
  PROVE  /\ WithPacket(c, d, n, ts).last = ts
         /\ WithPacket(c, d, n, ts).owner = c.owner
BY DEF WithPacket, Connection

LEMMA NewConnectionType ==
  ASSUME NEW o \in Objs, NEW ts \in Time
  PROVE  NewConnection(o, ts) \in Connection /\ NewConnection(o, ts).owner = o
<1>1. 0 \in Byte32
  BY PackListAssumption DEF Byte32
<1> QED
  BY <1>1 DEF NewConnection, Connection

\* An update leaves Connections, and no new ones.
LEMMA SettledType ==
  ASSUME TypeOK, NEW f \in Flows
  PROVE  Settled(f) \in Connection \cup {None}
<1>1. CASE conn[f] = None
  BY <1>1 DEF Settled
<1>2. CASE conn[f] # None
  <2>1. conn[f] \in Connection
    BY <1>2 DEF TypeOK
  <2>2. curtime \in Int
    BY NetHogsAssumption DEF TypeOK, Time
  <2>3. Kept(conn[f].sent, curtime) \in Seq(Node) /\ Kept(conn[f].recv, curtime) \in Seq(Node)
    BY <2>1, <2>2, KeptType DEF Connection
  <2>4. [conn[f] EXCEPT !.owner = Orphan] \in Connection
    BY <2>1 DEF Connection
  <2>5. [conn[f] EXCEPT !.sent = Kept(@, curtime), !.recv = Kept(@, curtime)] \in Connection
    BY <2>1, <2>3 DEF Connection
  <2> QED
    BY <2>1, <2>4, <2>5 DEF Settled
<1> QED
  BY <1>1, <1>2

-----------------------------------------------------------------------------
(***************************************************************************)
(* Types.                                                                  *)
(***************************************************************************)

LEMMA InitType == Init => TypeOK
<1>1. 0 \in Time /\ StartTime \in Time /\ StartTime \in StartTime .. MaxTime
  BY NetHogsAssumption DEF Time
<1> QED
  BY <1>1, NetHogsAssumption DEF Init, TypeOK

\* The caches after the look-up of a new connection, and the pid it finds.
LEMMA LookUpType ==
  ASSUME TypeOK, NEW f \in Flows, LookUp(f)
  PROVE  /\ conninode' \in [Flows -> Inodes \cup {NoInode}]
         /\ inodeproc' \in [Inodes -> Pids \cup {NoPid}]
         /\ FoundPid(f) \in Pids \cup {NoPid}
<1>1. conninode' \in [Flows -> Inodes \cup {NoInode}]
  BY DEF LookUp, RefreshedConnInode, TypeOK
<1>2. inodeproc' \in [Inodes -> Pids \cup {NoPid}]
  BY RereadType DEF LookUp, TypeOK
<1>3. FoundPid(f) \in Pids \cup {NoPid}
  BY <1>1, <1>2 DEF FoundPid
<1> QED
  BY <1>1, <1>2, <1>3

\* A captured packet keeps the types, whether its Connection is found or made.
LEMMA PacketType ==
  ASSUME TypeOK, NEW f \in Flows, NEW d \in Dirs, NEW n \in Sizes,
         NEW ts \in (clock - Lag) .. clock, Packet(f, d, n, ts)
  PROVE  TypeOK'
<1>1. ts \in Time /\ n \in Byte32
  BY NetHogsAssumption DEF TypeOK, Time
<1>2. PICK g \in FindConnection(f) :
        IF g = None THEN GetProcess(f, d, n, ts) ELSE AddToConnection(g, d, n, ts)
  BY DEF Packet
<1>3. /\ conn' \in [Flows -> Connection \cup {None}]
      /\ conninode' \in [Flows -> Inodes \cup {NoInode}]
      /\ inodeproc' \in [Inodes -> Pids \cup {NoPid}]
      /\ procs' \in SUBSET Objs
      /\ pidOf' \in [Objs -> Pids \cup {NoPid}]
      /\ heard' \in [Objs -> Time]
  <2>1. CASE g # None
    <3>1. AddToConnection(g, d, n, ts)
      BY <1>2, <2>1
    <3>2. g \in Live
      BY <2>1 DEF FindConnection
    <3>3. conn[g] \in Connection
      BY <3>2 DEF Live, TypeOK
    <3>4. WithPacket(conn[g], d, n, ts) \in Connection
      BY <1>1, <3>3, WithPacketType
    <3>5. conn' \in [Flows -> Connection \cup {None}]
      BY <3>1, <3>2, <3>4 DEF AddToConnection, TypeOK, Live
    <3>6. heard' \in [Objs -> Time]
      BY <1>1, <3>1 DEF AddToConnection, TypeOK
    <3> QED
      BY <3>1, <3>5, <3>6 DEF AddToConnection, TypeOK, caches
  <2>2. CASE g = None
    <3>1. GetProcess(f, d, n, ts)
      BY <1>2, <2>2
    <3>2. PICK o \in Objs :
            /\ \/ UNCHANGED <<procs, pidOf>>
               \/ /\ procs' = procs \cup {o}
                  /\ pidOf' = [pidOf EXCEPT ![o] = FoundPid(f)]
            /\ conn' = [conn EXCEPT ![f] = WithPacket(NewConnection(o, ts), d, n, ts)]
            /\ heard' = [heard EXCEPT ![o] = ts]
      BY <3>1 DEF GetProcess
    <3>3. WithPacket(NewConnection(o, ts), d, n, ts) \in Connection
      BY <1>1, NewConnectionType, WithPacketType
    <3>4. LookUp(f)
      BY <3>1 DEF GetProcess
    <3> QED
      BY <1>1, <3>2, <3>3, <3>4, LookUpType DEF TypeOK
  <2> QED
    BY <2>1, <2>2
<1> QED
  BY <1>1, <1>3 DEF Packet, TypeOK, kernel

\* An update keeps the types.
LEMMA UpdateType ==
  ASSUME TypeOK, Update
  PROVE  TypeOK'
<1>1. conninode' \in [Flows -> Inodes \cup {NoInode}]
  BY DEF Update, RefreshedConnInode
<1>2. conn' \in [Flows -> Connection \cup {None}]
  BY SettledType DEF Update
<1>3. procs' \in SUBSET Objs
  BY DEF Update, TypeOK
<1>4. pidOf' \in [Objs -> Pids \cup {NoPid}] /\ heard' \in [Objs -> Time]
  <2>1. 0 \in Time
    BY NetHogsAssumption DEF Time
  <2> QED
    BY <2>1 DEF Update, TypeOK
<1>5. seen' \in Time
  BY DEF Update, TypeOK
<1> QED
  BY <1>1, <1>2, <1>3, <1>4, <1>5 DEF Update, TypeOK, kernel

LEMMA NextType == TypeOK /\ [Next]_vars => TypeOK'
<1> SUFFICES ASSUME TypeOK, [Next]_vars
             PROVE  TypeOK'
  OBVIOUS
<1>1. ASSUME NEW f \in Flows, NEW i \in Inodes, NEW p \in Pids, Connect(f, i, p)
      PROVE  TypeOK'
  BY <1>1 DEF Connect, TypeOK, caches, lists, clocks, history
<1>2. ASSUME NEW i \in Inodes, NEW p \in Pids, Inherit(i, p)
      PROVE  TypeOK'
  BY <1>2 DEF Inherit, TypeOK, caches, lists, clocks, history
<1>3. ASSUME NEW i \in Inodes, NEW p \in Pids, Release(i, p)
      PROVE  TypeOK'
  BY <1>3 DEF Release, TypeOK, caches, lists, clocks, history
<1>4. CASE Tick
  BY <1>4, NetHogsAssumption DEF Tick, TypeOK, Time, kernel, caches, lists, history
<1>5. CASE Capture
  BY <1>5, PacketType DEF Capture
<1>6. CASE DispatchIdle
  BY <1>6, NetHogsAssumption DEF DispatchIdle, TypeOK, Time, kernel, caches, lists, history
<1>7. CASE EndDispatch
  BY <1>7, NetHogsAssumption DEF EndDispatch, TypeOK, Time, kernel, caches, lists, history
<1>8. CASE Update
  BY <1>8, UpdateType
<1>9. CASE UNCHANGED vars
  BY <1>9 DEF TypeOK, vars, kernel, caches, lists, clocks, history
<1> QED
  BY <1>1, <1>2, <1>3, <1>4, <1>5, <1>6, <1>7, <1>8, <1>9 DEF Next, Kernel

(***************************************************************************)
(* The state of the engine has the types of its declarations: no sum       *)
(* leaves u_int32_t, no packet list is malformed, and no time leaves the   *)
(* clock's range.                                                          *)
(***************************************************************************)
THEOREM TypeCorrect == Spec => []TypeOK
<1> QED
  BY InitType, NextType, PTL DEF Spec

-----------------------------------------------------------------------------
(***************************************************************************)
(* No Connection without its Process.                                      *)
(***************************************************************************)
OwnedInv == TypeOK /\ ClocksClose /\ ConnectionsOwned /\ ConnectionsFresh

\* A step that touches neither list nor the poll's clocks disturbs nothing.
LEMMA OwnedFrame ==
  ASSUME OwnedInv, TypeOK', UNCHANGED <<conn, procs, seen>>, ClocksClose'
  PROVE  OwnedInv'
<1>1. Live' = Live
  BY DEF Live
<1> QED
  BY <1>1 DEF OwnedInv, ConnectionsOwned, ConnectionsFresh

LEMMA PacketOwned ==
  ASSUME GapsAreShort, OwnedInv, TypeOK',
         NEW f \in Flows, NEW d \in Dirs, NEW n \in Sizes,
         NEW ts \in (clock - Lag) .. clock, Packet(f, d, n, ts)
  PROVE  OwnedInv'
<1>1. /\ clock \in Nat /\ seen \in Nat /\ curtime \in Nat /\ ts \in Time /\ ts \in Nat
      /\ n \in Byte32 /\ Lag \in Nat /\ MaxGap \in Nat /\ CONNTIMEOUT \in Nat
  BY NetHogsAssumption DEF OwnedInv, TypeOK, Time
<1>2. clock' = clock /\ seen' = seen /\ curtime' = ts
  BY DEF Packet
<1>3. ClocksClose'
  BY <1>1, <1>2 DEF ClocksClose, OwnedInv, GapsAreShort
<1>4. ts > seen - CONNTIMEOUT
  BY <1>1 DEF ClocksClose, OwnedInv, GapsAreShort
<1>5. PICK g \in FindConnection(f) :
        IF g = None THEN GetProcess(f, d, n, ts) ELSE AddToConnection(g, d, n, ts)
  BY DEF Packet
<1>6. ASSUME NEW h \in Live'
      PROVE  conn'[h].owner \in procs' /\ conn'[h].last > seen' - CONNTIMEOUT
  <2>0. h \in Flows /\ conn'[h] # None
    BY DEF Live
  <2>1. CASE g # None
    <3>1. /\ conn' = [conn EXCEPT ![g] = WithPacket(@, d, n, ts)] /\ procs' = procs
          /\ g \in Live /\ g \in Flows
      BY <1>5, <2>1 DEF AddToConnection, FindConnection, Live
    <3>2. CASE h = g
      <4>1. conn[g] \in Connection /\ conn'[g] = WithPacket(conn[g], d, n, ts)
        BY <3>1 DEF Live, OwnedInv, TypeOK
      <4>2. conn'[g].owner = conn[g].owner /\ conn'[g].last = ts
        BY <4>1, WithPacketFields
      <4> QED
        BY <1>2, <1>4, <3>1, <3>2, <4>2 DEF OwnedInv, ConnectionsOwned
    <3>3. CASE h # g
      <4>1. conn'[h] = conn[h] /\ h \in Live
        BY <2>0, <3>1, <3>3 DEF Live, OwnedInv, TypeOK
      <4> QED
        BY <1>2, <3>1, <4>1 DEF OwnedInv, ConnectionsOwned, ConnectionsFresh
    <3> QED
      BY <3>2, <3>3
  <2>2. CASE g = None
    <3>1. PICK o \in Objs :
            /\ o \in procs' /\ procs \subseteq procs'
            /\ conn' = [conn EXCEPT ![f] = WithPacket(NewConnection(o, ts), d, n, ts)]
      BY <1>5, <2>2 DEF GetProcess, FindProcess
    <3>2. CASE h = f
      <4>1. conn'[f] = WithPacket(NewConnection(o, ts), d, n, ts)
        BY <3>1 DEF OwnedInv, TypeOK
      <4>2. conn'[f].owner = o /\ conn'[f].last = ts
        BY <1>1, <4>1, NewConnectionType, WithPacketFields
      <4> QED
        BY <1>2, <1>4, <3>1, <3>2, <4>2
    <3>3. CASE h # f
      <4>1. conn'[h] = conn[h] /\ h \in Live
        BY <2>0, <3>1, <3>3 DEF Live, OwnedInv, TypeOK
      <4> QED
        BY <1>2, <3>1, <4>1 DEF OwnedInv, ConnectionsOwned, ConnectionsFresh
    <3> QED
      BY <3>2, <3>3
  <2> QED
    BY <2>1, <2>2
<1> QED
  BY <1>3, <1>6 DEF OwnedInv, ConnectionsOwned, ConnectionsFresh

(***************************************************************************)
(* The heart of the matter: a process that has timed out has no connection *)
(* any more, because its connections would be older than CONNTIMEOUT at    *)
(* the update before.                                                      *)
(***************************************************************************)
LEMMA RemovedHasNoConnections ==
  ASSUME GapsAreShort, OwnedInv, NEW f \in Live
  PROVE  conn[f].owner \notin Removed
<1> SUFFICES ASSUME conn[f].owner \in Removed
             PROVE  FALSE
  OBVIOUS
<1> DEFINE o == conn[f].owner
<1>1. /\ clock \in Nat /\ seen \in Nat /\ curtime \in Nat /\ MaxGap \in Nat
      /\ CONNTIMEOUT \in Nat /\ PROCESSTIMEOUT \in Nat /\ o \in Objs
  BY NetHogsAssumption DEF OwnedInv, TypeOK, Time, Removed
<1>2. conn[f].last \in Nat
  BY NetHogsAssumption DEF OwnedInv, TypeOK, Time, Live, Connection
<1>3. LastPacket(o) + PROCESSTIMEOUT <= curtime
  BY DEF Removed, TimedOut
<1>4. LastPacket(o) \in Nat /\ conn[f].last <= LastPacket(o)
  BY <1>1, LastPacketIsLast DEF ConnsOf, OwnedInv
<1>5. conn[f].last > seen - CONNTIMEOUT
  BY DEF OwnedInv, ConnectionsFresh
<1>6. curtime <= clock /\ clock <= seen + MaxGap /\ MaxGap + CONNTIMEOUT <= PROCESSTIMEOUT
  BY DEF OwnedInv, ClocksClose, GapsAreShort
<1> HIDE DEF o
<1> QED
  BY <1>1, <1>2, <1>3, <1>4, <1>5, <1>6

LEMMA UpdateOwned ==
  ASSUME GapsAreShort, OwnedInv, TypeOK', Update
  PROVE  OwnedInv'
<1>1. /\ clock \in Nat /\ seen \in Nat /\ curtime \in Nat
      /\ CONNTIMEOUT \in Nat \ {0} /\ MaxGap \in Nat
  BY NetHogsAssumption DEF OwnedInv, TypeOK, Time
<1>2. /\ clock' = clock /\ curtime' = curtime /\ seen' = IF curtime = 0 THEN seen ELSE curtime
      /\ conn' = [f \in Flows |-> Settled(f)] /\ procs' = procs \ Removed
  BY DEF Update
<1>3. ClocksClose'
  BY <1>1, <1>2 DEF OwnedInv, ClocksClose
<1>4. ASSUME NEW f \in Live'
      PROVE  conn'[f].owner \in procs' /\ conn'[f].last > seen' - CONNTIMEOUT
  <2>1. f \in Flows /\ conn'[f] = Settled(f) /\ Settled(f) # None
    BY <1>2 DEF Live
  <2>2. f \in Live
    BY <2>1 DEF Settled, Live
  <2>3. conn[f] \in Connection /\ conn[f].owner \in procs /\ conn[f].owner \notin Removed
    BY <2>2, RemovedHasNoConnections DEF Live, OwnedInv, TypeOK, ConnectionsOwned
  <2>4. conn[f].owner # Orphan
    BY <2>3, NetHogsAssumption DEF OwnedInv, TypeOK
  <2>5. ~ Stalled(f) /\ Settled(f) = [conn[f] EXCEPT !.sent = Kept(@, curtime), !.recv = Kept(@, curtime)]
    BY <2>1, <2>2, <2>3, <2>4 DEF Settled, Live
  <2>6. conn'[f].owner = conn[f].owner /\ conn'[f].last = conn[f].last
    BY <2>1, <2>3, <2>5 DEF Connection
  <2>7. conn[f].last \in Nat
    BY <2>3, NetHogsAssumption DEF Connection, Time
  <2>8. conn[f].last > seen' - CONNTIMEOUT
    <3>1. CASE curtime = 0
      BY <1>2, <2>2, <3>1 DEF OwnedInv, ConnectionsFresh
    <3>2. CASE curtime # 0
      BY <1>1, <1>2, <2>5, <2>7, <3>2 DEF Stalled
    <3> QED
      BY <3>1, <3>2
  <2> QED
    BY <1>2, <2>3, <2>6, <2>8
<1> QED
  BY <1>3, <1>4 DEF OwnedInv, ConnectionsOwned, ConnectionsFresh

LEMMA InitOwned ==
  ASSUME Init
  PROVE  OwnedInv
<1>1. TypeOK
  BY InitType
<1>2. ClocksClose
  BY NetHogsAssumption DEF Init, ClocksClose
<1>3. Live = {}
  BY DEF Init, Live
<1> QED
  BY <1>1, <1>2, <1>3 DEF OwnedInv, ConnectionsOwned, ConnectionsFresh

LEMMA NextOwned ==
  ASSUME GapsAreShort, OwnedInv, [Next]_vars
  PROVE  OwnedInv'
<1>0. TypeOK'
  BY NextType DEF OwnedInv
<1>t. /\ clock \in Nat /\ seen \in Nat /\ curtime \in Nat /\ MaxGap \in Nat
  BY NetHogsAssumption DEF OwnedInv, TypeOK, Time
<1>1. CASE Kernel
  BY <1>0, <1>1, OwnedFrame DEF Kernel, Connect, Inherit, Release, lists, clocks, ClocksClose, OwnedInv
<1>2. CASE Tick
  <2>1. ClocksClose'
    BY <1>2, <1>t DEF Tick, ClocksClose, OwnedInv
  <2> QED
    BY <1>0, <1>2, <2>1, OwnedFrame DEF Tick, lists
<1>3. CASE Capture
  BY <1>0, <1>3, PacketOwned DEF Capture
<1>4. CASE DispatchIdle
  <2>1. ClocksClose'
    BY <1>4, <1>t DEF DispatchIdle, ClocksClose, OwnedInv
  <2> QED
    BY <1>0, <1>4, <2>1, OwnedFrame DEF DispatchIdle, lists
<1>5. CASE EndDispatch
  BY <1>0, <1>5, OwnedFrame DEF EndDispatch, lists, ClocksClose, OwnedInv
<1>6. CASE Update
  BY <1>0, <1>6, UpdateOwned
<1>7. CASE UNCHANGED vars
  BY <1>0, <1>7, OwnedFrame DEF vars, lists, clocks, ClocksClose, OwnedInv
<1> QED
  BY <1>1, <1>2, <1>3, <1>4, <1>5, <1>6, <1>7 DEF Next

(***************************************************************************)
(* If the loop never stays away for more than the difference of the two    *)
(* time-outs, every Connection of the global list belongs to a Process of  *)
(* the list and had a packet less than CONNTIMEOUT seconds before the last *)
(* update: deleting a Process never leaves a Connection behind.            *)
(***************************************************************************)
THEOREM Owned ==
  ASSUME GapsAreShort
  PROVE  Spec => [](ConnectionsOwned /\ ConnectionsFresh)
<1>1. Init => OwnedInv
  BY InitOwned
<1>2. OwnedInv /\ [Next]_vars => OwnedInv'
  BY NextOwned
<1>3. OwnedInv => ConnectionsOwned /\ ConnectionsFresh
  BY DEF OwnedInv
<1> QED
  BY <1>1, <1>2, <1>3, PTL DEF Spec

-----------------------------------------------------------------------------
(***************************************************************************)
(* One Process per pid, one IPv4 Connection per source.                    *)
(***************************************************************************)

LEMMA PacketOneProcess ==
  ASSUME TypeOK, OneProcessPerPid, NEW f \in Flows, NEW d \in Dirs, NEW n \in Sizes,
         NEW ts \in (clock - Lag) .. clock, Packet(f, d, n, ts)
  PROVE  OneProcessPerPid'
<1>1. \/ UNCHANGED <<procs, pidOf>>
      \/ \E o \in Objs : /\ FindProcess(FoundPid(f)) = {} /\ o \notin procs
                         /\ procs' = procs \cup {o}
                         /\ pidOf' = [pidOf EXCEPT ![o] = FoundPid(f)]
  BY DEF Packet, GetProcess, AddToConnection
<1>2. CASE UNCHANGED <<procs, pidOf>>
  BY <1>2 DEF OneProcessPerPid
<1>3. ASSUME NEW o \in Objs, FindProcess(FoundPid(f)) = {}, o \notin procs,
             procs' = procs \cup {o}, pidOf' = [pidOf EXCEPT ![o] = FoundPid(f)]
      PROVE  OneProcessPerPid'
  <2>1. \A q \in procs : pidOf'[q] = pidOf[q] /\ (pidOf[q] = FoundPid(f) => FoundPid(f) = NoPid)
    BY <1>3 DEF FindProcess, TypeOK
  <2>2. pidOf'[o] = FoundPid(f)
    BY <1>3 DEF TypeOK
  <2> QED
    BY <1>3, <2>1, <2>2 DEF OneProcessPerPid
<1> QED
  BY <1>1, <1>2, <1>3

LEMMA NextOneProcess ==
  ASSUME TypeOK, OneProcessPerPid, [Next]_vars
  PROVE  OneProcessPerPid'
<1>1. CASE Capture
  BY <1>1, PacketOneProcess DEF Capture
<1>2. CASE Update
  <2>1. procs' \subseteq procs /\ \A o \in procs' : pidOf'[o] = pidOf[o]
    BY <1>2 DEF Update, TypeOK
  <2> QED
    BY <2>1 DEF OneProcessPerPid
<1>3. CASE UNCHANGED <<procs, pidOf>>
  BY <1>3 DEF OneProcessPerPid
<1> QED
  BY <1>1, <1>2, <1>3 DEF Next, Kernel, Connect, Inherit, Release, Tick, DispatchIdle,
     EndDispatch, vars, lists

(***************************************************************************)
(* getProcess creates a Process only for a pid that findProcess does not   *)
(* find, so two Processes of the list never have the same pid.             *)
(***************************************************************************)
THEOREM OneProcess == Spec => []OneProcessPerPid
<1>1. Init => OneProcessPerPid
  BY DEF Init, OneProcessPerPid
<1> QED
  BY <1>1, NextOneProcess, InitType, NextType, PTL DEF Spec

LEMMA PacketOneConnection ==
  ASSUME TypeOK, OneConnectionPerSource, NEW f \in Flows, NEW d \in Dirs, NEW n \in Sizes,
         NEW ts \in (clock - Lag) .. clock, Packet(f, d, n, ts)
  PROVE  OneConnectionPerSource'
<1>1. PICK g \in FindConnection(f) :
        IF g = None THEN GetProcess(f, d, n, ts) ELSE AddToConnection(g, d, n, ts)
  BY DEF Packet
<1>2. CASE g # None
  <2>1. g \in Live /\ conn' = [conn EXCEPT ![g] = WithPacket(@, d, n, ts)]
    BY <1>1, <1>2 DEF AddToConnection, FindConnection
  <2>2. Live' \subseteq Live
    BY <2>1 DEF Live, TypeOK
  <2> QED
    BY <2>2 DEF OneConnectionPerSource, SameSource
<1>3. CASE g = None
  <2>1. Live' \subseteq Live \cup {f}
    BY <1>1, <1>3 DEF GetProcess, Live, TypeOK
  <2>2. \A h \in Live : ~ SameSource(f, h)
    BY <1>3, NetHogsAssumption DEF FindConnection, Live
  <2>3. \A h \in Live : ~ SameSource(h, f)
    BY <2>2 DEF SameSource
  <2> QED
    BY <2>1, <2>2, <2>3 DEF OneConnectionPerSource, SameSource
<1> QED
  BY <1>2, <1>3

LEMMA NextOneConnection ==
  ASSUME TypeOK, OneConnectionPerSource, [Next]_vars
  PROVE  OneConnectionPerSource'
<1>1. CASE Capture
  BY <1>1, PacketOneConnection DEF Capture
<1>2. CASE Update
  <2>1. Live' \subseteq Live
    BY <1>2 DEF Update, Settled, Live
  <2> QED
    BY <2>1 DEF OneConnectionPerSource, SameSource
<1>3. CASE UNCHANGED conn
  BY <1>3 DEF OneConnectionPerSource, SameSource, Live
<1> QED
  BY <1>1, <1>2, <1>3 DEF Next, Kernel, Connect, Inherit, Release, Tick, DispatchIdle,
     EndDispatch, vars, lists

(***************************************************************************)
(* A Connection is created only when none has the packet's source, so the  *)
(* second pass of findConnection never has two IPv4 Connections to choose  *)
(* from.                                                                   *)
(***************************************************************************)
THEOREM OneConnection == Spec => []OneConnectionPerSource
<1>1. Init => OneConnectionPerSource
  BY DEF Init, OneConnectionPerSource, Live
<1> QED
  BY <1>1, NextOneConnection, InitType, NextType, PTL DEF Spec

-----------------------------------------------------------------------------
(***************************************************************************)
(* No Process is charged with a stranger's socket.                         *)
(***************************************************************************)
RowsShared  == \A f, g \in Flows : SameRow(f, g) => opened[f] = opened[g]
SocksOpened == \A f \in Flows : sock[f] # NoInode => sock[f] \in opened[f]
CacheOpened == \A f \in Flows : conninode[f] # NoInode => conninode[f] \in opened[f]
HoldersHeld == \A i \in Inodes : holders[i] \subseteq held[i]
CacheHeld   == \A i \in Inodes : inodeproc[i] # NoPid => inodeproc[i] \in held[i]
OwnersKnown == \A f \in Live : conn[f].owner \in procs \cup {Orphan}

HeldInv ==
  /\ TypeOK /\ RowsShared /\ SocksOpened /\ CacheOpened /\ HoldersHeld /\ CacheHeld
  /\ OwnersKnown /\ OwnerHeldSocket

\* What the kernel does only adds to what has been opened and held.
LEMMA KernelHeld ==
  ASSUME HeldInv, Kernel
  PROVE  HeldInv'
<1>0. TypeOK'
  BY NextType DEF HeldInv, Next
<1>1. UNCHANGED <<conn, procs, pidOf, conninode, inodeproc>>
  BY DEF Kernel, Connect, Inherit, Release, lists, caches
<1>2. /\ \A i \in Inodes : held[i] \subseteq held'[i]
      /\ \A f \in Flows : opened[f] \subseteq opened'[f]
  BY DEF Kernel, Connect, Inherit, Release, HeldInv, TypeOK
<1>3. RowsShared' /\ SocksOpened' /\ HoldersHeld'
  <2>1. ASSUME NEW f \in Flows, NEW i \in Inodes, NEW p \in Pids, Connect(f, i, p)
        PROVE  RowsShared' /\ SocksOpened' /\ HoldersHeld'
    <3>1. /\ sock' = [sock EXCEPT ![f] = i]
          /\ holders' = [holders EXCEPT ![i] = {p}] /\ held' = [held EXCEPT ![i] = {p}]
          /\ opened' = [g \in Flows |-> IF SameRow(f, g) THEN opened[g] \cup {i} ELSE opened[g]]
      BY <2>1 DEF Connect
    <3>2. RowsShared'
      <4>1. \A g, h \in Flows : SameRow(g, h) => (SameRow(f, g) <=> SameRow(f, h))
        BY DEF SameRow
      <4>2. \A g, h \in Flows : SameRow(g, h) => opened'[g] = opened'[h]
        BY <3>1, <4>1 DEF HeldInv, RowsShared
      <4> QED
        BY <4>2 DEF RowsShared, SameRow
    <3>3. SocksOpened'
      BY <3>1 DEF HeldInv, TypeOK, SocksOpened, SameRow
    <3>4. HoldersHeld'
      BY <3>1 DEF HeldInv, TypeOK, HoldersHeld
    <3> QED
      BY <3>2, <3>3, <3>4
  <2>2. ASSUME NEW i \in Inodes, NEW p \in Pids, Inherit(i, p)
        PROVE  RowsShared' /\ SocksOpened' /\ HoldersHeld'
    BY <2>2 DEF Inherit, HeldInv, TypeOK, RowsShared, SocksOpened, HoldersHeld, SameRow
  <2>3. ASSUME NEW i \in Inodes, NEW p \in Pids, Release(i, p)
        PROVE  RowsShared' /\ SocksOpened' /\ HoldersHeld'
    <3>1. /\ holders' = [holders EXCEPT ![i] = @ \ {p}]
          /\ UNCHANGED <<held, opened>>
          /\ sock' = sock \/ sock' = [f \in Flows |-> IF sock[f] = i THEN NoInode ELSE sock[f]]
      BY <2>3 DEF Release
    <3> QED
      BY <3>1 DEF HeldInv, TypeOK, RowsShared, SocksOpened, HoldersHeld, SameRow
  <2> QED
    BY <2>1, <2>2, <2>3 DEF Kernel
<1>4. CacheOpened' /\ CacheHeld' /\ OwnersKnown' /\ OwnerHeldSocket'
  BY <1>1, <1>2 DEF HeldInv, CacheOpened, CacheHeld, OwnersKnown, OwnerHeldSocket, Live
<1> QED
  BY <1>0, <1>3, <1>4 DEF HeldInv

\* Both refreshes copy what is open and held now, or leave an older entry.
LEMMA RefreshHeld ==
  ASSUME HeldInv, UNCHANGED <<sock, opened>>, RefreshedConnInode(conninode')
  PROVE  CacheOpened'
<1> SUFFICES ASSUME NEW f \in Flows, conninode'[f] # NoInode
             PROVE  conninode'[f] \in opened[f]
  BY DEF CacheOpened
<1>1. CASE Rows(f) = {}
  BY <1>1 DEF RefreshedConnInode, HeldInv, CacheOpened
<1>2. CASE Rows(f) # {}
  <2>1. PICK g \in Flows : SameRow(f, g) /\ conninode'[f] = sock[g] /\ sock[g] # NoInode
    BY <1>2 DEF RefreshedConnInode, Rows
  <2> QED
    BY <2>1 DEF HeldInv, SocksOpened, RowsShared
<1> QED
  BY <1>1, <1>2

LEMMA RereadHeld ==
  ASSUME HeldInv
  PROVE  \A i \in Inodes : Reread[i] # NoPid => Reread[i] \in held[i]
<1> SUFFICES ASSUME NEW i \in Inodes, Reread[i] # NoPid
             PROVE  Reread[i] \in held[i]
  OBVIOUS
<1>1. CASE holders[i] = {}
  BY <1>1 DEF Reread, HeldInv, CacheHeld
<1>2. CASE holders[i] # {}
  <2>1. holders[i] \in SUBSET Pids /\ holders[i] \in SUBSET Nat
    BY NetHogsAssumption DEF HeldInv, TypeOK
  <2>2. IsFiniteSet(holders[i])
    BY <2>1, FS_Subset, NetHogsAssumption
  <2>3. Max(holders[i]) \in holders[i]
    BY <1>2, <2>1, <2>2, MaxOfNaturals
  <2> QED
    BY <1>2, <2>3 DEF Reread, HeldInv, HoldersHeld
<1> QED
  BY <1>1, <1>2

LEMMA LookUpHeld ==
  ASSUME HeldInv, NEW f \in Flows, LookUp(f), UNCHANGED kernel
  PROVE  /\ CacheOpened' /\ CacheHeld'
         /\ FoundPid(f) # NoPid => \E i \in Inodes : FoundPid(f) \in held[i] /\ i \in opened[f]
<1>1. CacheOpened'
  BY RefreshHeld DEF LookUp, kernel, HeldInv, CacheOpened
<1>2. CacheHeld'
  BY RereadHeld DEF LookUp, kernel, HeldInv, CacheHeld
<1>3. conninode' \in [Flows -> Inodes \cup {NoInode}]
  BY LookUpType DEF HeldInv
<1> QED
  BY <1>1, <1>2, <1>3 DEF FoundPid, CacheOpened, CacheHeld, kernel

LEMMA PacketHeld ==
  ASSUME HeldInv, NEW f \in Flows, NEW d \in Dirs, NEW n \in Sizes,
         NEW ts \in (clock - Lag) .. clock, Packet(f, d, n, ts)
  PROVE  HeldInv'
<1>0. TypeOK'
  BY PacketType DEF HeldInv
<1>1. UNCHANGED kernel /\ ts \in Time /\ n \in Byte32
  BY NetHogsAssumption DEF Packet, HeldInv, TypeOK, Time
<1>2. RowsShared' /\ SocksOpened' /\ HoldersHeld'
  BY <1>1 DEF kernel, HeldInv, RowsShared, SocksOpened, HoldersHeld, SameRow
<1>3. PICK g \in FindConnection(f) :
        IF g = None THEN GetProcess(f, d, n, ts) ELSE AddToConnection(g, d, n, ts)
  BY DEF Packet
<1>4. CASE g # None
  <2>1. /\ g \in Live /\ conn' = [conn EXCEPT ![g] = WithPacket(@, d, n, ts)]
        /\ UNCHANGED <<procs, pidOf, conninode, inodeproc>>
    BY <1>3, <1>4 DEF AddToConnection, FindConnection, caches
  <2>2. conn[g] \in Connection
    BY <2>1 DEF Live, HeldInv, TypeOK
  <2>3. Live' \subseteq Live /\ \A h \in Live' : conn'[h].owner = conn[h].owner
    BY <2>1, <2>2, WithPacketFields DEF Live, HeldInv, TypeOK
  <2> QED
    BY <1>0, <1>1, <1>2, <2>1, <2>3
    DEF HeldInv, CacheOpened, CacheHeld, OwnersKnown, OwnerHeldSocket, kernel
<1>5. CASE g = None
  <2>1. GetProcess(f, d, n, ts)
    BY <1>3, <1>5
  <2>2. LookUp(f)
    BY <2>1 DEF GetProcess
  <2>3. PICK o \in Objs :
          /\ \/ o \in procs /\ pidOf[o] = FoundPid(f) /\ UNCHANGED <<procs, pidOf>>
             \/ /\ o \notin procs
                /\ procs' = procs \cup {o}
                /\ pidOf' = [pidOf EXCEPT ![o] = FoundPid(f)]
          /\ conn' = [conn EXCEPT ![f] = WithPacket(NewConnection(o, ts), d, n, ts)]
    BY <2>1 DEF GetProcess, FindProcess
  <2>4. o \in procs' /\ pidOf'[o] = FoundPid(f) /\ \A q \in procs : pidOf'[q] = pidOf[q] /\ q \in procs'
    BY <2>3 DEF HeldInv, TypeOK
  <2>5. \A q \in procs' : q \in procs \/ q = o
    BY <2>3
  <2>6. conn'[f].owner = o
    BY <1>1, <2>3, NewConnectionType, WithPacketFields DEF HeldInv, TypeOK
  <2>7. \A h \in Live' : h # f => h \in Live /\ conn'[h] = conn[h]
    BY <2>3 DEF Live, HeldInv, TypeOK
  <2>8. OwnersKnown'
    BY <2>4, <2>6, <2>7 DEF OwnersKnown, HeldInv
  <2>9. OwnerHeldSocket'
    <3>1. ASSUME NEW h \in Live', conn'[h].owner \in procs', pidOf'[conn'[h].owner] # NoPid
          PROVE  \E i \in Inodes : pidOf'[conn'[h].owner] \in held[i] /\ i \in opened[h]
      <4>1. CASE h = f
        BY <1>1, <2>2, <2>4, <2>6, <3>1, <4>1, LookUpHeld
      <4>2. CASE h # f
        <5>1. conn'[h] = conn[h] /\ h \in Live
          BY <2>7, <3>1, <4>2
        <5>2. conn[h].owner \in procs
          <6>1. conn[h].owner \in procs \cup {Orphan}
            BY <5>1 DEF HeldInv, OwnersKnown
          <6>2. conn[h].owner # Orphan
            BY <1>0, <3>1, <5>1, NetHogsAssumption DEF TypeOK
          <6> QED
            BY <6>1, <6>2
        <5> QED
          BY <2>4, <3>1, <5>1, <5>2 DEF HeldInv, OwnerHeldSocket
      <4> QED
        BY <4>1, <4>2
    <3> QED
      BY <1>1, <3>1 DEF OwnerHeldSocket, kernel
  <2> QED
    BY <1>0, <1>1, <1>2, <2>2, <2>8, <2>9, LookUpHeld DEF HeldInv
<1> QED
  BY <1>4, <1>5

LEMMA UpdateHeld ==
  ASSUME HeldInv, Update
  PROVE  HeldInv'
<1>0. TypeOK'
  BY UpdateType DEF HeldInv
<1>1. /\ UNCHANGED kernel /\ inodeproc' = inodeproc /\ RefreshedConnInode(conninode')
      /\ conn' = [f \in Flows |-> Settled(f)] /\ procs' = procs \ Removed
      /\ \A o \in procs' : pidOf'[o] = pidOf[o]
  BY DEF Update, HeldInv, TypeOK
<1>2. RowsShared' /\ SocksOpened' /\ HoldersHeld' /\ CacheHeld'
  BY <1>1 DEF kernel, HeldInv, RowsShared, SocksOpened, HoldersHeld, CacheHeld, SameRow
<1>3. CacheOpened'
  BY <1>1, RefreshHeld DEF kernel
<1>4. ASSUME NEW f \in Live'
      PROVE  /\ f \in Live
             /\ \/ conn'[f].owner = Orphan
                \/ conn'[f].owner = conn[f].owner /\ conn[f].owner \in procs'
  <2>1. f \in Flows /\ conn'[f] = Settled(f) /\ Settled(f) # None
    BY <1>1 DEF Live
  <2>2. f \in Live
    BY <2>1 DEF Settled, Live
  <2>3. conn[f] \in Connection /\ conn[f].owner \in procs \cup {Orphan}
    BY <2>2 DEF Live, HeldInv, TypeOK, OwnersKnown
  <2>4. CASE conn[f].owner = Orphan
    BY <2>1, <2>2, <2>4 DEF Settled, Live
  <2>5. CASE conn[f].owner # Orphan /\ conn[f].owner \in Removed
    <3>1. Settled(f) = [conn[f] EXCEPT !.owner = Orphan]
      BY <2>2, <2>5 DEF Settled, Live
    <3> QED
      BY <2>1, <2>2, <2>3, <3>1 DEF Connection
  <2>6. CASE conn[f].owner # Orphan /\ conn[f].owner \notin Removed
    <3>1. Settled(f) = [conn[f] EXCEPT !.sent = Kept(@, curtime), !.recv = Kept(@, curtime)]
      BY <2>1, <2>2, <2>6 DEF Settled, Live
    <3>2. Settled(f).owner = conn[f].owner
      BY <2>3, <3>1 DEF Connection
    <3> QED
      BY <1>1, <2>1, <2>2, <2>3, <2>6, <3>2
  <2> QED
    BY <2>4, <2>5, <2>6
<1>5. OwnersKnown'
  BY <1>4 DEF OwnersKnown
<1>6. OwnerHeldSocket'
  <2>1. Orphan \notin procs'
    BY <1>0, NetHogsAssumption DEF TypeOK
  <2> QED
    BY <1>1, <1>4, <2>1 DEF HeldInv, OwnerHeldSocket, kernel
<1> QED
  BY <1>0, <1>2, <1>3, <1>5, <1>6 DEF HeldInv

LEMMA NextHeld ==
  ASSUME HeldInv, [Next]_vars
  PROVE  HeldInv'
<1>1. CASE Kernel
  BY <1>1, KernelHeld
<1>2. CASE Capture
  BY <1>2, PacketHeld DEF Capture
<1>3. CASE Update
  BY <1>3, UpdateHeld
<1>4. CASE UNCHANGED <<kernel, caches, conn, procs, pidOf>>
  <2>1. TypeOK'
    BY NextType DEF HeldInv
  <2> QED
    BY <1>4, <2>1 DEF HeldInv, RowsShared, SocksOpened, CacheOpened, HoldersHeld, CacheHeld,
       OwnersKnown, OwnerHeldSocket, Live, kernel, caches, SameRow
<1> QED
  BY <1>1, <1>2, <1>3, <1>4 DEF Next, Tick, DispatchIdle, EndDispatch, vars, lists

(***************************************************************************)
(* The pid that a Connection's bytes are charged to has held a socket of   *)
(* that local port and remote end: the caches are never emptied, so it may *)
(* be a former holder, but it is never a stranger.                         *)
(***************************************************************************)
THEOREM HeldSocket == Spec => []OwnerHeldSocket
<1>1. Init => HeldInv
  BY InitType DEF Init, HeldInv, RowsShared, SocksOpened, CacheOpened, HoldersHeld, CacheHeld,
     OwnersKnown, OwnerHeldSocket, Live
<1>2. HeldInv => OwnerHeldSocket
  BY DEF HeldInv
<1> QED
  BY <1>1, <1>2, NextHeld, PTL DEF Spec

-----------------------------------------------------------------------------
(***************************************************************************)
(* The two lists through a step.                                           *)
(***************************************************************************)

\* A captured packet reaches one Connection, an old one or a new one, whose
\* Process is in the list and has now been heard at the packet's time.
LEMMA PacketReaches ==
  ASSUME OwnedInv, NEW f \in Flows, NEW d \in Dirs, NEW n \in Sizes,
         NEW ts \in (clock - Lag) .. clock, Packet(f, d, n, ts)
  PROVE  \E g \in Flows, o \in procs' :
           /\ procs \subseteq procs' /\ procs' \subseteq procs \cup {o}
           /\ \A q \in procs : pidOf'[q] = pidOf[q]
           /\ g \in Live' /\ conn'[g].owner = o /\ conn'[g].last = ts
           /\ g \in Live => conn[g].owner = o
           /\ \A h \in Flows : h # g => conn'[h] = conn[h]
           /\ heard' = [heard EXCEPT ![o] = ts]
<1>1. ts \in Time /\ n \in Byte32
  BY NetHogsAssumption DEF OwnedInv, TypeOK, Time
<1>2. PICK g \in FindConnection(f) :
        IF g = None THEN GetProcess(f, d, n, ts) ELSE AddToConnection(g, d, n, ts)
  BY DEF Packet
<1>3. CASE g # None
  <2>1. /\ g \in Live /\ g \in Flows /\ conn[g] \in Connection /\ conn[g].owner \in procs
        /\ conn[g].owner # Orphan
    BY <1>2, <1>3, NetHogsAssumption DEF FindConnection, Live, OwnedInv, TypeOK, ConnectionsOwned
  <2>2. /\ conn' = [conn EXCEPT ![g] = WithPacket(@, d, n, ts)] /\ UNCHANGED <<procs, pidOf>>
        /\ heard' = [heard EXCEPT ![conn[g].owner] = ts]
    BY <1>2, <1>3, <2>1 DEF AddToConnection
  <2>3. /\ WithPacket(conn[g], d, n, ts) \in Connection
        /\ WithPacket(conn[g], d, n, ts).last = ts
        /\ WithPacket(conn[g], d, n, ts).owner = conn[g].owner
    BY <1>1, <2>1, WithPacketType, WithPacketFields
  <2>4. conn'[g] = WithPacket(conn[g], d, n, ts) /\ \A h \in Flows : h # g => conn'[h] = conn[h]
    BY <2>1, <2>2 DEF OwnedInv, TypeOK
  <2>5. g \in Live'
    BY <2>1, <2>3, <2>4, NoneAssumption DEF Live
  <2> QED
    BY <2>1, <2>2, <2>3, <2>4, <2>5
<1>4. CASE g = None
  <2>1. f \notin Live
    BY <1>2, <1>4, NetHogsAssumption DEF FindConnection
  <2>2. PICK o \in Objs :
          /\ \/ o \in procs /\ UNCHANGED <<procs, pidOf>>
             \/ /\ o \notin procs /\ procs' = procs \cup {o}
                /\ pidOf' = [pidOf EXCEPT ![o] = FoundPid(f)]
          /\ conn' = [conn EXCEPT ![f] = WithPacket(NewConnection(o, ts), d, n, ts)]
          /\ heard' = [heard EXCEPT ![o] = ts]
    BY <1>2, <1>4 DEF GetProcess, FindProcess
  <2>3. /\ WithPacket(NewConnection(o, ts), d, n, ts) \in Connection
        /\ WithPacket(NewConnection(o, ts), d, n, ts).last = ts
        /\ WithPacket(NewConnection(o, ts), d, n, ts).owner = o
    BY <1>1, NewConnectionType, WithPacketType, WithPacketFields
  <2>4. /\ conn'[f] = WithPacket(NewConnection(o, ts), d, n, ts)
        /\ \A h \in Flows : h # f => conn'[h] = conn[h]
    BY <2>2 DEF OwnedInv, TypeOK
  <2>5. f \in Live'
    BY <2>3, <2>4, NoneAssumption DEF Live
  <2>6. o \in procs' /\ procs \subseteq procs' /\ procs' \subseteq procs \cup {o}
        /\ \A q \in procs : pidOf'[q] = pidOf[q]
    BY <2>2 DEF OwnedInv, TypeOK
  <2> QED
    BY <2>1, <2>2, <2>3, <2>4, <2>5, <2>6
<1> QED
  BY <1>3, <1>4

\* An update drops the connections that have stalled and no others, and with
\* them no process that has a connection.
LEMMA UpdateDrops ==
  ASSUME GapsAreShort, OwnedInv, Update
  PROVE  /\ \A f \in Live : ~Stalled(f) =>
              f \in Live' /\ conn'[f].owner = conn[f].owner /\ conn'[f].last = conn[f].last
         /\ \A f \in Live' : /\ f \in Live
                             /\ conn'[f].owner = conn[f].owner /\ conn'[f].last = conn[f].last
         /\ \A o \in procs : ConnsOf(o) # {} => o \in procs'
<1>1. conn' = [f \in Flows |-> Settled(f)] /\ procs' = procs \ Removed
  BY DEF Update
<1>2. ASSUME NEW f \in Live
      PROVE  /\ f \in Flows /\ conn[f] \in Connection
             /\ Settled(f) = IF Stalled(f) THEN None
                             ELSE [conn[f] EXCEPT !.sent = Kept(@, curtime), !.recv = Kept(@, curtime)]
  <2>1. conn[f].owner \in procs /\ conn[f].owner \notin Removed
    BY RemovedHasNoConnections DEF OwnedInv, ConnectionsOwned
  <2>2. conn[f].owner # Orphan
    BY <2>1, NetHogsAssumption DEF OwnedInv, TypeOK
  <2> QED
    BY <2>1, <2>2 DEF Settled, Live, OwnedInv, TypeOK
<1>3. ASSUME NEW f \in Live, ~Stalled(f)
      PROVE  f \in Live' /\ conn'[f].owner = conn[f].owner /\ conn'[f].last = conn[f].last
  <2>1. conn'[f] = [conn[f] EXCEPT !.sent = Kept(@, curtime), !.recv = Kept(@, curtime)]
    BY <1>1, <1>2, <1>3
  <2>2. conn'[f].owner = conn[f].owner /\ conn'[f].last = conn[f].last
    BY <1>2, <2>1 DEF Connection
  <2>3. conn'[f] # None
    <3>1. curtime \in Int
      BY NetHogsAssumption DEF OwnedInv, TypeOK, Time
    <3>2. Kept(conn[f].sent, curtime) \in Seq(Node) /\ Kept(conn[f].recv, curtime) \in Seq(Node)
      BY <1>2, <3>1, KeptType DEF Connection
    <3>3. conn'[f] \in Connection
      BY <1>2, <2>1, <3>2 DEF Connection
    <3> QED
      BY <3>3, NoneAssumption
  <2> QED
    BY <1>2, <2>2, <2>3 DEF Live
<1>4. ASSUME NEW f \in Live'
      PROVE  f \in Live /\ conn'[f].owner = conn[f].owner /\ conn'[f].last = conn[f].last
  <2>1. f \in Flows /\ Settled(f) # None
    BY <1>1 DEF Live
  <2>2. f \in Live
    BY <2>1 DEF Settled, Live
  <2> QED
    BY <1>2, <1>3, <2>1, <2>2
<1>5. ASSUME NEW o \in procs, ConnsOf(o) # {} PROVE o \in procs'
  BY <1>1, <1>5, RemovedHasNoConnections DEF ConnsOf
<1> QED
  BY <1>3, <1>4, <1>5

\* All other steps leave the lists, the records and what was told alone.
LEMMA OtherSteps ==
  ASSUME Kernel \/ Tick \/ DispatchIdle \/ EndDispatch \/ UNCHANGED vars
  PROVE  UNCHANGED <<conn, procs, pidOf, record, told, heard, seen>>
BY DEF Kernel, Connect, Inherit, Release, Tick, DispatchIdle, EndDispatch,
       vars, lists, clocks, history

-----------------------------------------------------------------------------
(***************************************************************************)
(* The speeds that were told.                                              *)
(***************************************************************************)

\* A process without connections has the speed 0.
LEMMA SilentSpeed ==
  ASSUME NEW o, ConnsOf(o)' = {}
  PROVE  Speed(Figures(o)) = 0
<1> DEFINE mine == {f \in Flows : conn'[f] # None /\ conn'[f].owner = o}
<1>1. mine = {}
  BY DEF ConnsOf, Live
<1>2. /\ SumFunction([f \in mine |-> Bytes(conn'[f].sent)]) = 0
      /\ SumFunction([f \in mine |-> Bytes(conn'[f].recv)]) = 0
  BY <1>1, SumEmpty DEF SumFunction
<1>3. U32(0) = 0
  BY PackListAssumption DEF U32
<1> QED
  BY <1>2, <1>3 DEF Speed, Figures

\* who is shown to send or to receive has a connection
SpeedsHaveConnections ==
  \A o \in procs \cap DOMAIN record : Speed(record[o]) # 0 => ConnsOf(o) # {}

ToldInv == OwnedInv /\ SpeedsHaveConnections /\ ToldSpeedIsLive

LEMMA PacketTold ==
  ASSUME ToldInv, NEW f \in Flows, NEW d \in Dirs, NEW n \in Sizes,
         NEW ts \in (clock - Lag) .. clock, Packet(f, d, n, ts)
  PROVE  SpeedsHaveConnections' /\ ToldSpeedIsLive'
<1>1. OwnedInv /\ UNCHANGED <<record, told>>
  BY DEF ToldInv, Packet, AddToConnection, GetProcess
<1>2. PICK g \in Flows, o \in procs' :
        /\ procs \subseteq procs' /\ procs' \subseteq procs \cup {o}
        /\ \A q \in procs : pidOf'[q] = pidOf[q]
        /\ g \in Live' /\ conn'[g].owner = o
        /\ g \in Live => conn[g].owner = o
        /\ \A h \in Flows : h # g => conn'[h] = conn[h]
  BY <1>1, PacketReaches
<1>3. ConnsOf(o)' # {}
  BY <1>2 DEF ConnsOf
<1>4. \A q \in procs : ConnsOf(q) # {} => ConnsOf(q)' # {}
  BY <1>2 DEF ConnsOf, Live
<1>5. SpeedsHaveConnections'
  BY <1>1, <1>2, <1>3, <1>4 DEF ToldInv, SpeedsHaveConnections
<1>6. ToldSpeedIsLive'
  BY <1>1, <1>2 DEF ToldInv, ToldSpeedIsLive
<1> QED
  BY <1>5, <1>6

LEMMA UpdateTold ==
  ASSUME GapsAreShort, ToldInv, Update
  PROVE  SpeedsHaveConnections' /\ ToldSpeedIsLive'
<1>1. /\ OwnedInv /\ record' = [o \in procs' |-> Figures(o)] /\ procs' \subseteq procs
      /\ \A o \in procs' : o \in Objs /\ pidOf'[o] = pidOf[o]
      /\ told' = [p \in Pids |-> Tell(p)]
  BY DEF ToldInv, OwnedInv, TypeOK, Update
<1>2. SpeedsHaveConnections'
  BY <1>1, SilentSpeed DEF SpeedsHaveConnections
<1>3. ASSUME NEW p \in Pids, told'[p] # 0
      PROVE  \E o \in procs' \cap DOMAIN record' : pidOf'[o] = p /\ told'[p] = Speed(record'[o])
  <2>1. CASE \E o \in procs' : pidOf'[o] = p /\ (o \in DOMAIN record => record'[o] # record[o])
    <3> DEFINE one == CHOOSE o \in procs' : pidOf'[o] = p
    <3>1. one \in procs' /\ pidOf'[one] = p
      BY <2>1
    <3>2. told'[p] = Speed(record'[one])
      BY <1>1, <2>1 DEF Tell
    <3> QED
      BY <1>1, <3>1, <3>2
  <2>2. CASE ~\E o \in procs' : pidOf'[o] = p /\ (o \in DOMAIN record => record'[o] # record[o])
    <3>1. told'[p] = told[p]
      BY <1>1, <2>2 DEF Tell
    <3>2. PICK o \in procs \cap DOMAIN record : pidOf[o] = p /\ told[p] = Speed(record[o])
      BY <1>3, <3>1 DEF ToldInv, ToldSpeedIsLive
    <3>3. ConnsOf(o) # {}
      BY <1>3, <3>1, <3>2 DEF ToldInv, SpeedsHaveConnections
    <3>4. o \in procs'
      BY <1>1, <3>3, UpdateDrops
    <3>5. pidOf'[o] = p /\ record'[o] = record[o] /\ o \in DOMAIN record'
      BY <1>1, <2>2, <3>2, <3>4
    <3> QED
      BY <3>1, <3>2, <3>4, <3>5
  <2> QED
    BY <2>1, <2>2
<1> QED
  BY <1>2, <1>3 DEF ToldSpeedIsLive

LEMMA NextTold ==
  ASSUME GapsAreShort, ToldInv, [Next]_vars
  PROVE  ToldInv'
<1>0. OwnedInv'
  BY NextOwned DEF ToldInv
<1>1. CASE Capture
  BY <1>0, <1>1, PacketTold DEF Capture, ToldInv
<1>2. CASE Update
  BY <1>0, <1>2, UpdateTold DEF ToldInv
<1>3. CASE Kernel \/ Tick \/ DispatchIdle \/ EndDispatch \/ UNCHANGED vars
  BY <1>0, <1>3, OtherSteps DEF ToldInv, SpeedsHaveConnections, ToldSpeedIsLive, ConnsOf, Live
<1> QED
  BY <1>1, <1>2, <1>3 DEF Next

(***************************************************************************)
(* A subscriber that keeps what it was told for a pid shows a speed other  *)
(* than 0 only for a process that is in the list and has it, although the  *)
(* REMOVE callback reaches nobody: a process only goes after an update     *)
(* that found it without connections and told 0.                           *)
(***************************************************************************)
THEOREM ToldIsLive ==
  ASSUME GapsAreShort
  PROVE  Spec => []ToldSpeedIsLive
<1>1. Init => ToldInv
  BY InitOwned DEF Init, ToldInv, SpeedsHaveConnections, ToldSpeedIsLive
<1>2. ToldInv /\ [Next]_vars => ToldInv'
  BY NextTold
<1>3. ToldInv => ToldSpeedIsLive
  BY DEF ToldInv
<1> QED
  BY <1>1, <1>2, <1>3, PTL DEF Spec

-----------------------------------------------------------------------------
(***************************************************************************)
(* Idle processes.  With packets stamped in order, heard is the stamp of a *)
(* process' newest connection, until that has been dropped.                *)
(***************************************************************************)
InOrder == GapsAreShort /\ Lag = 0

HeardByConnections ==
  \A o \in procs \ {Unknown} :
    heard[o] <= seen - CONNTIMEOUT \/ \E f \in ConnsOf(o) : conn[f].last >= heard[o]

ConnectionsHeard ==
  /\ \A f \in Live : conn[f].last <= clock
  /\ \A o \in procs : \A f \in ConnsOf(o) : conn[f].last <= heard[o]

HeardInv ==
  /\ OwnedInv /\ HeardByConnections /\ ConnectionsHeard
  /\ curtime = 0 \/ curtime >= seen
  /\ seen >= StartTime

LEMMA Naturals ==
  ASSUME OwnedInv
  PROVE  /\ clock \in Nat /\ seen \in Nat /\ curtime \in Nat
         /\ CONNTIMEOUT \in Nat \ {0} /\ PROCESSTIMEOUT \in Nat \ {0} /\ StartTime \in Nat
         /\ \A f \in Live : conn[f].last \in Nat
         /\ \A o \in procs : heard[o] \in Nat
BY NetHogsAssumption DEF OwnedInv, TypeOK, Time, Live, Connection

LEMMA PacketHeard ==
  ASSUME InOrder, HeardInv, NEW f \in Flows, NEW d \in Dirs, NEW n \in Sizes,
         NEW ts \in (clock - Lag) .. clock, Packet(f, d, n, ts)
  PROVE  HeardByConnections' /\ ConnectionsHeard'
<1>1. ts = clock /\ UNCHANGED <<clock, seen>> /\ clock \in Nat
  BY Naturals DEF InOrder, HeardInv, Packet
<1>2. PICK g \in Flows, o \in procs' :
        /\ procs' \subseteq procs \cup {o}
        /\ g \in Live' /\ conn'[g].owner = o /\ conn'[g].last = ts
        /\ g \in Live => conn[g].owner = o
        /\ \A h \in Flows : h # g => conn'[h] = conn[h]
        /\ heard' = [heard EXCEPT ![o] = ts]
  BY PacketReaches DEF HeardInv
<1>3. o \in Objs /\ heard'[o] = ts /\ \A q \in procs : q # o => heard'[q] = heard[q]
  <2>1. TypeOK' /\ TypeOK
    BY NextType DEF HeardInv, OwnedInv, Next, Capture
  <2> QED
    BY <1>2, <2>1 DEF TypeOK
<1>4. \A h \in Live' : h # g => h \in Live /\ conn'[h] = conn[h]
  BY <1>2 DEF Live
<1>5. \A h \in Live' : conn'[h].last <= clock'
  BY <1>1, <1>2, <1>4 DEF HeardInv, ConnectionsHeard
<1>6. ASSUME NEW q \in procs', q # o
      PROVE  ConnsOf(q)' = ConnsOf(q) /\ \A h \in ConnsOf(q) : h # g
  BY <1>2, <1>4, <1>6 DEF ConnsOf, Live
<1>7. ASSUME NEW q \in procs', NEW h \in ConnsOf(q)' PROVE conn'[h].last <= heard'[q]
  <2>1. CASE q = o
    BY <1>1, <1>3, <1>5, <2>1 DEF ConnsOf
  <2>2. CASE q # o
    BY <1>2, <1>3, <1>4, <1>6, <1>7, <2>2 DEF HeardInv, ConnectionsHeard, ConnsOf
  <2> QED
    BY <2>1, <2>2
<1>8. ASSUME NEW q \in procs' \ {Unknown}
      PROVE  heard'[q] <= seen' - CONNTIMEOUT \/ \E h \in ConnsOf(q)' : conn'[h].last >= heard'[q]
  <2>1. CASE q = o
    BY <1>1, <1>2, <1>3, <2>1 DEF ConnsOf
  <2>2. CASE q # o
    <3>1. q \in procs /\ heard'[q] = heard[q] /\ \A h \in ConnsOf(q) : conn'[h] = conn[h]
      BY <1>2, <1>3, <1>6, <2>2 DEF ConnsOf, Live
    <3> QED
      BY <1>1, <1>6, <1>8, <2>2, <3>1 DEF HeardInv, HeardByConnections
  <2> QED
    BY <2>1, <2>2
<1> QED
  BY <1>5, <1>7, <1>8 DEF HeardByConnections, ConnectionsHeard

LEMMA UpdateHeard ==
  ASSUME InOrder, HeardInv, Update
  PROVE  HeardByConnections' /\ ConnectionsHeard'
<1>1. /\ GapsAreShort /\ OwnedInv /\ procs' \subseteq procs
      /\ UNCHANGED <<clock, curtime>> /\ seen' = IF curtime = 0 THEN seen ELSE curtime
      /\ \A o \in procs' : heard'[o] = heard[o]
  BY DEF InOrder, HeardInv, OwnedInv, TypeOK, Update
<1>2. \A f \in Live' : f \in Live /\ conn'[f].owner = conn[f].owner /\ conn'[f].last = conn[f].last
  BY <1>1, UpdateDrops
<1>3. ConnectionsHeard'
  BY <1>1, <1>2 DEF HeardInv, ConnectionsHeard, ConnsOf
<1>4. seen' >= seen /\ seen' \in Nat
  BY <1>1, Naturals DEF HeardInv
<1>5. ASSUME NEW o \in procs' \ {Unknown}
      PROVE  heard'[o] <= seen' - CONNTIMEOUT \/ \E f \in ConnsOf(o)' : conn'[f].last >= heard'[o]
  <2>1. CASE heard[o] <= seen - CONNTIMEOUT
    BY <1>1, <1>4, <1>5, <2>1, Naturals
  <2>2. ASSUME NEW f \in ConnsOf(o), conn[f].last >= heard[o]
        PROVE  heard'[o] <= seen' - CONNTIMEOUT \/ \E h \in ConnsOf(o)' : conn'[h].last >= heard'[o]
    <3>1. f \in Live /\ conn[f].owner = o /\ conn[f].last \in Nat /\ heard[o] \in Nat
      BY <1>1, <1>5, Naturals DEF ConnsOf
    <3>2. CASE Stalled(f)
      BY <1>1, <1>5, <2>2, <3>1, <3>2, Naturals DEF Stalled
    <3>3. CASE ~Stalled(f)
      BY <1>1, <1>5, <2>2, <3>1, <3>3, UpdateDrops DEF ConnsOf
    <3> QED
      BY <3>2, <3>3
  <2> QED
    BY <1>1, <1>5, <2>1, <2>2 DEF HeardInv, HeardByConnections
<1> QED
  BY <1>3, <1>5 DEF HeardByConnections

LEMMA NextHeard ==
  ASSUME InOrder, HeardInv, [Next]_vars
  PROVE  HeardInv'
<1>0. OwnedInv' /\ OwnedInv
  BY NextOwned DEF HeardInv, InOrder
<1>1. (curtime' = 0 \/ curtime' >= seen') /\ seen' >= StartTime
  <2>1. CASE Capture \/ DispatchIdle
    <3>1. curtime' = clock /\ seen' = seen
      BY <1>0, <2>1, Naturals DEF Capture, Packet, DispatchIdle, InOrder
    <3> QED
      BY <1>0, <3>1, Naturals DEF HeardInv, OwnedInv, ClocksClose
  <2>2. CASE Update
    BY <1>0, <2>2, Naturals DEF HeardInv, Update
  <2>3. CASE UNCHANGED <<curtime, seen>>
    BY <2>3 DEF HeardInv
  <2> QED
    BY <2>1, <2>2, <2>3 DEF Next, Kernel, Connect, Inherit, Release, Tick, EndDispatch, vars, clocks
<1>2. CASE Capture
  BY <1>0, <1>1, <1>2, PacketHeard DEF Capture, HeardInv
<1>3. CASE Update
  BY <1>0, <1>1, <1>3, UpdateHeard DEF HeardInv
<1>4. CASE Kernel \/ Tick \/ DispatchIdle \/ EndDispatch \/ UNCHANGED vars
  <2>1. UNCHANGED <<conn, procs, heard, seen>>
    BY <1>4, OtherSteps
  <2>2. clock' \in Nat /\ clock' >= clock
    BY <1>0, <1>4, Naturals DEF Kernel, Connect, Inherit, Release, Tick, DispatchIdle, EndDispatch,
                                vars, clocks
  <2>3. \A f \in Live : conn[f].last <= clock'
    BY <1>0, <2>2, Naturals DEF HeardInv, ConnectionsHeard
  <2> QED
    BY <1>0, <1>1, <2>1, <2>3 DEF HeardInv, HeardByConnections, ConnectionsHeard, ConnsOf, Live
<1> QED
  BY <1>2, <1>3, <1>4 DEF Next

LEMMA InitHeard ==
  ASSUME Init
  PROVE  HeardInv
<1>1. Live = {} /\ procs = {Unknown} /\ curtime = 0 /\ seen = StartTime /\ StartTime \in Nat
  BY NetHogsAssumption DEF Init, Live
<1> QED
  BY <1>1, InitOwned DEF HeardInv, HeardByConnections, ConnectionsHeard, ConnsOf

\* A process whose last packet is CONNTIMEOUT old at the last update has no
\* connections, and one without connections has heard nothing since.
LEMMA IdleHasNoConnections ==
  ASSUME HeardInv, NEW o \in procs, heard[o] <= seen - CONNTIMEOUT
  PROVE  ConnsOf(o) = {}
<1> SUFFICES ASSUME NEW f \in ConnsOf(o) PROVE FALSE
  OBVIOUS
<1>1. conn[f].last <= heard[o] /\ conn[f].last > seen - CONNTIMEOUT
  BY DEF HeardInv, ConnectionsHeard, OwnedInv, ConnectionsFresh, ConnsOf
<1>2. conn[f].last \in Nat /\ heard[o] \in Nat /\ seen \in Nat /\ CONNTIMEOUT \in Nat
  BY Naturals DEF HeardInv, ConnsOf
<1> QED
  BY <1>1, <1>2

LEMMA NoConnectionsNoPacket ==
  ASSUME NEW o, ConnsOf(o) = {}
  PROVE  LastPacket(o) = 0
<1>1. {0} \cup {conn[f].last : f \in ConnsOf(o)} = {0}
  OBVIOUS
<1>2. {0} \in SUBSET Nat /\ {0} # {} /\ IsFiniteSet({0})
  <2>1. IsFiniteSet({0})
    BY FS_Singleton
  <2> QED
    BY <2>1
<1>3. Max({0}) = 0
  BY <1>2, MaxOfNaturals
<1> QED
  BY <1>1, <1>3 DEF LastPacket

(***************************************************************************)
(* A Process is deleted only when nothing has been received for it for     *)
(* CONNTIMEOUT seconds, if packets are stamped in order: only with its     *)
(* last connection does its last packet become 0.                          *)
(***************************************************************************)
THEOREM OnlyIdleRemoved ==
  ASSUME InOrder
  PROVE  Spec => RemovedOnlyWhenIdle
<1>1. ASSUME HeardInv, [Next]_vars
      PROVE  [Updates => \A o \in procs \ procs' : heard[o] + CONNTIMEOUT <= curtime]_vars
  <2> SUFFICES ASSUME Updates, NEW o \in procs, o \notin procs'
               PROVE  heard[o] + CONNTIMEOUT <= curtime
    OBVIOUS
  <2>1. Update
    BY <1>1 DEF Updates, Next, Kernel, Connect, Inherit, Release, Tick, Capture, Packet,
                DispatchIdle, EndDispatch, vars
  <2>2. o \in Objs /\ o # Unknown /\ LastPacket(o) + PROCESSTIMEOUT <= curtime
    BY <1>1, <2>1 DEF Update, Removed, TimedOut, HeardInv, OwnedInv, TypeOK
  <2>3. ConnsOf(o) = {}
    BY <1>1, <2>1, UpdateDrops DEF HeardInv, InOrder
  <2>4. heard[o] <= seen - CONNTIMEOUT
    BY <1>1, <2>2, <2>3 DEF HeardInv, HeardByConnections
  <2>5. curtime >= seen
    <3>1. LastPacket(o) = 0
      BY <2>3, NoConnectionsNoPacket
    <3> QED
      BY <1>1, <2>2, <3>1, Naturals DEF HeardInv
  <2> QED
    BY <1>1, <2>4, <2>5, Naturals DEF HeardInv
<1> QED
  BY <1>1, InitHeard, NextHeard, PTL DEF Spec, RemovedOnlyWhenIdle

(***************************************************************************)
(* ... and at the latest by the update after the one that found it idle,   *)
(* if the clock has passed PROCESSTIMEOUT, as a clock that counts from     *)
(* 1970 has.                                                               *)
(***************************************************************************)
THEOREM IdleRemoved ==
  ASSUME InOrder, PROCESSTIMEOUT <= StartTime
  PROVE  Spec => IdleRemovedPromptly
<1>1. ASSUME HeardInv, [Next]_vars
      PROVE  [Updates /\ curtime # 0 =>
                \A o \in procs' \ {Unknown} : heard[o] > seen - CONNTIMEOUT]_vars
  <2> SUFFICES ASSUME Updates, curtime # 0, NEW o \in procs' \ {Unknown}
               PROVE  heard[o] > seen - CONNTIMEOUT
    OBVIOUS
  <2>1. Update
    BY <1>1 DEF Updates, Next, Kernel, Connect, Inherit, Release, Tick, Capture, Packet,
                DispatchIdle, EndDispatch, vars
  <2>2. o \in procs /\ ~(LastPacket(o) + PROCESSTIMEOUT <= curtime)
    BY <2>1 DEF Update, Removed, TimedOut
  <2>3. ASSUME heard[o] <= seen - CONNTIMEOUT PROVE FALSE
    <3>1. LastPacket(o) = 0
      BY <1>1, <2>2, <2>3, IdleHasNoConnections, NoConnectionsNoPacket
    <3> QED
      BY <1>1, <2>2, <3>1, Naturals DEF HeardInv
  <2> QED
    BY <1>1, <2>2, <2>3, Naturals DEF HeardInv
<1> QED
  BY <1>1, InitHeard, NextHeard, PTL DEF Spec, IdleRemovedPromptly

(***************************************************************************)
(* What an update reports.  The invariant behind it is a tally: for every  *)
(* second, the connections hold together the bytes that were captured      *)
(* after it, Carried(t) = Crossed(t), and their lists are in order, so     *)
(* that what an update drops is what is too old to be told.  First, what a *)
(* list holds of the packets stamped after a second.                       *)
(***************************************************************************)
Lens(pl) == [i \in DOMAIN pl |-> pl[i].len]
NewerThan(pl, t) == {i \in DOMAIN pl : pl[i].sec > t}
After(pl, t) == SumFunctionOnSet(Lens(pl), NewerThan(pl, t))

\* Lengths are natural numbers.
LEMMA LensAre ==
  ASSUME NEW pl \in Seq(Node)
  PROVE  /\ IsFiniteSet(DOMAIN pl) /\ \A i \in DOMAIN pl : Lens(pl)[i] = pl[i].len /\ Lens(pl)[i] \in Nat
         /\ \A t : NewerThan(pl, t) \in SUBSET (DOMAIN pl) /\ IsFiniteSet(NewerThan(pl, t))
<1>1. DOMAIN pl = 1 .. Len(pl) /\ Len(pl) \in Nat
  OBVIOUS
<1>2. IsFiniteSet(1 .. Len(pl))
  BY FS_Interval
<1>3. \A i \in DOMAIN pl : pl[i].len \in Nat
  BY <1>1, NodeTypes, PackListAssumption DEF Byte32
<1>4. \A t : NewerThan(pl, t) \in SUBSET (DOMAIN pl)
  BY DEF NewerThan
<1> QED
  BY <1>1, <1>2, <1>3, <1>4, FS_Subset DEF Lens

\* There is no more after a later second, and all of it after one before the first.
LEMMA AfterLess ==
  ASSUME NEW pl \in Seq(Node), NEW t \in Int
  PROVE  /\ After(pl, t) \in Nat
         /\ pl # <<>> /\ pl[1].sec > t => pl[1].len <= After(pl, t)
         /\ (\A i \in 1 .. Len(pl) : pl[i].sec > t) => After(pl, t) = SumFunction(Lens(pl))
<1> DEFINE w == Lens(pl)  S == DOMAIN pl  R == NewerThan(pl, t)
<1>1. IsFiniteSet(R) /\ R \in SUBSET S /\ \A i \in R : w[i] \in Nat
  BY LensAre
<1>2. After(pl, t) = SumFunctionOnSet(w, R)
  BY DEF After
<1>3. pl # <<>> /\ pl[1].sec > t => 1 \in R /\ w[1] = pl[1].len
  BY LensAre DEF NewerThan
<1>4. (\A i \in 1 .. Len(pl) : pl[i].sec > t) => SumFunction(Lens(pl)) = SumFunctionOnSet(w, R)
  <2>1. DOMAIN Lens(pl) = S /\ S = 1 .. Len(pl)
    BY DEF Lens
  <2>2. (\A i \in 1 .. Len(pl) : pl[i].sec > t) => R = S
    BY <2>1 DEF NewerThan
  <2> HIDE DEF R
  <2> QED
    BY <2>1, <2>2 DEF SumFunction
<1> HIDE DEF w, S, R
<1>5. SumFunctionOnSet(w, R) \in Nat
  BY <1>1, SumMonotone
<1>6. ASSUME 1 \in R PROVE w[1] <= SumFunctionOnSet(w, R)
  <2>1. SumFunctionOnSet(w, {1}) <= SumFunctionOnSet(w, R)
    BY <1>1, <1>6, SumMonotone
  <2>2. SumFunctionOnSet(w, {1}) = w[1] + SumFunctionOnSet(w, {1} \ {1}) /\ w[1] \in Nat
    <3>1. IsFiniteSet({1})
      BY FS_Singleton
    <3>2. IsFiniteSet({1}) /\ 1 \in {1} /\ \A x \in {1} : w[x] \in Int
      BY <1>1, <1>6, <3>1
    <3> QED
      BY <1>1, <1>6, <3>2, SumRemove
  <2>3. SumFunctionOnSet(w, {1} \ {1}) = 0
    <3>1. {1} \ {1} = {}
      OBVIOUS
    <3> QED
      BY <3>1, SumEmpty
  <2> QED
    BY <2>1, <2>2, <2>3
<1> QED
  BY <1>2, <1>3, <1>4, <1>5, <1>6

LEMMA NoneAfter ==
  ASSUME NEW pl \in Seq(Node), NEW t \in Int, \A i \in 1 .. Len(pl) : pl[i].sec <= t
  PROVE  After(pl, t) = 0
<1>1. NewerThan(pl, t) = {}
  <2>1. \A i \in DOMAIN pl : pl[i].sec \in Nat /\ pl[i].sec <= t
    BY NodeTypes
  <2> QED
    BY <2>1 DEF NewerThan
<1> QED
  BY <1>1, SumEmpty DEF After

\* Numbers that fit are not changed by the width.
LEMMA U32Fits ==
  ASSUME NEW x \in Nat, x < WORD
  PROVE  U32(x) = x
<1>1. WORD \in Nat \ {0}
  BY PackListAssumption
<1> QED
  BY <1>1 DEF U32

LEMMA BytesFit ==
  ASSUME NEW pl \in Seq(Node), NEW t \in Int, \A i \in 1 .. Len(pl) : pl[i].sec > t,
         After(pl, t) < WORD
  PROVE  Bytes(pl) = After(pl, t)
<1>1. Bytes(pl) = U32(After(pl, t)) /\ After(pl, t) \in Nat
  BY AfterLess DEF Bytes, Lens
<1> QED
  BY <1>1, U32Fits

(***************************************************************************)
(* PackList::add counts the packet and PackList::sumanddel what is left.   *)
(***************************************************************************)
LEMMA AfterAdd ==
  ASSUME NEW pl \in Seq(Node), NEW ts \in Nat, NEW n \in Byte32, NEW t \in Int,
         \A i \in 1 .. Len(pl) : pl[i].sec <= ts, After(pl, ts - PERIOD) + n < WORD
  PROVE  After(Add(pl, ts, n), t) = After(pl, t) + (IF ts > t THEN n ELSE 0)
<1> DEFINE new == Add(pl, ts, n)
<1>0. n \in Nat /\ n < WORD /\ DOMAIN pl = 1 .. Len(pl) /\ Len(pl) \in Nat
  BY PackListAssumption DEF Byte32
<1>1. CASE pl # <<>> /\ Head(pl).sec = ts
  <2>1. 1 \in DOMAIN pl /\ pl[1] \in Node /\ pl[1].sec = ts /\ Head(pl) = pl[1]
    BY <1>1
  <2>2. U32(pl[1].len + n) = pl[1].len + n
    <3>0. ts - PERIOD \in Int /\ pl[1].sec > ts - PERIOD
      BY <2>1, PackListAssumption
    <3>1. /\ pl[1].len \in Nat /\ pl[1].len <= After(pl, ts - PERIOD)
          /\ After(pl, ts - PERIOD) \in Nat
      BY <1>1, <2>1, <3>0, AfterLess, LensAre
    <3>2. pl[1].len + n \in Nat /\ pl[1].len + n < WORD
      BY <1>0, <3>1, PackListAssumption
    <3> QED
      BY <3>2, U32Fits
  <2>3. new = [pl EXCEPT ![1] = [pl[1] EXCEPT !.len = U32(pl[1].len + n)]]
    BY <1>1 DEF Add
  <2>4. /\ DOMAIN new = DOMAIN pl
        /\ new[1].sec = ts /\ new[1].len = pl[1].len + n
        /\ \A i \in DOMAIN pl : i # 1 => new[i] = pl[i]
    BY <2>1, <2>2, <2>3 DEF Node
  <2> DEFINE w == Lens(pl)  v == Lens(new)  S == NewerThan(pl, t)
  <2> HIDE DEF new
  <2>5. NewerThan(new, t) = S
    BY <2>1, <2>4 DEF NewerThan
  <2>6. /\ \A i \in DOMAIN pl : w[i] \in Nat /\ (i # 1 => v[i] = w[i])
        /\ v[1] = w[1] + n /\ w[1] \in Nat
    BY <1>0, <2>1, <2>4, LensAre DEF Lens
  <2>7. IsFiniteSet(S) /\ S \in SUBSET (DOMAIN pl)
    BY LensAre
  <2>8. \A x \in S : w[x] \in Int /\ v[x] \in Int /\ (x # 1 => v[x] = w[x])
    BY <1>0, <2>6, <2>7
  <2>9. After(new, t) = SumFunctionOnSet(v, S) /\ After(pl, t) = SumFunctionOnSet(w, S)
    BY <2>5 DEF After
  <2>10. 1 \in S <=> ts > t
    BY <2>1 DEF NewerThan
  <2> HIDE DEF w, v, S
  <2>11. CASE ts > t
    <3>1. /\ SumFunctionOnSet(w, S) \in Int
          /\ SumFunctionOnSet(v, S) = SumFunctionOnSet(w, S) - w[1] + v[1]
      BY <2>7, <2>8, <2>10, <2>11, SumAtOne
    <3>2. SumFunctionOnSet(v, S) = SumFunctionOnSet(w, S) + n
      BY <1>0, <2>6, <3>1
    <3> QED
      BY <2>9, <2>11, <3>2 DEF new
  <2>12. CASE ~(ts > t)
    <3>1. SumFunctionOnSet(w, S) = SumFunctionOnSet(v, S) /\ SumFunctionOnSet(w, S) \in Int
      <4>1. \A x \in S : w[x] \in Int /\ v[x] = w[x]
        BY <2>8, <2>10, <2>12
      <4> QED
        BY <2>7, <4>1, SumSame
    <3> QED
      BY <2>9, <2>12, <3>1 DEF new
  <2> QED
    BY <2>11, <2>12
<1>2. CASE ~(pl # <<>> /\ Head(pl).sec = ts)
  <2>1. new = <<[sec |-> ts, len |-> n]>> \o pl
    BY <1>2 DEF Add
  <2>2. /\ Len(new) = Len(pl) + 1 /\ DOMAIN new = 1 .. Len(pl) + 1
        /\ new[1] = [sec |-> ts, len |-> n]
        /\ \A i \in 1 .. Len(pl) : new[i + 1] = pl[i]
        /\ new \in Seq(Node)
    <3>1. [sec |-> ts, len |-> n] \in Node
      BY DEF Node
    <3> QED
      BY <2>1, <3>1
  <2> HIDE DEF new
  <2> DEFINE w == Lens(pl)  v == Lens(new)  S == NewerThan(pl, t)  N == NewerThan(new, t)
             name == [i \in S |-> i + 1]  Z == {name[i] : i \in S}
  <2>3. /\ IsFiniteSet(S) /\ S \in SUBSET (1 .. Len(pl)) /\ \A i \in S : w[i] \in Int
    BY <1>0, LensAre
  <2>4. /\ \A i \in S : name[i] = i + 1 /\ name[i] \in DOMAIN new /\ new[name[i]] = pl[i]
    BY <2>2, <2>3
  <2>5. \A i \in S : v[name[i]] = w[i]
    BY <1>0, <2>2, <2>3, <2>4 DEF Lens
  <2>6. \A i, j \in S : name[i] = name[j] => i = j
    BY <2>3
  <2>7. N = Z \cup (IF ts > t THEN {1} ELSE {}) /\ 1 \notin Z
    <3>1. ASSUME NEW k \in N, k # 1 PROVE k \in Z
      <4>1. k \in 1 .. Len(pl) + 1 /\ new[k].sec > t
        BY <2>2 DEF NewerThan
      <4>2. k - 1 \in 1 .. Len(pl) /\ (k - 1) + 1 = k
        BY <1>0, <3>1, <4>1
      <4>3. k - 1 \in S
        BY <1>0, <2>2, <4>1, <4>2 DEF NewerThan
      <4>4. name[k - 1] = k
        BY <4>2, <4>3
      <4> QED
        BY <4>3, <4>4
    <3>2. \A i \in S : name[i] \in N
      BY <2>4 DEF NewerThan
    <3>3. 1 \in N <=> ts > t
      <4>1. 1 \in DOMAIN new /\ new[1].sec = ts
        BY <1>0, <2>2
      <4> QED
        BY <4>1 DEF NewerThan
    <3>4. 1 \notin Z
      BY <2>3
    <3> HIDE DEF N, S, name
    <3> QED
      BY <3>1, <3>2, <3>3, <3>4
  <2>8. After(new, t) = SumFunctionOnSet(v, N) /\ After(pl, t) = SumFunctionOnSet(w, S)
    BY DEF After
  <2>9. IsFiniteSet(N) /\ (\A i \in N : v[i] \in Int) /\ (1 \in N => v[1] = n)
    <3>1. IsFiniteSet(N) /\ \A i \in N : v[i] \in Int
      BY <2>2, LensAre
    <3>2. 1 \in DOMAIN new /\ v[1] = n
      BY <1>0, <2>2 DEF Lens
    <3> QED
      BY <3>1, <3>2
  <2> HIDE DEF w, v, S, N, name
  <2>10. SumFunctionOnSet(v, Z) = SumFunctionOnSet(w, S)
    <3>1. (\A i \in S : name[i] \in Z) /\ (\A k \in Z : \E i \in S : k = name[i])
      OBVIOUS
    <3> HIDE DEF Z
    <3>2. Renamed(name, S, w, Z, v)
      BY <2>3, <2>5, <2>6, <3>1 DEF Renamed
    <3> QED
      BY <2>3, <3>2, SumRenamed
  <2> HIDE DEF Z
  <2>11. CASE ts > t
    <3>1. 1 \in N /\ N \ {1} = Z
      BY <2>7, <2>11
    <3>2. SumFunctionOnSet(v, N) = v[1] + SumFunctionOnSet(v, N \ {1}) /\ SumFunctionOnSet(v, N \ {1}) \in Int
      BY <2>9, <3>1, SumRemove
    <3>a. SumFunctionOnSet(v, N \ {1}) = SumFunctionOnSet(w, S) /\ v[1] = n
      BY <2>9, <2>10, <3>1, Zenon
    <3>3. SumFunctionOnSet(v, N) = SumFunctionOnSet(w, S) + n
      BY <1>0, <3>2, <3>a
    <3> QED
      BY <2>8, <2>11, <3>3 DEF new
  <2>12. CASE ~(ts > t)
    <3>1. N = Z /\ After(pl, t) \in Nat
      BY <2>7, <2>12, AfterLess
    <3> QED
      BY <2>8, <2>10, <2>12, <3>1 DEF new
  <2> QED
    BY <2>11, <2>12
<1> QED
  BY <1>1, <1>2

Later(t, cut) == IF t > cut THEN t ELSE cut

LEMMA AfterKept ==
  ASSUME NEW pl \in Seq(Node), NEW now \in Int, NewestFirst(pl), NEW t \in Int
  PROVE  After(Kept(pl, now), t) = After(pl, Later(t, now - PERIOD))
<1> USE DEF Later
<1> DEFINE new == Kept(pl, now)  cut == IF t > now - PERIOD THEN t ELSE now - PERIOD
<1>1. /\ new \in Seq(Node) /\ Len(new) \in 0 .. Len(pl)
      /\ \A i \in 1 .. Len(pl) :
           IF i <= Len(new) THEN new[i] = pl[i] /\ pl[i].sec > now - PERIOD
                            ELSE pl[i].sec <= now - PERIOD
  BY KeptType, KeptDropsOnlyOldPackets
<1>2. DOMAIN new = 1 .. Len(new) /\ DOMAIN pl = 1 .. Len(pl) /\ PERIOD \in Nat
      /\ \A i \in 1 .. Len(pl) : pl[i].sec \in Nat
  BY <1>1, NodeTypes, PackListAssumption
<1>3. cut \in Int
  BY <1>2
<1>4. Kept(pl, now) = new /\ cut = IF t > now - PERIOD THEN t ELSE now - PERIOD
  OBVIOUS
<1> HIDE DEF new, cut
<1> DEFINE w == Lens(new)  v == Lens(pl)  S == NewerThan(new, t)  R == NewerThan(pl, cut)
<1>5. S = R
  <2>1. ASSUME NEW i \in S PROVE i \in R
    <3>1. i \in 1 .. Len(new) /\ new[i].sec > t
      BY <1>2 DEF NewerThan
    <3>2. i \in 1 .. Len(pl) /\ i <= Len(new)
      BY <1>1, <3>1
    <3>3. pl[i].sec > t /\ pl[i].sec > now - PERIOD
      BY <1>1, <3>1, <3>2
    <3> QED
      BY <1>2, <1>4, <3>2, <3>3 DEF NewerThan
  <2>2. ASSUME NEW i \in R PROVE i \in S
    <3>1. i \in 1 .. Len(pl) /\ pl[i].sec > cut /\ pl[i].sec \in Nat
      BY <1>2 DEF NewerThan
    <3>2. pl[i].sec > t /\ pl[i].sec > now - PERIOD
      BY <1>2, <1>4, <3>1
    <3>3. i <= Len(new) /\ new[i] = pl[i]
      BY <1>1, <1>2, <3>1, <3>2
    <3>4. i \in 1 .. Len(new)
      BY <1>1, <3>1, <3>3
    <3> QED
      BY <1>2, <3>2, <3>3, <3>4 DEF NewerThan
  <2> QED
    BY <2>1, <2>2
<1>6. IsFiniteSet(S) /\ \A i \in S : w[i] \in Int /\ v[i] = w[i]
  <2>1. IsFiniteSet(S) /\ \A i \in S : i \in DOMAIN new /\ w[i] \in Nat /\ w[i] = new[i].len
    BY <1>1, LensAre
  <2>2. \A i \in DOMAIN new : i \in DOMAIN pl /\ new[i] = pl[i]
    BY <1>1, <1>2
  <2>3. \A i \in DOMAIN pl : v[i] = pl[i].len
    BY LensAre
  <2> QED
    BY <2>1, <2>2, <2>3
<1>7. After(new, t) = SumFunctionOnSet(w, S) /\ After(pl, cut) = SumFunctionOnSet(v, R)
  BY DEF After
<1> HIDE DEF w, v, S, R
<1>8. SumFunctionOnSet(w, S) = SumFunctionOnSet(v, S)
  BY <1>6, SumSame
<1> QED
  BY <1>4, <1>5, <1>7, <1>8

(***************************************************************************)
(* The tally of bytes: for every second, the connections hold together     *)
(* what was captured after it.                                             *)
(***************************************************************************)
Newer(t) == {s \in Time : s > t}
OnWire(t) == [f \in Flows |-> SumFunctionOnSet(wire[f], Newer(t))]
InHand(c, t) == IF c = None THEN 0 ELSE After(c.sent, t) + After(c.recv, t)
Carried(t) == SumFunctionOnSet([f \in Flows |-> InHand(conn[f], t)], Flows)

Sorted(pl, last) == NewestFirst(pl) /\ \A i \in 1 .. Len(pl) : pl[i].sec <= last
StampsInOrder ==
  \A f \in Live : Sorted(conn[f].sent, conn[f].last) /\ Sorted(conn[f].recv, conn[f].last)

Tallied == \A t \in Int : Carried(t) = Crossed(t)

TallyInv ==
  /\ HeardInv /\ StampsInOrder /\ Tallied
  /\ IsFiniteSet(procs) /\ wire \in [Flows -> [Time -> Nat]]

LEMMA CrossedIs ==
  \A t : /\ Crossed(t) = SumFunctionOnSet(OnWire(t), Flows)
         /\ Crossed(t)' = SumFunctionOnSet(OnWire(t)', Flows)
BY DEF Crossed, SumFunction, OnWire, Newer

\* What crosses in a second, and what leaves the window.
LEMMA NewerSum ==
  ASSUME NEW h \in [Time -> Nat], NEW t \in Int
  PROVE  /\ SumFunctionOnSet(h, Newer(t)) \in Nat
         /\ IsFiniteSet(Newer(t)) /\ Newer(t) \in SUBSET Time
<1>1. IsFiniteSet(Time)
  BY NetHogsAssumption, FS_Interval DEF Time
<1>2. Newer(t) \in SUBSET Time
  BY DEF Newer
<1>3. IsFiniteSet(Newer(t))
  BY <1>1, <1>2, FS_Subset
<1>4. \A s \in Newer(t) : h[s] \in Nat
  BY <1>2
<1> QED
  BY <1>2, <1>3, <1>4, SumMonotone

LEMMA NewerMore ==
  ASSUME NEW h \in [Time -> Nat], NEW t \in Int, NEW ts \in Time, NEW n \in Nat
  PROVE  SumFunctionOnSet([h EXCEPT ![ts] = @ + n], Newer(t)) =
         SumFunctionOnSet(h, Newer(t)) + (IF ts > t THEN n ELSE 0)
<1> DEFINE S == Newer(t)  g == [h EXCEPT ![ts] = @ + n]
<1>0. \A s \in Time : g[s] = IF s = ts THEN h[s] + n ELSE h[s]
  OBVIOUS
<1> HIDE DEF g
<1>1. IsFiniteSet(S) /\ S \in SUBSET Time /\ SumFunctionOnSet(h, S) \in Nat
  BY NewerSum
<1>2. \A s \in S : h[s] \in Int /\ g[s] \in Int /\ (s # ts => g[s] = h[s])
  BY <1>0, <1>1
<1>3. g[ts] = h[ts] + n /\ h[ts] \in Nat /\ (ts \in S <=> ts > t)
  BY <1>0 DEF Newer
<1> HIDE DEF S, g
<1>4. CASE ts > t
  <2>0. ts \in S
    BY <1>3, <1>4
  <2>1. SumFunctionOnSet(g, S) = SumFunctionOnSet(h, S) - h[ts] + g[ts]
    BY <1>1, <1>2, <2>0, SumAtOne
  <2>2. SumFunctionOnSet(g, S) = SumFunctionOnSet(h, S) + n
    BY <1>1, <1>3, <2>1
  <2> QED
    BY <1>4, <2>2 DEF S, g
<1>5. CASE ~(ts > t)
  <2>1. \A s \in S : h[s] \in Int /\ g[s] = h[s]
    BY <1>2, <1>3, <1>5
  <2>2. SumFunctionOnSet(g, S) = SumFunctionOnSet(h, S)
    BY <1>1, <2>1, SumSame
  <2> QED
    BY <1>1, <1>5, <2>2 DEF S, g
<1> QED
  BY <1>4, <1>5

LEMMA NewerLess ==
  ASSUME NEW h \in [Time -> Nat], NEW t \in Int, NEW cut \in Int, NEW g,
         g = [s \in Time |-> IF s <= cut THEN 0 ELSE h[s]]
  PROVE  SumFunctionOnSet(g, Newer(t)) = SumFunctionOnSet(h, Newer(Later(t, cut)))
<1> DEFINE S == Newer(t)  R == Newer(Later(t, cut))
<1>1. IsFiniteSet(S) /\ S \in SUBSET Time /\ IsFiniteSet(R) /\ R \in SUBSET Time
  BY NewerSum DEF Later
<1>2. \A s \in Time : s \in Int
  BY NetHogsAssumption DEF Time
<1>3. R \in SUBSET S /\ \A s \in S : s \in R <=> ~(s <= cut)
  BY <1>2 DEF Newer, Later
<1>4. \A s \in S : g[s] \in Int /\ (s \notin R => g[s] = 0)
  BY <1>1, <1>3
<1>5. \A s \in R : g[s] \in Int /\ h[s] = g[s]
  BY <1>1, <1>3
<1> HIDE DEF S, R
<1>6. SumFunctionOnSet(g, S) = SumFunctionOnSet(g, R)
  BY <1>1, <1>3, <1>4, SumZeros
<1>7. SumFunctionOnSet(g, R) = SumFunctionOnSet(h, R)
  BY <1>1, <1>5, SumSame
<1> QED
  BY <1>6, <1>7 DEF S, R

\* What one connection holds is part of what all hold.
LEMMA InHandIs ==
  ASSUME NEW c \in Connection \cup {None}, NEW t \in Int
  PROVE  InHand(c, t) \in Nat
<1>1. CASE c = None
  BY <1>1 DEF InHand
<1>2. CASE c # None
  <2>1. c.sent \in Seq(Node) /\ c.recv \in Seq(Node)
    BY <1>2 DEF Connection
  <2>2. After(c.sent, t) \in Nat /\ After(c.recv, t) \in Nat
    BY <2>1, AfterLess
  <2> QED
    BY <1>2, <2>2 DEF InHand
<1> QED
  BY <1>1, <1>2

LEMMA CarriedHas ==
  ASSUME TypeOK, NEW t \in Int, NEW g \in Flows
  PROVE  InHand(conn[g], t) \in Nat /\ Carried(t) \in Nat /\ InHand(conn[g], t) <= Carried(t)
<1> DEFINE w == [f \in Flows |-> InHand(conn[f], t)]
<1>1. \A f \in Flows : w[f] \in Nat /\ w[f] = InHand(conn[f], t)
  BY InHandIs DEF TypeOK
<1>2. Carried(t) = SumFunctionOnSet(w, Flows)
  BY DEF Carried
<1>3. IsFiniteSet(Flows)
  BY NetHogsAssumption
<1> HIDE DEF w
<1>4. SumFunctionOnSet(w, {g}) <= SumFunctionOnSet(w, Flows) /\ SumFunctionOnSet(w, Flows) \in Nat
  BY <1>1, <1>3, SumMonotone
<1>5. SumFunctionOnSet(w, {g}) = w[g]
  <2>0. IsFiniteSet({g})
    BY FS_Singleton
  <2>1. IsFiniteSet({g}) /\ g \in {g} /\ (\A x \in {g} : w[x] \in Int) /\ {g} \ {g} = {}
    BY <1>1, <2>0
  <2>2. SumFunctionOnSet(w, {g}) = w[g] + SumFunctionOnSet(w, {g} \ {g})
    BY <2>1, SumRemove
  <2>3. SumFunctionOnSet(w, {g} \ {g}) = 0
    BY <2>1, SumEmpty
  <2> QED
    BY <1>1, <2>2, <2>3
<1> QED
  BY <1>1, <1>2, <1>4, <1>5

-----------------------------------------------------------------------------
\* A packet is put on one Connection, an old one or one that is empty.
LEMMA PacketPuts ==
  ASSUME OwnedInv, NEW f \in Flows, NEW d \in Dirs, NEW n \in Sizes,
         NEW ts \in (clock - Lag) .. clock, Packet(f, d, n, ts)
  PROVE  \E g \in Flows, c \in Connection :
           /\ conn'[g] = WithPacket(c, d, n, ts)
           /\ \/ g \in Live /\ c = conn[g]
              \/ g \notin Live /\ c.sent = <<>> /\ c.recv = <<>>
           /\ \A h \in Flows : h # g => conn'[h] = conn[h]
<1>1. ts \in Time /\ n \in Byte32
  BY NetHogsAssumption DEF OwnedInv, TypeOK, Time
<1>2. PICK g \in FindConnection(f) :
        IF g = None THEN GetProcess(f, d, n, ts) ELSE AddToConnection(g, d, n, ts)
  BY DEF Packet
<1>3. CASE g # None
  <2>1. g \in Live /\ g \in Flows /\ conn[g] \in Connection
    BY <1>2, <1>3 DEF FindConnection, Live, OwnedInv, TypeOK
  <2>2. conn' = [conn EXCEPT ![g] = WithPacket(@, d, n, ts)]
    BY <1>2, <1>3 DEF AddToConnection
  <2>3. conn'[g] = WithPacket(conn[g], d, n, ts) /\ \A h \in Flows : h # g => conn'[h] = conn[h]
    BY <2>1, <2>2 DEF OwnedInv, TypeOK
  <2> QED
    BY <2>1, <2>3
<1>4. CASE g = None
  <2>1. f \notin Live
    BY <1>2, <1>4, NetHogsAssumption DEF FindConnection
  <2>2. PICK o \in Objs : conn' = [conn EXCEPT ![f] = WithPacket(NewConnection(o, ts), d, n, ts)]
    BY <1>2, <1>4 DEF GetProcess
  <2>3. NewConnection(o, ts) \in Connection
    BY <1>1, NewConnectionType
  <2>4. NewConnection(o, ts).sent = <<>> /\ NewConnection(o, ts).recv = <<>>
    BY DEF NewConnection
  <2>5. /\ conn'[f] = WithPacket(NewConnection(o, ts), d, n, ts)
        /\ \A h \in Flows : h # f => conn'[h] = conn[h]
    BY <2>2 DEF OwnedInv, TypeOK
  <2> QED
    BY <2>1, <2>3, <2>4, <2>5
<1> QED
  BY <1>3, <1>4

LEMMA AddSorted ==
  ASSUME NEW pl \in Seq(Node), NEW ts \in Nat, NEW n \in Byte32, Sorted(pl, ts)
  PROVE  Sorted(Add(pl, ts, n), ts)
<1>1. NewestFirst(pl) /\ \A i \in 1 .. Len(pl) : pl[i].sec <= ts
  BY DEF Sorted
<1>2. pl # <<>> => Head(pl).sec <= ts
  BY <1>1
<1>3. NewestFirst(Add(pl, ts, n))
  BY <1>1, <1>2, AddKeepsNewestFirst
<1>4. \A i \in 1 .. Len(Add(pl, ts, n)) : Add(pl, ts, n)[i].sec <= ts
  <2>1. CASE pl # <<>> /\ Head(pl).sec = ts
    <3>1. /\ Len(Add(pl, ts, n)) = Len(pl)
          /\ \A i \in 1 .. Len(pl) : Add(pl, ts, n)[i].sec = pl[i].sec
      BY <2>1 DEF Add, Node
    <3> QED
      BY <1>1, <3>1
  <2>2. CASE ~ (pl # <<>> /\ Head(pl).sec = ts)
    <3> DEFINE new == <<[sec |-> ts, len |-> n]>> \o pl
    <3>1. /\ Len(new) = Len(pl) + 1
          /\ new[1].sec = ts
          /\ \A i \in 2 .. Len(new) : new[i] = pl[i - 1] /\ i - 1 \in 1 .. Len(pl)
      OBVIOUS
    <3>2. Add(pl, ts, n) = new
      BY <2>2 DEF Add
    <3> HIDE DEF new
    <3>3. \A i \in 1 .. Len(new) : i = 1 \/ i \in 2 .. Len(new)
      OBVIOUS
    <3> QED
      BY <1>1, <3>1, <3>2, <3>3
  <2> QED
    BY <2>1, <2>2
<1> QED
  BY <1>3, <1>4 DEF Sorted

\* It counts once, on the list of its direction.
LEMMA WithPacketCounts ==
  ASSUME NEW c \in Connection, NEW d \in {"sent", "recv"}, NEW n \in Byte32, NEW ts \in Time,
         Sorted(c.sent, ts), Sorted(c.recv, ts), InHand(c, ts - PERIOD) + n < WORD,
         NEW t \in Int
  PROVE  /\ InHand(WithPacket(c, d, n, ts), t) = InHand(c, t) + (IF ts > t THEN n ELSE 0)
         /\ Sorted(WithPacket(c, d, n, ts).sent, ts) /\ Sorted(WithPacket(c, d, n, ts).recv, ts)
<1> DEFINE p == WithPacket(c, d, n, ts)  inc == IF ts > t THEN n ELSE 0
<1>1. c.sent \in Seq(Node) /\ c.recv \in Seq(Node) /\ c # None
  BY NoneAssumption DEF Connection
<1>2. ts \in Nat /\ ts - PERIOD \in Int /\ n \in Nat
  BY NetHogsAssumption, PackListAssumption DEF Time, Byte32
<1>3. /\ After(c.sent, ts - PERIOD) \in Nat /\ After(c.recv, ts - PERIOD) \in Nat
      /\ After(c.sent, t) \in Nat /\ After(c.recv, t) \in Nat
  BY <1>1, <1>2, AfterLess
<1>4. After(c.sent, ts - PERIOD) + n < WORD /\ After(c.recv, ts - PERIOD) + n < WORD
  <2>1. InHand(c, ts - PERIOD) = After(c.sent, ts - PERIOD) + After(c.recv, ts - PERIOD)
    BY <1>1 DEF InHand
  <2> QED
    BY <1>2, <1>3, <2>1, PackListAssumption
<1>5. /\ After(Add(c.sent, ts, n), t) = After(c.sent, t) + inc
      /\ After(Add(c.recv, ts, n), t) = After(c.recv, t) + inc
  <2>1. (\A i \in 1 .. Len(c.sent) : c.sent[i].sec <= ts) /\ (\A i \in 1 .. Len(c.recv) : c.recv[i].sec <= ts)
    BY DEF Sorted
  <2> QED
    BY <1>1, <1>2, <1>4, <2>1, AfterAdd
<1>6. Sorted(Add(c.sent, ts, n), ts) /\ Sorted(Add(c.recv, ts, n), ts)
  BY <1>1, <1>2, AddSorted
<1>7. p # None
  BY WithPacketType, NoneAssumption
<1>8. inc \in Nat
  BY <1>2
<1>9. /\ InHand(p, t) = After(p.sent, t) + After(p.recv, t)
      /\ InHand(c, t) = After(c.sent, t) + After(c.recv, t)
  BY <1>1, <1>7 DEF InHand
<1>10. CASE d = "sent"
  <2>1. p.sent = Add(c.sent, ts, n) /\ p.recv = c.recv
    BY <1>10 DEF WithPacket, Connection
  <2> HIDE DEF p, inc
  <2>2. InHand(p, t) = InHand(c, t) + inc
    BY <1>3, <1>5, <1>8, <1>9, <2>1
  <2> QED
    BY <1>6, <2>1, <2>2 DEF p, inc
<1>11. CASE d = "recv"
  <2>1. p.recv = Add(c.recv, ts, n) /\ p.sent = c.sent
    BY <1>11 DEF WithPacket, Connection
  <2> HIDE DEF p, inc
  <2>2. InHand(p, t) = InHand(c, t) + inc
    BY <1>3, <1>5, <1>8, <1>9, <2>1
  <2> QED
    BY <1>6, <2>1, <2>2 DEF p, inc
<1> QED
  BY <1>10, <1>11

LEMMA PacketTallied ==
  ASSUME InOrder, TallyInv, NEW f \in Flows, NEW d \in Dirs, NEW n \in Sizes,
         NEW ts \in (clock - Lag) .. clock, Packet(f, d, n, ts), TypeOK', WindowFits'
  PROVE  Tallied' /\ StampsInOrder' /\ wire' \in [Flows -> [Time -> Nat]]
<1> DEFINE inc(t) == IF ts > t THEN n ELSE 0
<1>1. /\ ts = clock /\ ts \in Time /\ ts \in Nat /\ n \in Byte32 /\ n \in Nat
      /\ TypeOK /\ OwnedInv /\ d \in {"sent", "recv"} /\ ts - PERIOD \in Int /\ ts > ts - PERIOD
  <2>1. OwnedInv /\ TypeOK
    BY DEF TallyInv, HeardInv, OwnedInv
  <2>2. clock \in StartTime .. MaxTime /\ StartTime \in 1 .. MaxTime /\ MaxTime \in Nat
    BY <2>1, NetHogsAssumption DEF TypeOK
  <2>3. ts = clock /\ ts \in 0 .. MaxTime /\ ts \in Nat
    BY <2>2 DEF InOrder
  <2>4. n \in Byte32 /\ n \in Nat /\ d \in {"sent", "recv"}
    BY NetHogsAssumption, PackListAssumption DEF Byte32
  <2>5. ts - PERIOD \in Int /\ ts > ts - PERIOD
    BY <2>3, PackListAssumption
  <2> QED
    BY <2>1, <2>3, <2>4, <2>5 DEF Time
<1>2. PICK g \in Flows, c \in Connection :
        /\ conn'[g] = WithPacket(c, d, n, ts)
        /\ \/ g \in Live /\ c = conn[g]
           \/ g \notin Live /\ c.sent = <<>> /\ c.recv = <<>>
        /\ \A h \in Flows : h # g => conn'[h] = conn[h]
  BY <1>1, PacketPuts
<1>3. curtime' = ts /\ wire' = [wire EXCEPT ![f][ts] = @ + n]
  BY DEF Packet
<1>4. wire' \in [Flows -> [Time -> Nat]] /\ wire'[f] = [wire[f] EXCEPT ![ts] = @ + n]
      /\ \A h \in Flows : h # f => wire'[h] = wire[h]
  BY <1>1, <1>3 DEF TallyInv
<1>5. ASSUME NEW t \in Int PROVE Crossed(t)' = Crossed(t) + inc(t) /\ Crossed(t) \in Nat
  <2> DEFINE w == OnWire(t)  v == OnWire(t)'
  <2>1. \A h \in Flows : w[h] = SumFunctionOnSet(wire[h], Newer(t)) /\ v[h] = SumFunctionOnSet(wire'[h], Newer(t))
    BY DEF OnWire
  <2>2. wire \in [Flows -> [Time -> Nat]] /\ IsFiniteSet(Flows)
    BY NetHogsAssumption DEF TallyInv
  <2>3. \A h \in Flows : wire[h] \in [Time -> Nat] /\ wire'[h] \in [Time -> Nat]
    BY <1>4, <2>2
  <2>4. \A h \in Flows : w[h] \in Nat /\ v[h] \in Nat /\ (h # f => v[h] = w[h])
    <3>1. \A h \in Flows : SumFunctionOnSet(wire[h], Newer(t)) \in Nat
      BY <2>3, NewerSum
    <3>2. \A h \in Flows : SumFunctionOnSet(wire'[h], Newer(t)) \in Nat
      BY <2>3, NewerSum
    <3> HIDE DEF w, v
    <3> QED
      BY <1>4, <2>1, <3>1, <3>2
  <2>5. v[f] = w[f] + inc(t)
    <3>1. wire'[f] = [wire[f] EXCEPT ![ts] = @ + n] /\ wire[f] \in [Time -> Nat]
      BY <1>4, <2>3
    <3> DEFINE old == wire[f]
    <3>2. wire'[f] = [old EXCEPT ![ts] = @ + n] /\ old \in [Time -> Nat]
      BY <3>1
    <3>3. w[f] = SumFunctionOnSet(old, Newer(t)) /\ v[f] = SumFunctionOnSet(wire'[f], Newer(t))
      BY <2>1
    <3> HIDE DEF old, w, v
    <3>4. SumFunctionOnSet([old EXCEPT ![ts] = @ + n], Newer(t)) =
          SumFunctionOnSet(old, Newer(t)) + (IF ts > t THEN n ELSE 0)
      <4>1. ts \in Time /\ n \in Nat /\ old \in [Time -> Nat]
        BY <1>1, <3>2
      <4> HIDE DEF inc
      <4> QED
        BY <4>1, NewerMore
    <3> QED
      BY <3>2, <3>3, <3>4
  <2>6. Crossed(t) = SumFunctionOnSet(w, Flows) /\ Crossed(t)' = SumFunctionOnSet(v, Flows)
    BY CrossedIs
  <2>7. inc(t) \in Nat
    BY <1>1
  <2> HIDE DEF w, v, inc
  <2>8. SumFunctionOnSet(v, Flows) = SumFunctionOnSet(w, Flows) - w[f] + v[f]
    BY <2>2, <2>4, SumAtOne
  <2>9. SumFunctionOnSet(w, Flows) \in Nat
    BY <2>2, <2>4, SumMonotone
  <2> QED
    BY <2>4, <2>5, <2>6, <2>7, <2>8, <2>9
<1>6. Carried(ts - PERIOD) + n < WORD /\ Carried(ts - PERIOD) \in Nat
  <2>1. Crossed(ts - PERIOD)' < WORD
    BY <1>3 DEF WindowFits, Crossed
  <2>2. Carried(ts - PERIOD) = Crossed(ts - PERIOD)
    BY <1>1 DEF TallyInv, Tallied
  <2>3. Crossed(ts - PERIOD)' = Crossed(ts - PERIOD) + n /\ Crossed(ts - PERIOD) \in Nat
    BY <1>1, <1>5
  <2> QED
    BY <2>1, <2>2, <2>3
<1>7. ASSUME NEW t \in Int PROVE InHand(c, t) = InHand(conn[g], t) /\ InHand(c, t) \in Nat
  <2>1. CASE g \in Live
    BY <1>1, <1>2, <2>1, CarriedHas DEF Live
  <2>2. CASE g \notin Live
    <3>1. conn[g] = None /\ c # None /\ c.sent = <<>> /\ c.recv = <<>>
      BY <1>2, <2>2, NoneAssumption DEF Live
    <3>2. After(<<>>, t) = 0
      <4>1. <<>> \in Seq(Node) /\ \A i \in 1 .. Len(<<>>) : <<>>[i].sec <= t
        OBVIOUS
      <4> QED
        BY <4>1, NoneAfter
    <3> QED
      BY <3>1, <3>2 DEF InHand
  <2> QED
    BY <2>1, <2>2
<1>8. InHand(c, ts - PERIOD) + n < WORD
  <2>1. InHand(conn[g], ts - PERIOD) <= Carried(ts - PERIOD) /\ InHand(conn[g], ts - PERIOD) \in Nat
    BY <1>1, CarriedHas
  <2> QED
    BY <1>1, <1>6, <1>7, <2>1, PackListAssumption
<1>9. Sorted(c.sent, ts) /\ Sorted(c.recv, ts)
  <2>1. CASE g \in Live
    <3>1. Sorted(c.sent, c.last) /\ Sorted(c.recv, c.last) /\ c.last <= ts /\ c.last \in Nat
      BY <1>1, <1>2, <2>1, Naturals DEF TallyInv, StampsInOrder, HeardInv, ConnectionsHeard
    <3>2. c.sent \in Seq(Node) /\ c.recv \in Seq(Node)
      BY DEF Connection
    <3>3. /\ \A i \in 1 .. Len(c.sent) : c.sent[i].sec \in Nat
          /\ \A i \in 1 .. Len(c.recv) : c.recv[i].sec \in Nat
      BY <3>2, NodeTypes
    <3> QED
      BY <1>1, <3>1, <3>3 DEF Sorted
  <2>2. CASE g \notin Live
    BY <1>2, <2>2 DEF Sorted, NewestFirst
  <2> QED
    BY <2>1, <2>2
<1>10. ASSUME NEW t \in Int
       PROVE  /\ InHand(conn'[g], t) = InHand(conn[g], t) + inc(t)
              /\ Sorted(conn'[g].sent, ts) /\ Sorted(conn'[g].recv, ts)
  <2> DEFINE p == WithPacket(c, d, n, ts)
  <2>1. InHand(p, t) = InHand(c, t) + inc(t) /\ Sorted(p.sent, ts) /\ Sorted(p.recv, ts)
    BY <1>1, <1>8, <1>9, WithPacketCounts
  <2>2. conn'[g] = p /\ InHand(c, t) = InHand(conn[g], t)
    BY <1>2, <1>7
  <2> HIDE DEF p
  <2> QED
    BY <2>1, <2>2
<1>11. StampsInOrder'
  <2>1. conn'[g].last = ts
    BY <1>2, WithPacketFields
  <2>2. Sorted(conn'[g].sent, ts) /\ Sorted(conn'[g].recv, ts)
    BY <1>10
  <2> QED
    BY <1>2, <2>1, <2>2 DEF StampsInOrder, Live, TallyInv
<1>12. ASSUME NEW t \in Int PROVE Carried(t)' = Carried(t) + inc(t)
  <2> DEFINE w == [h \in Flows |-> InHand(conn[h], t)]  v == [h \in Flows |-> InHand(conn'[h], t)]
  <2>1. \A h \in Flows : w[h] = InHand(conn[h], t) /\ v[h] = InHand(conn'[h], t)
    OBVIOUS
  <2>2. \A h \in Flows : w[h] \in Nat /\ (h # g => v[h] = w[h])
    BY <1>1, <1>2, <2>1, CarriedHas
  <2>3. v[g] = w[g] + inc(t) /\ inc(t) \in Nat
    BY <1>1, <1>10, <2>1
  <2>4. Carried(t) = SumFunctionOnSet(w, Flows) /\ Carried(t)' = SumFunctionOnSet(v, Flows)
    BY DEF Carried, InHand
  <2>5. IsFiniteSet(Flows)
    BY NetHogsAssumption
  <2> HIDE DEF w, v, inc
  <2>6. \A h \in Flows : v[h] \in Nat
    BY <2>2, <2>3
  <2>7. /\ SumFunctionOnSet(w, Flows) \in Int
        /\ SumFunctionOnSet(v, Flows) = SumFunctionOnSet(w, Flows) - w[g] + v[g]
    BY <2>2, <2>5, <2>6, SumAtOne
  <2> QED
    BY <2>2, <2>3, <2>4, <2>7
<1>13. Tallied'
  <2>1. ASSUME NEW t \in Int PROVE Carried(t)' = Crossed(t)'
    BY <1>5, <1>12 DEF TallyInv, Tallied
  <2> QED
    BY <2>1 DEF Tallied
<1> QED
  BY <1>4, <1>11, <1>13

LEMMA SettledIs ==
  ASSUME GapsAreShort, OwnedInv, NEW f \in Live
  PROVE  /\ f \in Flows /\ conn[f] \in Connection
         /\ Settled(f) = IF Stalled(f) THEN None
                         ELSE [conn[f] EXCEPT !.sent = Kept(@, curtime), !.recv = Kept(@, curtime)]
<1>1. conn[f].owner \in procs /\ conn[f].owner \notin Removed
  BY RemovedHasNoConnections DEF OwnedInv, ConnectionsOwned
<1>2. conn[f].owner # Orphan
  BY <1>1, NetHogsAssumption DEF OwnedInv, TypeOK
<1> QED
  BY <1>1, <1>2 DEF Settled, Live, OwnedInv, TypeOK

LEMMA KeptSorted ==
  ASSUME NEW pl \in Seq(Node), NEW now \in Int, NEW last, Sorted(pl, last), NEW t \in Int
  PROVE  /\ Kept(pl, now) \in Seq(Node)
         /\ After(Kept(pl, now), t) = After(pl, Later(t, now - PERIOD))
         /\ Sorted(Kept(pl, now), last)
         /\ \A i \in 1 .. Len(Kept(pl, now)) : Kept(pl, now)[i].sec > now - PERIOD
<1> DEFINE new == Kept(pl, now)
<1>1. NewestFirst(pl)
  BY DEF Sorted
<1>2. /\ Len(new) \in 0 .. Len(pl)
      /\ \A i \in 1 .. Len(pl) :
           IF i <= Len(new) THEN new[i] = pl[i] /\ pl[i].sec > now - PERIOD
                            ELSE pl[i].sec <= now - PERIOD
  BY <1>1, KeptDropsOnlyOldPackets
<1> HIDE DEF new
<1>3. \A i \in 1 .. Len(new) : i \in 1 .. Len(pl) /\ new[i] = pl[i] /\ pl[i].sec > now - PERIOD
  BY <1>2
<1>4. Sorted(new, last) /\ \A i \in 1 .. Len(new) : new[i].sec > now - PERIOD
  BY <1>3 DEF Sorted, NewestFirst
<1> QED
  BY <1>1, <1>4, KeptType, AfterKept DEF new

\* An update takes from each connection what is older than the window.
LEMMA UpdateKeeps ==
  ASSUME InOrder, PERIOD <= CONNTIMEOUT, TallyInv, Update, NEW f \in Flows, NEW t \in Int
  PROVE  /\ curtime - PERIOD \in Int
         /\ InHand(conn'[f], t) = InHand(conn[f], Later(t, curtime - PERIOD))
         /\ conn'[f] # None =>
              /\ conn'[f] \in Connection
              /\ Sorted(conn'[f].sent, conn'[f].last) /\ Sorted(conn'[f].recv, conn'[f].last)
              /\ \A i \in 1 .. Len(conn'[f].sent) : conn'[f].sent[i].sec > curtime - PERIOD
              /\ \A i \in 1 .. Len(conn'[f].recv) : conn'[f].recv[i].sec > curtime - PERIOD
<1> DEFINE cut == curtime - PERIOD  e == Later(t, cut)  c == conn[f]
<1>1. GapsAreShort /\ OwnedInv /\ conn'[f] = Settled(f)
  BY DEF TallyInv, HeardInv, InOrder, Update
<1>2. curtime \in Nat /\ cut \in Int /\ e \in Int /\ e >= cut /\ CONNTIMEOUT \in Nat /\ PERIOD \in Nat
  BY <1>1, Naturals, PackListAssumption DEF Later
<1>3. CASE f \notin Live
  BY <1>1, <1>2, <1>3 DEF Live, Settled, InHand
<1>4. CASE f \in Live
  <2>1. /\ c \in Connection /\ c # None
        /\ conn'[f] = IF Stalled(f) THEN None
                      ELSE [c EXCEPT !.sent = Kept(@, curtime), !.recv = Kept(@, curtime)]
    BY <1>1, <1>4, SettledIs, NoneAssumption
  <2>2. c.sent \in Seq(Node) /\ c.recv \in Seq(Node) /\ c.last \in Nat
    BY <1>1, <1>4, <2>1, Naturals DEF Connection
  <2>3. Sorted(c.sent, c.last) /\ Sorted(c.recv, c.last)
    BY <1>4 DEF TallyInv, StampsInOrder
  <2>4. CASE Stalled(f)
    <3>1. c.last <= e
      BY <1>2, <2>2, <2>4 DEF Stalled
    <3>2. (\A i \in 1 .. Len(c.sent) : c.sent[i].sec <= e) /\ (\A i \in 1 .. Len(c.recv) : c.recv[i].sec <= e)
      <4>1. /\ \A i \in 1 .. Len(c.sent) : c.sent[i].sec \in Nat /\ c.sent[i].sec <= c.last
            /\ \A i \in 1 .. Len(c.recv) : c.recv[i].sec \in Nat /\ c.recv[i].sec <= c.last
        BY <2>2, <2>3, NodeTypes DEF Sorted
      <4> HIDE DEF c, e
      <4> QED
        BY <1>2, <2>2, <3>1, <4>1
    <3>3. After(c.sent, e) = 0 /\ After(c.recv, e) = 0
      BY <1>2, <2>2, <3>2, NoneAfter
    <3>4. InHand(c, e) = 0 /\ InHand(None, t) = 0
      BY <2>1, <3>3 DEF InHand
    <3> QED
      BY <1>2, <2>1, <2>4, <3>4
  <2>5. CASE ~Stalled(f)
    <3> DEFINE d == conn'[f]  now == curtime  out == c.sent  in == c.recv  last == c.last
    <3>1. /\ now \in Int /\ cut = now - PERIOD /\ out \in Seq(Node) /\ in \in Seq(Node)
          /\ Sorted(out, last) /\ Sorted(in, last) /\ InHand(c, e) = After(out, e) + After(in, e)
      BY <1>2, <2>1, <2>2, <2>3 DEF InHand
    <3>2. d = [c EXCEPT !.sent = Kept(out, now), !.recv = Kept(in, now)]
      BY <2>1, <2>5
    <3>3. e = Later(t, cut)
      OBVIOUS
    <3> HIDE DEF now, out, in, last, cut, e
    <3>4. /\ Kept(out, now) \in Seq(Node) /\ Sorted(Kept(out, now), last)
          /\ After(Kept(out, now), t) = After(out, e)
          /\ \A i \in 1 .. Len(Kept(out, now)) : Kept(out, now)[i].sec > cut
      BY <3>1, <3>3, KeptSorted
    <3>5. /\ Kept(in, now) \in Seq(Node) /\ Sorted(Kept(in, now), last)
          /\ After(Kept(in, now), t) = After(in, e)
          /\ \A i \in 1 .. Len(Kept(in, now)) : Kept(in, now)[i].sec > cut
      BY <3>1, <3>3, KeptSorted
    <3>6. /\ d \in Connection /\ d # None
          /\ d.sent = Kept(out, now) /\ d.recv = Kept(in, now) /\ d.last = last
      BY <2>1, <3>2, <3>4, <3>5, NoneAssumption DEF Connection, last
    <3>7. InHand(d, t) = InHand(c, e)
      BY <3>1, <3>4, <3>5, <3>6 DEF InHand
    <3>8. /\ Sorted(d.sent, d.last) /\ Sorted(d.recv, d.last)
          /\ \A i \in 1 .. Len(d.sent) : d.sent[i].sec > cut
          /\ \A i \in 1 .. Len(d.recv) : d.recv[i].sec > cut
      BY <3>4, <3>5, <3>6
    <3> QED
      BY <1>2, <3>6, <3>7, <3>8 DEF cut, e
  <2> QED
    BY <2>4, <2>5
<1> QED
  BY <1>3, <1>4

LEMMA UpdateTallied ==
  ASSUME InOrder, PERIOD <= CONNTIMEOUT, TallyInv, Update
  PROVE  Tallied' /\ StampsInOrder' /\ wire' \in [Flows -> [Time -> Nat]]
<1> DEFINE cut == curtime - PERIOD
<1>1. cut \in Int /\ TypeOK
  BY Naturals, PackListAssumption DEF TallyInv, HeardInv, OwnedInv
<1>2. wire' = [f \in Flows |-> [t \in Time |-> IF t <= cut THEN 0 ELSE wire[f][t]]]
  BY DEF Update
<1>3. wire \in [Flows -> [Time -> Nat]] /\ IsFiniteSet(Flows)
  BY NetHogsAssumption DEF TallyInv
<1>4. wire' \in [Flows -> [Time -> Nat]]
  BY <1>2, <1>3
<1>5. ASSUME NEW t \in Int
      PROVE  Crossed(t)' = Crossed(Later(t, cut)) /\ Carried(t)' = Carried(Later(t, cut))
  <2> DEFINE e == Later(t, cut)  w == OnWire(e)  v == OnWire(t)'
  <2>0. e \in Int
    BY <1>1 DEF Later
  <2>1. ASSUME NEW f \in Flows PROVE w[f] \in Int /\ v[f] = w[f]
    <3> DEFINE h == wire[f]  g == [s \in Time |-> IF s <= cut THEN 0 ELSE h[s]]
    <3>1. wire'[f] = g /\ h \in [Time -> Nat]
      BY <1>2, <1>3
    <3>2. w[f] = SumFunctionOnSet(h, Newer(e)) /\ v[f] = SumFunctionOnSet(g, Newer(t))
      BY <3>1 DEF OnWire, Newer
    <3>3. g = [s \in Time |-> IF s <= cut THEN 0 ELSE h[s]]
      OBVIOUS
    <3> HIDE DEF h, g, w, v, cut
    <3>4. SumFunctionOnSet(g, Newer(t)) = SumFunctionOnSet(h, Newer(Later(t, cut)))
      BY <1>1, <3>1, <3>3, NewerLess
    <3>5. SumFunctionOnSet(h, Newer(e)) \in Nat
      BY <2>0, <3>1, NewerSum
    <3> QED
      BY <3>2, <3>4, <3>5 DEF e
  <2>2. Crossed(e) = SumFunctionOnSet(w, Flows) /\ Crossed(t)' = SumFunctionOnSet(v, Flows)
    BY CrossedIs
  <2>3. Crossed(t)' = Crossed(e)
    <3> HIDE DEF w, v
    <3>1. SumFunctionOnSet(w, Flows) = SumFunctionOnSet(v, Flows)
      BY <1>3, <2>1, SumSame
    <3> QED
      BY <2>2, <3>1
  <2> DEFINE p == [f \in Flows |-> InHand(conn[f], e)]  q == [f \in Flows |-> InHand(conn'[f], t)]
  <2>4. \A f \in Flows : p[f] \in Int /\ q[f] = p[f]
    <3>1. \A f \in Flows : InHand(conn'[f], t) = InHand(conn[f], e)
      BY UpdateKeeps
    <3>2. \A f \in Flows : InHand(conn[f], e) \in Nat
      BY <1>1, <2>0, CarriedHas
    <3> QED
      BY <3>1, <3>2
  <2>5. Carried(e) = SumFunctionOnSet(p, Flows) /\ Carried(t)' = SumFunctionOnSet(q, Flows)
    BY DEF Carried, InHand
  <2>6. Carried(t)' = Carried(e)
    <3> HIDE DEF p, q
    <3>1. SumFunctionOnSet(p, Flows) = SumFunctionOnSet(q, Flows)
      BY <1>3, <2>4, SumSame
    <3> QED
      BY <2>5, <3>1
  <2> QED
    BY <2>3, <2>6
<1>6. Tallied'
  <2>1. ASSUME NEW t \in Int PROVE Carried(t)' = Crossed(t)'
    <3>1. Later(t, cut) \in Int
      BY <1>1 DEF Later
    <3>2. Carried(Later(t, cut)) = Crossed(Later(t, cut))
      BY <3>1 DEF TallyInv, Tallied
    <3> QED
      BY <1>5, <3>2
  <2> QED
    BY <2>1 DEF Tallied
<1>7. StampsInOrder'
  <2>1. 0 \in Int
    OBVIOUS
  <2> QED
    BY <2>1, UpdateKeeps DEF StampsInOrder, Live
<1> QED
  BY <1>4, <1>6, <1>7

LEMMA NextTallied ==
  ASSUME InOrder, PERIOD <= CONNTIMEOUT, TallyInv, WindowFits', [Next]_vars
  PROVE  TallyInv'
<1>1. HeardInv' /\ TypeOK'
  BY NextHeard DEF TallyInv, HeardInv, OwnedInv
<1>2. IsFiniteSet(procs')
  <2>1. CASE Capture
    <3>1. PICK f \in Flows, d \in Dirs, n \in Sizes, ts \in (clock - Lag) .. clock : Packet(f, d, n, ts)
      BY <2>1 DEF Capture
    <3>2. PICK o \in procs' : procs' \subseteq procs \cup {o}
      BY <3>1, PacketReaches DEF TallyInv, HeardInv
    <3>3. IsFiniteSet(procs \cup {o})
      BY FS_AddElement DEF TallyInv
    <3> QED
      BY <3>2, <3>3, FS_Subset
  <2>2. CASE Update
    <3>1. procs' \subseteq procs
      BY <2>2 DEF Update
    <3> QED
      BY <3>1, FS_Subset DEF TallyInv
  <2>3. CASE Kernel \/ Tick \/ DispatchIdle \/ EndDispatch \/ UNCHANGED vars
    BY <2>3, OtherSteps DEF TallyInv
  <2> QED
    BY <2>1, <2>2, <2>3 DEF Next
<1>3. CASE Capture
  BY <1>1, <1>2, <1>3, PacketTallied DEF Capture, TallyInv
<1>4. CASE Update
  BY <1>1, <1>2, <1>4, UpdateTallied DEF TallyInv
<1>5. CASE Kernel \/ Tick \/ DispatchIdle \/ EndDispatch \/ UNCHANGED vars
  <2>1. UNCHANGED <<conn, wire>>
    BY <1>5 DEF Kernel, Connect, Inherit, Release, Tick, DispatchIdle, EndDispatch,
                vars, lists, clocks, history
  <2>2. Tallied' /\ StampsInOrder'
    BY <2>1 DEF TallyInv, Tallied, StampsInOrder, Live, Carried, Crossed, InHand
  <2> QED
    BY <1>1, <1>2, <2>1, <2>2 DEF TallyInv
<1> QED
  BY <1>3, <1>4, <1>5 DEF Next

LEMMA InitTallied ==
  ASSUME Init
  PROVE  TallyInv
<1>1. Live = {} /\ procs = {Unknown} /\ wire = [f \in Flows |-> [t \in Time |-> 0]] /\ IsFiniteSet(Flows)
  BY NetHogsAssumption DEF Init, Live
<1>2. IsFiniteSet(procs)
  BY <1>1, FS_Singleton
<1>3. wire \in [Flows -> [Time -> Nat]]
  BY <1>1
<1>4. ASSUME NEW t \in Int PROVE Carried(t) = Crossed(t)
  <2> DEFINE w == OnWire(t)  v == [f \in Flows |-> InHand(conn[f], t)]
  <2>1. \A f \in Flows : v[f] = 0
    BY <1>1 DEF Live, InHand
  <2>2. \A f \in Flows : w[f] = 0
    <3>1. ASSUME NEW f \in Flows PROVE SumFunctionOnSet(wire[f], Newer(t)) = 0
      <4> DEFINE h == wire[f]  S == Newer(t)
      <4>1. h \in [Time -> Nat] /\ \A s \in Time : h[s] = 0
        BY <1>1
      <4>2. IsFiniteSet(S) /\ \A s \in S : h[s] = 0
        BY <4>1, NewerSum
      <4> HIDE DEF h, S
      <4>3. SumFunctionOnSet(h, S) = Cardinality(S) * 0 /\ Cardinality(S) \in Nat
        BY <4>2, SumConstant, FS_CardinalityType
      <4>4. SumFunctionOnSet(h, S) = 0
        BY <4>3
      <4> QED
        BY <4>4 DEF h, S
    <3> QED
      BY <3>1 DEF OnWire
  <2>3. Carried(t) = SumFunctionOnSet(v, Flows) /\ Crossed(t) = SumFunctionOnSet(w, Flows)
    BY CrossedIs DEF Carried
  <2> HIDE DEF w, v
  <2>4. \A f \in Flows : w[f] \in Int /\ v[f] = w[f]
    BY <2>1, <2>2
  <2> QED
    BY <1>1, <2>3, <2>4, SumSame
<1>5. Tallied
  BY <1>4 DEF Tallied
<1>6. StampsInOrder
  BY <1>1 DEF StampsInOrder
<1> QED
  BY <1>2, <1>3, <1>5, <1>6, InitHeard DEF TallyInv

\* What an update tells of one process is what its connections hold.
LEMMA SpeedIs ==
  ASSUME NEW o, NEW mine, mine = {f \in Flows : conn'[f] # None /\ conn'[f].owner = o},
         NEW S \in [Flows -> Nat], NEW R \in [Flows -> Nat], NEW G \in [Flows -> Nat],
         \A f \in mine : Bytes(conn'[f].sent) = S[f] /\ Bytes(conn'[f].recv) = R[f],
         \A f \in Flows : G[f] = S[f] + R[f], SumFunctionOnSet(G, Flows) < WORD
  PROVE  Speed(Figures(o)) = SumFunctionOnSet(G, mine)
<1> DEFINE a == [f \in mine |-> Bytes(conn'[f].sent)]  b == [f \in mine |-> Bytes(conn'[f].recv)]
           s == SumFunctionOnSet(S, mine)  r == SumFunctionOnSet(R, mine)
           g == SumFunctionOnSet(G, mine)
<1>1. IsFiniteSet(Flows) /\ mine \in SUBSET Flows /\ IsFiniteSet(mine)
  <2>1. IsFiniteSet(Flows) /\ mine \in SUBSET Flows
    BY NetHogsAssumption
  <2> QED
    BY <2>1, FS_Subset
<1>2. /\ \A f \in mine : S[f] \in Nat /\ R[f] \in Nat /\ G[f] \in Nat
      /\ \A f \in mine : S[f] \in Int /\ R[f] \in Int /\ G[f] = S[f] + R[f]
  BY <1>1
<1>3. s \in Nat /\ r \in Nat /\ g \in Nat
  BY <1>1, <1>2, SumMonotone
<1>4. g = s + r
  BY <1>1, <1>2, SumAdd
<1>5. g <= SumFunctionOnSet(G, Flows) /\ SumFunctionOnSet(G, Flows) \in Nat
  <2>1. \A f \in Flows : G[f] \in Nat
    OBVIOUS
  <2> QED
    BY <1>1, <2>1, SumMonotone
<1>6. SumFunction(a) = s /\ SumFunction(b) = r
  <2>1. SumFunction(a) = SumFunctionOnSet(a, mine) /\ SumFunction(b) = SumFunctionOnSet(b, mine)
    BY DEF SumFunction
  <2>2. \A f \in mine : S[f] \in Int /\ a[f] = S[f]
    BY <1>2
  <2>3. \A f \in mine : R[f] \in Int /\ b[f] = R[f]
    BY <1>2
  <2> HIDE DEF a, b
  <2>4. SumFunctionOnSet(S, mine) = SumFunctionOnSet(a, mine)
    BY <1>1, <2>2, SumSame
  <2>5. SumFunctionOnSet(R, mine) = SumFunctionOnSet(b, mine)
    BY <1>1, <2>3, SumSame
  <2> QED
    BY <2>1, <2>4, <2>5
<1>7. Speed(Figures(o)) = U32(SumFunction(a)) + U32(SumFunction(b))
  BY DEF Speed, Figures
<1> HIDE DEF a, b, s, r, g
<1>8. s < WORD /\ r < WORD
  BY <1>3, <1>4, <1>5, PackListAssumption
<1>9. U32(s) = s /\ U32(r) = r
  BY <1>3, <1>8, U32Fits
<1>10. Speed(Figures(o)) = g
  BY <1>4, <1>6, <1>7, <1>9
<1> QED
  BY <1>10 DEF g

LEMMA UpdateTells ==
  ASSUME InOrder, PERIOD <= CONNTIMEOUT, TallyInv, WindowFits, Update, TallyInv'
  PROVE  SumFunction([o \in procs' |-> Speed(record'[o])]) = Crossed(curtime - PERIOD)
<1> DEFINE cut == curtime - PERIOD
           S == [f \in Flows |-> IF conn'[f] = None THEN 0 ELSE After(conn'[f].sent, cut)]
           R == [f \in Flows |-> IF conn'[f] = None THEN 0 ELSE After(conn'[f].recv, cut)]
           G == [f \in Flows |-> InHand(conn'[f], cut)]
           live == {f \in Flows : conn'[f] # None}
           owner == [f \in live |-> conn'[f].owner]
           mine(o) == {f \in live : owner[f] = o}
<1>1. cut \in Int /\ TypeOK /\ IsFiniteSet(Flows) /\ IsFiniteSet(procs')
  BY Naturals, PackListAssumption, NetHogsAssumption DEF TallyInv, HeardInv, OwnedInv
<1>2. ASSUME NEW f \in Flows, conn'[f] # None
      PROVE  /\ conn'[f].sent \in Seq(Node) /\ conn'[f].recv \in Seq(Node)
             /\ \A i \in 1 .. Len(conn'[f].sent) : conn'[f].sent[i].sec > cut
             /\ \A i \in 1 .. Len(conn'[f].recv) : conn'[f].recv[i].sec > cut
             /\ After(conn'[f].sent, cut) \in Nat /\ After(conn'[f].recv, cut) \in Nat
  <2>1. /\ conn'[f] \in Connection
        /\ \A i \in 1 .. Len(conn'[f].sent) : conn'[f].sent[i].sec > cut
        /\ \A i \in 1 .. Len(conn'[f].recv) : conn'[f].recv[i].sec > cut
    BY <1>1, <1>2, UpdateKeeps
  <2>2. conn'[f].sent \in Seq(Node) /\ conn'[f].recv \in Seq(Node)
    BY <2>1 DEF Connection
  <2>3. After(conn'[f].sent, cut) \in Nat /\ After(conn'[f].recv, cut) \in Nat
    BY <1>1, <2>2, AfterLess
  <2> QED
    BY <2>1, <2>2, <2>3
<1>3. S \in [Flows -> Nat] /\ R \in [Flows -> Nat] /\ G \in [Flows -> Nat]
      /\ \A f \in Flows : G[f] = S[f] + R[f]
  <2>1. \A f \in Flows : S[f] \in Nat /\ R[f] \in Nat /\ G[f] = S[f] + R[f]
    BY <1>2 DEF InHand
  <2>2. \A f \in Flows : G[f] \in Nat
    <3> HIDE DEF S, R, G
    <3> QED
      BY <2>1
  <2>3. S = [f \in Flows |-> S[f]] /\ R = [f \in Flows |-> R[f]] /\ G = [f \in Flows |-> G[f]]
    OBVIOUS
  <2> HIDE DEF S, R, G
  <2> QED
    BY <2>1, <2>2, <2>3
<1>4. SumFunctionOnSet(G, Flows) = Crossed(cut) /\ Crossed(cut) < WORD
  <2> DEFINE w == [f \in Flows |-> InHand(conn[f], cut)]
  <2>1. \A f \in Flows : G[f] \in Int /\ w[f] = G[f]
    <3>1. Later(cut, cut) = cut
      BY DEF Later
    <3>2. \A f \in Flows : InHand(conn'[f], cut) = InHand(conn[f], Later(cut, cut))
      BY <1>1, UpdateKeeps
    <3>3. \A f \in Flows : InHand(conn'[f], cut) = InHand(conn[f], cut)
      BY <3>1, <3>2, Zenon
    <3>4. \A f \in Flows : G[f] \in Nat
      <4> HIDE DEF G
      <4> QED
        BY <1>3
    <3> QED
      BY <3>3, <3>4
  <2>2. Carried(cut) = SumFunctionOnSet(w, Flows)
    BY DEF Carried
  <2> HIDE DEF G, w
  <2>3. SumFunctionOnSet(G, Flows) = SumFunctionOnSet(w, Flows)
    BY <1>1, <2>1, SumSame
  <2>4. Carried(cut) = Crossed(cut)
    BY <1>1 DEF TallyInv, Tallied
  <2> QED
    BY <2>2, <2>3, <2>4 DEF WindowFits
<1>5. ASSUME NEW f \in Flows, conn'[f] # None
      PROVE  Bytes(conn'[f].sent) = S[f] /\ Bytes(conn'[f].recv) = R[f]
  <2>1. S[f] = After(conn'[f].sent, cut) /\ R[f] = After(conn'[f].recv, cut)
    BY <1>5
  <2>2. G[f] <= SumFunctionOnSet(G, Flows)
    <3> HIDE DEF G
    <3>1. \A h \in Flows : G[h] \in Nat
      BY <1>3
    <3>2. SumFunctionOnSet(G, {f}) <= SumFunctionOnSet(G, Flows)
      BY <1>1, <3>1, SumMonotone
    <3>3. IsFiniteSet({f})
      BY FS_Singleton
    <3>4. IsFiniteSet({f}) /\ f \in {f} /\ (\A x \in {f} : G[x] \in Int) /\ {f} \ {f} = {}
      BY <3>1, <3>3
    <3>5. SumFunctionOnSet(G, {f}) = G[f] + SumFunctionOnSet(G, {f} \ {f})
      BY <3>4, SumRemove
    <3>6. SumFunctionOnSet(G, {f} \ {f}) = 0
      BY <3>4, SumEmpty
    <3> QED
      BY <3>1, <3>2, <3>5, <3>6
  <2> HIDE DEF S, R, G
  <2>3. S[f] < WORD /\ R[f] < WORD
    <3>1. SumFunctionOnSet(G, Flows) \in Nat
      <4>1. \A h \in Flows : G[h] \in Nat
        BY <1>3
      <4> QED
        BY <1>1, <4>1, SumMonotone
    <3>2. S[f] \in Nat /\ R[f] \in Nat /\ G[f] = S[f] + R[f]
      BY <1>3
    <3>3. SumFunctionOnSet(G, Flows) < WORD
      BY <1>4
    <3> QED
      BY <2>2, <3>1, <3>2, <3>3, PackListAssumption
  <2> DEFINE out == conn'[f].sent  in == conn'[f].recv
  <2>4. /\ out \in Seq(Node) /\ in \in Seq(Node)
        /\ (\A i \in 1 .. Len(out) : out[i].sec > cut) /\ (\A i \in 1 .. Len(in) : in[i].sec > cut)
        /\ After(out, cut) < WORD /\ After(in, cut) < WORD
    BY <1>2, <1>5, <2>1, <2>3
  <2>5. S[f] = After(out, cut) /\ R[f] = After(in, cut)
    BY <2>1
  <2> HIDE DEF out, in, cut
  <2>6. Bytes(out) = After(out, cut) /\ Bytes(in) = After(in, cut)
    BY <1>1, <2>4, BytesFit
  <2> QED
    BY <2>5, <2>6 DEF out, in
<1>6. ASSUME NEW o \in procs' PROVE Speed(record'[o]) = SumFunctionOnSet(G, mine(o))
  <2> DEFINE own == {f \in Flows : conn'[f] # None /\ conn'[f].owner = o}
  <2>1. own = mine(o)
    OBVIOUS
  <2>2. record'[o] = Figures(o)
    BY DEF Update
  <2>3. \A f \in own : Bytes(conn'[f].sent) = S[f] /\ Bytes(conn'[f].recv) = R[f]
    BY <1>5
  <2>4. own = {f \in Flows : conn'[f] # None /\ conn'[f].owner = o}
    OBVIOUS
  <2>5. SumFunctionOnSet(G, Flows) < WORD
    BY <1>4
  <2> HIDE DEF own, mine, S, R, G
  <2>6. Speed(Figures(o)) = SumFunctionOnSet(G, own)
    BY <1>3, <2>3, <2>4, <2>5, SpeedIs
  <2> QED
    BY <2>1, <2>2, <2>6
<1>7. /\ live \in SUBSET Flows /\ IsFiniteSet(live)
      /\ \A f \in live : owner[f] \in procs'
      /\ \A f \in Flows \ live : G[f] = 0
  <2>1. \A f \in live : conn'[f].owner \in procs'
    BY DEF TallyInv, HeardInv, OwnedInv, ConnectionsOwned, Live
  <2>2. live \in SUBSET Flows /\ \A f \in Flows \ live : G[f] = 0
    BY DEF InHand
  <2> QED
    BY <1>1, <2>1, <2>2, FS_Subset
<1> DEFINE shown == [o \in procs' |-> Speed(record'[o])]
           parts == [o \in procs' |-> SumFunctionOnSet(G, {f \in live : owner[f] = o})]
<1>8. shown = parts /\ SumFunction(shown) = SumFunctionOnSet(shown, procs')
  <2>1. \A o \in procs' : Speed(record'[o]) = SumFunctionOnSet(G, {f \in live : owner[f] = o})
    BY <1>6
  <2> QED
    BY <2>1 DEF SumFunction
<1> HIDE DEF G, live, owner
<1>9. \A f \in live : G[f] \in Int
  BY <1>3, <1>7
<1>10. SumFunctionOnSet(parts, procs') = SumFunctionOnSet(G, live)
  BY <1>1, <1>7, <1>9, SumGrouped
<1>11. SumFunctionOnSet(G, Flows) = SumFunctionOnSet(G, live)
  <2>1. \A f \in Flows : G[f] \in Int
    BY <1>3
  <2> QED
    BY <1>1, <1>7, <2>1, SumZeros
<1> HIDE DEF shown, parts, cut
<1>12. SumFunction(shown) = Crossed(cut)
  BY <1>4, <1>8, <1>10, <1>11
<1> QED
  BY <1>12 DEF shown, cut

(***************************************************************************)
(* An update reports every byte of the last PERIOD seconds, once, and no   *)
(* older one, if packets are stamped in order, the window is not longer    *)
(* than a connection lives, and what it holds fits in an u_int32_t.        *)
(***************************************************************************)
THEOREM TrafficIsConserved ==
  ASSUME InOrder, PERIOD <= CONNTIMEOUT
  PROVE  Spec /\ []WindowFits => TrafficConserved
<1>1. Init => TallyInv
  BY InitTallied
<1>2. TallyInv /\ WindowFits' /\ [Next]_vars => TallyInv'
  BY NextTallied
<1>3. ASSUME TallyInv, WindowFits, TallyInv', [Next]_vars
      PROVE  [Updates =>
                SumFunction([o \in procs' |-> Speed(record'[o])]) = Crossed(curtime - PERIOD)]_vars
  <2>1. ASSUME Updates PROVE Update
    BY <1>3, <2>1 DEF Updates, Next, Kernel, Connect, Inherit, Release, Tick, Capture, Packet,
                      DispatchIdle, EndDispatch, vars
  <2> QED
    BY <1>3, <2>1, UpdateTells
<1> QED
  BY <1>1, <1>2, <1>3, PTL DEF Spec, TrafficConserved
====
