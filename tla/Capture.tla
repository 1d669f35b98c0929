------------------------------ MODULE Capture -------------------------------
(***************************************************************************)
(* From the wire to a Packet: nethogsmonitor_init opens the devices and    *)
(* remembers their addresses, libpcap keeps what crosses them, and         *)
(* dp_dispatch walks each frame down to its TCP header (decpcap.c), where  *)
(* process_tcp makes the Packet that NetHogs accounts for.                 *)
(*                                                                         *)
(* A frame is a record of what its headers say.  Its two ports are read a  *)
(* fixed distance behind the start of the IP header: seen is what stands   *)
(* there, which is the ports only when nothing stands in between.          *)
(* Addresses may change and frames may come at any time.                   *)
(***************************************************************************)
EXTENDS Integers, Sequences, FiniteSets, Functions

CONSTANTS
  Devices,     \* network devices but the loopback
  Link,        \* device -> its link type
  V4, V6,      \* addresses
  LooksTcp,    \* IPv6 addresses whose second byte is IPPROTO_TCP
  Garbage,     \* what an IPv6 header read as an IPv4 one holds for addresses
  Flows,       \* [own, ownPort, peer, peerPort]
  Lengths,     \* lengths of frames
  MaxFrames, MaxMoves   \* bounds

\* two ends, the own one first
Pairs == [own : V4 \cup V6, ownPort : Nat, peer : V4 \cup V6, peerPort : Nat]

Frame == [flow : Flows, sent : BOOLEAN, protocol : {"tcp", "other"},
          form : {"plain", "options", "fragment", "extension"}, len : Lengths, seen : Flows]

ASSUME CaptureAssumption ==
  /\ Link \in [Devices -> {"ethernet", "ppp", "cooked", "raw", "unknown"}]
  /\ IsFiniteSet(Devices)
  /\ V4 \cap V6 = {} /\ LooksTcp \subseteq V6 /\ Garbage \in V4
  /\ Flows \subseteq Pairs
  /\ \A f \in Flows : {f.own, f.peer} \subseteq V4 \/ {f.own, f.peer} \subseteq V6
  /\ Lengths \subseteq Nat \ {0} /\ {MaxFrames, MaxMoves} \subseteq Nat

VARIABLES
  address,   \* device -> its addresses
  up,   \* devices that are running
  started,   \* the devices have been read
  devices,   \* those still to open
  open,   \* devices that are open
  local,     \* local_addrs
  buffer,    \* device -> frames captured and not dispatched
  packets,   \* pair of ends, the own one first -> bytes sent and received
  \* history: what crossed the open devices, pairs that misread frames spelled,
  \* own addresses that have moved
  wire, spelled, moved,
  frames, moves

network == <<address, up, moved, moves>>
monitor == <<started, devices, open, local, packets>>
captureVars == <<network, monitor, buffer, wire, spelled, frames>>

Zero == [sent |-> 0, received |-> 0]
At(f, k) == IF k \in DOMAIN f THEN f[k] ELSE Zero
Counted(f, k, out, n) ==
  [j \in DOMAIN f \cup {k} |->
     IF j # k THEN f[j]
     ELSE IF out THEN [At(f, k) EXCEPT !.sent = @ + n] ELSE [At(f, k) EXCEPT !.received = @ + n]]

Swapped(k) == [own |-> k.peer, ownPort |-> k.peerPort, peer |-> k.own, peerPort |-> k.ownPort]

CaptureInit ==
  /\ address \in [Devices -> {{f.own} : f \in Flows} \cup {{}}]
  /\ up \in SUBSET Devices
  /\ started = FALSE /\ devices = {} /\ open = {} /\ local = {}
  /\ buffer = [d \in Devices |-> <<>>]
  /\ packets = <<>> /\ wire = <<>> /\ spelled = {} /\ moved = {}
  /\ frames = 0 /\ moves = 0

-----------------------------------------------------------------------------
(***************************************************************************)
(* The network.                                                            *)
(***************************************************************************)
Renumber(d, a) ==
  /\ moves < MaxMoves /\ address[d] # a
  /\ moves' = moves + 1
  /\ moved' = moved \cup address[d] \cup a
  /\ address' = [address EXCEPT ![d] = a]
  /\ UNCHANGED <<up, monitor, buffer, wire, spelled, frames>>

\* getifaddrs lists a device with an address, and frames cross one that runs
GoesUp(d) ==
  /\ moves < MaxMoves /\ d \notin up
  /\ moves' = moves + 1 /\ up' = up \cup {d}
  /\ UNCHANGED <<address, moved, monitor, buffer, wire, spelled, frames>>

Family(a) == IF a \in V4 THEN 4 ELSE 6

\* forms that the IP version has, and ports out of place only where a form moves them
WellFormed(r) ==
  /\ r.protocol = "other" => r.form = "plain"
  /\ r.form \in IF Family(r.flow.own) = 4 THEN {"plain", "options", "fragment"}
                ELSE {"plain", "extension"}
  /\ r.form \in {"plain", "extension"} => r.seen = r.flow
  /\ r.form \in {"options", "fragment"} =>
       r.seen.own = r.flow.own /\ r.seen.peer = r.flow.peer

\* the parser finds the ports of this frame
Plain(d, r) ==
  /\ r.protocol = "tcp" /\ r.form = "plain"
  /\ Link[d] \in {"ethernet", "ppp", "cooked"} \/ (Link[d] = "raw" /\ Family(r.flow.own) = 4)

\* a frame crosses a device that is open; one that a full buffer drops is not captured
Cross(d, r) ==
  /\ frames < MaxFrames /\ d \in open \cap up
  /\ r.flow.own \in UNION Range(address)
  /\ frames' = frames + 1
  /\ buffer' = [buffer EXCEPT ![d] = Append(@, r)]
  /\ wire' = IF Plain(d, r) THEN Counted(wire, r.flow, r.sent, r.len) ELSE wire
  /\ UNCHANGED <<network, monitor, spelled>>

-----------------------------------------------------------------------------
(***************************************************************************)
(* nethogsmonitor_init.                                                    *)
(***************************************************************************)
\* get_default_devices; without any the monitor ends
GetDevices ==
  /\ ~started /\ started' = TRUE
  /\ devices' = {d \in up : address[d] # {}}
  /\ UNCHANGED <<network, open, local, packets, buffer, wire, spelled, frames>>

\* getLocal reads the addresses a second time; without the right to, nothing opens
Open(d) ==
  /\ d \in devices
  /\ devices' = devices \ {d}
  /\ local' = local \cup address[d]
  /\ open' \in {open, open \cup {d}}
  /\ UNCHANGED <<network, started, packets, buffer, wire, spelled, frames>>

-----------------------------------------------------------------------------
(***************************************************************************)
(* dp_dispatch: dp_pcap_callback for every frame of a device.              *)
(***************************************************************************)
Source(r, ends) == IF r.sent THEN [a |-> ends.own, p |-> ends.ownPort]
                   ELSE [a |-> ends.peer, p |-> ends.peerPort]
Target(r, ends) == IF r.sent THEN [a |-> ends.peer, p |-> ends.peerPort]
                   ELSE [a |-> ends.own, p |-> ends.ownPort]

\* the IP version that the link's header announces; a link without a header is taken
\* for IPv4, an unknown one ends the walk
ReadAs(d, r) ==
  CASE Link[d] \in {"ethernet", "ppp", "cooked"} -> Family(r.flow.own)
    [] Link[d] = "raw" -> 4
    [] OTHER -> 0

\* what protocol the IP header of that version seems to announce: an extension header
\* hides TCP, and of an IPv6 header the second byte of the source is read for IPv4
SeemsTcp(v, r) ==
  IF v = Family(r.flow.own) THEN r.protocol = "tcp" /\ r.form # "extension"
  ELSE v = 4 /\ Source(r, r.flow).a \in LooksTcp

\* where the ends of the packet are read
Ends(v, r) == IF v = Family(r.flow.own) THEN r.seen
              ELSE [own |-> Garbage, ownPort |-> 0, peer |-> Garbage, peerPort |-> 0]

\* a frame that is not TCP is counted, too (a mutant)
ParseAny(d, r) ==
  LET v == ReadAs(d, r)
  IN IF v = 0 THEN <<>>
     ELSE <<[src |-> Source(r, Ends(v, r)), dst |-> Target(r, Ends(v, r)), len |-> r.len]>>

\* what process_tcp is given, if it is called
Parse(d, r) ==
  LET v == ReadAs(d, r)
  IN IF ~SeemsTcp(v, r) THEN <<>>
     ELSE <<[src |-> Source(r, Ends(v, r)), dst |-> Target(r, Ends(v, r)), len |-> r.len]>>

\* local_addr::contains
Local(a) == a \in local

\* Packet::Outgoing
Outgoing(p) == Local(p.src.a)

Pair(x, y) == [own |-> x.a, ownPort |-> x.p, peer |-> y.a, peerPort |-> y.p]

\* the ends as they were sent (a mutant)
HashStringAsSent(p) == Pair(p.src, p.dst)

\* gethashstring: the ends with the own one first
HashString(p) == IF Outgoing(p) THEN Pair(p.src, p.dst) ELSE Pair(p.dst, p.src)

ProcessTcp(counts, p) == Counted(counts, HashString(p), Outgoing(p), p.len)

Dispatch(d) ==
  /\ d \in open /\ devices = {} /\ buffer[d] # <<>>
  /\ LET given   == [i \in DOMAIN buffer[d] |-> Parse(d, buffer[d][i])]
         misread == {i \in DOMAIN given : given[i] # <<>> /\ ~Plain(d, buffer[d][i])
                                  /\ SeemsTcp(ReadAs(d, buffer[d][i]), buffer[d][i])}
         after[i \in 0 .. Len(given)] ==
           IF i = 0 THEN packets
           ELSE IF given[i] = <<>> THEN after[i - 1] ELSE ProcessTcp(after[i - 1], given[i][1])
     IN /\ packets' = after[Len(given)]
        /\ spelled' = spelled \cup {HashString(given[i][1]) : i \in misread}
  /\ buffer' = [buffer EXCEPT ![d] = <<>>]
  /\ UNCHANGED <<network, started, devices, open, local, wire, frames>>

CaptureNext ==
  \/ \E d \in Devices, a \in {{f.own} : f \in Flows} \cup {{}} : Renumber(d, a)
  \/ \E d \in Devices : GoesUp(d) \/ Open(d) \/ Dispatch(d)
  \/ \E d \in Devices, r \in {q \in Frame : WellFormed(q)} : Cross(d, r)
  \/ GetDevices

CaptureSpec == CaptureInit /\ [][CaptureNext]_captureVars

-----------------------------------------------------------------------------
\* the own end of a flow is, as it was when it was read, an address of an open device
Steady(f) ==
  /\ f.own \notin moved /\ f.peer \notin (UNION Range(address)) \cup moved
  /\ \E d \in open : f.own \in address[d]

(***************************************************************************)
(* What crossed the open devices in TCP segments is counted: every byte,   *)
(* once, for its two ends and in its direction, whatever else was captured *)
(* with it.  Excepted are connections whose ports a misread frame happens  *)
(* to spell, and ends whose address is not the one the monitor read when   *)
(* it started.                                                             *)
(***************************************************************************)
CountedAsSent ==
  (\A d \in Devices : buffer[d] = <<>>) =>
    \A f \in Flows : Steady(f) /\ f \notin spelled =>
      At(packets, f) = At(wire, f) /\ Swapped(f) \notin DOMAIN packets

(***************************************************************************)
(* Nothing is counted that did not cross: whatever misread frames spell    *)
(* and wherever addresses move, a pair that is counted is one of a segment *)
(* that was captured, in one order or the other, or one that was spelled.  *)
(***************************************************************************)
NothingInvented ==
  \A k \in DOMAIN packets : k \in spelled \/ {k, Swapped(k)} \cap DOMAIN wire # {}
=============================================================================
