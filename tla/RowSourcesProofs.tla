-------------------------- MODULE RowSourcesProofs --------------------------
(***************************************************************************)
(* What holds of the two sources that a row has beside the scan of its     *)
(* process: the traffic monitor that reports speeds, and the desktop files *)
(* that give it a name and a picture.                                      *)
(*                                                                         *)
(* First the start and stop of the monitor, for every number of devices.   *)
(* No lock orders the two threads: what does is QThread::wait, and the     *)
(* proofs rest on what is true on either side of it.                       *)
(***************************************************************************)
EXTENDS MonitorLoop, Capture, ProcessNames, Lemmas

\* Every transition is one of these.
LEMMA Transitions ==
  ASSUME [Next]_vars
  PROVE  \/ Run \/ OpenDevice \/ DevicesOpened \/ MakePipe
         \/ EnterLoop \/ CheckFlag \/ Poll \/ Wait \/ CleanUp
         \/ Connected \/ Quit \/ StopStep \/ AddrsChange \/ UNCHANGED vars
BY DEF Next, NetStep, GetLocalFails

-----------------------------------------------------------------------------
(***************************************************************************)
(* Types.  That no more devices are opened than were found is a relation   *)
(* of the two counters, and TypeOK alone is not inductive.                 *)
(***************************************************************************)
Places ==
  /\ gui \in GuiPlaces /\ net \in NetPlaces
  /\ status \in {"none", "OK", "FAILURE", "NO_DEVICE"}
  /\ pipe \in {"none", "open", "noReader"}
Flags == useSelect \in BOOLEAN /\ flag \in BOOLEAN /\ byte \in BOOLEAN /\ addrsOk \in BOOLEAN
Counts ==
  /\ left \in Nat /\ opened \in Nat /\ handles \in Nat
  /\ left + opened <= MaxDevices /\ handles <= opened
  /\ net = "start" => opened = 0 /\ handles = 0

LEMMA PlacesInductive ==
  ASSUME Places, [Next]_vars PROVE Places'
<1> USE DEF Places, GuiPlaces, NetPlaces, initVars
<1>1. CASE Run \/ OpenDevice \/ DevicesOpened
  BY <1>1 DEF Run, OpenDevice, DevicesOpened, Return
<1>2. CASE MakePipe \/ EnterLoop
  BY <1>2 DEF MakePipe, EnterLoop
<1>3. CASE CheckFlag \/ Poll \/ Wait \/ CleanUp
  BY <1>3 DEF CheckFlag, Poll, Wait, CleanUp, Return
<1>4. CASE Connected \/ Quit \/ StopStep \/ AddrsChange
  BY <1>4 DEF Connected, Quit, StopStep, BreakFlag, BreakWrite, Waited, AddrsChange, Goto
<1>5. CASE UNCHANGED vars
  BY <1>5 DEF vars
<1> QED
  BY <1>1, <1>2, <1>3, <1>4, <1>5, Transitions

LEMMA FlagsInductive ==
  ASSUME Flags, [Next]_vars PROVE Flags'
<1> USE DEF Flags, initVars
<1>1. CASE Run \/ OpenDevice \/ DevicesOpened
  BY <1>1 DEF Run, OpenDevice, DevicesOpened, Return
<1>2. CASE MakePipe \/ EnterLoop
  BY <1>2 DEF MakePipe, EnterLoop
<1>3. CASE CheckFlag \/ Poll \/ Wait \/ CleanUp
  BY <1>3 DEF CheckFlag, Poll, Wait, CleanUp, Return
<1>4. CASE Connected \/ Quit \/ StopStep \/ AddrsChange
  BY <1>4 DEF Connected, Quit, StopStep, BreakFlag, BreakWrite, Waited, AddrsChange, Goto
<1>5. CASE UNCHANGED vars
  BY <1>5 DEF vars
<1> QED
  BY <1>1, <1>2, <1>3, <1>4, <1>5, Transitions

LEMMA CountsInductive ==
  ASSUME Counts, [Next]_vars PROVE Counts'
<1> USE MonitorLoopAssumption DEF Counts, initVars
<1>1. CASE Run
  <2>1. opened = 0 /\ handles = 0 /\ opened' = opened /\ handles' = handles
    BY <1>1 DEF Run
  <2>2. left' = left \/ left' \in 0 .. MaxDevices
    BY <1>1 DEF Run
  <2> QED
    BY <2>1, <2>2
<1>2. CASE OpenDevice
  <2>1. left > 0 /\ left' = left - 1 /\ net' # "start"
    BY <1>2 DEF OpenDevice
  <2>2. \/ opened' = opened /\ handles' = handles
        \/ opened' = opened + 1 /\ handles' = handles + 1
    BY <1>2 DEF OpenDevice
  <2> QED
    BY <2>1, <2>2
<1>3. CASE DevicesOpened \/ MakePipe \/ EnterLoop
  BY <1>3 DEF DevicesOpened, MakePipe, EnterLoop, Return
<1>4. CASE CheckFlag \/ Poll \/ Wait \/ CleanUp
  BY <1>4 DEF CheckFlag, Poll, Wait, CleanUp, Return
<1>5. CASE Connected \/ Quit \/ StopStep \/ AddrsChange
  BY <1>5 DEF Connected, Quit, StopStep, BreakFlag, BreakWrite, Waited, AddrsChange
<1>6. CASE UNCHANGED vars
  BY <1>6 DEF vars
<1> QED
  BY <1>1, <1>2, <1>3, <1>4, <1>5, <1>6, Transitions

\* Every variable has its type, whatever the number of devices.
THEOREM TypeCorrect == Spec => []TypeOK
<1> DEFINE Types == Places /\ Flags /\ Counts
<1>1. Init => Types
  <2>1. Init => Places
    BY DEF Init, Places, GuiPlaces, NetPlaces
  <2>2. Init => Flags
    BY DEF Init, Flags
  <2>3. Init => Counts
    BY MonitorLoopAssumption DEF Init, Counts
  <2> QED
    BY <2>1, <2>2, <2>3
<1>2. Types /\ [Next]_vars => Types'
  BY PlacesInductive, FlagsInductive, CountsInductive
<1>3. Types => TypeOK
  BY MonitorLoopAssumption DEF Places, Flags, Counts, TypeOK
<1> QED
  BY <1>1, <1>2, <1>3, PTL DEF Spec

-----------------------------------------------------------------------------
(***************************************************************************)
(* The wait.  The destructor goes on only after QThread::wait, and then    *)
(* the call has returned for good.                                         *)
(***************************************************************************)
AfterWait == gui \in {"againFlag", "againWrite", "gone"} => net = "done"

LEMMA AfterWaitInductive ==
  ASSUME AfterWait, [Next]_vars PROVE AfterWait'
<1> USE DEF AfterWait, initVars
<1>1. CASE Run \/ OpenDevice \/ DevicesOpened \/ MakePipe
  BY <1>1 DEF Run, OpenDevice, DevicesOpened, MakePipe, Return
<1>2. CASE EnterLoop \/ CheckFlag \/ Poll \/ Wait \/ CleanUp
  BY <1>2 DEF EnterLoop, CheckFlag, Poll, Wait, CleanUp, Return
<1>3. CASE Connected \/ Quit \/ AddrsChange \/ UNCHANGED vars
  BY <1>3 DEF Connected, Quit, AddrsChange, Goto, vars
<1>4. CASE StopStep
  BY <1>4 DEF StopStep, BreakFlag, BreakWrite, Waited, Goto
<1> QED
  BY <1>1, <1>2, <1>3, <1>4, Transitions

\* The callback is never called on a ProcessNetwork whose destructor has
\* begun, although the loop polls outside any lock.
THEOREM CallbackSafe == Spec => []CallbackOnLiveObject
<1>1. Init => AfterWait
  BY DEF Init, AfterWait
<1>2. AfterWait /\ [Next]_vars => AfterWait'
  BY AfterWaitInductive
<1>3. AfterWait => CallbackOnLiveObject
  BY DEF AfterWait, CallbackOnLiveObject
<1> QED
  BY <1>1, <1>2, <1>3, PTL DEF Spec

-----------------------------------------------------------------------------
(***************************************************************************)
(* The handles.  nethogsmonitor_init returns early only with none open,    *)
(* and clean_up closes the rest.                                           *)
(***************************************************************************)
HandlesFollow ==
  /\ net = "devices" => handles = opened
  /\ NoHandleLeft

LEMMA HandlesInductive ==
  ASSUME Counts, HandlesFollow, [Next]_vars PROVE HandlesFollow'
<1> USE DEF HandlesFollow, NoHandleLeft, initVars
<1>1. CASE Run
  BY <1>1 DEF Run, Return, Counts
<1>2. CASE OpenDevice \/ DevicesOpened
  BY <1>2 DEF OpenDevice, DevicesOpened, Return, Counts
<1>3. CASE MakePipe \/ EnterLoop \/ CheckFlag
  BY <1>3 DEF MakePipe, EnterLoop, CheckFlag
<1>4. CASE Poll \/ Wait \/ CleanUp
  BY <1>4 DEF Poll, Wait, CleanUp, Return
<1>5. CASE Connected \/ Quit \/ AddrsChange \/ UNCHANGED vars
  BY <1>5 DEF Connected, Quit, AddrsChange, vars
<1>6. CASE StopStep
  BY <1>6 DEF StopStep, BreakFlag, BreakWrite, Waited
<1> QED
  BY <1>1, <1>2, <1>3, <1>4, <1>5, <1>6, Transitions

\* Whatever nethogsmonitor_loop returns, it leaves no capture handle open.
THEOREM NoLeak == Spec => []NoHandleLeft
<1>1. Init => Counts /\ HandlesFollow
  BY MonitorLoopAssumption DEF Init, Counts, HandlesFollow, NoHandleLeft
<1>2. Counts /\ HandlesFollow /\ [Next]_vars => Counts' /\ HandlesFollow'
  BY CountsInductive, HandlesInductive
<1>3. HandlesFollow => NoHandleLeft
  BY DEF HandlesFollow
<1> QED
  BY <1>1, <1>2, <1>3, PTL DEF Spec

-----------------------------------------------------------------------------
(***************************************************************************)
(* The end of the loop.  Before breakloop has cleared it the flag is set   *)
(* wherever the loop looks at it, and nothing is in the pipe before        *)
(* breakloop has written it.                                               *)
(***************************************************************************)
Unasked == {"ctor", "live", "stopFlag"}
StopsForAReason ==
  /\ net \in {"check", "poll", "wait"} /\ gui \in Unasked => flag
  /\ byte => gui \notin Unasked \cup {"stopWrite"}
  /\ EndsOnlyWhenStopped

LEMMA ReasonInductive ==
  ASSUME StopsForAReason, [Next]_vars PROVE StopsForAReason'
<1> USE DEF StopsForAReason, EndsOnlyWhenStopped, Unasked, initVars
<1>1. CASE Run \/ OpenDevice \/ DevicesOpened
  <2>1. UNCHANGED <<gui, flag, byte>> /\ net' \in {"done", "devices", "pipe"}
    BY <1>1 DEF Run, OpenDevice, DevicesOpened, Return
  <2>2. status' = status \/ status' \in {"FAILURE", "NO_DEVICE"}
    BY <1>1 DEF Run, OpenDevice, DevicesOpened, Return
  <2> QED
    BY <2>1, <2>2
<1>2. CASE MakePipe \/ EnterLoop
  BY <1>2 DEF MakePipe, EnterLoop
<1>3. CASE CheckFlag \/ Poll \/ Wait
  BY <1>3 DEF CheckFlag, Poll, Wait
<1>4. CASE CleanUp
  BY <1>4 DEF CleanUp, Return
<1>5. CASE Connected \/ Quit \/ AddrsChange \/ UNCHANGED vars
  BY <1>5 DEF Connected, Quit, AddrsChange, Goto, vars
<1>6. CASE StopStep
  BY <1>6 DEF StopStep, BreakFlag, BreakWrite, Waited, Goto
<1> QED
  BY <1>1, <1>2, <1>3, <1>4, <1>5, <1>6, Transitions

\* A loop that was entered ends only because breakloop was called.
THEOREM EndsForAReason == Spec => []EndsOnlyWhenStopped
<1>1. Init => StopsForAReason
  BY DEF Init, StopsForAReason, EndsOnlyWhenStopped
<1>2. StopsForAReason /\ [Next]_vars => StopsForAReason'
  BY ReasonInductive
<1>3. StopsForAReason => EndsOnlyWhenStopped
  BY DEF StopsForAReason
<1> QED
  BY <1>1, <1>2, <1>3, PTL DEF Spec

-----------------------------------------------------------------------------
(***************************************************************************)
(* The capture.  What has crossed and what is counted differ by what waits *)
(* in the buffers, so the proofs follow that sum.                          *)
(***************************************************************************)
Count == [sent : Nat, received : Nat]
Books == UNION {[K -> Count] : K \in SUBSET Pairs}
Of(c, out) == IF out THEN c.sent ELSE c.received

Frames == {r \in Frame : WellFormed(r)}

\* the addresses that own ends have had
Known == (UNION Range(address)) \cup moved

LEMMA AtIs ==
  ASSUME NEW f \in Books, NEW k
  PROVE  At(f, k) \in Count /\ Of(At(f, k), TRUE) \in Nat /\ Of(At(f, k), FALSE) \in Nat
<1>1. PICK K \in SUBSET Pairs : f \in [K -> Count]
  BY DEF Books
<1>2. At(f, k) \in Count
  BY <1>1 DEF At, Zero, Count
<1> QED
  BY <1>2 DEF Count, Of

LEMMA CountedIs ==
  ASSUME NEW f \in Books, NEW k \in Pairs, NEW out \in BOOLEAN, NEW n \in Nat
  PROVE  /\ Counted(f, k, out, n) \in Books
         /\ DOMAIN Counted(f, k, out, n) = DOMAIN f \cup {k}
         /\ \A j : j # k => At(Counted(f, k, out, n), j) = At(f, j)
         /\ Of(At(Counted(f, k, out, n), k), out) = Of(At(f, k), out) + n
         /\ Of(At(Counted(f, k, out, n), k), ~out) = Of(At(f, k), ~out)
<1>1. PICK K \in SUBSET Pairs : f \in [K -> Count]
  BY DEF Books
<1> DEFINE c == At(f, k)  g == Counted(f, k, out, n)
           e == IF out THEN [c EXCEPT !.sent = @ + n] ELSE [c EXCEPT !.received = @ + n]
<1>2. c \in Count
  BY AtIs
<1>3. e \in Count /\ Of(e, out) = Of(c, out) + n /\ Of(e, ~out) = Of(c, ~out)
  <2> HIDE DEF c
  <2>1. CASE out
    BY <1>2, <2>1 DEF Count, Of
  <2>2. CASE ~out
    BY <1>2, <2>2 DEF Count, Of
  <2> QED
    BY <2>1, <2>2
<1>4. g = [j \in DOMAIN f \cup {k} |-> IF j # k THEN f[j] ELSE e]
  BY DEF Counted
<1> HIDE DEF e, g
<1>5. g \in [K \cup {k} -> Count]
  BY <1>1, <1>3, <1>4
<1>6. K \cup {k} \in SUBSET Pairs
  OBVIOUS
<1>7. g \in Books
  BY <1>5, <1>6 DEF Books
<1>8. DOMAIN g = DOMAIN f \cup {k} /\ g[k] = e /\ \A j \in DOMAIN f : j # k => g[j] = f[j]
  BY <1>4
<1>9. At(g, k) = e /\ \A j : j # k => At(g, j) = At(f, j)
  BY <1>8 DEF At
<1> QED
  BY <1>3, <1>7, <1>8, <1>9 DEF g

-----------------------------------------------------------------------------
\* What the walk makes of a frame.
LEMMA ParseIs ==
  ASSUME NEW d \in Devices, NEW r \in Frames
  PROVE  LET given == Parse(d, r)
             p     == given[1]
         IN  /\ given # <<>> => /\ HashString(p) \in Pairs /\ Outgoing(p) \in BOOLEAN
                                /\ p.len = r.len /\ r.len \in Nat
                                /\ SeemsTcp(ReadAs(d, r), r)
             /\ given # <<>> => p = [src |-> Source(r, Ends(ReadAs(d, r), r)),
                                     dst |-> Target(r, Ends(ReadAs(d, r), r)), len |-> r.len]
<1> DEFINE v == ReadAs(d, r)
           ends == Ends(v, r)
           p == [src |-> Source(r, ends), dst |-> Target(r, ends), len |-> r.len]
<1>1. r \in Frame /\ r.seen \in Pairs /\ r.len \in Nat /\ r.sent \in BOOLEAN
  BY CaptureAssumption DEF Frames, Frame
<1>2. ends \in Pairs
  BY <1>1, CaptureAssumption DEF Ends, Pairs
<1>3. Parse(d, r) = IF ~SeemsTcp(v, r) THEN <<>> ELSE <<p>>
  BY DEF Parse
<1> HIDE DEF ends, v
<1>4. Outgoing(p) \in BOOLEAN
  BY DEF Outgoing, Local
<1>5. HashString(p) \in {Pair(p.src, p.dst), Pair(p.dst, p.src)}
  BY DEF HashString
<1>6. Pair(p.src, p.dst) \in Pairs /\ Pair(p.dst, p.src) \in Pairs
  BY <1>1, <1>2 DEF Pair, Pairs, Source, Target
<1>7. HashString(p) \in Pairs
  BY <1>5, <1>6
<1> HIDE DEF p
<1>8. Parse(d, r) # <<>> => SeemsTcp(v, r) /\ Parse(d, r)[1] = p
  BY <1>3
<1>9. p.len = r.len
  BY DEF p
<1> QED
  BY <1>1, <1>4, <1>7, <1>8, <1>9 DEF p, ends, v

\* A flow whose ends the monitor knows for what they are.
Good(f) == f.own \in local /\ f.peer \notin Known

LEMMA PlainIs ==
  ASSUME NEW d \in Devices, NEW r \in Frames, Plain(d, r)
  PROVE  /\ Parse(d, r) # <<>> /\ Ends(ReadAs(d, r), r) = r.flow
         /\ HashString(Parse(d, r)[1]) \in {r.flow, Swapped(r.flow)}
<1>1. r.protocol = "tcp" /\ r.form = "plain" /\ r.seen = r.flow /\ r.flow \in Pairs
  BY CaptureAssumption DEF Plain, Frames, Frame, WellFormed
<1>2. ReadAs(d, r) = Family(r.flow.own)
  BY DEF Plain, ReadAs
<1>3. SeemsTcp(ReadAs(d, r), r) /\ Ends(ReadAs(d, r), r) = r.flow
  BY <1>1, <1>2 DEF SeemsTcp, Ends
<1>4. Parse(d, r) # <<>>
  BY <1>3 DEF Parse
<1> DEFINE p == Parse(d, r)[1]
<1>5. p = [src |-> Source(r, r.flow), dst |-> Target(r, r.flow), len |-> r.len]
  BY <1>3, <1>4, ParseIs
<1>6. {Pair(Source(r, r.flow), Target(r, r.flow)), Pair(Target(r, r.flow), Source(r, r.flow))}
        = {r.flow, Swapped(r.flow)}
  BY <1>1 DEF Pair, Source, Target, Swapped, Pairs
<1> HIDE DEF p
<1>7. HashString(p) \in {r.flow, Swapped(r.flow)}
  BY <1>5, <1>6 DEF HashString
<1> QED
  BY <1>3, <1>4, <1>7 DEF p

LEMMA HashIs ==
  ASSUME NEW d \in Devices, NEW r \in Frames, Parse(d, r) # <<>>,
         local \subseteq Known, r.flow.own \in Known, NEW f \in Flows, Good(f)
  PROVE  LET p == Parse(d, r)[1]
         IN  /\ Plain(d, r) /\ r.flow = f => HashString(p) = f /\ Outgoing(p) = r.sent
             /\ Plain(d, r) /\ r.flow # f => HashString(p) # f
             /\ HashString(p) # Swapped(f)
<1> DEFINE p == Parse(d, r)[1]
           ends == Ends(ReadAs(d, r), r)
<1>1. p = [src |-> Source(r, ends), dst |-> Target(r, ends), len |-> r.len]
  BY ParseIs
<1>2. f \in Pairs /\ r.flow \in Pairs /\ r.seen \in Pairs /\ f.own # f.peer /\ r.sent \in BOOLEAN
  BY CaptureAssumption DEF Frames, Frame, Good
<1>3. ends = r.seen \/ ends = [own |-> Garbage, ownPort |-> 0, peer |-> Garbage, peerPort |-> 0]
  BY DEF Ends
<1>4. ends = r.seen => ends.own = r.flow.own
  BY DEF Frames, Frame, WellFormed
<1>5. ends \in Pairs /\ (ends.own \in Known \/ ends.own = ends.peer)
  BY <1>2, <1>3, <1>4, CaptureAssumption DEF Pairs
<1>6. Plain(d, r) => ends = r.flow /\ HashString(p) \in {r.flow, Swapped(r.flow)}
  BY PlainIs
<1> HIDE DEF ends, p
<1>7. f.peer \notin local
  BY DEF Good
<1>8. {HashString(p)} \subseteq {ends, Swapped(ends)}
  BY <1>1, <1>2, <1>5 DEF HashString, Pair, Source, Target, Swapped, Pairs
<1>9. ends = f => HashString(p) = f /\ Outgoing(p) = r.sent
  <2> SUFFICES ASSUME ends = f PROVE HashString(p) = f /\ Outgoing(p) = r.sent
    OBVIOUS
  <2>1. CASE r.sent
    <3>1. Outgoing(p) /\ Outgoing(p) = r.sent
      BY <1>1, <1>2, <2>1 DEF Outgoing, Local, Source, Good
    <3>2. HashString(p) = f
      BY <1>1, <1>2, <2>1, <3>1 DEF HashString, Pair, Source, Target, Pairs
    <3> QED
      BY <3>1, <3>2
  <2>2. CASE ~r.sent
    <3>1. ~Outgoing(p) /\ Outgoing(p) = r.sent
      BY <1>1, <1>2, <1>7, <2>2 DEF Outgoing, Local, Source
    <3>2. HashString(p) = f
      BY <1>1, <1>2, <2>2, <3>1 DEF HashString, Pair, Source, Target, Pairs
    <3> QED
      BY <3>1, <3>2
  <2> QED
    BY <2>1, <2>2
<1>10. ends # Swapped(f)
  BY <1>2, <1>5 DEF Swapped, Good
<1>11. Swapped(ends) = f => ends = Swapped(f)
  BY <1>2, <1>5 DEF Swapped, Pairs
<1>12. Swapped(ends) = Swapped(f) => ends = f
  BY <1>2, <1>5 DEF Swapped, Pairs
<1>13. f # Swapped(f)
  BY <1>2 DEF Swapped
<1> QED
  BY <1>6, <1>8, <1>9, <1>10, <1>11, <1>12, <1>13 DEF p

\* What a frame adds to the account of a flow in a direction.
Value(d, r, f, out) == IF Plain(d, r) /\ r.flow = f /\ r.sent = out THEN r.len ELSE 0

After(d, r, c) == IF Parse(d, r) = <<>> THEN c ELSE ProcessTcp(c, Parse(d, r)[1])
Misread(d, r, f) == Parse(d, r) # <<>> /\ ~Plain(d, r) /\ HashString(Parse(d, r)[1]) = f

LEMMA ValueIs ==
  ASSUME NEW d, NEW r \in Frames, NEW f, NEW out
  PROVE  Value(d, r, f, out) \in Nat
BY CaptureAssumption DEF Value, Frames, Frame

LEMMA AfterIs ==
  ASSUME NEW d \in Devices, NEW r \in Frames, NEW c \in Books,
         local \subseteq Known, r.flow.own \in Known
  PROVE  /\ After(d, r, c) \in Books
         /\ \A k \in DOMAIN After(d, r, c) : k \in DOMAIN c \/ (Parse(d, r) # <<>> /\ k = HashString(Parse(d, r)[1]))
         /\ \A f \in Flows : Good(f) /\ ~Misread(d, r, f) =>
              /\ Swapped(f) \in DOMAIN After(d, r, c) => Swapped(f) \in DOMAIN c
              /\ \A out \in BOOLEAN : Of(At(After(d, r, c), f), out) = Of(At(c, f), out) + Value(d, r, f, out)
<1> DEFINE p == Parse(d, r)[1]  k == HashString(p)  o == Outgoing(p)  n == p.len
           e == Counted(c, k, o, n)
<1>1. CASE Parse(d, r) = <<>>
  <2>1. After(d, r, c) = c /\ ~Plain(d, r)
    BY <1>1, PlainIs DEF After
  <2>2. ASSUME NEW f \in Flows, NEW out \in BOOLEAN
        PROVE  Of(At(c, f), out) = Of(At(c, f), out) + Value(d, r, f, out)
    <3>1. Of(At(c, f), out) \in Nat /\ Value(d, r, f, out) = 0
      BY <2>1, AtIs DEF Value
    <3> QED
      BY <3>1
  <2> QED
    BY <2>1, <2>2
<1>2. CASE Parse(d, r) # <<>>
  <2>1. k \in Pairs /\ o \in BOOLEAN /\ n = r.len /\ n \in Nat /\ r.sent \in BOOLEAN
    BY <1>2, ParseIs DEF Frames, Frame
  <2>2. After(d, r, c) = e
    BY <1>2 DEF After, ProcessTcp
  <2> HIDE DEF o, n
  <2>3. /\ e \in Books /\ DOMAIN e = DOMAIN c \cup {k}
        /\ \A j : j # k => At(e, j) = At(c, j)
        /\ Of(At(e, k), o) = Of(At(c, k), o) + n
        /\ Of(At(e, k), ~o) = Of(At(c, k), ~o)
    <3> HIDE DEF k
    <3> QED
      BY <2>1, CountedIs
  <2>4. ASSUME NEW f \in Flows, Good(f), ~Misread(d, r, f)
        PROVE  /\ Swapped(f) \in DOMAIN e => Swapped(f) \in DOMAIN c
               /\ \A out \in BOOLEAN : Of(At(e, f), out) = Of(At(c, f), out) + Value(d, r, f, out)
    <3>1. /\ Plain(d, r) /\ r.flow = f => k = f /\ o = r.sent
          /\ Plain(d, r) /\ r.flow # f => k # f
          /\ k # Swapped(f)
      BY <1>2, <2>4, HashIs DEF o
    <3>2. ~Plain(d, r) => k # f
      BY <1>2, <2>4 DEF Misread
    <3> HIDE DEF k, e
    <3>3. Swapped(f) \in DOMAIN e => Swapped(f) \in DOMAIN c
      BY <2>3, <3>1
    <3>4. ASSUME NEW out \in BOOLEAN PROVE Of(At(e, f), out) = Of(At(c, f), out) + Value(d, r, f, out)
      <4>1. Of(At(c, f), out) \in Nat
        BY AtIs
      <4>2. CASE Plain(d, r) /\ r.flow = f
        <5>1. k = f /\ o = r.sent
          BY <3>1, <4>2
        <5>2. CASE out = o
          <6>1. Value(d, r, f, out) = n
            BY <2>1, <4>2, <5>1, <5>2 DEF Value
          <6> QED
            BY <2>3, <5>1, <5>2, <6>1
        <5>3. CASE out # o
          <6>1. Value(d, r, f, out) = 0 /\ out = ~o
            BY <2>1, <5>1, <5>3 DEF Value
          <6>2. Of(At(e, f), out) = Of(At(c, f), out)
            BY <2>3, <5>1, <6>1
          <6> QED
            BY <4>1, <6>1, <6>2
        <5> QED
          BY <5>2, <5>3
      <4>3. CASE ~(Plain(d, r) /\ r.flow = f)
        <5>1. k # f /\ Value(d, r, f, out) = 0
          BY <3>1, <3>2, <4>3 DEF Value
        <5>2. At(e, f) = At(c, f)
          BY <2>3, <5>1
        <5> QED
          BY <4>1, <5>1, <5>2
      <4> QED
        BY <4>2, <4>3
    <3> QED
      BY <3>3, <3>4
  <2>5. \A j \in DOMAIN e : j \in DOMAIN c \/ j = k
    BY <2>3
  <2> QED
    BY <1>2, <2>2, <2>3, <2>4, <2>5
<1> QED
  BY <1>1, <1>2

-----------------------------------------------------------------------------
\* What waits in the buffer of a device for a flow, and in all of them.
Part(d, f, out) == [i \in DOMAIN buffer[d] |-> Value(d, buffer[d][i], f, out)]
In(d, f, out)   == SumFunctionOnSet(Part(d, f, out), DOMAIN buffer[d])
Waits(f, out)   == SumFunctionOnSet([d \in Devices |-> In(d, f, out)], Devices)

Kept ==
  /\ address \in [Devices -> SUBSET (V4 \cup V6)] /\ open \subseteq Devices
  /\ devices \subseteq Devices /\ up \subseteq Devices
  /\ buffer \in [Devices -> Seq(Frames)] /\ packets \in Books /\ wire \in Books
  /\ local \subseteq Known
  /\ \A d \in Devices : \A i \in DOMAIN buffer[d] :
       /\ buffer[d][i].flow.own \in Known
       /\ Plain(d, buffer[d][i]) => buffer[d][i].flow \in DOMAIN wire

LEMMA InIs ==
  ASSUME Kept, NEW d \in Devices, NEW f, NEW out
  PROVE  /\ DOMAIN buffer[d] = 1 .. Len(buffer[d]) /\ Len(buffer[d]) \in Nat
         /\ IsFiniteSet(DOMAIN buffer[d])
         /\ \A i \in DOMAIN buffer[d] : buffer[d][i] \in Frames /\ Part(d, f, out)[i] \in Nat
         /\ In(d, f, out) \in Nat
<1>1. DOMAIN buffer[d] = 1 .. Len(buffer[d]) /\ Len(buffer[d]) \in Nat
  BY DEF Kept
<1>2. IsFiniteSet(DOMAIN buffer[d])
  <2>1. IsFiniteSet(1 .. Len(buffer[d]))
    BY <1>1, FS_Interval
  <2> QED
    BY <1>1, <2>1
<1>3. \A i \in DOMAIN buffer[d] : buffer[d][i] \in Frames /\ Part(d, f, out)[i] \in Nat
  BY <1>1, ValueIs DEF Kept, Part
<1>4. In(d, f, out) \in Nat
  BY <1>2, <1>3, SumMonotone DEF In
<1> QED
  BY <1>1, <1>2, <1>3, <1>4

\* A dispatch counts what waits in the buffer of its device, and nothing else.
LEMMA DispatchIs ==
  ASSUME Kept, NEW d \in Devices, Dispatch(d)
  PROVE  /\ packets' \in Books
         /\ \A k \in DOMAIN packets' :
              \/ k \in DOMAIN packets \cup spelled'
              \/ \E i \in DOMAIN buffer[d] : /\ Plain(d, buffer[d][i])
                                             /\ k \in {buffer[d][i].flow, Swapped(buffer[d][i].flow)}
         /\ \A f \in Flows : Good(f) /\ f \notin spelled' =>
              /\ Swapped(f) \in DOMAIN packets' => Swapped(f) \in DOMAIN packets
              /\ \A out \in BOOLEAN : Of(At(packets', f), out) = Of(At(packets, f), out) + In(d, f, out)
<1> DEFINE list  == buffer[d]
           N     == Len(list)
           given == [i \in DOMAIN list |-> Parse(d, list[i])]
           misread == {i \in DOMAIN given : given[i] # <<>> /\ ~Plain(d, list[i])
                                  /\ SeemsTcp(ReadAs(d, list[i]), list[i])}
           step  == [i \in 1 .. N |-> [c \in Books |-> After(d, list[i], c)]]
           Is(f) == f = [i \in 0 .. Len(given) |->
                           IF i = 0 THEN packets
                           ELSE IF given[i] = <<>> THEN f[i - 1] ELSE ProcessTcp(f[i - 1], given[i][1])]
           after == CHOOSE f : Is(f)
<1>1. /\ DOMAIN list = 1 .. N /\ N \in Nat /\ DOMAIN given = 1 .. N /\ Len(given) = N
      /\ \A i \in 1 .. N : list[i] \in Frames /\ list[i].flow.own \in Known
      /\ packets \in Books /\ local \subseteq Known
  BY InIs DEF Kept
<1>2. packets' = after[Len(given)] /\ spelled' = spelled \cup {HashString(given[i][1]) : i \in misread}
  BY DEF Dispatch
<1>3. \A i \in 1 .. N : \A f : Misread(d, list[i], f) => f \in spelled'
  <2> SUFFICES ASSUME NEW i \in 1 .. N, Parse(d, list[i]) # <<>>, ~Plain(d, list[i])
               PROVE  HashString(given[i][1]) \in spelled'
    BY <1>1 DEF Misread
  <2>1. SeemsTcp(ReadAs(d, list[i]), list[i])
    BY <1>1, ParseIs
  <2>2. i \in misread
    BY <1>1, <2>1
  <2> QED
    BY <1>2, <2>2
<1>4. \A i \in 1 .. N : \A c \in Books : After(d, list[i], c) \in Books
  BY <1>1, AfterIs
<1>5. step \in [1 .. N -> [Books -> Books]]
  BY <1>4
<1>6. \A i \in 1 .. N : \A c \in Books :
        /\ step[i][c] = After(d, list[i], c)
        /\ step[i][c] = IF given[i] = <<>> THEN c ELSE ProcessTcp(c, given[i][1])
  BY <1>1 DEF After
<1> HIDE DEF step, given, list, N
<1>7. PICK g \in [0 .. N -> Books] : Goes(g, N, packets, step)
  BY <1>1, <1>5, StepsExist
<1>8. \A i \in 0 .. N : i # 0 => i \in 1 .. N /\ g[i - 1] \in Books
  BY <1>1, <1>7
<1>9. Is(g)
  <2>1. \A i \in 0 .. N : i # 0 =>
          step[i][g[i - 1]] = IF given[i] = <<>> THEN g[i - 1] ELSE ProcessTcp(g[i - 1], given[i][1])
    BY <1>6, <1>8
  <2> QED
    BY <1>1, <1>7, <2>1 DEF Goes
<1>10. Is(after)
  BY <1>9
<1> HIDE DEF after
<1>11. after[0] = packets /\ \A i \in 1 .. N : after[i - 1] \in Books => after[i] = After(d, list[i], after[i - 1])
  <2>1. \A i \in 1 .. N : i \in 0 .. Len(given) /\ i # 0
    BY <1>1
  <2>2. 0 \in 0 .. Len(given)
    BY <1>1
  <2>3. \A i \in 1 .. N : after[i] = IF given[i] = <<>> THEN after[i - 1] ELSE ProcessTcp(after[i - 1], given[i][1])
    BY <1>10, <2>1
  <2> QED
    BY <1>6, <1>10, <2>2, <2>3
<1> DEFINE Right(n) ==
             /\ after[n] \in Books
             /\ \A k \in DOMAIN after[n] :
                  k \in DOMAIN packets \/
                  \E i \in 1 .. N : Parse(d, list[i]) # <<>> /\ k = HashString(Parse(d, list[i])[1])
             /\ \A f \in Flows : Good(f) /\ f \notin spelled' =>
                  /\ Swapped(f) \in DOMAIN after[n] => Swapped(f) \in DOMAIN packets
                  /\ \A out \in BOOLEAN :
                       Of(At(after[n], f), out)
                         = Of(At(packets, f), out) + SumFunctionOnSet(Part(d, f, out), 1 .. n)
           T == {n \in Nat : n <= N => Right(n)}
<1>12. Right(0)
  <2>1. 1 .. 0 = {}
    OBVIOUS
  <2>2. \A f, out : SumFunctionOnSet(Part(d, f, out), 1 .. 0) = 0
    BY <2>1, SumEmpty
  <2>3. \A f : \A out \in BOOLEAN : Of(At(packets, f), out) \in Nat
    BY <1>1, AtIs
  <2> QED
    BY <1>1, <1>11, <2>2, <2>3
<1>13. ASSUME NEW n \in Nat, n \in T PROVE n + 1 \in T
  <2> SUFFICES ASSUME n + 1 <= N PROVE Right(n + 1)
    OBVIOUS
  <2> DEFINE m == n + 1  r == list[m]
  <2>1. m \in 1 .. N /\ m - 1 = n /\ n <= N
    BY <1>1
  <2>2. Right(n)
    BY <1>13, <2>1
  <2>3. r \in Frames /\ r.flow.own \in Known
    BY <1>1, <2>1
  <2>4. after[m] = After(d, r, after[n])
    BY <1>11, <2>1, <2>2
  <2> HIDE DEF r, m
  <2>5. /\ after[m] \in Books
        /\ \A k \in DOMAIN after[m] : k \in DOMAIN after[n] \/ (Parse(d, r) # <<>> /\ k = HashString(Parse(d, r)[1]))
        /\ \A f \in Flows : Good(f) /\ ~Misread(d, r, f) =>
             /\ Swapped(f) \in DOMAIN after[m] => Swapped(f) \in DOMAIN after[n]
             /\ \A out \in BOOLEAN : Of(At(after[m], f), out) = Of(At(after[n], f), out) + Value(d, r, f, out)
    BY <1>1, <2>2, <2>3, <2>4, AfterIs
  <2>6. \A k \in DOMAIN after[m] :
          k \in DOMAIN packets \/
          \E i \in 1 .. N : Parse(d, list[i]) # <<>> /\ k = HashString(Parse(d, list[i])[1])
    BY <2>1, <2>2, <2>5 DEF r
  <2>7. ASSUME NEW f \in Flows, Good(f), f \notin spelled'
        PROVE  /\ Swapped(f) \in DOMAIN after[m] => Swapped(f) \in DOMAIN packets
               /\ \A out \in BOOLEAN :
                    Of(At(after[m], f), out)
                      = Of(At(packets, f), out) + SumFunctionOnSet(Part(d, f, out), 1 .. m)
    <3>1. ~Misread(d, r, f)
      BY <1>3, <2>1, <2>7 DEF r
    <3>2. Swapped(f) \in DOMAIN after[m] => Swapped(f) \in DOMAIN packets
      BY <2>2, <2>5, <2>7, <3>1
    <3>3. ASSUME NEW out \in BOOLEAN
          PROVE  Of(At(after[m], f), out)
                   = Of(At(packets, f), out) + SumFunctionOnSet(Part(d, f, out), 1 .. m)
      <4> DEFINE w == Part(d, f, out)
      <4>1. \A i \in 1 .. N : w[i] \in Nat /\ w[i] = Value(d, list[i], f, out)
        BY <1>1, InIs DEF Part, list
      <4>2. IsFiniteSet(1 .. m) /\ m \in 1 .. m /\ (1 .. m) \ {m} = 1 .. n /\ 1 .. m \subseteq 1 .. N
        <5>1. m \in Int /\ IsFiniteSet(1 .. m)
          BY <2>1, FS_Interval
        <5> QED
          BY <1>1, <2>1, <5>1
      <4> HIDE DEF w
      <4>3. /\ SumFunctionOnSet(w, 1 .. m) = w[m] + SumFunctionOnSet(w, 1 .. n)
            /\ SumFunctionOnSet(w, 1 .. n) \in Int
        <5>1. \A i \in 1 .. m : w[i] \in Int
          BY <4>1, <4>2
        <5>2. /\ SumFunctionOnSet(w, 1 .. m) = w[m] + SumFunctionOnSet(w, (1 .. m) \ {m})
              /\ SumFunctionOnSet(w, (1 .. m) \ {m}) \in Int
          BY <4>2, <5>1, SumRemove
        <5> QED
          BY <4>2, <5>2
      <4>4. w[m] = Value(d, r, f, out) /\ w[m] \in Nat
        BY <2>1, <4>1 DEF r
      <4>5. Of(At(after[m], f), out) = Of(At(after[n], f), out) + Value(d, r, f, out)
        BY <2>5, <2>7, <3>1
      <4>6. Of(At(after[n], f), out) = Of(At(packets, f), out) + SumFunctionOnSet(w, 1 .. n)
        BY <2>2, <2>7 DEF w
      <4>7. Of(At(packets, f), out) \in Nat
        BY <1>1, AtIs
      <4>8. Of(At(after[m], f), out) = Of(At(packets, f), out) + SumFunctionOnSet(w, 1 .. m)
        BY <4>3, <4>4, <4>5, <4>6, <4>7
      <4> QED
        BY <4>8 DEF w
    <3> QED
      BY <3>2, <3>3
  <2> QED
    BY <2>5, <2>6, <2>7 DEF m
<1> HIDE DEF T, Right
<1>14. Nat \subseteq T
  <2>1. 0 \in T
    BY <1>12 DEF T
  <2> QED
    BY <1>13, <2>1, Induction
<1>15. Right(N) /\ packets' = after[N]
  BY <1>1, <1>2, <1>14 DEF T
<1>16. ASSUME NEW k \in DOMAIN packets', k \notin DOMAIN packets \cup spelled'
       PROVE  \E i \in DOMAIN list : Plain(d, list[i]) /\ k \in {list[i].flow, Swapped(list[i].flow)}
  <2>1. PICK i \in 1 .. N : Parse(d, list[i]) # <<>> /\ k = HashString(Parse(d, list[i])[1])
    BY <1>15, <1>16 DEF Right
  <2>2. Plain(d, list[i])
    BY <1>3, <1>16, <2>1 DEF Misread
  <2>3. HashString(Parse(d, list[i])[1]) \in {list[i].flow, Swapped(list[i].flow)}
    BY <1>1, <2>2, PlainIs
  <2> QED
    BY <1>1, <2>1, <2>2, <2>3
<1>17. \A f, out : In(d, f, out) = SumFunctionOnSet(Part(d, f, out), 1 .. N)
  BY <1>1 DEF In, list
<1> QED
  BY <1>15, <1>16, <1>17 DEF Right, list

-----------------------------------------------------------------------------
\* Own ends are known for ever.
LEMMA KnownGrows ==
  ASSUME Kept, [CaptureNext]_captureVars
  PROVE  /\ address' \in [Devices -> SUBSET (V4 \cup V6)]
         /\ Known \subseteq Known' /\ \A d \in Devices : address'[d] \subseteq address[d] \cup moved'
<1>1. CASE UNCHANGED <<address, moved>>
  BY <1>1 DEF Kept, Known
<1>2. ASSUME NEW d \in Devices, NEW a \in {{f.own} : f \in Flows} \cup {{}}, Renumber(d, a)
      PROVE  /\ address' \in [Devices -> SUBSET (V4 \cup V6)]
             /\ Known \subseteq Known' /\ \A e \in Devices : address'[e] \subseteq address[e] \cup moved'
  <2>1. address \in [Devices -> SUBSET (V4 \cup V6)]
    BY DEF Kept
  <2>2. address' = [address EXCEPT ![d] = a] /\ moved' = moved \cup address[d] \cup a
    BY <1>2 DEF Renumber
  <2>3. a \in SUBSET (V4 \cup V6)
    BY CaptureAssumption DEF Pairs
  <2>4. /\ address' \in [Devices -> SUBSET (V4 \cup V6)]
        /\ \A e \in Devices : e # d => address'[e] = address[e]
        /\ address'[d] = a
    BY <2>1, <2>2, <2>3
  <2>5. ASSUME NEW e \in Devices, NEW x \in address[e] PROVE x \in Known'
    <3>1. x \in address'[e] \/ x \in moved'
      BY <2>2, <2>4
    <3>2. address'[e] \in Range(address')
      BY <2>4 DEF Range
    <3> QED
      BY <3>1, <3>2 DEF Known
  <2>6. Known \subseteq Known'
    BY <2>1, <2>2, <2>5 DEF Known, Range
  <2> QED
    BY <2>2, <2>4, <2>6
<1> QED
  BY <1>1, <1>2 DEF CaptureNext, captureVars, network, Open, Dispatch, Cross, GetDevices, GoesUp

LEMMA KeptInductive ==
  ASSUME Kept, [CaptureNext]_captureVars PROVE Kept'
<1>1. /\ address' \in [Devices -> SUBSET (V4 \cup V6)]
      /\ Known \subseteq Known'
  BY KnownGrows
<1>2. ASSUME UNCHANGED <<open, devices, local, buffer, packets, wire>>, up' \subseteq Devices PROVE Kept'
  <2>1. open' \subseteq Devices /\ devices' \subseteq Devices /\ up' \subseteq Devices /\ local' \subseteq Known'
    BY <1>1, <1>2 DEF Kept
  <2>2. buffer' \in [Devices -> Seq(Frames)] /\ packets' \in Books /\ wire' \in Books
    BY <1>2 DEF Kept
  <2>3. \A d \in Devices : \A i \in DOMAIN buffer'[d] :
          /\ buffer'[d][i].flow.own \in Known'
          /\ Plain(d, buffer'[d][i]) => buffer'[d][i].flow \in DOMAIN wire'
    BY <1>1, <1>2 DEF Kept
  <2> QED
    BY <1>1, <2>1, <2>2, <2>3 DEF Kept
<1>3. ASSUME NEW d \in Devices, NEW r \in Frames, Cross(d, r) PROVE Kept'
  <2>1. /\ buffer \in [Devices -> Seq(Frames)] /\ wire \in Books /\ packets \in Books
        /\ address \in [Devices -> SUBSET (V4 \cup V6)]
    BY DEF Kept
  <2>2. buffer' = [buffer EXCEPT ![d] = Append(@, r)]
    BY <1>3 DEF Cross
  <2>3. r.flow \in Pairs /\ r.sent \in BOOLEAN /\ r.len \in Nat
    BY CaptureAssumption DEF Frames, Frame
  <2>4. wire' \in Books /\ DOMAIN wire \subseteq DOMAIN wire' /\ (Plain(d, r) => r.flow \in DOMAIN wire')
    <3>1. CASE Plain(d, r)
      <4>1. wire' = Counted(wire, r.flow, r.sent, r.len)
        BY <1>3, <3>1 DEF Cross
      <4> DEFINE k == r.flow  o == r.sent  n == r.len
      <4>2. k \in Pairs /\ o \in BOOLEAN /\ n \in Nat /\ wire' = Counted(wire, k, o, n)
        BY <2>3, <4>1
      <4> HIDE DEF k, o, n
      <4>a. wire \in Books /\ k \in Pairs /\ o \in BOOLEAN /\ n \in Nat
        BY <2>1, <4>2
      <4>3. /\ Counted(wire, k, o, n) \in Books
            /\ DOMAIN Counted(wire, k, o, n) = DOMAIN wire \cup {k}
        BY <4>a, CountedIs
      <4>4. wire' \in Books /\ DOMAIN wire' = DOMAIN wire \cup {k}
        BY <4>2, <4>3
      <4> QED
        BY <4>4 DEF k
    <3>2. CASE ~Plain(d, r)
      BY <1>3, <2>1, <3>2 DEF Cross
    <3> QED
      BY <3>1, <3>2
  <2>5. /\ buffer' \in [Devices -> Seq(Frames)]
        /\ \A e \in Devices : e # d => buffer'[e] = buffer[e]
        /\ buffer'[d] = Append(buffer[d], r)
    BY <2>1, <2>2
  <2>6. r.flow.own \in Known'
    BY <1>1, <1>3 DEF Cross, Known
  <2>7. ASSUME NEW e \in Devices, NEW i \in DOMAIN buffer'[e]
        PROVE  /\ buffer'[e][i].flow.own \in Known'
               /\ Plain(e, buffer'[e][i]) => buffer'[e][i].flow \in DOMAIN wire'
    <3>1. \/ i \in DOMAIN buffer[e] /\ buffer'[e][i] = buffer[e][i]
          \/ e = d /\ buffer'[e][i] = r
      <4>1. CASE e = d
        <5>1. buffer[d] \in Seq(Frames)
          BY <2>1
        <5> DEFINE b == buffer[d]
        <5>2. i \in DOMAIN Append(b, r) /\ buffer'[e][i] = Append(b, r)[i]
          BY <2>5, <2>7, <4>1
        <5> HIDE DEF b
        <5>3. \/ i \in DOMAIN b /\ Append(b, r)[i] = b[i]
              \/ Append(b, r)[i] = r
          BY <5>1, <5>2 DEF b
        <5> QED
          BY <4>1, <5>2, <5>3 DEF b
      <4>2. CASE e # d
        BY <2>5, <4>2
      <4> QED
        BY <4>1, <4>2
    <3> QED
      BY <1>1, <2>4, <2>6, <3>1 DEF Kept
  <2>8. open' \subseteq Devices /\ devices' \subseteq Devices /\ up' \subseteq Devices /\ local' \subseteq Known' /\ packets' \in Books
    BY <1>1, <1>3 DEF Cross, Kept, monitor, network
  <2> QED
    BY <1>1, <2>4, <2>5, <2>7, <2>8 DEF Kept
<1>4. ASSUME NEW d \in Devices, Dispatch(d) PROVE Kept'
  <2>1. packets' \in Books
    BY <1>4, DispatchIs
  <2>2. buffer \in [Devices -> Seq(Frames)] /\ buffer' = [buffer EXCEPT ![d] = <<>>]
    BY <1>4 DEF Kept, Dispatch
  <2>3. /\ buffer' \in [Devices -> Seq(Frames)] /\ DOMAIN buffer'[d] = {}
        /\ \A e \in Devices : e # d => buffer'[e] = buffer[e]
    BY <2>2
  <2>4. open' \subseteq Devices /\ devices' \subseteq Devices /\ up' \subseteq Devices /\ local' \subseteq Known' /\ wire' \in Books /\ wire' = wire
    BY <1>1, <1>4 DEF Dispatch, Kept, network
  <2>5. \A e \in Devices : \A i \in DOMAIN buffer'[e] :
          /\ buffer'[e][i].flow.own \in Known'
          /\ Plain(e, buffer'[e][i]) => buffer'[e][i].flow \in DOMAIN wire'
    BY <1>1, <2>3, <2>4 DEF Kept
  <2> QED
    BY <1>1, <2>1, <2>3, <2>4, <2>5 DEF Kept
<1>5. ASSUME NEW d \in Devices, Open(d) PROVE Kept'
  <2>1. open' \subseteq Devices /\ devices' \subseteq Devices /\ up' \subseteq Devices
    BY <1>5 DEF Open, Kept, network
  <2>2. local' \subseteq Known'
    <3>1. address[d] \subseteq Known
      BY DEF Known, Kept, Range
    <3> QED
      BY <1>1, <1>5, <3>1 DEF Open, Kept
  <2>3. UNCHANGED <<buffer, packets, wire>>
    BY <1>5 DEF Open
  <2>4. buffer' \in [Devices -> Seq(Frames)] /\ packets' \in Books /\ wire' \in Books
    BY <2>3 DEF Kept
  <2>5. \A e \in Devices : \A i \in DOMAIN buffer'[e] :
          /\ buffer'[e][i].flow.own \in Known'
          /\ Plain(e, buffer'[e][i]) => buffer'[e][i].flow \in DOMAIN wire'
    BY <1>1, <2>3 DEF Kept
  <2> QED
    BY <1>1, <2>1, <2>2, <2>4, <2>5 DEF Kept
<1>6. CASE GetDevices
  <2>1. open' \subseteq Devices /\ devices' \subseteq Devices /\ up' \subseteq Devices /\ local' \subseteq Known'
    BY <1>1, <1>6 DEF GetDevices, Kept, network
  <2>3. UNCHANGED <<buffer, packets, wire>>
    BY <1>6 DEF GetDevices
  <2>4. buffer' \in [Devices -> Seq(Frames)] /\ packets' \in Books /\ wire' \in Books
    BY <2>3 DEF Kept
  <2>5. \A e \in Devices : \A i \in DOMAIN buffer'[e] :
          /\ buffer'[e][i].flow.own \in Known'
          /\ Plain(e, buffer'[e][i]) => buffer'[e][i].flow \in DOMAIN wire'
    BY <1>1, <2>3 DEF Kept
  <2> QED
    BY <1>1, <2>1, <2>4, <2>5 DEF Kept
<1>7. CASE UNCHANGED captureVars
  BY <1>2, <1>7 DEF captureVars, network, monitor, Kept
<1>8. ASSUME NEW d \in Devices, NEW a, Renumber(d, a) \/ GoesUp(d) PROVE Kept'
  <2>1. up' \subseteq Devices
    BY <1>8 DEF Renumber, GoesUp, Kept
  <2>2. UNCHANGED <<open, devices, local, buffer, packets, wire>>
    BY <1>8 DEF Renumber, GoesUp, monitor
  <2> QED
    BY <1>2, <2>1, <2>2
<1> QED
  BY <1>3, <1>4, <1>5, <1>6, <1>7, <1>8 DEF CaptureNext, Frames

\* Nothing is counted before the last device is open, and from then on the
\* addresses that the monitor has read stay.
Counting == started /\ devices = {}

Phases ==
  /\ ~started => open = {} /\ devices = {}
  /\ ~Counting => DOMAIN packets = {} /\ spelled = {}
  /\ \A d \in open : address[d] \subseteq local \cup moved

LEMMA PhasesInductive ==
  ASSUME Kept, Phases, [CaptureNext]_captureVars PROVE Phases'
<1>1. \A d \in Devices : address'[d] \subseteq address[d] \cup moved'
  BY KnownGrows
<1>2. open \subseteq Devices /\ moved \subseteq moved'
  BY DEF Kept, CaptureNext, captureVars, network, Renumber, GoesUp, Open, Dispatch, Cross, GetDevices
<1>3. CASE UNCHANGED <<started, devices, open, local, packets, spelled>>
  <2>1. \A d \in open' : address'[d] \subseteq local' \cup moved'
    BY <1>1, <1>2, <1>3 DEF Phases
  <2> QED
    BY <1>3, <2>1 DEF Phases, Counting
<1>4. ASSUME NEW d \in Devices, Open(d) PROVE Phases'
  <2>1. /\ d \in devices /\ local' = local \cup address[d] /\ open' \subseteq open \cup {d}
        /\ UNCHANGED <<started, packets, spelled, address, moved>>
    BY <1>4 DEF Open, network
  <2>2. \A e \in open' : address'[e] \subseteq local' \cup moved'
    BY <2>1 DEF Phases
  <2>3. started /\ started'
    BY <2>1 DEF Phases
  <2> QED
    BY <2>1, <2>2, <2>3 DEF Phases, Counting
<1>5. CASE GetDevices
  <2>1. ~started /\ UNCHANGED <<open, local, packets, spelled, address, moved>> /\ started'
    BY <1>5 DEF GetDevices, network
  <2> QED
    BY <2>1 DEF Phases, Counting
<1>6. ASSUME NEW d \in Devices, Dispatch(d) PROVE Phases'
  <2>1. started /\ devices = {} /\ UNCHANGED <<started, devices, open, local>>
    BY <1>6 DEF Dispatch, Phases
  <2>2. \A e \in open' : address'[e] \subseteq local' \cup moved'
    BY <1>1, <1>2, <2>1 DEF Phases
  <2> QED
    BY <2>1, <2>2 DEF Phases, Counting
<1> QED
  BY <1>3, <1>4, <1>5, <1>6 DEF CaptureNext, captureVars, monitor, Renumber, GoesUp, Cross

\* Whose ends are steady is good.
LEMMA SteadyIsGood ==
  ASSUME Kept, Phases, NEW f \in Flows, Steady(f)
  PROVE  Counting => Good(f)
<1>1. PICK d \in open : f.own \in address[d]
  BY DEF Steady
<1>2. f.own \in local
  BY <1>1 DEF Phases, Steady
<1> QED
  BY <1>2 DEF Good, Known, Steady

-----------------------------------------------------------------------------
(***************************************************************************)
(* What has been counted and what waits is what has crossed.               *)
(***************************************************************************)
Tally(f) ==
  /\ Swapped(f) \notin DOMAIN packets
  /\ \A out \in BOOLEAN : Of(At(packets, f), out) + Waits(f, out) = Of(At(wire, f), out)

Tallied == \A f \in Flows : (Counting => Good(f)) /\ f \notin spelled => Tally(f)

LEMMA WaitsIs ==
  ASSUME Kept, NEW f, NEW out
  PROVE  Waits(f, out) \in Nat /\ \A d \in Devices : In(d, f, out) \in Nat
<1> DEFINE w == [d \in Devices |-> In(d, f, out)]
<1>1. \A d \in Devices : w[d] \in Nat /\ w[d] = In(d, f, out)
  BY InIs
<1> HIDE DEF w
<1>2. SumFunctionOnSet(w, Devices) \in Nat
  BY <1>1, CaptureAssumption, SumMonotone
<1> QED
  BY <1>1, <1>2 DEF Waits, w

\* The buffer of one device changes.
LEMMA WaitsChange ==
  ASSUME Kept, NEW d \in Devices, \A e \in Devices : e # d => buffer'[e] = buffer[e],
         NEW f, NEW out, In(d, f, out)' \in Nat
  PROVE  Waits(f, out)' = Waits(f, out) - In(d, f, out) + In(d, f, out)'
<1> DEFINE w == [e \in Devices |-> In(e, f, out)]
           v == [e \in Devices |-> In(e, f, out)']
<1>1. \A e \in Devices : In(e, f, out) \in Nat
  BY WaitsIs
<1>2. \A e \in Devices : e # d => In(e, f, out)' = In(e, f, out)
  BY DEF In, Part
<1>3. \A e \in Devices : In(e, f, out)' \in Nat
  BY <1>1, <1>2
<1>4. /\ \A e \in Devices : w[e] \in Int /\ v[e] \in Int /\ (e # d => v[e] = w[e])
      /\ w[d] = In(d, f, out) /\ v[d] = In(d, f, out)'
  BY <1>1, <1>2, <1>3
<1>5. Waits(f, out) = SumFunctionOnSet(w, Devices) /\ Waits(f, out)' = SumFunctionOnSet(v, Devices)
  BY DEF Waits
<1> HIDE DEF w, v
<1>6. SumFunctionOnSet(v, Devices) = SumFunctionOnSet(w, Devices) - w[d] + v[d]
  BY <1>4, CaptureAssumption, SumAtOne
<1> QED
  BY <1>4, <1>5, <1>6

\* A frame that comes adds its value to what waits.
LEMMA InGrows ==
  ASSUME Kept, NEW d \in Devices, NEW r \in Frames, buffer'[d] = Append(buffer[d], r), NEW f, NEW out
  PROVE  In(d, f, out)' = In(d, f, out) + Value(d, r, f, out) /\ In(d, f, out)' \in Nat
<1> DEFINE b == buffer[d]  N == Len(b)  more == Append(b, r)
           w == Part(d, f, out)  M == N + 1
           v == [i \in DOMAIN more |-> Value(d, more[i], f, out)]
<1>1. b \in Seq(Frames) /\ DOMAIN b = 1 .. N /\ N \in Nat /\ \A i \in 1 .. N : w[i] \in Nat
  BY InIs DEF Kept
<1>2. DOMAIN more = 1 .. M /\ more[M] = r /\ \A i \in 1 .. N : more[i] = b[i] /\ i \in 1 .. M
  BY <1>1
<1>3. M \in 1 .. M /\ (1 .. M) \ {M} = 1 .. N /\ \A i \in 1 .. M : i \in 1 .. N \/ i = M
  BY <1>1
<1>4. IsFiniteSet(1 .. N) /\ IsFiniteSet(1 .. M)
  <2>1. N \in Int /\ M \in Int
    BY <1>1
  <2> QED
    BY <2>1, FS_Interval
<1>5. buffer'[d] = more
  OBVIOUS
<1> HIDE DEF more, M
<1>6. \A i \in 1 .. N : v[i] = w[i] /\ w[i] \in Int
  <2>1. \A i \in 1 .. N : w[i] = Value(d, b[i], f, out)
    BY <1>1 DEF Part
  <2> HIDE DEF w, N
  <2>2. \A i \in 1 .. N : v[i] = Value(d, b[i], f, out)
    BY <1>2
  <2> HIDE DEF v, b
  <2> QED
    BY <1>1, <2>1, <2>2
<1>7. v[M] = Value(d, r, f, out) /\ v[M] \in Nat
  BY <1>2, <1>3, ValueIs
<1>8. In(d, f, out) = SumFunctionOnSet(w, 1 .. N) /\ In(d, f, out)' = SumFunctionOnSet(v, 1 .. M)
  BY <1>1, <1>2, <1>5 DEF In, Part
<1> HIDE DEF w, v, N
<1>9. \A i \in 1 .. M : v[i] \in Int
  BY <1>3, <1>6, <1>7
<1>10. SumFunctionOnSet(v, 1 .. N) = SumFunctionOnSet(w, 1 .. N) /\ SumFunctionOnSet(w, 1 .. N) \in Int
  BY <1>4, <1>6, SumSame
<1>11. SumFunctionOnSet(v, 1 .. M) = v[M] + SumFunctionOnSet(v, 1 .. N)
  <2> DEFINE S == 1 .. M
  <2>1. IsFiniteSet(S) /\ M \in S /\ S \ {M} = 1 .. N /\ \A i \in S : v[i] \in Int
    BY <1>3, <1>4, <1>9
  <2> HIDE DEF S
  <2>2. SumFunctionOnSet(v, S) = v[M] + SumFunctionOnSet(v, S \ {M})
    BY <2>1, SumRemove
  <2> QED
    BY <2>1, <2>2 DEF S
<1>12. In(d, f, out)' = In(d, f, out) + Value(d, r, f, out)
  BY <1>7, <1>8, <1>10, <1>11
<1> QED
  BY <1>12, InIs, ValueIs

LEMMA TalliedInductive ==
  ASSUME Kept, Kept', Phases, Phases', Tallied, [CaptureNext]_captureVars PROVE Tallied'
<1>1. Known \subseteq Known'
  BY KnownGrows
<1>2. \A f \in Flows, out \in BOOLEAN :
        /\ Waits(f, out) \in Nat /\ \A d \in Devices : In(d, f, out) \in Nat
        /\ Of(At(wire, f), out) \in Nat /\ Of(At(packets, f), out) \in Nat
  BY WaitsIs, AtIs DEF Kept
\* a flow that is good enough now was before
<1>3. ASSUME NEW f \in Flows, Counting' => Good(f)', f \notin spelled',
             Counting => Counting', local' = local \/ ~Counting, spelled \subseteq spelled'
      PROVE  Tally(f)
  <2>1. Counting => Good(f)
    BY <1>1, <1>3 DEF Good
  <2> QED
    BY <1>3, <2>1 DEF Tallied
<1>4. CASE UNCHANGED <<started, devices, local, packets, wire, buffer, spelled>>
  <2> SUFFICES ASSUME NEW f \in Flows, Counting' => Good(f)', f \notin spelled' PROVE Tally(f)'
    BY DEF Tallied
  <2>1. Tally(f)
    BY <1>3, <1>4 DEF Counting
  <2>2. \A out : Waits(f, out)' = Waits(f, out)
    BY <1>4 DEF Waits, In, Part
  <2> QED
    BY <1>4, <2>1, <2>2 DEF Tally
<1>5. ASSUME NEW d \in Devices, Open(d) PROVE Tallied'
  <2> SUFFICES ASSUME NEW f \in Flows, Counting' => Good(f)', f \notin spelled' PROVE Tally(f)'
    BY DEF Tallied
  <2>1. ~Counting /\ UNCHANGED <<packets, wire, buffer, spelled>>
    BY <1>5 DEF Open, Counting
  <2>2. Tally(f)
    BY <1>3, <2>1
  <2>3. \A out : Waits(f, out)' = Waits(f, out)
    BY <2>1 DEF Waits, In, Part
  <2> QED
    BY <2>1, <2>2, <2>3 DEF Tally
<1>6. CASE GetDevices
  <2> SUFFICES ASSUME NEW f \in Flows, Counting' => Good(f)', f \notin spelled' PROVE Tally(f)'
    BY DEF Tallied
  <2>1. ~Counting /\ UNCHANGED <<packets, wire, buffer, spelled>>
    BY <1>6 DEF GetDevices, Counting
  <2>2. Tally(f)
    BY <1>3, <2>1
  <2>3. \A out : Waits(f, out)' = Waits(f, out)
    BY <2>1 DEF Waits, In, Part
  <2> QED
    BY <2>1, <2>2, <2>3 DEF Tally
<1>7. ASSUME NEW d \in Devices, NEW r \in Frames, Cross(d, r) PROVE Tallied'
  <2> SUFFICES ASSUME NEW f \in Flows, Counting' => Good(f)', f \notin spelled' PROVE Tally(f)'
    BY DEF Tallied
  <2>1. /\ buffer' = [buffer EXCEPT ![d] = Append(@, r)]
        /\ UNCHANGED <<started, devices, local, packets, spelled>>
    BY <1>7 DEF Cross, monitor
  <2>2. Tally(f)
    BY <1>3, <2>1 DEF Counting
  <2>3. buffer'[d] = Append(buffer[d], r) /\ \A e \in Devices : e # d => buffer'[e] = buffer[e]
    BY <2>1 DEF Kept
  <2>4. ASSUME NEW out \in BOOLEAN
        PROVE  Of(At(packets', f), out) + Waits(f, out)' = Of(At(wire', f), out)
    <3>1. In(d, f, out)' = In(d, f, out) + Value(d, r, f, out) /\ In(d, f, out)' \in Nat
      BY <2>3, InGrows
    <3>2. Waits(f, out)' = Waits(f, out) - In(d, f, out) + In(d, f, out)'
      BY <2>3, <3>1, WaitsChange
    <3>3. Of(At(wire', f), out) = Of(At(wire, f), out) + Value(d, r, f, out)
      <4>1. CASE ~Plain(d, r)
        <5>1. wire' = wire /\ Value(d, r, f, out) = 0
          BY <1>7, <4>1 DEF Cross, Value
        <5> QED
          BY <1>2, <5>1
      <4>2. CASE Plain(d, r)
        <5> DEFINE k == r.flow  o == r.sent  n == r.len
        <5>1. k \in Pairs /\ o \in BOOLEAN /\ n \in Nat /\ wire \in Books
          BY CaptureAssumption DEF Frames, Frame, Kept
        <5>a. wire' = Counted(wire, k, o, n)
          BY <1>7, <4>2 DEF Cross
        <5>3. Value(d, r, f, out) = IF k = f /\ o = out THEN n ELSE 0
          BY <4>2 DEF Value
        <5> HIDE DEF k, o, n
        <5>b. /\ \A j : j # k => At(Counted(wire, k, o, n), j) = At(wire, j)
              /\ Of(At(Counted(wire, k, o, n), k), o) = Of(At(wire, k), o) + n
              /\ Of(At(Counted(wire, k, o, n), k), ~o) = Of(At(wire, k), ~o)
          BY <5>1, CountedIs, ZenonT(30)
        <5> DEFINE g == Counted(wire, k, o, n)
        <5>2. wire' = g
          BY <5>a
        <5>4. /\ \A j : j # k => At(g, j) = At(wire, j)
              /\ Of(At(g, k), o) = Of(At(wire, k), o) + n
              /\ Of(At(g, k), ~o) = Of(At(wire, k), ~o)
          BY <5>b
        <5> HIDE DEF g
        <5>5. CASE k # f
          <6>1. At(g, f) = At(wire, f) /\ Value(d, r, f, out) = 0
            BY <5>3, <5>4, <5>5
          <6> QED
            BY <1>2, <5>2, <6>1
        <5>6. CASE k = f /\ o = out
          BY <5>2, <5>3, <5>4, <5>6
        <5>7. CASE k = f /\ o # out
          <6>1. out = ~o /\ Value(d, r, f, out) = 0
            BY <5>1, <5>3, <5>7
          <6>2. Of(At(g, f), out) = Of(At(wire, f), out)
            BY <5>4, <5>7, <6>1
          <6>3. Of(At(wire, f), out) \in Nat
            BY <1>2
          <6>4. Of(At(wire', f), out) = Of(At(wire, f), out)
            BY <5>2, <6>2
          <6> QED
            BY <6>1, <6>3, <6>4
        <5> QED
          BY <5>5, <5>6, <5>7
      <4> QED
        BY <4>1, <4>2
    <3>4. Of(At(packets, f), out) + Waits(f, out) = Of(At(wire, f), out) /\ packets' = packets
      BY <2>1, <2>2 DEF Tally
    <3>5. Value(d, r, f, out) \in Nat
      BY ValueIs
    <3> QED
      BY <1>2, <3>1, <3>2, <3>3, <3>4, <3>5
  <2>5. Swapped(f) \notin DOMAIN packets'
    BY <2>1, <2>2 DEF Tally
  <2> QED
    BY <2>4, <2>5 DEF Tally
<1>8. ASSUME NEW d \in Devices, Dispatch(d) PROVE Tallied'
  <2> SUFFICES ASSUME NEW f \in Flows, Counting' => Good(f)', f \notin spelled' PROVE Tally(f)'
    BY DEF Tallied
  <2>1. /\ started /\ devices = {} /\ buffer' = [buffer EXCEPT ![d] = <<>>] /\ spelled \subseteq spelled'
        /\ UNCHANGED <<started, devices, local, wire>>
    BY <1>8 DEF Dispatch, Phases
  <2>2. Tally(f) /\ Good(f)
    BY <1>1, <1>3, <2>1 DEF Counting, Good
  <2>3. DOMAIN buffer'[d] = {} /\ \A e \in Devices : e # d => buffer'[e] = buffer[e]
    BY <2>1 DEF Kept
  <2>4. /\ Swapped(f) \in DOMAIN packets' => Swapped(f) \in DOMAIN packets
        /\ \A out \in BOOLEAN : Of(At(packets', f), out) = Of(At(packets, f), out) + In(d, f, out)
    BY <1>8, <2>2, DispatchIs
  <2>5. ASSUME NEW out \in BOOLEAN
        PROVE  Of(At(packets', f), out) + Waits(f, out)' = Of(At(wire', f), out)
    <3>1. In(d, f, out)' = 0
      BY <2>3, SumEmpty DEF In
    <3>2. Waits(f, out)' = Waits(f, out) - In(d, f, out) + In(d, f, out)'
      BY <2>3, <3>1, WaitsChange
    <3>3. Of(At(packets, f), out) + Waits(f, out) = Of(At(wire, f), out) /\ wire' = wire
      BY <2>1, <2>2 DEF Tally
    <3> QED
      BY <1>2, <2>4, <3>1, <3>2, <3>3
  <2> QED
    BY <2>2, <2>4, <2>5 DEF Tally
<1> QED
  BY <1>4, <1>5, <1>6, <1>7, <1>8 DEF CaptureNext, captureVars, monitor, Renumber, GoesUp, Frames

-----------------------------------------------------------------------------
LEMMA CaptureFirst == CaptureInit => Kept /\ Phases /\ Tallied /\ NothingInvented
<1> SUFFICES ASSUME CaptureInit PROVE Kept /\ Phases /\ Tallied /\ NothingInvented
  OBVIOUS
<1>1. <<>> \in Books /\ DOMAIN <<>> = {} /\ \A k : At(<<>>, k) = Zero
  <2>1. {} \in SUBSET Pairs /\ <<>> \in [{} -> Count]
    OBVIOUS
  <2> QED
    BY <2>1 DEF Books, At
<1>2. {{f.own} : f \in Flows} \cup {{}} \subseteq SUBSET (V4 \cup V6)
  BY CaptureAssumption DEF Pairs
<1>3. address \in [Devices -> SUBSET (V4 \cup V6)]
  BY <1>2 DEF CaptureInit
<1>4. buffer \in [Devices -> Seq(Frames)] /\ \A d \in Devices : DOMAIN buffer[d] = {}
  BY DEF CaptureInit
<1>5. Kept
  BY <1>1, <1>3, <1>4 DEF CaptureInit, Kept
<1>6. Phases /\ NothingInvented
  BY <1>1 DEF CaptureInit, Phases, Counting, NothingInvented
<1>7. ASSUME NEW f, NEW out PROVE Waits(f, out) = 0
  <2> DEFINE w == [d \in Devices |-> In(d, f, out)]
  <2>1. \A d \in Devices : w[d] = 0
    BY <1>4, SumEmpty DEF In
  <2> HIDE DEF w
  <2>2. SumFunctionOnSet(w, Devices) = Cardinality(Devices) * 0 /\ Cardinality(Devices) \in Nat
    BY <2>1, CaptureAssumption, SumConstant, FS_CardinalityType
  <2> QED
    BY <2>2 DEF Waits, w
<1>8. Tallied
  BY <1>1, <1>7 DEF CaptureInit, Tallied, Tally, Of, Zero
<1> QED
  BY <1>5, <1>6, <1>8

LEMMA InventedInductive ==
  ASSUME Kept, NothingInvented, [CaptureNext]_captureVars PROVE NothingInvented'
<1>1. CASE UNCHANGED <<packets, spelled, wire>>
  BY <1>1 DEF NothingInvented
<1>2. ASSUME NEW d \in Devices, NEW r \in Frames, Cross(d, r) PROVE NothingInvented'
  <2>1. UNCHANGED <<packets, spelled>> /\ wire' \in {wire, Counted(wire, r.flow, r.sent, r.len)}
    BY <1>2 DEF Cross, monitor
  <2>2. DOMAIN wire \subseteq DOMAIN wire'
    BY <2>1 DEF Counted
  <2> QED
    BY <2>1, <2>2 DEF NothingInvented
<1>3. ASSUME NEW d \in Devices, Dispatch(d) PROVE NothingInvented'
  <2> SUFFICES ASSUME NEW k \in DOMAIN packets', k \notin spelled'
               PROVE  {k, Swapped(k)} \cap DOMAIN wire # {}
    BY <1>3 DEF NothingInvented, Dispatch
  <2>1. spelled \subseteq spelled'
    BY <1>3 DEF Dispatch
  <2>2. CASE k \in DOMAIN packets
    BY <2>1, <2>2 DEF NothingInvented
  <2>3. CASE k \notin DOMAIN packets
    <3>1. PICK i \in DOMAIN buffer[d] : /\ Plain(d, buffer[d][i])
                                        /\ k \in {buffer[d][i].flow, Swapped(buffer[d][i].flow)}
      BY <1>3, <2>3, DispatchIs
    <3> DEFINE g == buffer[d][i].flow
    <3>2. g \in DOMAIN wire /\ buffer[d][i] \in Frames
      BY <3>1, InIs DEF Kept
    <3>3. g \in Pairs
      BY <3>2, CaptureAssumption DEF Frames, Frame
    <3>4. k \in {g, Swapped(g)}
      BY <3>1
    <3> HIDE DEF g
    <3>5. Swapped(Swapped(g)) = g
      BY <3>3 DEF Swapped, Pairs
    <3> QED
      BY <3>2, <3>4, <3>5
  <2> QED
    BY <2>2, <2>3
<1> QED
  BY <1>1, <1>2, <1>3 DEF CaptureNext, captureVars, monitor, Renumber, GoesUp, Open, GetDevices, Frames

LEMMA TalliedCounts == ASSUME Kept, Phases, Tallied PROVE CountedAsSent
<1> SUFFICES ASSUME \A d \in Devices : buffer[d] = <<>>, NEW f \in Flows, Steady(f), f \notin spelled
             PROVE  At(packets, f) = At(wire, f) /\ Swapped(f) \notin DOMAIN packets
  BY DEF CountedAsSent
<1>1. Tally(f)
  BY SteadyIsGood DEF Tallied
<1>2. ASSUME NEW out PROVE Waits(f, out) = 0
  <2> DEFINE w == [d \in Devices |-> In(d, f, out)]
  <2>1. \A d \in Devices : w[d] = 0
    BY SumEmpty DEF In
  <2> HIDE DEF w
  <2>2. SumFunctionOnSet(w, Devices) = Cardinality(Devices) * 0 /\ Cardinality(Devices) \in Nat
    BY <2>1, CaptureAssumption, SumConstant, FS_CardinalityType
  <2> QED
    BY <2>2 DEF Waits, w
<1> DEFINE p == At(packets, f)  w == At(wire, f)
<1>3. p \in Count /\ w \in Count
  BY AtIs DEF Kept
<1>4. \A out \in BOOLEAN : Of(p, out) = Of(w, out)
  <2>1. ASSUME NEW out \in BOOLEAN PROVE Of(p, out) = Of(w, out)
    <3>1. Of(p, out) + Waits(f, out) = Of(w, out) /\ Waits(f, out) = 0
      BY <1>1, <1>2 DEF Tally
    <3>2. Of(p, out) \in Nat
      BY <1>3 DEF Count, Of
    <3> QED
      BY <3>1, <3>2
  <2> QED
    BY <2>1
<1> HIDE DEF p, w
<1>5. p.sent = w.sent /\ p.received = w.received
  BY <1>4 DEF Of
<1>6. p = w
  BY <1>3, <1>5 DEF Count
<1> QED
  BY <1>1, <1>6 DEF Tally, p, w

LEMMA CapturedAlways == CaptureSpec => [](Kept /\ Phases /\ Tallied /\ NothingInvented)
<1>1. Kept /\ [CaptureNext]_captureVars => Kept'
  BY KeptInductive
<1>2. Kept /\ Phases /\ [CaptureNext]_captureVars => Phases'
  BY PhasesInductive
<1>3. Kept /\ Kept' /\ Phases /\ Phases' /\ Tallied /\ [CaptureNext]_captureVars => Tallied'
  BY TalliedInductive
<1>4. Kept /\ NothingInvented /\ [CaptureNext]_captureVars => NothingInvented'
  BY InventedInductive
<1> QED
  BY <1>1, <1>2, <1>3, <1>4, CaptureFirst, PTL DEF CaptureSpec

\* What crossed the open devices in TCP segments is counted: every byte, once, for its
\* two ends and in its direction, but of connections that a misread frame spells and of
\* ends whose address is not the one the monitor read when it started.
THEOREM EveryByteCounted == CaptureSpec => []CountedAsSent
BY CapturedAlways, TalliedCounts, PTL

\* A pair that is counted is one of a segment that was captured, in one order or the
\* other, or one that a misread frame spelled.
THEOREM NoneInvented == CaptureSpec => []NothingInvented
BY CapturedAlways, PTL

-----------------------------------------------------------------------------
(***************************************************************************)
(* The names and pictures of rows.  A search finds the first file in the   *)
(* order of their numbers, so the least of a set of numbers is all that    *)
(* its correctness needs.                                                  *)
(***************************************************************************)
LEMMA FirstIs ==
  ASSUME NEW files \in SUBSET Nat, files # {}
  PROVE  First(files) \in files /\ \A m \in files : First(files) <= m
BY LeastNumber DEF First

\* The files of a state are those of one of Tables, and keep that form.
Read == table \in Tables

LEMMA EntriesAre ==
  ASSUME Read
  PROVE  /\ DOMAIN Entries(table) \subseteq Nat \ {0}
         /\ \A n \in DOMAIN Entries(table) : Len(Entries(table)[n].exec) \in Nat \ {0}
BY ProcessNamesAssumption DEF Read, Entries, Androids, Entry

\* What the search returns, in both of its passes.
LEMMA FindIs ==
  ASSUME NEW es, DOMAIN es \subseteq Nat, NEW asked
  PROVE  LET all   == {n \in DOMAIN es : Match(es[n], Exchange(asked))}
             exact == {n \in all : Accepts(es[n], Exchange(asked))}
         IN  IF exact # {} THEN Find(es, asked) \in exact
             ELSE IF all # {} THEN Find(es, asked) \in all ELSE Find(es, asked) = 0
<1> DEFINE all   == {n \in DOMAIN es : Match(es[n], Exchange(asked))}
           exact == {n \in all : Accepts(es[n], Exchange(asked))}
<1>1. exact # {} => First(exact) \in exact
  BY FirstIs
<1>2. all # {} => First(all) \in all
  BY FirstIs
<1>3. Find(es, asked) = IF exact # {} THEN First(exact) ELSE IF all # {} THEN First(all) ELSE 0
  BY DEF Find
<1> QED
  BY <1>1, <1>2, <1>3

\* A file is required to have its own parameters only.
LEMMA RequiredIs ==
  ASSUME NEW e, Len(e.exec) \in Nat \ {0}
  PROVE  Required(e) \subseteq 2 .. Len(e.exec)
<1> DEFINE I == {i \in 1 .. Len(e.exec) : e.exec[i] \in Optional \cup {None}}
           n == SelectInSeq(e.exec, LAMBDA w : w \in Optional \cup {None})
<1>1. n = IF I # {} THEN Min(I) ELSE 0
  BY DEF SelectInSeq
<1>2. I # {} => Min(I) \in I
  <2>1. I \in SUBSET Nat
    OBVIOUS
  <2> QED
    BY <2>1, LeastNumber DEF Min
<1>3. n \in 0 .. Len(e.exec)
  BY <1>1, <1>2
<1>4. Required(e) = 2 .. (IF n = 0 THEN Len(e.exec) ELSE n - 1)
  BY DEF Required
<1> HIDE DEF n
<1> QED
  BY <1>3, <1>4

LEMMA LookupHolds == ASSUME Read PROVE LookupIsBest
<1> SUFFICES ASSUME NEW q \in Programs
             PROVE  LET name  == ProcName(q)
                        es    == Entries(table)
                        found == Find(es, name)
                        same  == {n \in DOMAIN es : Match(es[n], Exchange(name))}
                    IN IF found = 0 THEN same = {}
                       ELSE /\ found \in same
                            /\ Len(Exchange(name)) = 1 /\ (\E n \in same : Required(es[n]) = {})
                                 => Required(es[found]) = {}
                            /\ (\E n \in same : es[n].exec = Exchange(name) /\ Len(es[n].exec) > 1)
                                 => Accepts(es[found], Exchange(name))
  BY DEF LookupIsBest
<1> DEFINE name  == Exchange(ProcName(q))
           es    == Entries(table)
           found == Find(es, ProcName(q))
           same  == {n \in DOMAIN es : Match(es[n], name)}
           exact == {n \in same : Accepts(es[n], name)}
<1>1. IF exact # {} THEN found \in exact ELSE IF same # {} THEN found \in same ELSE found = 0
  BY FindIs, EntriesAre
<1>2. ASSUME NEW n \in same
      PROVE  n # 0 /\ Len(es[n].exec) \in Nat \ {0} /\ Required(es[n]) \subseteq 2 .. Len(es[n].exec)
  BY EntriesAre, RequiredIs
<1> HIDE DEF name, es, found
<1>3. ASSUME NEW n \in same, Len(name) = 1, Required(es[n]) = {}
      PROVE  n \in exact
  <2>1. Len(es[n].exec) \in Nat \ {0}
    BY <1>2
  <2>2. \A k \in Required(es[n]) : FALSE
    BY <1>3
  <2>3. CASE Len(es[n].exec) = 1
    BY <2>3, <1>3 DEF Accepts
  <2>4. CASE Len(es[n].exec) # 1
    <3>1. Len(es[n].exec) > 1 /\ Len(name) <= Len(es[n].exec)
      <4>1. \A k \in Nat \ {0} : k # 1 => k > 1 /\ 1 <= k
        OBVIOUS
      <4> QED
        BY <4>1, <2>1, <2>4, <1>3
    <3> QED
      BY <3>1, <2>2 DEF Accepts
  <2> QED
    BY <2>3, <2>4
<1>4. ASSUME NEW n \in exact, Len(name) = 1
      PROVE  Required(es[n]) = {}
  <2>1. Required(es[n]) \subseteq 2 .. Len(es[n].exec)
    BY <1>2
  <2>2. Accepts(es[n], name)
    OBVIOUS
  <2>3. \A k \in Required(es[n]) : FALSE
    BY <2>1, <2>2, <1>4 DEF Accepts
  <2> QED
    BY <2>3
<1>5. ASSUME NEW n \in same, es[n].exec = name, Len(es[n].exec) > 1
      PROVE  n \in exact
  BY <1>2, <1>5 DEF Accepts
<1>6. IF found = 0 THEN same = {} ELSE found \in same
  BY <1>1, <1>2
<1> QED
  BY <1>1, <1>3, <1>4, <1>5, <1>6 DEF name, es, found

-----------------------------------------------------------------------------
(***************************************************************************)
(* The rows a scan makes.  Every row is of one program, those that the     *)
(* scan still has to read as well: a row that is kept has its icon from    *)
(* the search that an earlier scan made for the same name.                 *)
(***************************************************************************)
OfOneFile(name, icon, title) ==
  LET n == Find(Entries(table), name)
  IN  n # 0 /\ Entries(table)[n].icon # None /\ Entries(table)[n].title # None
        => icon = Entries(table)[n].icon /\ title = Entries(table)[n].title

RowsNamed == \A p \in Listed : OfOneFile(set[p].name, set[p].icon, set[p].title)

LEMMA FirstOfTwo ==
  ASSUME NEW a, NEW b
  PROVE  a # None => FirstOf(<<a, b>>) = a
<1> SUFFICES ASSUME a # None PROVE FirstOf(<<a, b>>) = a
  OBVIOUS
<1> DEFINE I == {i \in 1 .. Len(<<a, b>>) : <<a, b>>[i] # None}
<1>1. 1 \in I /\ \A i \in I : i \in Nat /\ 1 <= i
  OBVIOUS
<1>2. Min(I) = 1
  BY <1>1 DEF Min
<1>3. SelectInSeq(<<a, b>>, LAMBDA t : t # None) = 1
  BY <1>1, <1>2 DEF SelectInSeq
<1> QED
  BY <1>3 DEF FirstOf

LEMMA ProcNameIs == ASSUME NEW program PROVE ProcName(program) # <<>>
<1> DEFINE base == [i \in 1 .. 2 |-> IF i > Len(program.argv) THEN <<>>
                                    ELSE [program.argv[i] EXCEPT ![1] = BaseOf(@)]]
           fits == {i \in 1 .. 2 : base[i] # <<>> /\ program.cmd \in Begins[base[i][1]]}
<1>1. fits # {} => First(fits) \in fits
  <2> HIDE DEF base
  <2>1. fits \in SUBSET Nat
    OBVIOUS
  <2> HIDE DEF fits
  <2> QED
    BY <2>1, FirstIs
<1>2. ProcName(program) = IF fits = {} THEN <<program.cmd>> ELSE base[First(fits)]
  BY DEF ProcName
<1> HIDE DEF base
<1> QED
  BY <1>1, <1>2

LEMMA RowsNamedInductive ==
  ASSUME RowsNamed, Read, [NamesNext]_namesVars PROVE RowsNamed' /\ Read'
<1>1. Read' /\ table' = table
  BY DEF Read, NamesNext, namesVars, Become, BeginScan, ReadProcess, UpdateProcessListDelay
<1>2. \A name, icon, title : OfOneFile(name, icon, title)' = OfOneFile(name, icon, title)
  BY <1>1 DEF OfOneFile
<1>3. CASE BeginScan
  <2>1. \A p \in DOMAIN set' : p \in Listed /\ set'[p] = set[p]
    BY <1>3 DEF BeginScan, Restrict, Listed
  <2> QED
    BY <1>1, <1>2, <2>1 DEF RowsNamed, Listed
<1>4. CASE ReadProcess
  <2> DEFINE p    == First(todo)
             name == ProcName(running[p])
             line == running[p].line
             made == [name |-> name, line |-> line, icon |-> IconOf(p, name, line),
                      title |-> TitleOf(name, line)]
  <2>1. /\ DOMAIN set' = Listed \cup {p}
        /\ \A q \in Listed : q # p => set'[q] = set[q]
        /\ set'[p] = made
    BY <1>4 DEF ReadProcess
  <2>2. OfOneFile(name, made.icon, made.title)
    <3> DEFINE n == Find(Entries(table), name)
    <3> SUFFICES ASSUME n # 0, Entries(table)[n].icon # None, Entries(table)[n].title # None
                 PROVE  /\ IconOf(p, name, line) = Entries(table)[n].icon
                        /\ TitleOf(name, line) = Entries(table)[n].title
      BY DEF OfOneFile
    <3>1. GetNameByExec(name) = Entries(table)[n].title /\ GetIconByExec(name) = Entries(table)[n].icon
      BY DEF GetNameByExec, GetIconByExec
    <3>2. TitleOf(name, line) = Entries(table)[n].title
      BY <3>1, FirstOfTwo DEF TitleOf
    <3>3. CASE name # Row(p).name
      BY <3>1, <3>2, <3>3, FirstOfTwo DEF IconOf
    <3>4. CASE name = Row(p).name
      <4>1. name # <<>>
        BY ProcNameIs
      <4>2. p \in Listed /\ Row(p) = set[p]
        BY <4>1, <3>4 DEF Row, NoProcess
      <4>3. set[p].icon = Entries(table)[n].icon
        BY <4>2, <3>4 DEF RowsNamed, OfOneFile
      <4> QED
        BY <3>2, <3>4, <4>3 DEF IconOf
    <3> QED
      BY <3>2, <3>3, <3>4
  <2> HIDE DEF p, name, line
  <2>3. \A q \in DOMAIN set' : OfOneFile(set'[q].name, set'[q].icon, set'[q].title)
    BY <2>1, <2>2 DEF RowsNamed
  <2> QED
    BY <1>1, <1>2, <2>3 DEF RowsNamed, Listed
<1>5. CASE UNCHANGED set
  BY <1>1, <1>2, <1>5 DEF RowsNamed, Listed
<1> QED
  BY <1>1, <1>3, <1>4, <1>5 DEF NamesNext, namesVars, Become, UpdateProcessListDelay

-----------------------------------------------------------------------------
(***************************************************************************)
(* The pictures.  What picture a key has does not depend on the row that   *)
(* put it into the map: a map is known by its keys, and a picture found    *)
(* there is the one that the row would be given.                           *)
(***************************************************************************)
PixmapOf(key) == IF key \in Shells THEN "terminal" ELSE key
Keys          == IconFiles \cup Theme \cup Shells \cup {Default}
Maps          == {[k \in D |-> PixmapOf(k)] : D \in SUBSET Keys}

LEMMA PictureIs ==
  ASSUME NEW icon, NEW name
  PROVE  /\ Picture(icon, name).key \in Keys
         /\ Picture(icon, name).pixmap = PixmapOf(Picture(icon, name).key)
BY ProcessNamesAssumption DEF Picture, PixmapOf, Keys, IsShell

LEMMA ShownIs ==
  ASSUME NEW m \in Maps, NEW p
  PROVE  Shown(m, p) = Picture(set[p].icon, set[p].name)
<1>1. PICK D \in SUBSET Keys : m = [k \in D |-> PixmapOf(k)]
  BY DEF Maps
<1>2. CASE set[p].icon \in Paths \cap DOMAIN m
  <2>1. set[p].icon \in (IconFiles \cup Theme) \ Shells /\ m[set[p].icon] = set[p].icon
    BY <1>1, <1>2, ProcessNamesAssumption DEF Keys, PixmapOf
  <2> QED
    BY <1>2, <2>1 DEF Shown, Picture
<1> QED
  BY <1>2 DEF Shown

LEMMA PutIs ==
  ASSUME NEW m \in Maps, NEW p
  PROVE  /\ Put(m, p) \in Maps
         /\ DOMAIN Put(m, p) = DOMAIN m \cup {Picture(set[p].icon, set[p].name).key}
<1> DEFINE s == Picture(set[p].icon, set[p].name)
<1>1. PICK D \in SUBSET Keys : m = [k \in D |-> PixmapOf(k)]
  BY DEF Maps
<1>2. Put(m, p) = [k \in DOMAIN m \cup {s.key} |-> IF k = s.key THEN s.pixmap ELSE m[k]]
  BY ShownIs DEF Put
<1>3. s.key \in Keys /\ s.pixmap = PixmapOf(s.key)
  BY PictureIs
<1> HIDE DEF s
<1>4. Put(m, p) = [k \in D \cup {s.key} |-> PixmapOf(k)] /\ D \cup {s.key} \in SUBSET Keys
  BY <1>1, <1>2, <1>3
<1> QED
  BY <1>1, <1>4 DEF Maps, s

Pictured ==
  /\ Listed \subseteq Pids /\ todo \subseteq Pids /\ map \in Maps
  /\ todo = {} /\ ~posted =>
       /\ DOMAIN rows = Listed
       /\ \A p \in Listed : LET own == Picture(set[p].icon, set[p].name) IN
            rows[p].title = set[p].title /\ rows[p].key = own.key /\ own.key \in DOMAIN map

LEMMA PicturedShows == ASSUME Pictured PROVE IconShown
<1>1. \A key \in DOMAIN map : map[key] = PixmapOf(key)
  BY DEF Pictured, Maps
<1> QED
  BY <1>1, PictureIs DEF Pictured, IconShown

\* One turn after the other of the loop over the rows.
LEMMA UpdateIs ==
  ASSUME Pictured, UpdateProcessListDelay
  PROVE  /\ map' \in Maps /\ DOMAIN rows' = Listed
         /\ \A p \in Listed : LET own == Picture(set[p].icon, set[p].name) IN
              rows'[p].title = set[p].title /\ rows'[p].key = own.key /\ own.key \in DOMAIN map'
<1> DEFINE order == Ascending(Listed)
           N     == Len(order)
           step  == [i \in 1 .. N |-> [m \in Maps |-> Put(m, order[i])]]
           Is(f) == f = [i \in 0 .. N |-> IF i = 0 THEN map ELSE Put(f[i - 1], order[i])]
           maps  == CHOOSE f : Is(f)
           Key(p) == Picture(set[p].icon, set[p].name).key
<1>1. /\ Listed \in SUBSET Nat /\ IsFiniteSet(Listed)
  BY FS_Subset, ProcessNamesAssumption DEF Pictured
<1>2. order \in Seq(Listed) /\ Range(order) = Listed /\ IsInjective(order)
  BY <1>1, AscendingIs
<1>3. N \in Nat /\ DOMAIN order = 1 .. N
  BY <1>2
<1>4. /\ map' = maps[N]
      /\ rows' = [p \in Listed |-> LET i == CHOOSE j \in DOMAIN order : order[j] = p
                                   IN [key |-> Shown(maps[i - 1], p).key, title |-> set[p].title]]
  BY DEF UpdateProcessListDelay
<1> HIDE DEF order, N
<1>5. step \in [1 .. N -> [Maps -> Maps]]
  BY PutIs
<1>6. map \in Maps
  BY DEF Pictured
<1> HIDE DEF step
<1>7. PICK f \in [0 .. N -> Maps] : Goes(f, N, map, step)
  BY <1>3, <1>5, <1>6, StepsExist
<1>8. Is(f)
  <2> SUFFICES ASSUME NEW i \in 0 .. N, i # 0 PROVE step[i][f[i - 1]] = Put(f[i - 1], order[i])
    BY <1>7 DEF Goes
  <2>1. i \in 1 .. N /\ f[i - 1] \in Maps
    BY <1>3
  <2> QED
    BY <2>1 DEF step
<1>9. Is(maps)
  BY <1>8
<1> HIDE DEF maps
<1> DEFINE T == {n \in Nat : n <= N =>
                   maps[n] \in Maps /\ \A j \in 1 .. n : Key(order[j]) \in DOMAIN maps[n]}
<1>10. 0 \in T
  BY <1>3, <1>6, <1>9
<1>11. ASSUME NEW n \in Nat, n \in T PROVE n + 1 \in T
  <2> SUFFICES ASSUME n + 1 <= N
               PROVE  /\ maps[n + 1] \in Maps
                      /\ \A j \in 1 .. n + 1 : Key(order[j]) \in DOMAIN maps[n + 1]
    OBVIOUS
  <2>1. n \in 0 .. N /\ n + 1 \in 0 .. N /\ n + 1 # 0 /\ (n + 1) - 1 = n /\ n <= N
    BY <1>3
  <2>2. maps[n + 1] = Put(maps[n], order[n + 1])
    BY <1>9, <2>1
  <2>3. maps[n] \in Maps /\ \A j \in 1 .. n : Key(order[j]) \in DOMAIN maps[n]
    BY <1>11, <2>1
  <2>4. /\ maps[n + 1] \in Maps
        /\ DOMAIN maps[n + 1] = DOMAIN maps[n] \cup {Key(order[n + 1])}
    BY <2>2, <2>3, PutIs
  <2>5. \A j \in 1 .. n + 1 : j \in 1 .. n \/ j = n + 1
    OBVIOUS
  <2> HIDE DEF Key
  <2> QED
    BY <2>3, <2>4, <2>5
<1> HIDE DEF T
<1>12. Nat \subseteq T
  BY <1>10, <1>11, Induction
<1>13. ASSUME NEW n \in 0 .. N
       PROVE  maps[n] \in Maps /\ \A j \in 1 .. n : Key(order[j]) \in DOMAIN maps[n]
  BY <1>3, <1>12 DEF T
<1>14. map' \in Maps /\ DOMAIN rows' = Listed
  BY <1>3, <1>4, <1>13
<1>15. ASSUME NEW p \in Listed
       PROVE  rows'[p].title = set[p].title /\ rows'[p].key = Key(p) /\ Key(p) \in DOMAIN map'
  <2> DEFINE i == CHOOSE j \in DOMAIN order : order[j] = p
  <2>1. i \in DOMAIN order /\ order[i] = p
    BY <1>2 DEF Range
  <2> HIDE DEF i
  <2>2. i \in 1 .. N /\ i - 1 \in 0 .. N /\ N \in 0 .. N
    BY <1>3, <2>1
  <2>3. Key(p) \in DOMAIN map'
    BY <1>4, <1>13, <2>1, <2>2
  <2>4. Shown(maps[i - 1], p).key = Key(p)
    BY <1>13, <2>2, ShownIs
  <2>5. rows'[p] = [key |-> Shown(maps[i - 1], p).key, title |-> set[p].title]
    BY <1>4 DEF i
  <2> QED
    BY <2>3, <2>4, <2>5
<1> QED
  BY <1>14, <1>15

LEMMA PicturedInductive ==
  ASSUME Pictured, [NamesNext]_namesVars PROVE Pictured'
<1>1. CASE UNCHANGED <<set, todo, rows, map, posted>>
  BY <1>1 DEF Pictured, Listed
<1>2. CASE BeginScan
  <2>1. todo' = {} => posted'
    BY <1>2 DEF BeginScan
  <2>2. Listed' \subseteq Pids /\ todo' \subseteq Pids /\ map' = map
    BY <1>2 DEF BeginScan, Restrict, Listed, Pictured
  <2> QED
    BY <2>1, <2>2 DEF Pictured
<1>3. CASE ReadProcess
  <2>1. todo' = {} => posted'
    BY <1>3 DEF ReadProcess
  <2>2. First(todo) \in todo
    BY <1>3, FirstIs, ProcessNamesAssumption DEF ReadProcess, Pictured
  <2>3. Listed' \subseteq Pids /\ todo' \subseteq Pids /\ map' = map
    BY <1>3, <2>2 DEF ReadProcess, Listed, Pictured
  <2> QED
    BY <2>1, <2>3 DEF Pictured
<1>4. CASE UpdateProcessListDelay
  <2>1. set' = set /\ todo' = todo
    BY <1>4 DEF UpdateProcessListDelay
  <2> QED
    BY <1>4, <2>1, UpdateIs DEF Pictured, Listed
<1> QED
  BY <1>1, <1>2, <1>3, <1>4 DEF NamesNext, namesVars, Become

-----------------------------------------------------------------------------
\* The search takes no process for one with parameters unless every entry of its
\* program requires some, and finds the entry of a command line of its own.
THEOREM LookupIsBestAlways == NamesSpec => []LookupIsBest
<1>1. NamesInit => Read
  BY DEF NamesInit, Read
<1>2. Read /\ [NamesNext]_namesVars => Read'
  BY DEF Read, NamesNext, namesVars, Become, BeginScan, ReadProcess, UpdateProcessListDelay
<1> QED
  BY <1>1, <1>2, LookupHolds, PTL DEF NamesSpec

\* A row that a scan has read has icon and title of one desktop file, whatever the
\* pid ran before.
THEOREM RowsAreOneProgram == NamesSpec => []RowIsOneProgram
<1>1. NamesInit => RowsNamed /\ Read
  BY DEF NamesInit, RowsNamed, Read, Listed
<1>2. RowsNamed => RowIsOneProgram
  BY DEF RowsNamed, RowIsOneProgram, OfOneFile
<1> QED
  BY <1>1, <1>2, RowsNamedInductive, PTL DEF NamesSpec

\* Whatever rows were there before, each shows the picture of its own icon and name.
THEOREM IconsAlwaysShown == NamesSpec => []IconShown
<1>1. NamesInit => Pictured
  <2>1. ASSUME NamesInit PROVE map = [k \in {} |-> PixmapOf(k)] /\ Listed = {} /\ rows = <<>>
    BY <2>1 DEF NamesInit, Listed
  <2> QED
    BY <2>1 DEF NamesInit, Pictured, Maps
<1> QED
  BY <1>1, PicturedShows, PicturedInductive, PTL DEF NamesSpec
=============================================================================
