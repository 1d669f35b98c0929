------------------------------ MODULE Resources ------------------------------
(***************************************************************************)
(* The resource page: once a second ResouresDlg::updateResourceStatus      *)
(* reads the counters of the processor, the memory and the network         *)
(* interfaces, turns differences of two readings into figures and hands    *)
(* them to the three charts, each a ring of the last values with a scale.  *)
(*                                                                         *)
(* A reading is a whole action: nothing of the page runs in between, and   *)
(* what it reads is one state of the machine.  WORD stands for 2^64, what  *)
(* unsigned differences are taken modulo.                                  *)
(***************************************************************************)
EXTENDS Integers, Sequences, FiniteSets, FiniteSetsExt, Functions, SequencesExt, Figures

CONSTANTS
  Interfaces,   \* network interfaces other than the loopback
  Cap,          \* m_pointsCount, 100
  Ladder,       \* the maxima of the network chart, 20 KiB to 2 GiB
  Memory,       \* bytes of memory
  Swaps,        \* bytes of swap there can be
  Doublings,    \* powers of two there are for them
  WORD,
  MaxSamples, MaxEvents   \* bounds

\* 1, 2, 4 ...
Doubled[k \in 0 .. Doublings] == IF k = 0 THEN 1 ELSE 2 * Doubled[k - 1]

ASSUME ResourcesAssumption ==
  /\ IsFiniteSet(Interfaces) /\ Cap \in Nat \ {0} /\ WORD \in Nat \ {0}
  /\ {MaxSamples, MaxEvents, Doublings} \subseteq Nat
  \* the text of a size has no unit below KILO
  /\ Memory \in Nat /\ Memory > 2 /\ Memory >= KILO /\ Swaps \subseteq Nat
  /\ \A bytes \in Swaps \cup {Memory} : bytes <= Doubled[Doublings]
  /\ Ladder \in Seq(Nat) /\ Ladder # <<>>
  /\ \A k \in DOMAIN Ladder : Ladder[k] >= KILO /\ Ladder[k] % 4 = 0
  /\ \A j, k \in DOMAIN Ladder : j < k => Ladder[j] < Ladder[k]

VARIABLES
  \* the machine
  busy, idle, \* time counters of /proc/stat
  mem,        \* bytes of memory used, of swap, and of swap used
  nets,       \* counters of the interfaces, and whether each has an address
  clock,
  \* the page
  cpu,        \* m_cpuworkTime and m_cpuTotalTime
  percent,    \* the percentage shown
  history,    \* m_CpuHistoryList
  netinfo,    \* last_in, last_out and time
  down, up, \* m_downLoadList and m_upLoadList
  scale,      \* m_curMaxLoadSpeed
  memory,     \* m_memoryDataList and m_swapDataList
  space,      \* m_curMaxMemSpace
  \* history and bounds
  moved,      \* bytes the interfaces moved since the last sample, by direction
  before,     \* the last sample: processor, clock, and the interfaces counted
  samples, events

machine   == <<busy, idle, mem, nets, clock>>
page      == <<cpu, percent, history, netinfo, down, up, scale, memory, space>>
resources == <<machine, page, moved, before, samples, events>>

Directions == {"in", "out"}
Nothing == [d \in Directions |-> 0]

ResourcesInit ==
  /\ busy = 1 /\ idle = 1 /\ clock = 1
  /\ \E t \in Swaps : mem = [used |-> 1, swap |-> t, swapUsed |-> 0]
  /\ nets \in [Interfaces -> [bytes : {Nothing}, address : BOOLEAN]]
  /\ cpu = [work |-> 0, total |-> 0] /\ percent = 0 /\ history = <<>>
  /\ netinfo = [last |-> Nothing, time |-> 0]
  /\ down = <<>> /\ up = <<>> /\ scale = Ladder[1]
  /\ memory = <<>> /\ space = 1
  /\ moved = Nothing /\ samples = 0 /\ events = 0
  /\ before = [busy |-> 0, idle |-> 0, clock |-> 0, read |-> FALSE, counted |-> {}]

-----------------------------------------------------------------------------
(***************************************************************************)
(* The machine (external).                                                 *)
(***************************************************************************)
Event == events < MaxEvents /\ events' = events + 1

Work ==
  /\ Event
  /\ \/ busy' = busy + 1 /\ UNCHANGED idle
     \/ idle' = idle + 1 /\ UNCHANGED busy
  /\ UNCHANGED <<mem, nets, clock, page, moved, before, samples>>

Use ==
  /\ Event
  /\ \/ mem' = [mem EXCEPT !.used = Memory]
     \/ \E t \in Swaps : mem' = [mem EXCEPT !.swap = t, !.swapUsed = t]
  /\ UNCHANGED <<busy, idle, nets, clock, page, moved, before, samples>>

Traffic(i, d) ==
  /\ Event /\ nets[i].address
  /\ nets' = [nets EXCEPT ![i].bytes[d] = @ + 4]
  /\ moved' = [moved EXCEPT ![d] = @ + 4]
  /\ UNCHANGED <<busy, idle, mem, clock, page, before, samples>>

\* an address comes or goes; an interface that is taken away and put back
\* counts from zero
Address(i) ==
  /\ Event
  /\ nets' \in {[nets EXCEPT ![i].address = ~@],
                [nets EXCEPT ![i] = [bytes |-> Nothing, address |-> FALSE]]} \ {nets}
  /\ UNCHANGED <<busy, idle, mem, clock, page, moved, before, samples>>

-----------------------------------------------------------------------------
(***************************************************************************)
(* The processor.                                                          *)
(***************************************************************************)
\* mutated form: a file that cannot be read leaves the work time at zero
WorkIsReset(read) ==
  IF read THEN [work |-> busy, total |-> busy + idle] ELSE [work |-> 0, total |-> 0]

\* getCpuTimeData: without the file the total is zero and the work time stays
GetCpuTimeData(read) ==
  IF read THEN [work |-> busy, total |-> busy + idle] ELSE [cpu EXCEPT !.total = 0]

\* 0.0 / 0 is shown as "nan"; work without time there is none
NaN == -1
Percent(work, total) == IF total = 0 THEN NaN ELSE (100 * work) \div total

\* append, then pop_front while there are too many
Push(list, x) ==
  LET longer == Append(list, x) IN
  IF Len(longer) > Cap THEN Tail(longer) ELSE longer

Minus(x, y) == (x - y) % WORD

UpdateCpu(read) ==
  LET now == GetCpuTimeData(read) IN
  /\ cpu' = now
  /\ percent' = IF cpu.work # 0 /\ cpu.total # 0
                THEN Percent(Minus(now.work, cpu.work), Minus(now.total, cpu.total))
                ELSE 0
  /\ history' = Push(history, percent')

-----------------------------------------------------------------------------
(***************************************************************************)
(* The memory.                                                             *)
(***************************************************************************)
\* the points drawn, the newest first
Points(list, most) == [n \in 1 .. Len(list) |-> ((100 * list[Len(list) - n + 1]) % WORD) \div most]

\* getMemMaxSpace: the next power of two
MemMaxSpace(bytes) ==
  LET k == CHOOSE n \in 0 .. Doublings : Doubled[n] >= bytes /\ Doubled[n] < 2 * bytes
  IN  Doubled[k]

\* mutated form: swap is smaller than memory
MemoryIsMore(total, swapTotal) == MemMaxSpace(Max({space, total}))

NewSpace(total, swapTotal) == MemMaxSpace(Max({space, total, swapTotal}))

RefreshMemoryAndSwapData ==
  /\ memory' = Push(memory, <<mem.used, mem.swapUsed>>)
  /\ space' = NewSpace(Memory, mem.swap)

-----------------------------------------------------------------------------
(***************************************************************************)
(* The network.                                                            *)
(***************************************************************************)
\* glibtop_get_netload of the interfaces that have an address
Counted == {i \in Interfaces : nets[i].address}
Bytes(d) == SumFunctionOnSet([i \in Interfaces |-> nets[i].bytes[d]], Counted)
Now == [d \in Directions |-> Bytes(d)]

\* a float out of range is converted as the processor likes
AnyRate == {0, WORD - 1}

\* guint64 / float, converted back to guint64
Quotients(bytes, seconds) ==
  CASE seconds > 0                -> {bytes \div seconds}
    [] seconds < 0 /\ bytes = 0   -> {0}
    [] OTHER                      -> AnyRate

\* mutated form: received bytes alone are looked at
ReceivedGrew == Now["in"] >= netinfo.last["in"] /\ netinfo.time # 0

\* a counter that is less than before was reset, or its interface is gone
CountersGrew == (\A d \in Directions : Now[d] >= netinfo.last[d]) /\ netinfo.time # 0

Rates(d, time) ==
  IF CountersGrew THEN Quotients(Minus(Now[d], netinfo.last[d]), time - netinfo.time) ELSE {0}

\* the first of the ladder above every value, else the last
ScaleOf(received, transmitted) ==
  LET all  == ToSet(received) \cup ToSet(transmitted)
      fits == {k \in DOMAIN Ladder : \A v \in all : v < Ladder[k]}
  IN  IF fits = {} THEN Last(Ladder) ELSE Ladder[Min(fits)]

\* the five labels of an axis, from the top
Ticks(top)    == [i \in 0 .. 4 |-> (top * (4 - i)) \div 4]
MemoryLabels  == [i \in 0 .. 4 |-> FormatMemory(Ticks(space)[i])]
NetworkLabels == [i \in 0 .. 4 |-> FormatNetworkBrandWidth(Ticks(scale)[i])]

UpdateNetwork(time) ==
  /\ netinfo' = [last |-> Now, time |-> time]
  /\ \E r \in Rates("in", time), s \in Rates("out", time) :
       /\ down' = Push(down, r) /\ up' = Push(up, s)
       /\ scale' = ScaleOf(down', up')

Sample(read, time) ==
  /\ samples < MaxSamples /\ samples' = samples + 1
  /\ clock' = time /\ moved' = Nothing
  /\ UpdateCpu(read) /\ RefreshMemoryAndSwapData /\ UpdateNetwork(time)
  /\ before' = [busy |-> busy, idle |-> idle, clock |-> time, read |-> read, counted |-> Counted]
  /\ UNCHANGED <<busy, idle, mem, nets>>

\* the timer
UpdateResourceStatus == Sample(TRUE, clock + 1) /\ UNCHANGED events

\* the file of the counters cannot be read, or the clock was set since
UpdateInTrouble ==
  /\ Event
  /\ \/ Sample(FALSE, clock + 1)
     \/ \E time \in {clock - 1, clock, clock + 2} \ {0} : Sample(TRUE, time)

ResourcesNext ==
  \/ UpdateResourceStatus \/ UpdateInTrouble \/ Work \/ Use
  \/ \E i \in Interfaces : Address(i) \/ \E d \in Directions : Traffic(i, d)

ResourcesSpec == ResourcesInit /\ [][ResourcesNext]_resources

-----------------------------------------------------------------------------
(***************************************************************************)
(* Properties.                                                             *)
(***************************************************************************)
\* No ring is longer than its chart, and every figure is one the page can show.
ResourcesTypeOK ==
  /\ {busy, idle, clock} \subseteq Nat
  /\ mem \in [used : 0 .. Memory, swap : Swaps, swapUsed : Swaps]
  /\ nets \in [Interfaces -> [bytes : [Directions -> Nat], address : BOOLEAN]]
  /\ cpu \in [work : Nat, total : Nat] /\ netinfo \in [last : [Directions -> Nat], time : Nat]
  /\ percent \in 0 .. 100 \cup {NaN}
  /\ {Len(history), Len(memory), Len(down), Len(up)} \subseteq 0 .. Cap
  /\ ToSet(down) \cup ToSet(up) \subseteq 0 .. WORD - 1
  /\ scale \in ToSet(Ladder) /\ space \in Nat
  /\ moved \in [Directions -> Nat] /\ samples \in 0 .. MaxSamples /\ events \in 0 .. MaxEvents

\* The percentage is the processor's share of work between two readings that
\* succeeded, and zero around one that failed: the failed one keeps the work
\* time and clears the total (resourcedlg.cpp:33-56, 786-795).  Two readings
\* within one tick make it "nan".
CpuIsShare ==
  [][samples' # samples =>
       percent' = IF before.read /\ before'.read
                  THEN Percent(busy - before.busy, busy + idle - before.busy - before.idle)
                  ELSE 0]_resources

\* No peak out of nothing: what the page says was received or sent since the
\* last sample was moved in that time, whatever interfaces left or were reset,
\* unless one came that was not counted before (the comment at
\* resourcedlg.cpp:160 knows of it) or the clock did not move forward.
NoPeak ==
  [][(samples' # samples /\ Counted \subseteq before.counted /\ clock' > before.clock) =>
       /\ Last(down') * (clock' - before.clock) <= moved["in"]
       /\ Last(up') * (clock' - before.clock) <= moved["out"]]_resources

\* Memory and swap share one scale: no point of either leaves the chart, also
\* after swap has been turned off (swapandmemorychart.cpp:144-160).
MemoryFits ==
  \A j \in 1 .. 2 :
    LET list == [n \in DOMAIN memory |-> memory[n][j]] IN
    \A n \in DOMAIN list : Points(list, space)[n] <= 100

\* The labels of a chart say where its line is: from the top down each reads less
\* than the one above, and the figure shown of the last sample reads no more than
\* the top of its axis, although figure and axis change their units apart.
LabelsAgree ==
  /\ \A axis \in {MemoryLabels, NetworkLabels} : \A i \in 1 .. 4 : Reading(axis[i]) < Reading(axis[i - 1])
  /\ \A d \in {down, up} : d # <<>> /\ Last(d) < Last(Ladder) =>
       Reading(FormatNetworkBrandWidth(Last(d))) <= Reading(NetworkLabels[0])
  /\ memory # <<>> => \A j \in 1 .. 2 :
       Reading(FormatMemory(Last(memory)[j])) <= Reading(MemoryLabels[0])

\* The two rings of the network chart have the same samples (the search for the
\* maximum goes through both with one index, networkchart.cpp:217-224), every
\* point is on the chart unless it is beyond the last scale, and the scale
\* comes down when a peak has left the rings; and the same of memory and swap.
\* The labels agree with the lines.
ScaleFits ==
  LET all == ToSet(down) \cup ToSet(up) IN
  /\ MemoryFits /\ (samples > 0 => LabelsAgree)
  /\ Len(down) = Len(up) /\ Len(down) = Min({samples, Cap})
  /\ Len(history) = Len(down) /\ Len(memory) = Len(down)
  /\ (\A v \in all : v < Last(Ladder)) =>
       \A n \in DOMAIN down : Points(down, scale)[n] < 100 /\ Points(up, scale)[n] < 100
  /\ \A k \in 1 .. Len(Ladder) - 1 :
       scale = Ladder[k + 1] => \E v \in all : v >= Ladder[k]

=============================================================================
