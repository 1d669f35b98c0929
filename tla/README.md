# A TLA+ development of ukui-system-monitor

ukui-system-monitor is the task manager of the UKUI desktop: a Qt window with a
table of processes, charts of the machine's resources and a table of file
systems, and a thread that captures network packets to tell how much each
process sends and receives. This directory holds TLA+ modules for the parts
where the order of events decides what the user sees or what happens to a
process, the TLC configurations that check them on small instances, and proofs
for TLAPS.

Paths below are relative to the repository.

## 1. The system

### Threads and queues

There are two threads that matter. The *GUI thread* runs the window, the models,
`ProcessMonitor` and `ProcessList` (`moveToThread` is commented out,
`src/process/process_monitor.cpp:45`; the `QThread` of `ProcessMonitorThread`
only delivers its `started` signal). The *network thread* (`ProcessNetwork::run`)
runs `nethogsmonitor_loop`. They meet in three places: the queued signal
`procDetected` (network to GUI), the flag and the self pipe that
`nethogsmonitor_breakloop` writes (GUI to network), and `wait()` in
`~ProcessList`. Everything else that is asynchronous is an event posted on the
GUI thread (`QTimer::singleShot(0, ..)`, timers, animations), another process
(a second start of the program, over a lock file and a local socket), or the
kernel, which changes `/proc`, the mount table, the devices and the counters
between any two reads.

### Inventory

| Component | State | Operations | Hard part | What makes it correct | Modelled by |
|---|---|---|---|---|---|
| Packet capture, `libnethogs.cpp`, `decpcap.c`, `packet.cpp` | devices, own addresses, link types | init, dispatch, parse | addresses change, headers vary | a TCP segment is counted once, for the right ends and direction; nothing else is | `Capture`, proofs |
| Traffic accounting, `procnet-monitor/` | connections, process nodes, socket caches, record map, clock readings | packet, poll, update (`handle_update`) | two timeouts, caches that go stale, clock gaps | every packet is counted once, for a process that held the socket; a process leaves when it has been idle, and its last reported speed is 0 | `PackList`, `NetHogs`, proofs |
| Monitor thread, `libnethogs.cpp`, `process_network.cpp` | run flag, self pipe, device handles | init, loop, clean up, breakloop | start, failure and stop race | a running loop stops; no callback on a dead object; no handle is left open | `MonitorLoop`, proofs |
| Process list, `process_list.cpp`, `process_monitor.cpp` | `m_set`, `m_mapCpuTimes`, filter, timer | scan, refreshLine, change of filter, stop | `/proc` changes while it is read; pids come back; reports are queued | CPU time and bytes are charged once; no report is lost; rows are those of the last scan | `ProcessList`, proofs |
| Desktop entries, `desktopfileinfo.cpp` and their use in scan and table | maps from commands and names to entries, icon map | read, search, name a row, show an icon | several ways to match; a pid that changes its program | the best entry is found, and row and icon are of one program | `ProcessNames`, proofs |
| Process table, `processtablemodel.cpp`, `processsortfilterproxymodel.cpp`, `processtableview.cpp`, `process_oplimit.cpp`, `procpropertiesdlg.cpp`, `renicedialog.cpp` | rows, posted updates, selection, menu, dialog | update, search, select, menu, properties, renice, stop, end, kill | rows move while a dialog is open | the table catches up with the list; what is highlighted is acted on; protected processes are not | `ProcessTable`, proofs |
| Cells and figures, `util.cpp`, both models and proxies | none | format, compare | units, cut-off texts, ties | rows are in the order of the raw figures, and the texts agree with it | `Figures`, `Cells`, proofs |
| Resource page, `src/newresource/` | last counters, rings of samples, scales | one-second sample | differences of counters, an interval of 0, a full ring | a figure comes of what happened since the last sample; no point is off the chart | `Resources`, proofs |
| File systems, `src/filesystem/`, `filesystemmodel.cpp`, `filesystemtableview.cpp` | mount list, watcher, table rows, selection | mount changes, scan, usage, double click | deferred updates; three reads of one table | every change is followed by a look; rows agree with each other | `FileSystems` refines `Follower`, proofs (but for the liveness) |
| Single instance, `src/QtSingleApplication/`, `main.cpp` | lock file, local socket, connections | start, send message, receive, quit, kill | two starts at once, a crash that leaves the file | one instance; every start is heard | `SingleInstance` refines `Presence`, proofs |
| Window, title bar, headers, `systemmonitor.cpp`, `monitortitlewidget.cpp`, `ktableview.cpp`, both views | search box, pages, sizes, columns, settings | type, click, drag, resize, close, restart | timers, animations, restored state | the search catches up; label, button and box tell the truth; what is stored comes back | `MainWindow`, `Headers`, proofs (but for the search) |
| Painting, styles, delegates, own widgets; about dialog and user guide; frameless window | drawing, fixed texts, hints to the window manager | | none that a model would tell | | not modelled |
| `singleProcessNet/decpcap.c`; Windows and console variants of the single application | | | not used | | not modelled |

`PROJECT.json` lists the components with their sources, and every hazard
that was found at its line.

## 2. The modules

A module and the code it models, in the order in which data flows. Variables
that the code does not have record history for the properties; each is
introduced as such where it is declared. Names follow the code. Where one proof
module extends several components, each of these names its own parts
(`CaptureInit`, `NamesSpec`, `resources`). `Lists` has what two components need
to say of lists of rows: what stays of one, and a set of numbers in order.

### Capture

`nethogsmonitor_init` (`GetDevices`, `Open`) and one call of `dp_dispatch`
per frame (`Dispatch`). A frame is a record of what its headers say: link type,
IP version, protocol, fragment offset, options. The parser reads the ports at a
fixed distance from the start of the IP header; `seen` is what stands there.
The addresses that decide which end is one's own are read once, and the kernel
can move them (`Renumber`) or bring a device up (`GoesUp`) at any moment.

### PackList and NetHogs

`PackList` is the list of captured packets of one connection: `Add` puts a packet
in front, `Kept` is what `sumanddel` leaves, `Bytes` its sum in 32-bit arithmetic
(`U32`, with the width `WORD` a constant).

`NetHogs` is the accounting engine. Sockets and their holders are the kernel's
(`Connect`, `Inherit`, `Release`, `Tick`). A captured packet is the whole of
`process_tcp`: the connection is looked up (`FindConnection`, with the fallback
to the local end), or made with the process that the two caches give (`LookUp`,
`Rows`, `Reread`, `GetProcess`), and the packet is added. `DispatchIdle`,
`EndDispatch` and `Update` are the poll loop; `Update` is the whole of
`nethogsmonitor_handle_update`: it deletes processes (`Removed`), prunes and
sums connections (`Figures`), and calls back (`Tell`) for what differs from the
record map (`record`, a partial function over the process nodes).

### MonitorLoop

The start and the end of the network thread, statement by statement where the
other thread can come between: `nethogsmonitor_init` device by device, the self
pipe, the setting of `monitor_run_flag`, the wait, the clean-up; on the GUI side
`ProcessList`'s constructor, `breakloop` (flag, then write), `wait()`, and
`~ProcessNetwork`, which calls `breakloop` again.

### ProcessList and ProcessNames

`ProcessList` is `ProcessList` and `ProcessMonitor`. A scan is `BeginScan` (read
the pids, drop the rows that are not among them) and then, for each pid, four
steps with the kernel between them: `UpdateProcInfo`, `ReadIo`, `ReadState` and
`Store`, which reads the CPU time and makes the row. A process can work, exit, be
reaped and be followed by another of its pid between any two. Differences are in
`guint64` arithmetic (`WORD` stands for 2^64). The network thread appends to the
queue of calls that `RefreshLine` takes from when the GUI thread is idle.

`ProcessNames` is what a row is called: the maps that `DesktopFileInfo` builds
from three directories of desktop files, the search for an entry (`LookUp` and
its order of attempts), the part of a scan that uses it, and the icon map of
`ProcessTableModel`. Text is made of words, a path is a word with a `Base`.

### ProcessTable, Figures, Cells

`ProcessTable` is the model, the proxy, the view and its dialogs. `Scan` stands
for what `ProcessList` promises its readers: a set of living processes and one
posted update. `UpdateProcessListDelay` brings the rows up to date, moves the
highlight where Qt moves it when its row goes (`Moved`; which neighbour, depends
on the sort order and is left open) and runs the view's handler of
`modelUpdated` (`Reselected`). The menu, the dialogs (end, kill, renice,
properties with its timer) and the operations act on `selectedPID`; `barred` is
the priority menu, `guarded` the protection. `gen` numbers the processes that a
pid has named.

`Figures` holds the texts of sizes, rates, times, levels and percentages as
operators, `Cells` what each cell of both tables shows, the raw figure behind it
and the comparisons of the proxies. `MCProcessTable` extends both, so that the
run of the table also evaluates them over all pairs of the rows it lists.

### Resources

One second of the resource page: `UpdateResourceStatus` is the whole of
`ResouresDlg::updateResourceStatus`, that is, the counters of CPU, memory, swap
and each interface, the figures made of their differences, and the three charts
with their rings, maxima and axis labels. `UpdateInTrouble` is the same with
an input that cannot be read, or a clock that has been set.

### FileSystems and Follower

`FileSystemWatcher` (start, handler), the deferred call in `FileSystemModel`,
`FileSystemWorker`'s scan entry by entry, the two lists of the model, the rows
and the selection, against a mount table that changes at any moment.
`Follower` is what the page promises: every change of an outside state is
sooner or later followed by a look at the latest one. `Follows` says that
`FileSystems` implements it, with `looked` and the number of changes since the
start for its variables, fairness included.

### SingleInstance and Presence

`main`, `QtSingleApplication`, `QtLocalPeer` and `QtLockedFile` for any number of
processes: lock, remove the socket file, bind, listen, connect (twice), write,
acknowledge, quit in the order of the C++ destructors, and `Kill` at any step.
`Presence` is the promise: one process at most has a window, it passes only
through nobody, and a message is heard by whoever has it. `IsSingle` is the
refinement.

### MainWindow and Headers

`Headers` is a table's header: which columns, how wide, the sort, what is
stored; `MainWindow` extends it with the window: the search box with its two
timers and its animation, the page buttons, the box that says whose processes are
listed, width and state, and what `QSettings` and `GSettings` bring to the next
start. A session ends by `Close` or by `Killed`.

### How they fit together

`Capture` makes the packets that `NetHogs` accounts for. `NetHogs` promises its
subscriber a speed per pid (`Tell`); `ProcessList.Report` allows any such
sequence. `MonitorLoop` is the life of the thread in which both run.
`ProcessList` promises its reader a set of living processes and a signal at the
end of each scan; `ProcessTable.Scan` allows any such set. `ProcessNames` is the
part of the same scan that is about text, `Cells` and `Headers` what the table
puts around its rows. `SingleInstance` says who has a window, and a message it
delivers is `OnMaximizeWindow` in `MainWindow`. Each interface is the weaker
side's assumption, so a property of one module does not depend on what
another one leaves out.

## 3. What is checked

Each run takes a few minutes at most. Every property has a mutant in
`PROJECT.json`: a definition before the one it replaces, marked "(a mutant)" in
the module, which the run with that property refutes.

| Run | What it asks | Bounds, and why they are enough |
|---|---|---|
| `capture` | `CountedAsSent`: a TCP segment that the devices see is counted once, with its length, ends and direction, unless its own address moved since the start or a misread frame spells its ports. `NothingInvented`: each pair that is counted crossed, or was spelled by such a frame | an Ethernet and a raw device, three flows, two frames with and without options, fragments, extension headers and IPv6, one address that moves: each combination of header and link meets the parser, before and after a change of address |
| `nethogs_time` | `TrafficConserved`: what an update tells of all processes together is what was captured in the window, each byte once. `RemovedOnlyWhenIdle`, `IdleRemovedPromptly`: who is deleted, and when. `ConnectionsOwned`: no connection without a process, none silent for long. `ToldSpeedIsLive`: a speed that was told and is not 0 has a process behind it | one flow, one pid, six seconds with `PERIOD` 2, `CONNTIMEOUT` 3, `PROCESSTIMEOUT` 5 and gaps between polls of up to 2: a packet can be added, leave the window, its connection and then its process time out, and both come back. `WORD` is 8, so that sums wrap |
| `nethogs_owner` | `OneProcessPerPid`, `OneConnectionPerSource`, `OwnerHeldSocket`: who is charged when sockets are opened, inherited and closed while the caches are stale | two flows of one local port, two pids, two inodes: one inode can replace the other behind a flow, and one pid the other behind an inode |
| `loop` | `CallbackOnLiveObject`, `NoHandleLeft`, `RunningLoopStops` over every interleaving of start, failure and stop | two devices, so that some, all or none can be opened |
| `plist_scan` | `CountedOnce`: CPU time and disk traffic are exact differences to the scan before, whatever the filter did in between. `ZombieHiddenByNextScan`, `RowsAreCurrent`: which rows there are, and whose. `NoReportLost`: queued reports and copied rows | one pid, which two processes can have in turn; three scans, the least in which a row can be hidden by one and come back in the next; two queued calls, the least that have an order. A scan treats pids independently of one another |
| `names` | `LookupIsBest`: an entry is found if any matches, and it fits the command line as well as any other does, whatever the order of the map. `RowIsOneProgram`, `IconShown`: icon, title and picture of a row belong to one entry | 84 sets of desktop files that cover each way to match and pairs of them; six programs, one change at any point, two scans: the least for a name that is kept from a scan before |
| `ptable` | `RowsMatchList`, `RowsCatchUp`: the table follows the list. `HighlightIsTarget`, `DialogHolds`: what the user sees is what the operation hits, as long as its row stays, and a dialog has the values it indexes. `ProtectedNotSignalled`. `ShownInOrder`, `ShownTells`: the order of the rows and the texts against the raw figures | three pids: the highlighted one, its neighbour, and one that comes or goes; three scans with two pending updates: a row can go and come back while a dialog is open. Figures on both sides of every step of the units, with `KILO` 8 for 1024 and the steps scaled alike |
| `resources` | `CpuIsShare`: the percentage is the share between two readings that succeeded, and 0 around one that failed. `NoPeak`: a rate is of bytes moved since the last sample, whatever interfaces left or were reset (one that comes, as the comment at `resourcedlg.cpp:160` says, and a clock that did not go forward are excepted). `ScaleFits`: points, maximum and labels of each chart agree, and the scale comes down again | two interfaces, a ring of two values, three samples, four events: the ring is full and drops its largest value. `WORD` 1024 is far above every figure, so a wrapped difference is seen as one |
| `files` | `ActsOnShownRow`: the two lists of the model agree, and a double click opens the row shown. `Follows`: every change is looked at. `TableCatchesUp`: the rows come to be the devices mounted | two devices that are shown, a tmpfs and a proc, three directories, three lines and three changes: a device can be mounted twice, hidden by another mount, and moved |
| `instance` | `OneInstance`, `Answered`, `IsSingle`, `MessagesAreRead` | three processes, one of which starts twice, one killed at any step: an owner, a starter, and one that comes when the first is gone |
| `window` | `SearchApplied`, `WindowTells`, `Survives` over sequences of input between the steps of the event loop | four inputs, two starts; widths at, above and far above the minimum; two of the columns are acted on. Two inputs for a text that is changed while its search waits, two more for a page or a size |
| `ptable_dialog` | see below | two pids |

Bounds: `Max..` constants cap counters and queues in the guards; pids, flows,
devices and processes are small sets; `WORD` replaces 2^32 or 2^64; the timeouts
keep the order that the real values have (`PERIOD` 5 < `CONNTIMEOUT` 50 <
`PROCESSTIMEOUT` 150). Deadlock checking is off everywhere, since each model
stops at a bound or at the end of the program; that nobody waits for ever
where it matters is what the liveness properties say.

### Where the code and its texts differ

`ptable_dialog` refutes one statement of the user interface: the dialog asks
whether to kill or end "the selected process ... (PID: ..)" by name
(`processtableview.cpp:683`, `712`), and `killProcesses` takes `m_selectedPID`
when the button is clicked (`:609`). If the named process leaves the table while
the dialog is open, Qt moves the selection to the next row and that process is
ended.

### What does not hold, and under which condition it does

The modules also state what the code does not give. These definitions are
properties that no run lists; each marks the edge of one that holds.

| Definition | Where | Why |
|---|---|---|
| `MonitorLoop!BreakloopStopsLoop` | `libnethogs.cpp:302` | a stop before the flag is set is overwritten there; `RunningLoopStops` is what holds |
| `MonitorLoop!FailureReturns` | `libnethogs.cpp:118` | a failing `getLocal` is retried on the same device without end |
| `MonitorLoop!PipeInterruptsLoop` | `libnethogs.cpp:346` | the loop may already have closed its read end |
| `NetHogs!RemovedAfterProcessTimeout` | `libnethogs.cpp:196` | a process leaves `CONNTIMEOUT` seconds after its last packet, not `PROCESSTIMEOUT` |
| `NetHogs!SilentConnectionsDropped` | `libnethogs.cpp:219` | after a pause longer than `PROCESSTIMEOUT` (suspend) the process goes and its connections stay; `ConnectionsOwned` needs `GapsAreShort` |
| stamps in order | `connection.cpp:63` | the code cuts the list at the first old packet; `TrafficConserved` and `RemovedOnlyWhenIdle` are about `Lag = 0` (`InOrder` in the proofs) |
| `SingleInstance` with `Overlap` | `qtlocalpeer.cpp:145` | an owner that ends removes the socket file, perhaps of its successor; the run and `Answered` are about owners that end while nobody starts; that there is one instance is proved with `Overlap` too |
| `FileSystems` with `Undo` | `filesystemwatcher.cpp:51` | a mount table that has returned to what the watcher saw last is no change to it; the run is about changes that stay |

### Fairness

`MonitorLoop` assumes weak fairness of the network thread's steps, of the
constructor's `connect` and of the steps of a stop that has begun: the operating
system schedules both threads. It does not assume that the user quits, that a
device can be opened, or that `getifaddrs` ever works. `ProcessTable` assumes
weak fairness of `UpdateProcessListDelay`, `FileSystems` of the GUI's next step,
`MainWindow` of the search's steps: the event loop runs the events posted to it
and the timers that are due (a blocking `pkexec` ends when its user answers).
`SingleInstance` assumes that each process goes on, if it is not killed. Nothing
is assumed of scans, of the user, of a mount or of a frame. The other
modules state safety only.

## 4. What is proved

The theorems hold for every value of the constants that satisfies the named
assumptions, in particular for the real widths and timeouts, and without the
bounds on scans, starts, inputs and queues. In each proof module the inductive
invariant comes first, with one step per action, and under it one per conjunct
that the action can disturb; the temporal theorem combines them by PTL. Every
safety property that a passing run checks is stated by a theorem.

### Lemmas

What the others need of the operators the models are built from: that a function
defined by recursion over numbers or over finite sets is what its equation says
(`StepsExist`, `SumsExist`); what `Staying` and `Ascending` pick (`StayingIs`,
`AscendingIs`); sums over finite sets, which of them are equal, greater, or
group into one another (`SumRemove`, `SumSame`, `SumMonotone`, `SumConstant`,
`SumZeros`, `SumAdd`, `SumRenamed`, `SumGrouped`); division by units that are
multiples of each other. The prover cannot instantiate an induction theorem that
takes an operator, so `Induction` and `SetInduction` are stated for a set: the
set of numbers, or of subsets, of which the fact at hand is true.

### NetHogsProofs, from `NetHogsAssumption`

- `AddKeepsNewestFirst` and `KeptDropsOnlyOldPackets` say together that cutting
  the list at the first old packet removes only old packets *if* packets are
  added in the order of their stamps, which several devices or a clock that is
  set back do not guarantee.
- `TypeCorrect`: `TypeOK` is inductive as it stands; the work is in the list
  lemmas and in `Figures`, whose values stay in 32 bits.
- `OneProcess` (`OneProcessPerPid`): nodes are only made by `GetProcess`, which
  searches first.
- `OneConnection` (`OneConnectionPerSource`): a connection is only made when
  `FindConnection` has found none of that local end, because of the same fallback
  that mixes the peers of one port.
- `Owned` (`ConnectionsOwned`), from the additional assumption `GapsAreShort`:
  `CONNTIMEOUT` plus the longest gap between two polls does not exceed
  `PROCESSTIMEOUT` (50 and 150 seconds: gaps of up to 100). The property is not
  inductive: whether `Update` may delete a process depends on how old the last
  packet of each of its connections can be, which depends on when the last
  update pruned them. The invariant adds that bound, and that the clock readings
  are ordered (`ClocksClose`).
- `HeldSocket` (`OwnerHeldSocket`): the invariant says what each cache entry
  once was: an inode in `conninode` has been that flow's, a pid in `inodeproc`
  has held that inode. The caches are never told of a close, so nothing stronger
  is true.
- `ToldIsLive` (`ToldSpeedIsLive`, from `GapsAreShort`): a process leaves only at
  an update in which its figures are those of no packet, and the update before it
  told 0; the invariant says that a node with a speed in the record map has
  connections (`SpeedsHaveConnections`).
- `OnlyIdleRemoved` and `IdleRemoved` (`RemovedOnlyWhenIdle`,
  `IdleRemovedPromptly`) assume also that stamps are in order (`InOrder`): then
  the head of a list is its newest packet, and the last packet of a process is
  that of one of its connections (`HeardByConnections`, `ConnectionsHeard`).
- `TrafficIsConserved` (`TrafficConserved`): that what is told adds up to what
  was captured cannot be followed from update to update, because the window
  moves. The invariant is therefore a tally for *every* second that can still be
  asked for (`Tallied`): all connections together hold as many bytes stamped
  after it as crossed the devices after it. A packet adds to both sides,
  whichever connection it is put into; an update drops only packets that no later
  window asks for, because the lists are in order (`StampsInOrder`), and only
  connections that hold none. The last step regroups the sum over connections
  into one over processes, which needs that every connection has its process
  (`ConnectionsOwned`). The theorem assumes `InOrder`, `PERIOD <= CONNTIMEOUT`
  (5 and 50), and that the bytes of one window stay below `WORD` (`WindowFits`):
  the sums of the code are `u_int32_t`, and more than 4 GiB in five seconds are
  told wrongly. Without `InOrder` it is false. The instance `nethogs_time`
  satisfies all three.

### RowSourcesProofs

The two sources of what a row shows beside its scan, and the capture behind the
first.

- The monitor thread, for any number of devices: `TypeCorrect`; `CallbackSafe`
  (`CallbackOnLiveObject`), because the destructor is past `wait()` only when the
  loop has returned (`AfterWait`); `NoLeak` (`NoHandleLeft`), where the handles
  follow the list of devices at each line of the loop (`HandlesFollow`);
  `EndsForAReason`: a loop that was entered ends only by `breakloop`.
- The capture, from `CaptureAssumption`: `EveryByteCounted` (`CountedAsSent`) and
  `NoneInvented` (`NothingInvented`). `CountedAsSent` is about empty buffers
  and says nothing of a step; what is kept at each step is that what was counted and
  what waits in the buffers is what has crossed (`Tallied`), for flows whose own
  address has stayed and that no misread frame spells (`Good`, `Misread`).
- The names, from `ProcessNamesAssumption`: `LookupIsBestAlways` is a fact of the
  search alone; `RowsAreOneProgram` (`RowIsOneProgram`) follows rows that were
  named by an earlier scan as well as those of this one (`RowsNamed`);
  `IconsAlwaysShown` (`IconShown`) holds because the picture of a key does not
  depend on the row that first asked for it (`Pictured`).

### ProcessListProofs

For any pids, any number of scans, lives and queued calls: `ReportsAreKept`,
`RowsStayCurrent`, `CountsOnce` and `ZombiesAreHidden`, the four properties of the
run. The invariant has three parts: what the queue and the rows say of reports
that were passed on (`Reported`, `Passed`); what the kernel's counters can be
(`KernelOk`, `AllCounters`); and what the local variables of a scan hold between
two reads (`ScanRead`): of which process each of the four reads is, and that the
counter kept from the scan before is of that process too.

### ProcessTableProofs

- The table, from `ProcessTableAssumption`: `HighlightIsTargetAlways`;
  `RowsAlwaysMatch` (`RowsMatchList`), where the rows that stay and the new ones
  behind them are one for each process listed; `DialogAlwaysHolds`
  (`DialogHolds`), whose first half, `SteadyDialogAlways`, says that a dialog
  whose row stays acts on the process it names (`KeptOnTarget`), and whose second
  half needs that a properties dialog opened with nothing to show has an update
  posted that takes its row away before its timer can fire (`EmptyIsGoing`);
  `ProtectedAreSafe`.
- The cells, from `CellsAssumption` and `FiguresAssumption`: `ShownInOrderAlways`
  and `ShownTellsAlways`, for any figures and any unit. These are facts of
  arithmetic: a rounded text never falls when the figure grows, across all
  changes of unit.
- The resource page, from `ResourcesAssumption`, which rests on the same texts.
  `NoPeakOutOfNothing` (`NoPeak`): bytes are moved on all interfaces together while
  those that are counted change, so the invariant is about every part of the
  interfaces that the last reading counted (`Counters`, `AllMoved`).
  `ShareIsShown` (`CpuIsShare`), as long as the counters stay below `WORD` (2^64):
  what is kept of a reading that failed is a total of zero (`LastReading`).
  `ScaleAlwaysFits` (`ScaleFits`): the invariant says which scale is in use, how
  labels are spaced on it, and how long the rings are (`Charted`).

### FileSystemsProofs

`TypeAlways` and `ActsOnShownRowAlways` (`ActsOnShownRow`), for any devices and
any number of changes in the middle of a scan: the worker never parts a device
from the directory where it first found it, and the two lists of the model are cut
and extended alike (`Named`, `RowsSeen`). `FollowsStepByStep`: each step is a
change, a look or a stutter of `Follower`; the fairness in `Follows` stays with TLC.

### SingleInstanceProofs

For any set of processes: `OneInstanceAlways`; `Implements`, that `SingleInstance`
implements `Presence` step by step; and, without `Overlap`, `StartsAreAnswered`.
The invariant relates the lock to the program counters (`Locked`), the socket's
name to its listener (`Reachable`), the connections to the servers (`Queues`), and
a start to the owner it began under (`Watched`).

### MainWindowProofs

From `MainWindowAssumption` and `HeadersAssumption`, for any texts, widths and
sessions: `TitleBarAlwaysTells`, the part of `WindowTells` about the search label,
the box and the button, whose invariant adds which way an animation that runs will
turn the label (`LabelTurns`); `WindowAlwaysTells` (`WindowTells`), with the columns,
where a table that was laid out for a width keeps it until it is laid out for
another one (`LaidOut`); `SettingsSurvive` (`Survives`), where what is stored is
what the last closed session ended with (`StoredIsLast`).

### Only model-checked

Liveness, which is out of the prover's reach: `RunningLoopStops`, `RowsCatchUp`,
`SearchApplied`, `TableCatchesUp`, `MessagesAreRead`, and the fairness half of
`Follows`.

## 5. What is left out

Not modelled:

- Painting, styles, delegates, the own widgets: drawing that no other state reads.
- The about dialog and the user guide: fixed texts, and one call over D-Bus.
- The frameless window, which only `maincontroller.cpp` would make, and the hints
  to the window manager: what it makes of them (sizes, states) is an input of
  `MainWindow`.
- The second copy of the packet library (`singleProcessNet/decpcap.c`), whose
  caller is commented out, and the Windows and console variants of the
  single application.
- The XML file of the protected list (its content is `Protected`), the minimised
  state of the window, and the order that columns are moved to. For these the
  table and the window count as partly modelled.
- Code that is reached from nowhere: `updateProcessState`,
  `updateProcessPriority`, `onStartScanProcess`, `getDesktopFileNameByExec`,
  `getNameByDesktopFile`, `getIconByDesktopFile`, `recordProcessVisibleColumn`,
  `recordSortStatus`, `process_udp` (the walk has no branch for UDP),
  `dp_open_offline`, `maincontroller.cpp`.

Abstracted:

- Qt (selection, event queue, timers), the kernel, libpcap and libgtop are
  modelled by what the code relies on and marked external in the map.
- The list of pids is read at once; `/proc` is read file by file after that.
- In `ProcessList` a CPU percentage is its numerator, and the wrap of the total
  CPU time is left out; memory and thread counts are data that no property tells
  apart.
- `qFuzzyCompare` is equality; wording, icons and colours are left out; names
  and users are numbers in the order of the locale.
- The narrow branch of `adjustColumnsSize` is not reached: the minimum width of
  the window is above it.
- The clocks of `NetHogs` do not run backwards; that of `Resources` does.

## 6. Plan

All modules of the first plan are there, and all their safety properties are
proved. What is left, in this order:

1. A module that composes `ProcessList` and `ProcessTable` over the real `m_set`,
   with an abstract list between them (what a subscriber and a reader are
   promised) that `ProcessList` implements.
2. That implementation as a theorem, as `Implements` is for `SingleInstance`.
3. The XML of the protected list, and the window's minimised state.
