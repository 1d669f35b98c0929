---------------------------- MODULE ProcessList -----------------------------
(***************************************************************************)
(* ProcessList and the ProcessMonitor that drives it.  On the GUI thread a *)
(* scan reads the kernel's list of pids, then each process' files one by   *)
(* one while the kernel goes on: processes start, work, turn into zombies  *)
(* and are reaped between any two reads, and a pid may come back as        *)
(* another process.  The network thread queues speeds (procDetected) for the same  *)
(* rows.  The user changes the filter, which empties the list and scans at *)
(* once; otherwise a timer scans every three seconds.                      *)
(***************************************************************************)
EXTENDS Integers, Sequences, FiniteSets, Functions

CONSTANTS
  Pids,        \* pids, in the order of the scan
  Speeds,      \* speeds that the traffic monitor reports, 0 among them
  Filters,     \* what the user may choose: of "all", "active", "user"
  States,      \* states a process is seen in besides "zombie"
  WORD,        \* 2^64, the width of guint64 and quint64
  MaxTime,     \* bound: CPU time of a process
  MaxDisk,     \* bound: bytes a process reads and writes
  MaxBorn,     \* bound: processes that a pid names, one after another
  MaxScans,    \* bound: scans
  MaxCalls     \* bound: queued calls of refreshLine

NoPid == 0
None  == -1    \* no speed reported

ASSUME ProcessListAssumption ==
  /\ Pids \subseteq Nat \ {0}
  /\ Speeds \subseteq Nat /\ 0 \in Speeds
  /\ Filters \subseteq {"all", "active", "user"}
  /\ States \subseteq {"run", "sleep"}
  /\ WORD \in Nat /\ MaxTime \in 0 .. (WORD - 1) /\ MaxDisk \in 0 .. (WORD - 1)
  /\ MaxBorn \in Nat \ {0} /\ MaxScans \in Nat /\ MaxCalls \in Nat

VARIABLES
  proc,       \* kernel: pid -> [gen, state, mine, rtime, disk]
  filter,     \* m_strFilter
  stopped,    \* m_isScanStoped
  timer,      \* m_basicTimer runs
  set,        \* m_set: pid -> Process
  cpuTimes,   \* m_mapCpuTimes: pid -> CPU time at the last scan of the pid
  calls,      \* procDetected events in the GUI thread's queue
  connected,  \* procDetected is connected to refreshLine
  scan        \* the scan in progress: pids to do, the pid being read, its reads

(***************************************************************************)
(* History variables.                                                      *)
(***************************************************************************)
VARIABLES
  scans,      \* number of scans begun
  last,       \* pid -> what its last scan read, and the number of that scan
  told,       \* pid -> last speed reported, None when nothing is
  due         \* pids listed without a break since their last report

list == <<filter, stopped, timer, set, cpuTimes, scan, scans, last>>
net  == <<calls, connected, told>>
vars == <<proc, list, net, due>>

-----------------------------------------------------------------------------
\* libgtop fills its records with zeros before it opens a file of /proc
Gone == [gen |-> 0, state |-> "gone", mine |-> FALSE, rtime |-> 0, disk |-> 0]

\* name stands for name, arguments, session and threads: the process they are of
Process == [name: 0 .. MaxBorn, mine: BOOLEAN, cpu: 0 .. MaxTime, used: 0 .. (WORD - 1),
            status: States \cup {"gone", "run"},
            flow: Speeds, preDisk: 0 .. MaxDisk, speed: 0 .. (WORD - 1)]

Seen == [scan: 0 .. MaxScans, gen: 0 .. MaxBorn, state: States \cup {"zombie", "gone"},
        rtime: 0 .. MaxTime, disk: 0 .. MaxDisk]

NoScan == [todo |-> {}, at |-> NoPid, name |-> 0, gen |-> 0, disk |-> 0, state |-> "named",
           mine |-> FALSE]

\* rows exist for these pids
Listed == DOMAIN set

\* the GUI thread is in its event loop
Idle == scan.todo = {} /\ scan.at = NoPid

Alive(p) == proc[p].state # "gone"

\* which pids glibtop_get_proclist returns
ProcList(f) == {p \in Pids : Alive(p) /\ (f = "user" => proc[p].mine)}

\* /proc/<pid>/io can be read by the owner only
Io(p) == IF proc[p].mine THEN proc[p].disk ELSE 0

\* guint64 arithmetic
Unsigned(n) == n % WORD

-----------------------------------------------------------------------------
Init ==
  /\ proc \in [Pids -> {Gone, [Gone EXCEPT !.gen = 1, !.state = "sleep", !.mine = TRUE]}]
  /\ filter \in {"all"} \cup Filters /\ stopped = FALSE /\ timer = FALSE
  /\ set = <<>> /\ cpuTimes = <<>>
  /\ calls = <<>> /\ connected = TRUE
  /\ scan = NoScan /\ scans = 0
  /\ last = [p \in Pids |-> [scan |-> 0, gen |-> 0, state |-> "gone",
                             rtime |-> 0, disk |-> 0]]
  /\ told = [p \in Pids |-> None] /\ due = {}

-----------------------------------------------------------------------------
(***************************************************************************)
(* The kernel.                                                             *)
(***************************************************************************)
Start(p) ==
  /\ ~Alive(p) /\ proc[p].gen < MaxBorn
  /\ \E m \in BOOLEAN, s \in States :
       proc' = [proc EXCEPT ![p] = [Gone EXCEPT !.gen = proc[p].gen + 1, !.state = s, !.mine = m]]
  /\ UNCHANGED <<list, net, due>>

Work(p) ==
  /\ Alive(p) /\ proc[p].state # "zombie"
  /\ \E s \in States, t \in proc[p].rtime .. MaxTime, d \in proc[p].disk .. MaxDisk :
       proc' = [proc EXCEPT ![p].state = s, ![p].rtime = t, ![p].disk = d]
  /\ UNCHANGED <<list, net, due>>

Exit(p) ==
  /\ Alive(p) /\ proc[p].state # "zombie"
  /\ proc' = [proc EXCEPT ![p].state = "zombie"]
  /\ UNCHANGED <<list, net, due>>

Reap(p) ==
  /\ proc[p].state = "zombie"
  /\ proc' = [proc EXCEPT ![p] = [Gone EXCEPT !.gen = proc[p].gen]]
  /\ UNCHANGED <<list, net, due>>

-----------------------------------------------------------------------------
(***************************************************************************)
(* The network thread: onNethogsMonitorCallback emits procDetected for     *)
(* every SET and procDeleted, which nothing is connected to, for a REMOVE. *)
(***************************************************************************)
Report(p, s) ==
  /\ Len(calls) < MaxCalls
  /\ told' = [told EXCEPT ![p] = s]
  /\ calls' = IF connected THEN Append(calls, [pid |-> p, flow |-> s]) ELSE calls
  /\ due' = IF connected /\ p \in Listed THEN due \cup {p} ELSE due \ {p}
  /\ UNCHANGED <<proc, list, connected>>

ReportRemoved(p) ==
  /\ told[p] # None
  /\ told' = [told EXCEPT ![p] = None]
  /\ due' = due \ {p}
  /\ UNCHANGED <<proc, list, calls, connected>>

-----------------------------------------------------------------------------
(***************************************************************************)
(* The GUI thread.                                                         *)
(***************************************************************************)
\* refreshLine, for the first call of the queue: without a row it is lost
RefreshLine ==
  /\ Idle /\ calls # <<>>
  /\ set' = LET c == Head(calls) IN
            IF c.pid \in Listed THEN [set EXCEPT ![c.pid].flow = c.flow] ELSE set
  /\ calls' = Tail(calls)
  /\ UNCHANGED <<proc, filter, stopped, timer, cpuTimes, scan, scans, last, connected, told, due>>

\* the rows whose pids were read
StillThere(s, pids) == Restrict(s, pids \cap DOMAIN s)

\* scanProcess up to its loop: read the pids, drop the rows that are not among them
BeginScan(f, s) ==
  /\ scans < MaxScans
  /\ scans' = scans + 1
  /\ scan' = [NoScan EXCEPT !.todo = ProcList(f)]
  /\ set' = StillThere(s, ProcList(f))
  /\ due' = due \cap DOMAIN set'

Elsewhere == UNCHANGED <<proc, cpuTimes, last, net>>

\* startMonitorJob, run by the event that QThread::started leaves
StartMonitorJob ==
  /\ Idle /\ ~timer /\ ~stopped
  /\ timer' = TRUE
  /\ BeginScan(filter, set)
  /\ UNCHANGED <<filter, stopped>> /\ Elsewhere

TimerEvent ==
  /\ Idle /\ timer
  /\ BeginScan(filter, set)
  /\ UNCHANGED <<filter, stopped, timer>> /\ Elsewhere

\* the list is emptied, cpuTimes is kept
OnChangeRefreshFilter(f) ==
  /\ Idle /\ connected
  /\ filter' = f /\ timer' = TRUE /\ stopped' = FALSE
  /\ BeginScan(f, <<>>)
  /\ Elsewhere

\* ~ProcessTableView: no more scans, no more reports
OnStopScanProcess ==
  /\ Idle /\ connected
  /\ stopped' = TRUE /\ timer' = FALSE /\ connected' = FALSE
  /\ UNCHANGED <<proc, filter, set, cpuTimes, scan, scans, last, calls, told, due>>

Reads == UNCHANGED <<proc, filter, stopped, timer, set, cpuTimes, scans, last, net, due>>

\* the process a file of /proc/<pid> is of
Named(p) == IF Alive(p) THEN proc[p].gen ELSE 0

\* one turn of the loop, read by read: first UpdateProcInfo: name, arguments,
\* session and threads ...
UpdateProcInfo ==
  /\ scan.at = NoPid
  /\ \E p \in scan.todo :
       /\ \A q \in scan.todo : p <= q
       /\ scan' = [scan EXCEPT !.todo = @ \ {p}, !.at = p, !.name = Named(p)]
  /\ Reads

\* ... then the process' io file ...
ReadIo ==
  /\ scan.at # NoPid /\ scan.state = "named"
  /\ scan' = [scan EXCEPT !.gen = proc[scan.at].gen, !.disk = Io(scan.at), !.state = "unread"]
  /\ Reads

\* ... then its state and user ...
ReadState ==
  /\ scan.at # NoPid /\ scan.state = "unread"
  /\ scan' = [scan EXCEPT !.state = proc[scan.at].state, !.mine = proc[scan.at].mine]
  /\ Reads

\* without m_mapCpuTimes (a mutant)
CpuBaseOfRow(p, rtime) == IF p \in Listed THEN set[p].cpu ELSE rtime

\* what the CPU time read is compared with
CpuBase(p, rtime) ==
  IF p \in Listed THEN set[p].cpu
  ELSE IF p \in DOMAIN cpuTimes /\ rtime >= cpuTimes[p] THEN cpuTimes[p]
  ELSE rtime

\* the status: a process that used CPU time is running, whatever its state
Status(state, used) == IF used > 0 THEN "run" ELSE state

\* without the flow of the old row (a mutant)
NoFlow(p) == 0

\* getFlowNet of the old row, 0 for a new process
FlowNet(p) == IF p \in Listed THEN set[p].flow ELSE 0

\* calcDiskIoPerSec leaves the new count for the next scan
PreDiskIoCount(p) == scan.disk

\* calcDiskIoPerSec: the rate of a new process starts at 0
CalcDiskIoPerSec(p) == IF p \in Listed THEN Unsigned(scan.disk - set[p].preDisk) ELSE 0

\* rows without a break are of one process (a mutant)
NameOfRow(p) == IF p \in Listed THEN set[p].name ELSE scan.name

\* what UpdateProcInfo has read
Name(p) == scan.name

Row(p, used, status, rtime) ==
  [name |-> Name(p), mine |-> scan.mine, cpu |-> rtime, used |-> used, status |-> status,
   flow |-> FlowNet(p), preDisk |-> PreDiskIoCount(p), speed |-> CalcDiskIoPerSec(p)]

\* zombies are shown (a mutant)
HiddenIfIdle(status) == filter = "active" /\ status # "run"

\* a status that the list does not show
Hidden(status) == status = "zombie" \/ (filter = "active" /\ status # "run")

With(f, x, y) == [z \in DOMAIN f \cup {x} |-> IF z = x THEN y ELSE f[z]]

\* ... then its CPU time, with which the row is made
Store ==
  /\ scan.at # NoPid /\ scan.state \notin {"named", "unread"}
  /\ LET p      == scan.at
         rtime  == proc[p].rtime
         used   == Unsigned(rtime - CpuBase(p, rtime))
         status == Status(scan.state, used)
     IN /\ set' = IF Hidden(status) THEN Restrict(set, Listed \ {p})
                  ELSE With(set, p, Row(p, used, status, rtime))
        /\ cpuTimes' = With(cpuTimes, p, rtime)
        /\ scan' = [NoScan EXCEPT !.todo = scan.todo]
        /\ last' = [last EXCEPT ![p] =
             [scan |-> scans, gen |-> IF scan.name = proc[p].gen THEN proc[p].gen ELSE 0,
              state |-> scan.state, rtime |-> rtime, disk |-> scan.disk]]
        /\ due' = due \cap DOMAIN set'
  /\ UNCHANGED <<proc, filter, stopped, timer, scans, net>>

Scanning == StartMonitorJob \/ TimerEvent \/ UpdateProcInfo \/ ReadIo \/ ReadState \/ Store

Next ==
  \/ \E p \in Pids : Start(p) \/ Work(p) \/ Exit(p) \/ Reap(p)
  \/ \E p \in Pids : ReportRemoved(p) \/ \E s \in Speeds : Report(p, s)
  \/ RefreshLine \/ OnStopScanProcess \/ Scanning
  \/ \E f \in Filters : OnChangeRefreshFilter(f)

Spec == Init /\ [][Next]_vars

-----------------------------------------------------------------------------
TypeOK ==
  /\ proc \in [Pids -> [gen: 0 .. MaxBorn, state: States \cup {"sleep", "zombie", "gone"},
                        mine: BOOLEAN, rtime: 0 .. MaxTime, disk: 0 .. MaxDisk]]
  /\ filter \in {"all"} \cup Filters
  /\ stopped \in BOOLEAN /\ timer \in BOOLEAN /\ connected \in BOOLEAN
  /\ Listed \subseteq Pids /\ set \in [Listed -> Process]
  /\ DOMAIN cpuTimes \subseteq Pids /\ cpuTimes \in [DOMAIN cpuTimes -> 0 .. MaxTime]
  /\ calls \in Seq([pid: Pids, flow: Speeds])
  /\ scan.todo \subseteq Pids /\ scan.at \in Pids \cup {NoPid}
  /\ scans \in 0 .. MaxScans
  /\ last \in [Pids -> Seen]
  /\ told \in [Pids -> Speeds \cup {None}]
  /\ due \subseteq Listed

(***************************************************************************)
(* Between two scans every row was made by the last one: a scan neither    *)
(* leaves a row of a pid it has not read, nor one that it decided to hide. *)
(* If the scan read one process under that pid, from its name to its CPU   *)
(* time, the row has the name and the CPU time of that process, even when  *)
(* the row of an earlier process of the pid stood there until then.        *)
(***************************************************************************)
RowsAreCurrent ==
  Idle => \A p \in Listed :
            /\ last[p].scan = scans /\ last[p].rtime = set[p].cpu
            /\ last[p].gen > 0 => set[p].name = last[p].gen

(***************************************************************************)
(* No report is lost or shown out of order: when the GUI thread has run    *)
(* the queued calls, a row that was there when the last report for its pid *)
(* was sent, and since then, shows that report, whatever scans copied the  *)
(* row in between.                                                         *)
(***************************************************************************)
NoReportLost ==
  \A p \in due : (\A i \in DOMAIN calls : calls[i].pid # p) => set[p].flow = told[p]

\* the step in which the scan makes the row of p
Stored(p) == scan.at = p /\ scan'.at = NoPid

\* the scan that stores p read one living process, which the scan before it had read
SeenTwice(p) ==
  /\ last[p].scan = scans - 1 /\ last[p].gen = proc[p].gen
  /\ scan.gen = proc[p].gen /\ Alive(p)

(***************************************************************************)
(* CPU time and disk traffic are counted once.  A process read by two      *)
(* scans in a row is charged, in the second, with exactly the CPU time it  *)
(* used since it was read in the first, whether it was listed in between,  *)
(* hidden by the filter or dropped with the whole list by a change of      *)
(* filter, and with the bytes it moved meanwhile if it was listed.  A pid  *)
(* without a row never gets more CPU time than its process has used:       *)
(* neither what cpuTimes holds of an earlier process of that pid nor a     *)
(* process that dies while it is read makes the difference wrap.           *)
(***************************************************************************)
CountedOnce ==
  [][\A p \in Pids : Stored(p) /\ p \in DOMAIN set' =>
       /\ SeenTwice(p) => set'[p].used = proc[p].rtime - last[p].rtime
       /\ SeenTwice(p) /\ p \in Listed => set'[p].speed = scan.disk - last[p].disk
       /\ p \notin Listed => set'[p].used <= proc[p].rtime]_vars

(***************************************************************************)
(* A zombie may be listed as running by the scan that finds CPU time it    *)
(* used before it died, and never by a later one.                          *)
(***************************************************************************)
ZombieHiddenByNextScan ==
  [][\A p \in Pids : /\ Stored(p) /\ SeenTwice(p)
                     /\ last[p].state = "zombie" /\ scan.state = "zombie"
                     => p \notin DOMAIN set']_vars
=============================================================================
