-------------------------- MODULE ProcessListProofs --------------------------
(***************************************************************************)
(* What holds of the list of processes for any set of pids, any speeds and *)
(* any number of scans.  Three things are followed through the scans, which*)
(* read a process file by file and replace its row: the speed that the     *)
(* traffic monitor has last reported, who the row is of, and what is counted. *)
(***************************************************************************)
EXTENDS ProcessList, TLAPS

Kernel  == \E p \in Pids : Start(p) \/ Work(p) \/ Exit(p) \/ Reap(p)
Reports == \E p \in Pids : ReportRemoved(p) \/ \E s \in Speeds : Report(p, s)
Begins  == StartMonitorJob \/ TimerEvent \/ \E f \in Filters : OnChangeRefreshFilter(f)
Reading == UpdateProcInfo \/ ReadIo \/ ReadState

LEMMA Transitions ==
  ASSUME [Next]_vars
  PROVE  \/ Kernel \/ Reports \/ Begins \/ Reading \/ Store
         \/ RefreshLine \/ OnStopScanProcess \/ UNCHANGED vars
BY DEF Next, Scanning, Kernel, Reports, Begins, Reading

\* The kernel and the first three reads leave list, reports and queue alone.
LEMMA Quiet ==
  ASSUME Kernel \/ Reading \/ OnStopScanProcess \/ UNCHANGED vars
  PROVE  UNCHANGED <<set, last, scans, calls, told, due>>
BY DEF Kernel, Start, Work, Exit, Reap, Reading, UpdateProcInfo, ReadIo, ReadState, Reads,
       OnStopScanProcess, list, net, vars

\* A scan begins with some of the rows there were, as they were, or none.
LEMMA BeginKeepsRows ==
  ASSUME Begins
  PROVE  /\ UNCHANGED <<last, calls, told>> /\ scans' = scans + 1
         /\ \E f : scan' = [NoScan EXCEPT !.todo = ProcList(f)] /\ Listed' \subseteq ProcList(f)
         /\ Listed' \subseteq Listed /\ set' = [p \in Listed' |-> set[p]]
         /\ due' = due \cap Listed'
<1> USE DEF Elsewhere, net
<1>1. ASSUME NEW f, NEW s, BeginScan(f, s), Elsewhere, s = set \/ s = <<>>
      PROVE  /\ UNCHANGED <<last, calls, told>> /\ scans' = scans + 1
             /\ \E g : scan' = [NoScan EXCEPT !.todo = ProcList(g)] /\ Listed' \subseteq ProcList(g)
             /\ Listed' \subseteq Listed /\ set' = [p \in Listed' |-> set[p]]
             /\ due' = due \cap Listed'
  <2>1. set' = [p \in ProcList(f) \cap DOMAIN s |-> s[p]]
    BY <1>1 DEF BeginScan, StillThere, Restrict
  <2>2. Listed' = ProcList(f) \cap DOMAIN s
    BY <2>1 DEF Listed
  <2>3. DOMAIN <<>> = {}
    OBVIOUS
  <2>4. Listed' \subseteq Listed /\ \A p \in Listed' : s[p] = set[p]
    BY <1>1, <2>2, <2>3 DEF Listed
  <2>5. set' = [p \in Listed' |-> set[p]]
    BY <2>1, <2>2, <2>4
  <2> QED
    BY <1>1, <2>2, <2>4, <2>5 DEF BeginScan, Listed
<1> QED
  BY <1>1 DEF Begins, StartMonitorJob, TimerEvent, OnChangeRefreshFilter

-----------------------------------------------------------------------------
(***************************************************************************)
(* Types, as far as the proofs need them.                                  *)
(***************************************************************************)
Calls == [pid: Pids, flow: Speeds]
IsRow(r) == r = [k \in DOMAIN r |-> r[k]] /\ {"name", "cpu", "flow", "preDisk"} \subseteq DOMAIN r
Kinds ==
  /\ set = [p \in Listed |-> set[p]] /\ \A p \in Listed : IsRow(set[p])
  /\ calls \in Seq(Calls)
  /\ told = [p \in Pids |-> told[p]]
  /\ last = [p \in Pids |-> last[p]] /\ scans \in Nat

\* What Store makes of the list: the other rows stay, and the one of the pid
\* that was read is made new, or goes.
LEMMA StoreMakesRow ==
  ASSUME Kinds, Store
  PROVE  /\ UNCHANGED <<calls, told, scans>> /\ due' = due \cap Listed'
         /\ set' = [p \in Listed' |-> set'[p]]
         /\ Listed' \subseteq Listed \cup {scan.at}
         /\ \A p \in Listed' : p # scan.at => set'[p] = set[p]
         /\ scan.at \in Listed' =>
              /\ IsRow(set'[scan.at])
              /\ set'[scan.at].name = scan.name /\ set'[scan.at].cpu = proc[scan.at].rtime
              /\ set'[scan.at].preDisk = scan.disk
              /\ scan.at \in Listed => set'[scan.at].flow = set[scan.at].flow
<1> DEFINE p == scan.at
           rtime == proc[p].rtime
           used == Unsigned(rtime - CpuBase(p, rtime))
           status == Status(scan.state, used)
           row == Row(p, used, status, rtime)
<1>1. IsRow(row) /\ row.name = scan.name /\ row.cpu = rtime /\ row.preDisk = scan.disk
      /\ (p \in Listed => row.flow = set[p].flow)
  BY DEF Row, IsRow, Name, FlowNet, PreDiskIoCount
<1>2. UNCHANGED <<calls, told, scans>> /\ due' = due \cap Listed'
  BY DEF Store, net, Listed
<1>3. \/ set' = [q \in Listed \ {p} |-> set[q]]
      \/ set' = [q \in Listed \cup {p} |-> IF q = p THEN row ELSE set[q]]
  BY DEF Store, Restrict, With, Listed
<1> HIDE DEF row, rtime
<1>4. CASE set' = [q \in Listed \ {p} |-> set[q]]
  BY <1>2, <1>4 DEF Listed
<1>5. CASE set' = [q \in Listed \cup {p} |-> IF q = p THEN row ELSE set[q]]
  <2>1. Listed' = Listed \cup {p} /\ set'[p] = row
    BY <1>5 DEF Listed
  <2> QED
    BY <1>1, <1>2, <1>5, <2>1 DEF rtime
<1> QED
  BY <1>3, <1>4, <1>5

\* refreshLine changes the speed of one row, and nothing else of the list.
LEMMA RefreshChangesFlow ==
  ASSUME Kinds, RefreshLine
  PROVE  /\ UNCHANGED <<told, due, last, scans, scan>>
         /\ calls # <<>> /\ calls' = Tail(calls) /\ Listed' = Listed
         /\ set' = [p \in Listed' |-> set'[p]]
         /\ \A p \in Listed :
              /\ IsRow(set'[p]) /\ set'[p].name = set[p].name /\ set'[p].cpu = set[p].cpu
              /\ set'[p].preDisk = set[p].preDisk
              /\ set'[p].flow = IF p = Head(calls).pid THEN Head(calls).flow ELSE set[p].flow
<1> DEFINE c == Head(calls)
<1>1. /\ calls # <<>> /\ calls' = Tail(calls)
      /\ set' = IF c.pid \in Listed THEN [set EXCEPT ![c.pid].flow = c.flow] ELSE set
      /\ UNCHANGED <<told, due, last, scans, scan>>
  BY DEF RefreshLine
<1> HIDE DEF c
<1>2. CASE c.pid \notin Listed
  BY <1>1, <1>2 DEF Kinds, Listed, c
<1>3. CASE c.pid \in Listed
  <2> DEFINE new == [set[c.pid] EXCEPT !.flow = c.flow]
  <2>1. /\ IsRow(new) /\ new.flow = c.flow /\ new.name = set[c.pid].name
        /\ new.cpu = set[c.pid].cpu /\ new.preDisk = set[c.pid].preDisk
    BY <1>3 DEF Kinds, IsRow
  <2>2. set' = [set EXCEPT ![c.pid] = new]
    BY <1>1, <1>3
  <2> HIDE DEF new
  <2>3. /\ Listed' = Listed /\ set' = [p \in Listed' |-> set'[p]]
        /\ set'[c.pid] = new /\ \A p \in Listed : p # c.pid => set'[p] = set[p]
    BY <2>2, <1>3 DEF Kinds, Listed
  <2> QED
    BY <1>1, <2>1, <2>3 DEF Kinds, c
<1> QED
  BY <1>2, <1>3

\* What a report does: it is the last call of the queue, or there is no listener.
LEMMA ReportAppends ==
  ASSUME Kinds, Reports
  PROVE  /\ UNCHANGED <<set, last, scans, scan>>
         /\ \E p \in Pids, s \in Speeds \cup {None} :
              /\ told' = [told EXCEPT ![p] = s]
              /\ \/ calls' = calls /\ due' = due \ {p}
                 \/ /\ calls' = Append(calls, [pid |-> p, flow |-> s]) /\ s \in Speeds
                    /\ due' = IF p \in Listed THEN due \cup {p} ELSE due \ {p}
<1>1. PICK p \in Pids : ReportRemoved(p) \/ \E s \in Speeds : Report(p, s)
  BY DEF Reports
<1>2. CASE ReportRemoved(p)
  BY <1>2 DEF ReportRemoved, list
<1>3. CASE \E s \in Speeds : Report(p, s)
  BY <1>3 DEF Report, list
<1> QED
  BY <1>1, <1>2, <1>3

LEMMA KindsInductive ==
  ASSUME Kinds, [Next]_vars PROVE Kinds'
<1>1. CASE Kernel \/ Reading \/ OnStopScanProcess \/ UNCHANGED vars
  BY <1>1, Quiet DEF Kinds, Listed
<1>2. CASE Begins
  <2>1. set' = [p \in Listed' |-> set'[p]] /\ \A p \in Listed' : IsRow(set'[p])
    BY <1>2, BeginKeepsRows DEF Kinds
  <2> QED
    BY <1>2, <2>1, BeginKeepsRows DEF Kinds
<1>3. CASE Store
  <2>1. UNCHANGED <<calls, told, scans>> /\ set' = [p \in Listed' |-> set'[p]]
    BY <1>3, StoreMakesRow
  <2>2. \A p \in Listed' : IsRow(set'[p])
    BY <1>3, StoreMakesRow DEF Kinds
  <2>3. last' = [p \in Pids |-> last'[p]]
    BY <1>3 DEF Store, Kinds
  <2> QED
    BY <2>1, <2>2, <2>3 DEF Kinds
<1>4. CASE RefreshLine
  <2>1. calls' \in Seq(Calls)
    <3>1. calls \in Seq(Calls) /\ calls # <<>> /\ calls' = Tail(calls)
      BY <1>4, RefreshChangesFlow DEF Kinds
    <3> QED
      BY <3>1
  <2>2. set' = [p \in Listed' |-> set'[p]] /\ \A p \in Listed' : IsRow(set'[p])
    BY <1>4, RefreshChangesFlow
  <2> QED
    BY <1>4, <2>1, <2>2, RefreshChangesFlow DEF Kinds
<1>5. CASE Reports
  <2>1. told' = [p \in Pids |-> told'[p]]
    BY <1>5, ReportAppends DEF Kinds
  <2>2. calls' \in Seq(Calls)
    <3>1. ASSUME NEW p \in Pids, NEW s \in Speeds,
                 calls' = Append(calls, [pid |-> p, flow |-> s])
          PROVE  calls' \in Seq(Calls)
      <4>1. [pid |-> p, flow |-> s] \in Calls
        BY DEF Calls
      <4> QED
        BY <3>1, <4>1 DEF Kinds
    <3> QED
      BY <1>5, <3>1, ReportAppends DEF Kinds
  <2>3. UNCHANGED <<set, last, scans>>
    BY <1>5, ReportAppends
  <2> QED
    BY <2>1, <2>2, <2>3 DEF Kinds, Listed
<1> QED
  BY <1>1, <1>2, <1>3, <1>4, <1>5, Transitions

-----------------------------------------------------------------------------
(***************************************************************************)
(* Reports.  The last queued call of a pid carries its last report, and    *)
(* when there is none the row does.                                        *)
(***************************************************************************)
LastCall(p, i) == calls[i].pid = p /\ \A j \in DOMAIN calls : calls[j].pid = p => j <= i
Reported ==
  /\ due \subseteq Listed \cap Pids
  /\ NoReportLost
  /\ \A p \in due : \A i \in DOMAIN calls : LastCall(p, i) => calls[i].flow = told[p]

\* A step that leaves queue and reports, and the speeds of the rows it keeps.
LEMMA ReportedStays ==
  ASSUME Reported, UNCHANGED <<calls, told>>, due' \subseteq due \cap Listed',
         \A p \in Listed \cap Listed' : set'[p].flow = set[p].flow
  PROVE  Reported'
BY DEF Reported, NoReportLost, LastCall

LEMMA ReportedInductive ==
  ASSUME Kinds, Reported, [Next]_vars PROVE Reported'
<1>1. CASE Kernel \/ Reading \/ OnStopScanProcess \/ UNCHANGED vars
  BY <1>1, Quiet, ReportedStays DEF Reported, Listed
<1>2. CASE Begins
  BY <1>2, BeginKeepsRows, ReportedStays
<1>3. CASE Store
  <2>1. \A p \in Listed \cap Listed' : set'[p].flow = set[p].flow
    BY <1>3, StoreMakesRow
  <2>2. UNCHANGED <<calls, told>> /\ due' = due \cap Listed'
    BY <1>3, StoreMakesRow
  <2> QED
    BY <2>1, <2>2, ReportedStays
<1>4. CASE RefreshLine
  <2>1. /\ UNCHANGED <<told, due>> /\ Listed' = Listed
        /\ calls \in Seq(Calls) /\ calls # <<>> /\ calls' = Tail(calls)
        /\ \A p \in Listed :
             set'[p].flow = IF p = calls[1].pid THEN calls[1].flow ELSE set[p].flow
    BY <1>4, RefreshChangesFlow DEF Kinds
  <2>2. /\ Len(calls) \in Nat \ {0} /\ DOMAIN calls = 1 .. Len(calls)
        /\ DOMAIN calls' = 1 .. Len(calls) - 1
        /\ \A i \in DOMAIN calls' : calls'[i] = calls[i + 1]
    BY <2>1
  <2> SUFFICES ASSUME NEW p \in due
               PROVE  /\ (\A i \in DOMAIN calls' : calls'[i].pid # p) => set'[p].flow = told[p]
                      /\ \A i \in DOMAIN calls' : LastCall(p, i)' => calls'[i].flow = told[p]
    BY <2>1 DEF Reported, NoReportLost
  <2>3. ASSUME NEW i \in DOMAIN calls', LastCall(p, i)' PROVE calls'[i].flow = told[p]
    <3>1. LastCall(p, i + 1)
      <4>1. calls[i + 1].pid = p
        BY <2>2, <2>3 DEF LastCall
      <4>2. ASSUME NEW j \in DOMAIN calls, calls[j].pid = p, j # 1 PROVE j - 1 <= i
        BY <2>2, <2>3, <4>2 DEF LastCall
      <4> QED
        BY <2>2, <4>1, <4>2 DEF LastCall
    <3>2. i + 1 \in DOMAIN calls
      BY <2>2
    <3> QED
      BY <2>2, <3>1, <3>2 DEF Reported
  <2>4. ASSUME \A i \in DOMAIN calls' : calls'[i].pid # p PROVE set'[p].flow = told[p]
    <3>1. ASSUME NEW j \in DOMAIN calls, calls[j].pid = p PROVE j = 1
      <4>1. j # 1 => j - 1 \in DOMAIN calls' /\ calls'[j - 1] = calls[j]
        BY <2>2
      <4> QED
        BY <2>4, <3>1, <4>1
    <3>2. CASE calls[1].pid = p
      <4>1. LastCall(p, 1) /\ 1 \in DOMAIN calls
        BY <2>2, <3>1, <3>2 DEF LastCall
      <4> QED
        BY <2>1, <3>2, <4>1 DEF Reported
    <3>3. CASE calls[1].pid # p
      <4>1. \A j \in DOMAIN calls : calls[j].pid # p
        BY <3>1, <3>3
      <4> QED
        BY <2>1, <3>3, <4>1 DEF Reported, NoReportLost
    <3> QED
      BY <3>2, <3>3
  <2> QED
    BY <2>3, <2>4
<1>5. CASE Reports
  <2>1. PICK p \in Pids, s \in Speeds \cup {None} :
          /\ told' = [told EXCEPT ![p] = s]
          /\ \/ calls' = calls /\ due' = due \ {p}
             \/ /\ calls' = Append(calls, [pid |-> p, flow |-> s])
                /\ due' = IF p \in Listed THEN due \cup {p} ELSE due \ {p}
    BY <1>5, ReportAppends
  <2>2. UNCHANGED set /\ Listed' = Listed
    BY <1>5, ReportAppends DEF Listed
  <2>3. told'[p] = s /\ \A q \in Pids : q # p => told'[q] = told[q]
    BY <2>1 DEF Kinds
  <2>4. CASE calls' = calls /\ due' = due \ {p}
    BY <2>2, <2>3, <2>4 DEF Reported, NoReportLost, LastCall
  <2>5. CASE /\ calls' = Append(calls, [pid |-> p, flow |-> s])
             /\ due' = IF p \in Listed THEN due \cup {p} ELSE due \ {p}
    <3> DEFINE n == Len(calls) + 1
    <3>1. /\ n \in Nat /\ DOMAIN calls' = DOMAIN calls \cup {n} /\ calls'[n] = [pid |-> p, flow |-> s]
          /\ \A i \in DOMAIN calls : i \in Nat /\ i < n /\ calls'[i] = calls[i]
      BY <2>5 DEF Kinds
    <3> HIDE DEF n
    <3>2. ASSUME NEW q \in due', q # p
          PROVE  /\ (\A i \in DOMAIN calls' : calls'[i].pid # q) => set'[q].flow = told'[q]
                 /\ \A i \in DOMAIN calls' : LastCall(q, i)' => calls'[i].flow = told'[q]
      <4>1. q \in due /\ told'[q] = told[q] /\ set'[q] = set[q]
        BY <2>2, <2>3, <2>5, <3>2 DEF Reported
      <4>2. ASSUME NEW i \in DOMAIN calls', LastCall(q, i)' PROVE LastCall(q, i) /\ i \in DOMAIN calls
        BY <3>1, <3>2, <4>2 DEF LastCall
      <4> QED
        BY <3>1, <4>1, <4>2 DEF Reported, NoReportLost
    <3>3. ASSUME p \in due'
          PROVE  /\ \E i \in DOMAIN calls' : calls'[i].pid = p
                 /\ \A i \in DOMAIN calls' : LastCall(p, i)' => calls'[i].flow = told'[p]
      <4>1. ASSUME NEW i \in DOMAIN calls', LastCall(p, i)' PROVE i = n
        BY <3>1, <4>1 DEF LastCall
      <4> QED
        BY <2>3, <3>1, <4>1
    <3>4. due' \subseteq Listed' \cap Pids
      BY <2>2, <2>5 DEF Reported
    <3> QED
      BY <3>2, <3>3, <3>4 DEF Reported, NoReportLost
  <2> QED
    BY <2>1, <2>4, <2>5
<1> QED
  BY <1>1, <1>2, <1>3, <1>4, <1>5, Transitions

LEMMA KindsInitially == Init => Kinds
<1> SUFFICES ASSUME Init PROVE Kinds
  OBVIOUS
<1>1. set = <<>> /\ Listed = {}
  BY DEF Init, Listed
<1>2. calls \in Seq(Calls)
  BY DEF Init
<1> QED
  BY <1>1, <1>2 DEF Init, Kinds

\* No report of the traffic monitor is lost or shown out of order on a row that
\* stays, however many scans replace the row between two of them.
THEOREM ReportsAreKept == Spec => []NoReportLost
<1>1. Init => Kinds /\ Reported
  BY KindsInitially DEF Init, Reported, NoReportLost
<1>2. Kinds /\ Reported /\ [Next]_vars => Kinds' /\ Reported'
  BY KindsInductive, ReportedInductive
<1>3. Reported => NoReportLost
  BY DEF Reported
<1> QED
  BY <1>1, <1>2, <1>3, PTL DEF Spec

-----------------------------------------------------------------------------
(***************************************************************************)
(* Who a row is of.  While a scan runs, the rows it has passed are current *)
(* already; the pids it has still to read include all other rows.          *)
(***************************************************************************)
IsCurrent(p) ==
  /\ last[p].scan = scans /\ last[p].rtime = set[p].cpu
  /\ last[p].gen > 0 => set[p].name = last[p].gen
Passed ==
  /\ scan = [k \in DOMAIN scan |-> scan[k]] /\ {"todo", "at"} \subseteq DOMAIN scan
  /\ scan.todo \subseteq Pids /\ scan.at \in Pids \cup {NoPid} /\ Listed \subseteq Pids
  /\ \A p \in Listed : p \notin scan.todo /\ p # scan.at => IsCurrent(p)

LEMMA ReadingPasses ==
  ASSUME Passed, Reading PROVE Passed'
<1>1. UNCHANGED <<set, last, scans>> /\ Listed' = Listed
  BY Quiet DEF Listed
<1>2. CASE UpdateProcInfo
  <2>1. PICK p \in scan.todo :
          scan.at = NoPid /\ scan' = [scan EXCEPT !.todo = @ \ {p}, !.at = p, !.name = Named(p)]
    BY <1>2 DEF UpdateProcInfo
  <2>2. /\ scan' = [k \in DOMAIN scan' |-> scan'[k]] /\ {"todo", "at"} \subseteq DOMAIN scan'
        /\ scan'.todo = scan.todo \ {p} /\ scan'.at = p
    BY <2>1 DEF Passed
  <2>3. NoPid \notin Listed
    BY ProcessListAssumption DEF NoPid, Passed
  <2>4. ASSUME NEW q \in Listed, q \notin scan'.todo, q # scan'.at PROVE IsCurrent(q)'
    BY <1>1, <2>1, <2>2, <2>3, <2>4 DEF Passed, IsCurrent
  <2> QED
    BY <1>1, <2>2, <2>4 DEF Passed
<1>3. CASE ReadIo \/ ReadState
  <2>1. /\ scan' = [k \in DOMAIN scan' |-> scan'[k]] /\ {"todo", "at"} \subseteq DOMAIN scan'
        /\ scan'.todo = scan.todo /\ scan'.at = scan.at
    BY <1>3 DEF ReadIo, ReadState, Passed
  <2> QED
    BY <1>1, <2>1 DEF Passed, IsCurrent
<1> QED
  BY <1>2, <1>3 DEF Reading

LEMMA PassedInductive ==
  ASSUME Kinds, Passed, [Next]_vars PROVE Passed'
<1>1. CASE Kernel \/ OnStopScanProcess \/ UNCHANGED vars
  <2>1. UNCHANGED <<set, last, scans, scan>> /\ Listed' = Listed
    BY <1>1 DEF Kernel, Start, Work, Exit, Reap, OnStopScanProcess, list, vars, Listed
  <2> QED
    BY <2>1 DEF Passed, IsCurrent
<1>2. CASE Reading
  BY <1>2, ReadingPasses
<1>3. CASE Begins
  <2>1. PICK f : scan' = [NoScan EXCEPT !.todo = ProcList(f)] /\ Listed' \subseteq ProcList(f)
    BY <1>3, BeginKeepsRows
  <2>2. /\ scan' = [k \in DOMAIN scan' |-> scan'[k]] /\ {"todo", "at"} \subseteq DOMAIN scan'
        /\ scan'.todo = ProcList(f) /\ scan'.at = NoPid
    BY <2>1 DEF NoScan
  <2>3. ProcList(f) \subseteq Pids
    BY DEF ProcList
  <2> QED
    BY <2>1, <2>2, <2>3 DEF Passed
<1>4. CASE Store
  <2>1. PICK at \in Pids : at = scan.at
    BY <1>4 DEF Store, Passed
  <2>2. /\ scan' = [k \in DOMAIN scan' |-> scan'[k]] /\ {"todo", "at"} \subseteq DOMAIN scan'
        /\ scan'.todo = scan.todo /\ scan'.at = NoPid
    BY <1>4 DEF Store, NoScan
  <2>3. scans' = scans /\ Listed' \subseteq Listed \cup {at}
    BY <1>4, <2>1, StoreMakesRow
  <2>4. ASSUME NEW p \in Listed', p \notin scan.todo, p # at PROVE IsCurrent(p)'
    <3>1. last'[p] = last[p]
      BY <1>4, <2>1, <2>3, <2>4 DEF Store, Kinds, Passed
    <3>2. set'[p] = set[p]
      BY <1>4, <2>1, <2>4, StoreMakesRow
    <3> QED
      BY <2>1, <2>3, <2>4, <3>1, <3>2 DEF Passed, IsCurrent
  <2>5. ASSUME at \in Listed' PROVE IsCurrent(at)'
    <3> DEFINE seen == [scan |-> scans, gen |-> IF scan.name = proc[at].gen THEN proc[at].gen ELSE 0,
                        state |-> scan.state, rtime |-> proc[at].rtime, disk |-> scan.disk]
    <3>1. last'[at] = seen
      BY <1>4, <2>1 DEF Store, Kinds
    <3>2. set'[at].name = scan.name /\ set'[at].cpu = proc[at].rtime
      BY <1>4, <2>1, <2>5, StoreMakesRow
    <3>3. seen.scan = scans /\ seen.rtime = proc[at].rtime
          /\ (seen.gen > 0 => scan.name = seen.gen)
      OBVIOUS
    <3> HIDE DEF seen
    <3> QED
      BY <2>3, <3>1, <3>2, <3>3 DEF IsCurrent
  <2> QED
    BY <2>1, <2>2, <2>3, <2>4, <2>5 DEF Passed
<1>5. CASE RefreshLine
  <2>1. UNCHANGED <<last, scans, scan>> /\ Listed' = Listed
    BY <1>5, RefreshChangesFlow
  <2>2. \A p \in Listed : set'[p].name = set[p].name /\ set'[p].cpu = set[p].cpu
    BY <1>5, RefreshChangesFlow
  <2> QED
    BY <2>1, <2>2 DEF Passed, IsCurrent
<1>6. CASE Reports
  BY <1>6, ReportAppends DEF Passed, IsCurrent, Listed
<1> QED
  BY <1>1, <1>2, <1>3, <1>4, <1>5, <1>6, Transitions

\* Between two scans every row is one the last scan has made, of the process
\* whose files it read if that was a single one.
THEOREM RowsStayCurrent == Spec => []RowsAreCurrent
<1>1. Init => Kinds /\ Passed
  <2>1. Init => Listed = {} /\ scan = NoScan
    BY DEF Init, Listed
  <2>2. Init => Passed
    BY <2>1 DEF Passed, NoScan
  <2> QED
    BY <2>2, KindsInitially
<1>2. Kinds /\ Passed /\ [Next]_vars => Kinds' /\ Passed'
  BY KindsInductive, PassedInductive
<1>3. Passed => RowsAreCurrent
  <2> SUFFICES ASSUME Passed, Idle, NEW p \in Listed PROVE IsCurrent(p)
    BY DEF RowsAreCurrent, IsCurrent
  <2>1. p # NoPid
    BY ProcessListAssumption DEF NoPid, Passed
  <2> QED
    BY <2>1 DEF Passed, Idle
<1> QED
  BY <1>1, <1>2, <1>3, PTL DEF Spec

-----------------------------------------------------------------------------
(***************************************************************************)
(* What is counted.  A process grows while it lives, and a pid that comes  *)
(* back as another process has another gen; so what was read under a gen   *)
(* bounds from below what is there as long as that process lives.          *)
(***************************************************************************)
Lives == [gen: Nat, state: {"run", "sleep", "zombie", "gone"}, mine: BOOLEAN,
          rtime: 0 .. MaxTime, disk: 0 .. MaxDisk]
KernelOk == proc \in [Pids -> Lives] /\ \A p \in Pids : Alive(p) => proc[p].gen > 0
SameLife(p, g) == Alive(p) /\ proc[p].gen = g

\* the process of p lives on, or there is another one or none
Grows(p) ==
  /\ proc'[p].gen >= proc[p].gen
  /\ (Alive(p)' /\ proc'[p].gen = proc[p].gen) =>
       /\ Alive(p) /\ proc'[p].rtime >= proc[p].rtime /\ Io(p)' >= Io(p)
       /\ proc[p].state = "zombie" => proc'[p].state = "zombie" /\ proc'[p].rtime = proc[p].rtime

\* what may become of a process, in one step
Follows(old, new) ==
  /\ new.gen >= old.gen /\ (new.state # "gone" => new.gen > 0)
  /\ (new.state # "gone" /\ new.gen = old.gen) =>
       /\ old.state # "gone" /\ new.mine = old.mine
       /\ new.rtime >= old.rtime /\ new.disk >= old.disk
       /\ old.state = "zombie" => new.state = "zombie" /\ new.rtime = old.rtime

LEMMA LivesFollow ==
  ASSUME NEW old \in Lives, old.state # "gone" => old.gen > 0
  PROVE  /\ \A m \in BOOLEAN, s \in States :
              LET new == [Gone EXCEPT !.gen = old.gen + 1, !.state = s, !.mine = m]
              IN  new \in Lives /\ Follows(old, new)
         /\ LET new == [Gone EXCEPT !.gen = old.gen] IN new \in Lives /\ Follows(old, new)
         /\ old.state \notin {"gone", "zombie"} =>
              /\ LET new == [old EXCEPT !.state = "zombie"] IN new \in Lives /\ Follows(old, new)
              /\ \A s \in States, t \in old.rtime .. MaxTime, d \in old.disk .. MaxDisk :
                   LET new == [old EXCEPT !.state = s, !.rtime = t, !.disk = d]
                   IN  new \in Lives /\ Follows(old, new)
<1>1. 0 \in 0 .. MaxTime /\ 0 \in 0 .. MaxDisk /\ States \subseteq {"run", "sleep"}
  BY ProcessListAssumption
<1>2. old.gen \in Nat /\ old.gen + 1 > old.gen /\ old.gen >= old.gen /\ old.gen + 1 # old.gen
      /\ old.rtime \in Nat /\ old.rtime >= old.rtime /\ old.disk \in Nat /\ old.disk >= old.disk
      /\ old.gen + 1 \in Nat /\ old.gen + 1 >= old.gen /\ old.gen + 1 > 0
  BY DEF Lives
<1>3. ASSUME NEW m \in BOOLEAN, NEW s \in States
      PROVE  LET new == [Gone EXCEPT !.gen = old.gen + 1, !.state = s, !.mine = m]
             IN  new \in Lives /\ Follows(old, new)
  BY <1>1, <1>2 DEF Gone, Lives, Follows
<1>4. LET new == [Gone EXCEPT !.gen = old.gen] IN new \in Lives /\ Follows(old, new)
  BY <1>1, <1>2 DEF Gone, Lives, Follows
<1>5. ASSUME old.state \notin {"gone", "zombie"}
      PROVE  LET new == [old EXCEPT !.state = "zombie"] IN new \in Lives /\ Follows(old, new)
  BY <1>2, <1>5 DEF Lives, Follows
<1>6. ASSUME old.state \notin {"gone", "zombie"},
             NEW s \in States, NEW t \in old.rtime .. MaxTime, NEW d \in old.disk .. MaxDisk
      PROVE  LET new == [old EXCEPT !.state = s, !.rtime = t, !.disk = d]
             IN  new \in Lives /\ Follows(old, new)
  <2>1. t \in 0 .. MaxTime /\ t >= old.rtime /\ d \in 0 .. MaxDisk /\ d >= old.disk
    BY <1>2
  <2> QED
    BY <1>1, <1>2, <1>6, <2>1 DEF Lives, Follows
<1> QED
  BY <1>3, <1>4, <1>5, <1>6

LEMMA KernelGrows ==
  ASSUME KernelOk, Kernel
  PROVE  KernelOk' /\ \A q \in Pids : Grows(q)
<1>1. PICK p \in Pids : Start(p) \/ Work(p) \/ Exit(p) \/ Reap(p)
  BY DEF Kernel
<1>2. PICK old \in Lives : old = proc[p] /\ (old.state # "gone" => old.gen > 0)
  BY DEF KernelOk, Alive
<1>3. PICK new \in Lives : proc' = [proc EXCEPT ![p] = new] /\ Follows(old, new)
  <2>1. CASE Start(p)
    BY <1>2, <2>1, LivesFollow DEF Start
  <2>2. CASE Work(p)
    <3>1. PICK s \in States, t \in old.rtime .. MaxTime, d \in old.disk .. MaxDisk :
            proc' = [proc EXCEPT ![p] = [old EXCEPT !.state = s, !.rtime = t, !.disk = d]]
      <4>1. PICK s \in States, t \in old.rtime .. MaxTime, d \in old.disk .. MaxDisk :
              proc' = [proc EXCEPT ![p].state = s, ![p].rtime = t, ![p].disk = d]
        BY <1>2, <2>2 DEF Work
      <4>2. proc \in [Pids -> Lives] /\ proc[p] = old
        BY <1>2 DEF KernelOk
      <4>3. proc' = [proc EXCEPT ![p] = [old EXCEPT !.state = s, !.rtime = t, !.disk = d]]
        BY <4>1, <4>2
      <4> QED
        BY <4>3
    <3> QED
      BY <1>2, <2>2, <3>1, LivesFollow DEF Work, Alive
  <2>3. CASE Exit(p)
    BY <1>2, <2>3, LivesFollow DEF Exit, Alive
  <2>4. CASE Reap(p)
    BY <1>2, <2>4, LivesFollow DEF Reap
  <2> QED
    BY <1>1, <2>1, <2>2, <2>3, <2>4
<1>4. /\ proc' \in [Pids -> Lives] /\ proc'[p] = new
      /\ \A q \in Pids : q # p => proc'[q] = proc[q]
  BY <1>3 DEF KernelOk
<1>5. KernelOk'
  BY <1>3, <1>4 DEF KernelOk, Follows, Alive
<1>6. ASSUME NEW q \in Pids, q # p PROVE Grows(q)
  <2>1. Io(q)' = Io(q)
    BY <1>4, <1>6 DEF Io
  <2>2. Io(q) \in Nat
    BY DEF Io, KernelOk, Lives
  <2>3. proc[q].gen \in Nat /\ proc[q].rtime \in Nat
    BY DEF KernelOk, Lives
  <2> QED
    BY <1>4, <1>6, <2>1, <2>2, <2>3 DEF Grows, Alive
<1>7. Grows(p)
  <2>1. Io(p)' = (IF new.mine THEN new.disk ELSE 0) /\ Io(p) = (IF old.mine THEN old.disk ELSE 0)
    BY <1>2, <1>4 DEF Io
  <2>2. new.mine = old.mine /\ new.disk >= old.disk => Io(p)' >= Io(p)
    BY <2>1 DEF Lives
  <2> QED
    BY <1>2, <1>3, <1>4, <2>2 DEF Grows, Follows, Alive
<1> QED
  BY <1>5, <1>6, <1>7

\* what is remembered of a pid: the row and cpuTimes have the figures of the last
\* scan that read it, and the process that was read then has not gone below them
Counters(p) ==
  /\ last[p].gen \in Nat /\ last[p].gen <= proc[p].gen
  /\ last[p].rtime \in Nat /\ last[p].disk \in Nat
  /\ IF p \in DOMAIN cpuTimes THEN cpuTimes[p] = last[p].rtime ELSE last[p].gen = 0
  /\ p \in Listed => set[p].cpu = last[p].rtime /\ set[p].preDisk = last[p].disk
  /\ SameLife(p, last[p].gen) =>
       /\ last[p].rtime <= proc[p].rtime /\ last[p].disk <= Io(p)
       /\ last[p].state = "zombie" => proc[p].state = "zombie" /\ proc[p].rtime = last[p].rtime
AllCounters ==
  /\ cpuTimes = [p \in DOMAIN cpuTimes |-> cpuTimes[p]] /\ Listed \subseteq DOMAIN cpuTimes
  /\ \A p \in Pids : Counters(p)

\* what the scan has read of the pid it is at
ReadUpTo(p) ==
  /\ scan.name \in Nat /\ scan.name <= proc[p].gen
  /\ scan.state # "named" =>
       /\ scan.gen \in Nat /\ scan.name <= scan.gen /\ scan.gen <= proc[p].gen
       /\ scan.disk \in 0 .. MaxDisk
       /\ SameLife(p, scan.gen) =>
            scan.disk <= Io(p) /\ (last[p].gen = scan.gen => last[p].disk <= scan.disk)
  /\ scan.state = "zombie" /\ SameLife(p, scan.name) => proc[p].state = "zombie"
ScanRead ==
  /\ scan \in [todo: SUBSET Pids, at: Pids \cup {NoPid}, name: Nat, gen: Nat, disk: Nat,
               state: {"named", "unread", "run", "sleep", "zombie", "gone"}, mine: BOOLEAN]
  /\ scan.at = NoPid => scan.state = "named"
  /\ \A p \in Pids : p = scan.at => ReadUpTo(p)

LEMMA IoBounds ==
  ASSUME KernelOk, NEW p \in Pids
  PROVE  Io(p) \in 0 .. MaxDisk /\ proc[p].rtime \in 0 .. MaxTime /\ proc[p].gen \in Nat
BY ProcessListAssumption DEF KernelOk, Lives, Io

LEMMA CountersGrow ==
  ASSUME KernelOk, AllCounters, Kernel PROVE AllCounters'
<1>1. UNCHANGED <<set, last, cpuTimes>> /\ Listed' = Listed /\ KernelOk'
  BY KernelGrows DEF Kernel, Start, Work, Exit, Reap, list, Listed
<1>2. ASSUME NEW p \in Pids PROVE Counters(p)'
  <2>1. Counters(p) /\ Grows(p)
    BY <1>2, KernelGrows DEF AllCounters
  <2>2. /\ Io(p) \in Nat /\ proc[p].rtime \in Nat /\ proc[p].gen \in Nat
        /\ Io(p)' \in Nat /\ proc'[p].rtime \in Nat /\ proc'[p].gen \in Nat
    BY <1>1, <1>2, IoBounds DEF KernelOk, Lives, Io
  <2>3. last'[p].gen <= proc'[p].gen
    BY <1>1, <2>1, <2>2 DEF Counters, Grows
  <2>4. ASSUME SameLife(p, last[p].gen)'
        PROVE  /\ SameLife(p, last[p].gen)
               /\ proc'[p].rtime >= proc[p].rtime /\ Io(p)' >= Io(p)
               /\ proc[p].state = "zombie" => proc'[p].state = "zombie" /\ proc'[p].rtime = proc[p].rtime
    <3>1. proc'[p].gen = proc[p].gen /\ Alive(p)' /\ proc[p].gen = last[p].gen
      BY <1>1, <2>1, <2>2, <2>4 DEF SameLife, Counters, Grows
    <3> QED
      BY <2>1, <3>1 DEF Grows, SameLife
  <2>5. SameLife(p, last[p].gen)' =>
          /\ last[p].rtime <= proc'[p].rtime /\ last[p].disk <= Io(p)'
          /\ last[p].state = "zombie" => proc'[p].state = "zombie" /\ proc'[p].rtime = last[p].rtime
    BY <2>1, <2>2, <2>4 DEF Counters
  <2> QED
    BY <1>1, <2>1, <2>3, <2>5 DEF Counters
<1> QED
  BY <1>1, <1>2 DEF AllCounters

LEMMA ReadsGrow ==
  ASSUME KernelOk, AllCounters, ScanRead, Kernel PROVE ScanRead'
<1>1. UNCHANGED <<scan, last>>
  BY DEF Kernel, Start, Work, Exit, Reap, list
<1>2. ASSUME NEW p \in Pids, p = scan.at PROVE ReadUpTo(p)'
  <2>1. ReadUpTo(p) /\ Grows(p)
    BY <1>2, KernelGrows DEF ScanRead
  <2>2. /\ Io(p) \in Nat /\ proc[p].gen \in Nat
        /\ Io(p)' \in Nat /\ proc'[p].gen \in Nat
    BY <1>2, IoBounds, KernelGrows DEF KernelOk, Lives, Io
  <2>3. ASSUME NEW g \in Nat, g <= proc[p].gen, Alive(p)', proc'[p].gen = g
        PROVE  /\ Alive(p) /\ proc[p].gen = g /\ Io(p)' >= Io(p)
               /\ proc[p].state = "zombie" => proc'[p].state = "zombie"
    BY <2>1, <2>2, <2>3 DEF Grows
  <2>4. /\ scan'.name \in Nat /\ scan'.name <= proc'[p].gen
        /\ scan'.state = "zombie" /\ SameLife(p, scan.name)' => proc'[p].state = "zombie"
    BY <1>1, <2>1, <2>2, <2>3 DEF ReadUpTo, Grows, SameLife
  <2>5. ASSUME scan'.state # "named"
        PROVE  /\ scan'.gen \in Nat /\ scan'.name <= scan'.gen /\ scan'.gen <= proc'[p].gen
               /\ scan'.disk \in 0 .. MaxDisk
               /\ SameLife(p, scan.gen)' =>
                    scan'.disk <= Io(p)' /\ (last'[p].gen = scan'.gen => last'[p].disk <= scan'.disk)
    BY <1>1, <2>1, <2>2, <2>3, <2>5, ProcessListAssumption DEF ReadUpTo, Grows, SameLife
  <2> QED
    BY <2>4, <2>5 DEF ReadUpTo
<1> QED
  BY <1>1, <1>2 DEF ScanRead

\* What is remembered does not depend on the scan: other steps than those of the
\* kernel and Store keep it, row by row.
LEMMA CountersStay ==
  ASSUME AllCounters, UNCHANGED <<proc, last, cpuTimes>>, Listed' \subseteq Listed,
         \A p \in Listed' : set'[p].cpu = set[p].cpu /\ set'[p].preDisk = set[p].preDisk
  PROVE  AllCounters'
BY DEF AllCounters, Counters, SameLife, Alive, Io

LEMMA CountersStore ==
  ASSUME Kinds, KernelOk, AllCounters, ScanRead, Store PROVE AllCounters'
<1>1. PICK at \in Pids : at = scan.at
  BY DEF Store, ScanRead
<1>2. ReadUpTo(at) /\ scan.state # "named"
  BY <1>1 DEF Store, ScanRead
<1> DEFINE seen == [scan |-> scans, gen |-> IF scan.name = proc[at].gen THEN proc[at].gen ELSE 0,
                    state |-> scan.state, rtime |-> proc[at].rtime, disk |-> scan.disk]
<1>3. /\ UNCHANGED proc /\ last' = [last EXCEPT ![at] = seen]
      /\ cpuTimes' = [z \in DOMAIN cpuTimes \cup {at} |->
                         IF z = at THEN proc[at].rtime ELSE cpuTimes[z]]
  BY <1>1 DEF Store, With
<1>4. /\ Listed' \subseteq Listed \cup {at}
      /\ \A p \in Listed' : p # at => set'[p] = set[p]
      /\ at \in Listed' => set'[at].cpu = proc[at].rtime /\ set'[at].preDisk = scan.disk
  BY <1>1, StoreMakesRow
<1>5. /\ seen.gen \in Nat /\ seen.gen <= proc[at].gen /\ seen.disk = scan.disk
      /\ seen.rtime = proc[at].rtime /\ seen.state = scan.state
      /\ seen.gen # 0 => scan.name = proc[at].gen
  BY <1>1, IoBounds DEF ReadUpTo
<1>6. last'[at] = seen /\ \A p \in Pids : p # at => last'[p] = last[p]
  BY <1>3 DEF Kinds
<1> HIDE DEF seen
<1>7. Counters(at)'
  <2>1. at \in DOMAIN cpuTimes' /\ cpuTimes'[at] = proc[at].rtime
    BY <1>3
  <2>2. ASSUME SameLife(at, seen.gen)
        PROVE  scan.disk <= Io(at) /\ (scan.state = "zombie" => proc[at].state = "zombie")
    <3>1. Alive(at) /\ proc[at].gen = seen.gen /\ seen.gen # 0
      BY <2>2 DEF SameLife, KernelOk
    <3>2. scan.name = proc[at].gen /\ scan.gen = proc[at].gen
      BY <1>2, <1>5, <3>1, IoBounds DEF ReadUpTo
    <3> QED
      BY <1>2, <3>1, <3>2 DEF ReadUpTo, SameLife
  <2>3. proc'[at] = proc[at] /\ Io(at)' = Io(at)
    BY <1>3 DEF Io
  <2>4. SameLife(at, last[at].gen)' => SameLife(at, seen.gen)
    BY <1>3, <1>6 DEF SameLife, Alive
  <2>5. proc[at].rtime \in Nat /\ scan.disk \in Nat
    BY <1>2, IoBounds, ProcessListAssumption DEF ReadUpTo
  <2>6. last'[at].gen \in Nat /\ last'[at].gen <= proc'[at].gen
    BY <1>3, <1>5, <1>6
  <2>7. SameLife(at, last[at].gen)' =>
          /\ last'[at].rtime <= proc'[at].rtime /\ last'[at].disk <= Io(at)'
          /\ last'[at].state = "zombie" =>
               proc'[at].state = "zombie" /\ proc'[at].rtime = last'[at].rtime
    BY <1>5, <1>6, <2>2, <2>3, <2>4, <2>5
  <2> QED
    BY <1>4, <1>5, <1>6, <2>1, <2>5, <2>6, <2>7 DEF Counters
<1>8. ASSUME NEW p \in Pids, p # at PROVE Counters(p)'
  <2>1. last'[p] = last[p] /\ proc' = proc /\ (p \in Listed' => p \in Listed /\ set'[p] = set[p])
    BY <1>3, <1>4, <1>6, <1>8
  <2>2. p \in DOMAIN cpuTimes' <=> p \in DOMAIN cpuTimes
    BY <1>3, <1>8
  <2>3. p \in DOMAIN cpuTimes => cpuTimes'[p] = cpuTimes[p]
    BY <1>3, <1>8
  <2> QED
    BY <1>8, <2>1, <2>2, <2>3 DEF AllCounters, Counters, SameLife, Alive, Io
<1>9. cpuTimes' = [p \in DOMAIN cpuTimes' |-> cpuTimes'[p]] /\ Listed' \subseteq DOMAIN cpuTimes'
  BY <1>3, <1>4 DEF AllCounters
<1> QED
  BY <1>7, <1>8, <1>9 DEF AllCounters

LEMMA CountersInductive ==
  ASSUME Kinds, KernelOk, AllCounters, ScanRead, [Next]_vars PROVE KernelOk' /\ AllCounters'
<1>0. ~Kernel => UNCHANGED proc
  BY Transitions DEF Reports, ReportRemoved, Report, Begins, StartMonitorJob, TimerEvent,
     OnChangeRefreshFilter, Elsewhere, Reading, UpdateProcInfo, ReadIo, ReadState, Reads,
     Store, RefreshLine, OnStopScanProcess, vars
<1>1. KernelOk'
  BY <1>0, KernelGrows DEF KernelOk, Alive
<1>2. CASE Kernel
  BY <1>2, CountersGrow, KernelGrows
<1>3. CASE Store
  BY <1>1, <1>3, CountersStore
<1>4. CASE ~Kernel /\ (Reading \/ OnStopScanProcess \/ UNCHANGED vars)
  <2>1. UNCHANGED <<proc, last, cpuTimes, set>> /\ Listed' = Listed
    BY <1>0, <1>4 DEF Reading, UpdateProcInfo, ReadIo, ReadState, Reads, OnStopScanProcess,
                      vars, list, Listed
  <2> QED
    BY <1>1, <2>1, CountersStay
<1>5. CASE ~Kernel /\ Begins
  <2>1. UNCHANGED cpuTimes
    BY <1>5 DEF Begins, StartMonitorJob, TimerEvent, OnChangeRefreshFilter, Elsewhere
  <2>2. Listed' \subseteq Listed /\ \A p \in Listed' : set'[p] = set[p]
    BY <1>5, BeginKeepsRows
  <2> QED
    BY <1>0, <1>1, <1>5, <2>1, <2>2, BeginKeepsRows, CountersStay
<1>6. CASE ~Kernel /\ RefreshLine
  <2>1. UNCHANGED cpuTimes
    BY <1>6 DEF RefreshLine
  <2> QED
    BY <1>0, <1>1, <1>6, <2>1, RefreshChangesFlow, CountersStay
<1>7. CASE ~Kernel /\ Reports
  <2>1. UNCHANGED cpuTimes
    BY <1>7 DEF Reports, Report, ReportRemoved, list
  <2>2. UNCHANGED <<set, last>> /\ Listed' = Listed
    BY <1>7, ReportAppends DEF Listed
  <2> QED
    BY <1>0, <1>1, <1>7, <2>1, <2>2, CountersStay
<1> QED
  BY <1>2, <1>3, <1>4, <1>5, <1>6, <1>7, Transitions

LEMMA ScanReadInductive ==
  ASSUME Kinds, KernelOk, AllCounters, ScanRead, [Next]_vars PROVE ScanRead'
<1> DEFINE Records == [todo: SUBSET Pids, at: Pids \cup {NoPid}, name: Nat, gen: Nat, disk: Nat,
               state: {"named", "unread", "run", "sleep", "zombie", "gone"}, mine: BOOLEAN]
<1>0. 0 \notin Pids
  BY ProcessListAssumption
<1>1. CASE Kernel
  BY <1>1, ReadsGrow
<1>2. CASE ~Kernel /\ (Reports \/ RefreshLine \/ OnStopScanProcess \/ UNCHANGED vars)
  <2>1. UNCHANGED <<proc, scan, last>>
    BY <1>2 DEF Reports, Report, ReportRemoved, RefreshLine, OnStopScanProcess, list, vars
  <2> QED
    BY <2>1 DEF ScanRead, ReadUpTo, SameLife, Alive, Io
<1>3. CASE Begins
  <2>1. PICK f : scan' = [NoScan EXCEPT !.todo = ProcList(f)]
    BY <1>3, BeginKeepsRows
  <2>2. ProcList(f) \subseteq Pids
    BY DEF ProcList
  <2>3. scan' \in Records /\ scan'.at = NoPid /\ scan'.state = "named"
    BY <2>1, <2>2 DEF NoScan
  <2> QED
    BY <1>0, <2>3 DEF ScanRead, NoPid
<1>4. CASE Store
  <2>1. scan' = [NoScan EXCEPT !.todo = scan.todo] /\ scan.todo \subseteq Pids
    BY <1>4 DEF Store, ScanRead
  <2>2. scan' \in Records /\ scan'.at = NoPid /\ scan'.state = "named"
    BY <2>1 DEF NoScan
  <2> QED
    BY <1>0, <2>2 DEF ScanRead, NoPid
<1>5. CASE UpdateProcInfo
  <2>1. PICK p \in Pids : scan' = [scan EXCEPT !.todo = @ \ {p}, !.at = p, !.name = Named(p)]
    BY <1>5 DEF UpdateProcInfo, ScanRead
  <2>2. UNCHANGED <<proc, last>> /\ scan.at = NoPid
    BY <1>5 DEF UpdateProcInfo, Reads
  <2>3. Named(p) \in Nat /\ Named(p) <= proc[p].gen
    BY IoBounds DEF Named
  <2>4. scan' \in Records /\ scan'.at = p /\ scan'.name = Named(p)
        /\ scan'.state = scan.state /\ scan'.gen = scan.gen /\ scan'.disk = scan.disk
    BY <2>1, <2>3 DEF ScanRead
  <2>5. scan'.state = "named"
    BY <2>2, <2>4 DEF ScanRead
  <2>6. ReadUpTo(p)'
    BY <2>2, <2>3, <2>4, <2>5 DEF ReadUpTo
  <2> QED
    BY <2>4, <2>5, <2>6 DEF ScanRead
<1>6. CASE ReadIo
  <2>1. PICK p \in Pids : p = scan.at
    BY <1>6 DEF ReadIo, ScanRead
  <2>2. /\ UNCHANGED <<proc, last>> /\ ReadUpTo(p)
        /\ scan' = [scan EXCEPT !.gen = proc[p].gen, !.disk = Io(p), !.state = "unread"]
    BY <1>6, <2>1 DEF ReadIo, Reads, ScanRead
  <2>3. Io(p) \in 0 .. MaxDisk /\ Io(p) \in Nat /\ proc[p].gen \in Nat
    BY IoBounds, ProcessListAssumption
  <2>4. /\ scan' \in Records /\ scan'.at = p /\ scan'.name = scan.name
        /\ scan'.state = "unread" /\ scan'.gen = proc[p].gen /\ scan'.disk = Io(p)
    BY <2>1, <2>2, <2>3 DEF ScanRead
  <2>5. Io(p)' = Io(p) /\ Counters(p) /\ SameLife(p, scan.gen)' = SameLife(p, proc[p].gen)
    BY <2>2, <2>4 DEF Io, AllCounters, SameLife, Alive
  <2>6. SameLife(p, proc[p].gen) => (last[p].gen = proc[p].gen => last[p].disk <= Io(p))
    BY <2>5 DEF Counters, SameLife
  <2>7. ReadUpTo(p)'
    BY <2>2, <2>3, <2>4, <2>5, <2>6 DEF ReadUpTo
  <2> QED
    BY <1>0, <2>4, <2>7 DEF ScanRead, NoPid
<1>7. CASE ReadState
  <2>1. PICK p \in Pids : p = scan.at
    BY <1>7 DEF ReadState, ScanRead
  <2>2. /\ UNCHANGED <<proc, last>> /\ ReadUpTo(p) /\ scan.state = "unread"
        /\ scan' = [scan EXCEPT !.state = proc[p].state, !.mine = proc[p].mine]
    BY <1>7, <2>1 DEF ReadState, Reads, ScanRead
  <2>3. proc[p].state \in {"run", "sleep", "zombie", "gone"} /\ proc[p].mine \in BOOLEAN
    BY DEF KernelOk, Lives
  <2>4. /\ scan' \in Records /\ scan'.at = p /\ scan'.name = scan.name
        /\ scan'.state = proc[p].state /\ scan'.gen = scan.gen /\ scan'.disk = scan.disk
    BY <2>1, <2>2, <2>3 DEF ScanRead
  <2>5. ReadUpTo(p)'
    BY <2>2, <2>4 DEF ReadUpTo, SameLife, Alive, Io
  <2> QED
    BY <1>0, <2>4, <2>5 DEF ScanRead, NoPid
<1> QED
  BY <1>1, <1>2, <1>3, <1>4, <1>5, <1>6, <1>7, Transitions DEF Reading

-----------------------------------------------------------------------------
(***************************************************************************)
(* What Store computes from it, in the arithmetic of guint64.              *)
(***************************************************************************)
LEMMA UnsignedExact ==
  ASSUME NEW a \in Nat, NEW b \in Nat, b <= a, a < WORD PROVE Unsigned(a - b) = a - b
BY ProcessListAssumption DEF Unsigned

\* Only Store makes a row.
LEMMA OnlyStoreMakesRows ==
  ASSUME ScanRead, [Next]_vars, NEW p \in Pids, Stored(p) PROVE Store
<1>0. scan.at = p /\ scan'.at = NoPid /\ p # NoPid
  BY ProcessListAssumption DEF Stored, NoPid
<1>1. CASE Kernel \/ Reports \/ RefreshLine \/ OnStopScanProcess \/ UNCHANGED vars
  <2>1. UNCHANGED scan
    BY <1>1 DEF Kernel, Start, Work, Exit, Reap, Reports, Report, ReportRemoved, RefreshLine,
                OnStopScanProcess, list, vars
  <2> QED
    BY <1>0, <2>1
<1>2. CASE Begins \/ UpdateProcInfo
  BY <1>0, <1>2 DEF Begins, StartMonitorJob, TimerEvent, OnChangeRefreshFilter, Idle, UpdateProcInfo
<1>3. CASE ReadIo \/ ReadState
  <2>1. scan'.at = scan.at
    BY <1>3 DEF ReadIo, ReadState, ScanRead
  <2> QED
    BY <1>0, <2>1
<1> QED
  BY <1>1, <1>2, <1>3, Transitions DEF Reading

\* The CPU time that a scan charges to the row of p.
Used(p) == Unsigned(proc[p].rtime - CpuBase(p, proc[p].rtime))

LEMMA RowHasUsed ==
  ASSUME Store, NEW p \in Pids, p = scan.at, p \in Listed'
  PROVE  /\ set'[p].used = Used(p) /\ set'[p].speed = CalcDiskIoPerSec(p)
         /\ ~Hidden(Status(scan.state, Used(p)))
<1> DEFINE status == Status(scan.state, Used(p))
           row == Row(p, Used(p), status, proc[p].rtime)
<1>1. set' = IF Hidden(status) THEN Restrict(set, Listed \ {p}) ELSE With(set, p, row)
  BY DEF Store, Used
<1>2. row.used = Used(p) /\ row.speed = CalcDiskIoPerSec(p)
  BY DEF Row
<1> HIDE DEF row
<1>3. ~Hidden(status)
  BY <1>1 DEF Restrict, Listed
<1>4. set'[p] = row
  BY <1>1, <1>3 DEF With
<1> QED
  BY <1>2, <1>3, <1>4

\* Without a row the difference is taken to something not above the time read.
LEMMA NewRowBounded ==
  ASSUME KernelOk, AllCounters, NEW p \in Pids, p \notin Listed
  PROVE  Used(p) <= proc[p].rtime
<1>1. proc[p].rtime \in Nat /\ proc[p].rtime < WORD
  BY IoBounds, ProcessListAssumption
<1>2. PICK base \in Nat : base = CpuBase(p, proc[p].rtime) /\ base <= proc[p].rtime
  BY <1>1 DEF CpuBase, AllCounters, Counters
<1>3. Unsigned(proc[p].rtime - base) = proc[p].rtime - base
  BY <1>1, <1>2, UnsignedExact
<1> QED
  BY <1>1, <1>2, <1>3 DEF Used

\* With two readings of one process the difference is that of the readings.
LEMMA SeenTwiceExact ==
  ASSUME KernelOk, AllCounters, ScanRead, NEW p \in Pids, p = scan.at,
         scan.state # "named", SeenTwice(p)
  PROVE  /\ Used(p) = proc[p].rtime - last[p].rtime
         /\ p \in Listed => CalcDiskIoPerSec(p) = scan.disk - last[p].disk
<1>1. /\ proc[p].rtime \in Nat /\ proc[p].rtime < WORD /\ MaxDisk \in Nat /\ MaxDisk < WORD
      /\ proc[p].gen \in Nat /\ proc[p].gen > 0
  BY IoBounds, ProcessListAssumption DEF KernelOk, SeenTwice
<1>2. Counters(p) /\ ReadUpTo(p)
  BY DEF AllCounters, ScanRead
<1>3. SameLife(p, last[p].gen) /\ SameLife(p, scan.gen) /\ last[p].gen = scan.gen
  BY DEF SeenTwice, SameLife
<1>4. CpuBase(p, proc[p].rtime) = last[p].rtime
      /\ last[p].rtime \in Nat /\ last[p].rtime <= proc[p].rtime
  <2>1. last[p].gen # 0
    BY <1>1 DEF SeenTwice
  <2> QED
    BY <1>1, <1>2, <1>3, <2>1 DEF CpuBase, Counters
<1>5. Used(p) = proc[p].rtime - last[p].rtime
  BY <1>1, <1>4, UnsignedExact DEF Used
<1>6. last[p].disk \in Nat /\ scan.disk \in 0 .. MaxDisk /\ last[p].disk <= scan.disk
  BY <1>2, <1>3 DEF Counters, ReadUpTo
<1>7. ASSUME p \in Listed PROVE CalcDiskIoPerSec(p) = scan.disk - last[p].disk
  <2>1. scan.disk \in Nat /\ scan.disk < WORD
    BY <1>6, ProcessListAssumption
  <2>2. set[p].preDisk = last[p].disk
    BY <1>2, <1>7 DEF Counters
  <2> QED
    BY <1>6, <1>7, <2>1, <2>2, UnsignedExact DEF CalcDiskIoPerSec
<1> QED
  BY <1>5, <1>7

Counting == Kinds /\ KernelOk /\ AllCounters /\ ScanRead

LEMMA CountingInitially == Init => Counting
<1> SUFFICES ASSUME Init PROVE Counting
  OBVIOUS
<1>1. /\ Listed = {} /\ DOMAIN cpuTimes = {} /\ scan = NoScan
      /\ cpuTimes = [p \in DOMAIN cpuTimes |-> cpuTimes[p]]
  BY DEF Init, Listed
<1>2. KernelOk
  <2>1. 0 \in 0 .. MaxTime /\ 0 \in 0 .. MaxDisk
    BY ProcessListAssumption
  <2>2. ASSUME NEW k \in {Gone, [Gone EXCEPT !.gen = 1, !.state = "sleep", !.mine = TRUE]}
        PROVE  k \in Lives /\ (k.state # "gone" => k.gen > 0)
    <3>1. CASE k = Gone
      BY <2>1, <3>1 DEF Gone, Lives
    <3>2. CASE k = [Gone EXCEPT !.gen = 1, !.state = "sleep", !.mine = TRUE]
      <4>1. k = [gen |-> 1, state |-> "sleep", mine |-> TRUE, rtime |-> 0, disk |-> 0]
        BY <3>2 DEF Gone
      <4> QED
        BY <2>1, <4>1 DEF Lives
    <3> QED
      BY <2>2, <3>1, <3>2
  <2>3. \A p \in Pids : proc[p] \in Lives /\ (proc[p].state # "gone" => proc[p].gen > 0)
    BY <2>2 DEF Init
  <2> QED
    BY <2>3 DEF Init, KernelOk, Alive
<1>3. ASSUME NEW p \in Pids PROVE Counters(p)
  <2>1. /\ last[p].gen = 0 /\ last[p].rtime = 0 /\ last[p].disk = 0 /\ last[p].state = "gone"
    BY <1>3 DEF Init
  <2>2. proc[p].rtime \in Nat /\ Io(p) \in Nat /\ proc[p].gen \in Nat
    BY <1>2, IoBounds, ProcessListAssumption
  <2> QED
    BY <1>1, <2>1, <2>2 DEF Counters
<1>4. ScanRead
  BY <1>1, ProcessListAssumption DEF ScanRead, NoScan, NoPid
<1> QED
  BY <1>1, <1>2, <1>3, <1>4, KindsInitially DEF Counting, AllCounters

LEMMA CountingInductive ==
  ASSUME Counting, [Next]_vars PROVE Counting'
BY KindsInductive, CountersInductive, ScanReadInductive DEF Counting

\* The time and the traffic a row is charged with are what the process used
\* between the two scans that read it, and never a difference that wrapped.
THEOREM CountsOnce == Spec => CountedOnce
<1> DEFINE Once(p) == Stored(p) /\ p \in DOMAIN set' =>
             /\ SeenTwice(p) => set'[p].used = proc[p].rtime - last[p].rtime
             /\ SeenTwice(p) /\ p \in Listed => set'[p].speed = scan.disk - last[p].disk
             /\ p \notin Listed => set'[p].used <= proc[p].rtime
<1>1. ASSUME Counting, [Next]_vars PROVE [\A p \in Pids : Once(p)]_vars
  <2> SUFFICES ASSUME NEW p \in Pids, Stored(p), p \in Listed' PROVE Once(p)
    BY DEF Listed
  <2>1. Store /\ p = scan.at /\ scan.state # "named"
    BY <1>1, OnlyStoreMakesRows DEF Counting, Stored, Store
  <2>2. set'[p].used = Used(p) /\ set'[p].speed = CalcDiskIoPerSec(p)
    BY <2>1, RowHasUsed
  <2> QED
    BY <1>1, <2>1, <2>2, NewRowBounded, SeenTwiceExact DEF Counting
<1> QED
  BY <1>1, CountingInitially, CountingInductive, PTL DEF Spec, CountedOnce

\* A zombie that a scan has read as one is not listed by the next scan: it can
\* have used no CPU time since, so nothing makes it running.
THEOREM ZombiesAreHidden == Spec => ZombieHiddenByNextScan
<1> DEFINE Gets(p) == /\ Stored(p) /\ SeenTwice(p)
                      /\ last[p].state = "zombie" /\ scan.state = "zombie"
                      => p \notin DOMAIN set'
<1>1. ASSUME Counting, [Next]_vars PROVE [\A p \in Pids : Gets(p)]_vars
  <2> SUFFICES ASSUME NEW p \in Pids, Stored(p), SeenTwice(p), last[p].state = "zombie",
                      scan.state = "zombie", p \in Listed'
               PROVE  FALSE
    BY DEF Listed
  <2>1. Store /\ p = scan.at /\ scan.state # "named"
    BY <1>1, OnlyStoreMakesRows DEF Counting, Stored
  <2>2. proc[p].rtime = last[p].rtime /\ proc[p].rtime \in Nat
    BY <1>1, IoBounds DEF Counting, AllCounters, Counters, SeenTwice, SameLife
  <2>3. Used(p) = 0
    BY <1>1, <2>1, <2>2, SeenTwiceExact DEF Counting
  <2>4. Hidden(Status(scan.state, Used(p)))
    BY <2>3 DEF Hidden, Status
  <2> QED
    BY <2>1, <2>4, RowHasUsed
<1> QED
  BY <1>1, CountingInitially, CountingInductive, PTL DEF Spec, ZombieHiddenByNextScan
=============================================================================
