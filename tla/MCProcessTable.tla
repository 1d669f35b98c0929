--------------------------- MODULE MCProcessTable ---------------------------
(***************************************************************************)
(* Instances of ProcessTable and Cells for TLC: which processes are        *)
(* protected, and rows whose figures lie on both sides of every change of  *)
(* unit and of level, and share a figure with another row.                 *)
(***************************************************************************)
EXTENDS ProcessTable, Cells

\* the first process with pid 2
SecondProtected == {<<2, 1>>}

DiskSteps == <<15, 120, 960>>   \* for KILO = 8

Row(name, disk, cpu, flow, memory, nice, state) ==
  [name |-> name, user |-> name % 2, disk |-> disk, cpu |-> cpu, pid |-> disk, flow |-> flow,
   memory |-> memory, nice |-> nice, state |-> state]

AllProcesses ==
  {Row(1, 0, 0, 0, 0, 19, "Sleeping"),    Row(1, 14, 94, 62, 63, 7, "Zombie"),
   Row(2, 15, 95, 63, 67, 6, "Running"),  Row(2, 119, 96, 64, 68, 3, "Stopped"),
   Row(3, 120, 95, 509, 68, 2, "Dead"),   Row(3, 959, 9999, 511, 509, -2, "Running"),
   Row(3, 960, 10000, 512, 4095, -3, "Uninterruptible"),
   Row(4, 5000, 10000, 4095, 4096, -7, "Running"),
   Row(5, 511, 95, 4096, 68, -8, "Running"), Row(5, 512, 3, 40000, 40000, -20, "Running")}

FileSystem(total, free, avail) == [total |-> total, free |-> free, avail |-> avail]
AllFileSystems ==
  {FileSystem(0, 0, 0), FileSystem(7, 7, 7), FileSystem(8, 4, 0), FileSystem(63, 3, 1),
   FileSystem(64, 64, 0), FileSystem(511, 4, 4), FileSystem(4095, 2048, 1),
   FileSystem(4096, 1, 1), FileSystem(40000, 39999, 20000)}

\* of a table with rows, whatever figures of Processes and FileSystems they have:
\* the order it is sorted in is the order of what it shows (the lessThan of both
\* proxies against the data of both models)
ShownInOrder == rows # <<>> => CellsInOrder

\* and a chosen priority, a CPU time and a percentage say what they stand for
\* (util.cpp, filesystemworker.cpp:42, the menu of ProcessTableView)
ShownTells == rows # <<>> => TextsTell

Times == UNION {{0, d - 1, d, d + 1, d + 99, d + 101} : d \in {100, 6000, 360000, 8640000, 60480000, 700000000}}
=============================================================================
