-------------------------------- MODULE Cells --------------------------------
(***************************************************************************)
(* The cells of the two tables: what ProcessTableModel and FileSystemModel *)
(* show for a row in each column (DisplayRole), the raw figure behind it   *)
(* (UserRole), and the comparison by which the proxies sort the rows.      *)
(* Names and users are numbers, in the order in which the locale collates. *)
(***************************************************************************)
EXTENDS Figures, FiniteSets

CONSTANTS
  Processes,     \* rows of the process table
  FileSystems,   \* rows of the file systems table
  Durations      \* CPU times, in centiseconds

\* flow in parts of a KB, cpu in hundredths of a percent
ASSUME CellsAssumption ==
  /\ \A p \in Processes :
       /\ DOMAIN p = {"name", "user", "disk", "cpu", "pid", "flow", "memory", "nice", "state"}
       /\ {p.name, p.user, p.pid} \subseteq Int /\ {p.disk, p.cpu, p.flow, p.memory} \subseteq Nat
       /\ p.nice \in -20 .. 19
  /\ \A f \in FileSystems :
       {f.total, f.free, f.avail} \subseteq Nat /\ f.free <= f.total /\ f.avail <= f.free
  /\ Durations \subseteq Nat

-----------------------------------------------------------------------------
(***************************************************************************)
(* The process table.                                                      *)
(***************************************************************************)
Columns == {"name", "user", "disk", "cpu", "pid", "flow", "memory", "nice"}

\* a process that is stopped, dead or cannot be woken says so in its name
Prefix(p) ==
  IF FormatProcessState(p.state) \in {"Stopped", "Zombie", "Uninterruptible"}
  THEN FormatProcessState(p.state) ELSE "none"

\* ProcessTableModel::data, DisplayRole
Shown(p, column) ==
  CASE column = "name"   -> <<Prefix(p), p.name>>
    [] column = "disk"   -> DiskIoPerSec(p.disk)
    [] column = "cpu"    -> Text(p.cpu, 100)
    [] column = "flow"   -> CalcFlownetPerSec(p.flow)
    [] column = "memory" -> FormatProcMemory(p.memory)
    [] column = "nice"   -> GetNiceLevel(p.nice)
    [] OTHER             -> p[column]

\* ProcessTableModel::data, UserRole: the traffic is cut to KB
Raw(p, column) == IF column = "flow" THEN p.flow \div KILO ELSE p[column]

\* by the first figure, then by the second
Before(x, y, x2, y2) == x < y \/ (x = y /\ x2 < y2)

\* mutated form: rows of the same memory are before each other
LessOrEqual(column, l, r) ==
  IF column = "memory" THEN l.memory <= r.memory
  ELSE IF column = "nice" THEN ~(l.nice < r.nice) ELSE Raw(l, column) < Raw(r, column)

\* ProcessSortFilterProxyModel::lessThan
LessThan(column, l, r) ==
  CASE column \in {"name", "memory"} -> Before(Raw(l, column), Raw(r, column), l.cpu, r.cpu)
    [] column = "cpu"                -> Before(l.cpu, r.cpu, l.memory, r.memory)
    [] column = "nice"               -> ~(l.nice < r.nice)
    [] OTHER                         -> Raw(l, column) < Raw(r, column)

\* the values of the priority menu's entries, the highest first
Entries == <<-20, -5, 0, 5, 19>>

\* displayProcessTableContextMenu: the entry that is checked
Checked(nice) ==
  IF nice < -7 THEN -20 ELSE IF nice < -2 THEN -5 ELSE IF nice < 3 THEN 0
  ELSE IF nice < 7 THEN 5 ELSE 19

-----------------------------------------------------------------------------
(***************************************************************************)
(* The file systems table.                                                 *)
(***************************************************************************)
Capacities == {"total", "free", "avail", "used"}

\* FileSystemModel::data, UserRole + 1
Capacity(f, column) == IF column = "used" THEN Used(f.total, f.free) ELSE f[column]

\* FileSystemModel::data, DisplayRole
ShownCapacity(f, column) == FormatByteCount(Capacity(f, column))

\* FileSystemSortFilterProxyModel::lessThan
LessCapacity(column, l, r) == Capacity(l, column) < Capacity(r, column)

-----------------------------------------------------------------------------
\* The comparison is a strict weak order, which sorting takes for granted.
StrictWeak(less(_, _), S) ==
  /\ \A x \in S : ~less(x, x)
  /\ \A x, y, z \in S :
       /\ less(x, y) /\ less(y, z) => less(x, z)
       /\ ~less(x, y) /\ ~less(y, x) /\ ~less(y, z) /\ ~less(z, y) => ~less(x, z)

\* The texts of a column never go down along the order it is sorted by.
Rises(less(_, _), reading(_), S) == \A x, y \in S : less(x, y) => reading(x) <= reading(y)

\* The value that a text of a duration says.
ReadDuration(parts) ==
  LET at(i) == IF i \in DOMAIN parts THEN parts[i][1] * parts[i][2] ELSE 0
  IN  at(1) + at(2) + at(3)

\* What a table shows agrees with how it is sorted: each column but the priority
\* is sorted by a strict weak order (the priority's is not, for rows of one nice
\* value, processsortfilterproxymodel.cpp:177), and going down a sorted column no
\* text reads less than the one above, although the texts are rounded and change
\* their units.  The disk rate's texts alone are cut off, so that 1900 B/s reads
\* 1 KB/s, but none says more than the rate or less than half of it.
CellsInOrder ==
  /\ \A c \in Columns \ {"nice"} : StrictWeak(LAMBDA l, r : LessThan(c, l, r), Processes)
  /\ \A c \in {"cpu", "flow", "memory"} :
       Rises(LAMBDA l, r : LessThan(c, l, r), LAMBDA p : Reading(Shown(p, c)), Processes)
  /\ Rises(LAMBDA l, r : LessThan("nice", r, l), LAMBDA p : Shown(p, "nice"), Processes)
  /\ \A p \in Processes :
       LET read == Reading(Shown(p, "disk")) IN read <= p.disk /\ p.disk <= 2 * read
  /\ \A c \in Capacities :
       /\ StrictWeak(LAMBDA l, r : LessCapacity(c, l, r), FileSystems)
       /\ Rises(LAMBDA l, r : LessCapacity(c, l, r),
                LAMBDA f : Reading(ShownCapacity(f, c)), FileSystems)

\* The texts of what is chosen from a list tell the choice: a priority entry
\* leaves a nice value shown under that entry's name, which is the one the menu
\* checks.  The CPU time says the time, cut to its last part, and each part less
\* than one of the part before it.  A percentage is 0 to 100, and 100 only if
\* no block is available.
TextsTell ==
  /\ \A i \in DOMAIN Entries : GetNiceLevel(Entries[i]) = i
  /\ \A nice \in -20 .. 19 : Checked(nice) = Entries[GetNiceLevel(nice)]
  /\ \A d \in Durations :
       LET parts == FormatDurationForDisplay(d) IN
       /\ ReadDuration(parts) <= d /\ d < ReadDuration(parts) + parts[Len(parts)][2]
       /\ \A i \in 2 .. Len(parts) : parts[i][1] * parts[i][2] < parts[i - 1][2]
  /\ \A f \in FileSystems : Used(f.total, f.free) + f.avail > 0 =>
       LET percent == Percentage(f.total, f.free, f.avail) IN
       percent \in 0 .. 100 /\ (percent = 100 => f.avail = 0)
=============================================================================
