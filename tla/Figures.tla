------------------------------- MODULE Figures -------------------------------
(***************************************************************************)
(* The texts that figures are shown as: sizes and rates of the resource    *)
(* page, the process table and the file systems table, CPU times, nice     *)
(* levels, and the percentage of a file system that is used.               *)
(*                                                                         *)
(* A size is shown as [n, unit]: n tenths of a unit (n units where the     *)
(* code prints no decimals).  KILO stands for 1024.                        *)
(***************************************************************************)
EXTENDS Integers, Sequences

CONSTANTS
  KILO,    \* 1024
  Steps    \* 1900, 1900000 and 1900000000: below them B/s, KB/s and MB/s

\* 1, KILO, KILO^2 ... KILO^4
Power[k \in 0 .. 4] == IF k = 0 THEN 1 ELSE KILO * Power[k - 1]

ASSUME FiguresAssumption ==
  /\ KILO \in Nat \ {0, 1}
  /\ Steps \in Seq(Nat) /\ Len(Steps) = 3
  /\ \A k \in 1 .. 3 : Power[k] <= Steps[k] /\ Steps[k] < 2 * Power[k]

\* printf's %.1f: the quotient is exact, a tie goes to the even digit
Tenths(v, unit) ==
  LET q == (10 * v) \div unit
      r == (10 * v) % unit
  IN  IF 2 * r > unit \/ (2 * r = unit /\ q % 2 = 1) THEN q + 1 ELSE q

Text(v, unit) == [n |-> Tenths(v, unit), unit |-> unit]

\* what a text says, in tenths
Reading(t) == t.n * t.unit

\* the largest power from first to last that v reaches
UnitOf(v, first, last) ==
  Power[CHOOSE k \in first .. last :
          /\ k = first \/ v >= Power[k]
          /\ k = last \/ v < Power[k + 1]]

\* memory and swap: KiB to TiB
FormatMemory(size) == Text(size, UnitOf(size, 1, 4))

\* rates and the labels of the network chart; the unit has "/s" or not
FormatNetworkBrandWidth(size) == Text(size, UnitOf(size, 1, 4))

\* a file system's capacities: B to TB
FormatByteCount(size) == Text(size, UnitOf(size, 0, 4))

\* the memory of a process: always MiB
FormatProcMemory(size) == Text(size, Power[2])

\* the traffic of a process, of which a KB has KILO parts: KB/s to GB/s
CalcFlownetPerSec(flow) == Text(flow, UnitOf(flow, 1, 3))

\* the disk rate of a process, cut off
DiskIoPerSec(speed) ==
  LET k == IF speed < Steps[1] THEN 0 ELSE IF speed < Steps[2] THEN 1
           ELSE IF speed < Steps[3] THEN 2 ELSE 3
  IN  [n |-> speed \div Power[k], unit |-> Power[k]]

\* a CPU time in centiseconds: two parts from a day on, else the parts below
\* hours, to the second, or to the centisecond when there is no hour
FormatDurationForDisplay(cs) ==
  LET minute == 6000   hour == 60 * minute   day == 24 * hour   week == 7 * day IN
  IF cs >= week THEN <<<<cs \div week, week>>, <<(cs % week) \div day, day>>>>
  ELSE IF cs >= day THEN <<<<cs \div day, day>>, <<(cs % day) \div hour, hour>>>>
  ELSE IF cs >= hour THEN <<<<cs \div hour, hour>>, <<(cs % hour) \div minute, minute>>,
                            <<(cs % minute) \div 100, 100>>>>
  ELSE <<<<cs \div minute, minute>>, <<(cs % minute) \div 100, 100>>, <<cs % 100, 1>>>>

\* formatProcessState, of the states that the kernel has a name for
FormatProcessState(state) ==
  IF state \in {"Running", "Stopped", "Zombie", "Uninterruptible"} THEN state ELSE "Sleeping"

\* mutated form: the limits belong to the higher level
InclusiveLevel(nice) ==
  IF nice <= -7 THEN 1 ELSE IF nice <= -2 THEN 2 ELSE IF nice <= 3 THEN 3
  ELSE IF nice <= 7 THEN 4 ELSE 5

\* getNiceLevel and getNiceLevelWithPriority: 1 is "Very High", 5 "Very Low"
GetNiceLevel(nice) ==
  IF nice < -7 THEN 1 ELSE IF nice < -2 THEN 2 ELSE IF nice < 3 THEN 3
  ELSE IF nice < 7 THEN 4 ELSE 5

\* fsusage_stats, of block counts: used blocks and their percentage; what a
\* division by zero leaves, with no block used and none available, is not said
Used(total, free) == total - free
Percentage(total, free, avail) ==
  LET used    == Used(total, free)
      percent == (100 * used) \div (used + avail)
  IN  IF total = 0 THEN 0 ELSE IF percent > 100 THEN 100 ELSE percent
=============================================================================
