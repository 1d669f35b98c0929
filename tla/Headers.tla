------------------------------ MODULE Headers ------------------------------
(***************************************************************************)
(* The header of a table: which columns it shows, how wide they are, by    *)
(* which the rows are sorted, and what of it is stored.  ProcessTableView  *)
(* and FileSystemTableView are two classes that differ in their columns.   *)
(* Column 0 of the code is column 1 here; a table has the number of its    *)
(* page.  Not modelled: the order columns are moved to, which is stored    *)
(* with the rest by QHeaderView.                                           *)
(***************************************************************************)
EXTENDS Integers, Sequences, FiniteSets, FiniteSetsExt, Functions

CONSTANTS
  Bar,         \* width of a vertical scroll bar
  MinSection   \* the least width QHeaderView gives a column

\* a column of the least width and a scroll bar take no more than the narrowest
\* column of the two tables, 80
ASSUME HeadersAssumption == Bar \in Nat /\ MinSection \in Nat /\ MinSection + Bar <= 80

Processes == 0
Files     == 2
Tables    == {Processes, Files}

\* shell/macro.h: name, user, disk, cpu, id, network, memory, priority
ProcessPadding == <<140, 90, 80, 80, 80, 120, 100, 100>>
\* device, directory, type, total, free, available, used
FilePadding    == <<120, 150, 80, 100, 100, 100, 100>>
Padding(t)     == IF t = Processes THEN ProcessPadding ELSE FilePadding
Columns(t)     == DOMAIN Padding(t)

\* initUI without stored settings; sort is the column and whether it descends
ProcessDefaults == [width |-> ProcessPadding, hidden |-> {}, sort |-> <<4, TRUE>>]
FileDefaults    == [width |-> FilePadding, hidden |-> {}, sort |-> <<1, TRUE>>]

None == [width |-> <<>>, hidden |-> {}, sort |-> <<0, FALSE>>]  \* nothing stored

\* loadSettings, and initUI where it returns false
LoadProcessSettings(stored) == IF stored = None THEN ProcessDefaults ELSE stored
LoadFileSettings(stored)    == IF stored = None THEN FileDefaults ELSE stored

\* the header menu's entries, ticked when it is opened if the column is shown;
\* the first column has none
ProcessMenu == Columns(Processes) \ {1}
FileMenu    == Columns(Files) \ {1}
Toggled(h, c) ==
  [h EXCEPT !.hidden = IF c \in h.hidden THEN h.hidden \ {c} ELSE h.hidden \cup {c}]

\* headerData's InitialSortOrderRole, for a column that is not the sorted one
\* yet; QHeaderView turns the order round for the one that is
SortedBy(h, c) == [h EXCEPT !.sort = <<c, h.sort[1] = c => ~h.sort[2]>>]

Total(widths, columns) == SumFunctionOnSet(widths, columns)

\* adjustColumnsSize in a view w wide, whose viewport is bar less: the first
\* column gets what the others leave, or all others share alike
Spread(pad, right, w, bar) ==
  IF w - right < pad[1]
  THEN [c \in DOMAIN pad |-> IF c = 1 THEN pad[1] ELSE (w - pad[1]) \div (Len(pad) - 1)]
  ELSE [pad EXCEPT ![1] = w - bar - right]

\* mutated form: the last column is left out of the sum
LastForgotten(w, bar) == Spread(ProcessPadding, Total(ProcessPadding, 2 .. 7), w, bar)

AdjustProcessColumns(w, bar) ==
  Spread(ProcessPadding, Total(ProcessPadding, Columns(Processes) \ {1}), w, bar)
AdjustFileColumns(w, bar) ==
  Spread(FilePadding, Total(FilePadding, Columns(Files) \ {1}), w, bar)
Adjusted(t, w, bar) ==
  IF t = Processes THEN AdjustProcessColumns(w, bar) ELSE AdjustFileColumns(w, bar)

\* external, QHeaderView: the last column shown is stretched or shrunk to what
\* the others leave, MinSection at least
Fits(h, room) ==
  LET shown == DOMAIN h.width \ h.hidden
  IN Total(h.width, shown \ {Max(shown)}) + MinSection <= room
=============================================================================
