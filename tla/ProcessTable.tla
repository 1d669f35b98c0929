---------------------------- MODULE ProcessTable ----------------------------
(***************************************************************************)
(* The process table of the window: ProcessTableModel copies the rows of   *)
(* ProcessList when an event it has posted to itself is run, the proxy     *)
(* hides the rows that the search leaves out, the view keeps one row       *)
(* highlighted and its pid in m_selectedPID, and menu actions and dialogs  *)
(* act on m_selectedPID.  Scans, exits of processes and updates of the     *)
(* rows go on while a menu or a modal dialog is open.                      *)
(***************************************************************************)
EXTENDS Lists, Naturals, Sequences, FiniteSets, SequencesExt

CONSTANTS
  Pids,        \* pids
  Own,         \* the monitor's own pid
  Protected,   \* <<pid, gen>> of the processes on the protected list
  MaxGen,      \* bound: processes that a pid names, one after another
  MaxUpdates,  \* bound: posted updates
  MaxScans     \* bound: scans

NoPid == 0
NoDialog == [kind |-> "none", pid |-> NoPid, kept |-> FALSE, name |-> 0, times |-> 0]

ASSUME ProcessTableAssumption ==
  /\ Pids \subseteq Nat \ {0} /\ IsFiniteSet(Pids) /\ Own \in Pids
  /\ MaxGen \in Nat \ {0} /\ MaxUpdates \in Nat \ {0} /\ MaxScans \in Nat
  /\ Protected \subseteq Pids \X (1 .. MaxGen)

VARIABLES
  gen,          \* kernel: pid -> its process
  listed,       \* ProcessList::m_set: pid -> process
  rows,         \* m_procIdList and m_processList
  updates,      \* posted events of updateProcessListDelay
  hidden,       \* pids that the search text leaves out
  current,      \* pid of the highlighted row, NoPid when there is none
  selectedPID,  \* m_selectedPID
  menu,         \* the context menu is open
  barred,       \* the entries of the priority menu are disabled
  dialog,       \* the modal dialog: what it asks for, the pid it names,
                \* whether the row of that pid has been shown ever since, and the
                \* processes whose name and whose times it shows
  guarded,      \* the protection of applications is switched on
  sent,         \* the operation on a process that the last step made, if any
  scans         \* scans done

view == <<hidden, current, selectedPID>>
ui   == <<menu, barred, dialog>>
vars == <<gen, listed, rows, updates, view, ui, guarded, sent, scans>>

RowPids == {r.pid : r \in ToSet(rows)}
Visible == RowPids \ hidden
Modal   == dialog # NoDialog
NotSent == [kind |-> "none", pid |-> NoPid, gen |-> 0]
Quiet   == sent' = NotSent

Init ==
  /\ gen \in [Pids -> {0, 1}]
  /\ listed = <<>> /\ rows = <<>> /\ updates = 0
  /\ hidden = {} /\ current = NoPid /\ selectedPID = NoPid
  /\ menu = FALSE /\ barred = FALSE /\ dialog = NoDialog
  /\ guarded \in BOOLEAN /\ sent = NotSent /\ scans = 0

-----------------------------------------------------------------------------
(***************************************************************************)
(* Around the table.                                                       *)
(***************************************************************************)
\* the process of p ends, and p may name another one at once
Renew(p) ==
  /\ gen[p] < MaxGen
  /\ gen' = [gen EXCEPT ![p] = gen[p] + 1]
  /\ UNCHANGED <<listed, rows, updates, view, ui, guarded, scans>> /\ Quiet

\* a scan of ProcessList, by the timer or after a change of filter; procInfoUpdated
\* makes the model post an update, which is run before the timer's next scan but may
\* wait for one that a change of filter asks for
Scan(pids) ==
  /\ scans < MaxScans /\ updates < MaxUpdates
  /\ updates > 0 => ~Modal /\ ~menu
  /\ scans' = scans + 1
  /\ listed' = [p \in {q \in pids : gen[q] > 0} |-> gen[p]]
  /\ updates' = updates + 1
  /\ UNCHANGED <<gen, rows, view, ui, guarded>> /\ Quiet

Guard ==
  /\ guarded' = ~guarded
  /\ UNCHANGED <<gen, listed, rows, updates, view, ui, scans>> /\ Quiet

-----------------------------------------------------------------------------
(***************************************************************************)
(* The highlighted row and m_selectedPID, as pairs.                        *)
(***************************************************************************)
\* only the highlight moves (a mutant)
MovedAlone(shown) ==
  IF current = NoPid \/ current \in shown THEN {<<current, selectedPID>>}
  ELSE IF shown # {} THEN {<<p, selectedPID>> : p \in shown}
  ELSE {<<NoPid, selectedPID>>}

\* the rows that may be next to it: which one is next, the sort order decides
Neighbours(shown) == shown

\* When the highlighted row goes, Qt highlights a neighbour and
\* selectionChanged stores its pid.  When the rows go one by one until none is
\* left, the last highlighted pid stays.
Moved(shown) ==
  IF current = NoPid \/ current \in shown THEN {<<current, selectedPID>>}
  ELSE IF shown # {} THEN {<<p, p>> : p \in Neighbours(shown)}
  ELSE {<<NoPid, p>> : p \in Visible}

\* some row instead of the selected one (a mutant)
ReselectedFirst(shown, sel) ==
  IF shown # {} THEN LET p == CHOOSE q \in shown : \A r \in shown : q <= r IN <<p, p>>
  ELSE sel

\* the view's handler of modelUpdated: highlight m_selectedPID again
Reselected(shown, sel) ==
  IF sel[2] \in shown THEN <<sel[2], sel[2]>> ELSE sel

Highlight(sel) == current' = sel[1] /\ selectedPID' = sel[2]

\* without the loop that removes (a mutant)
AppendedRows(old) ==
  LET fresh == Ascending(DOMAIN listed \ {r.pid : r \in ToSet(old)})
  IN [i \in DOMAIN old |-> IF old[i].pid \in DOMAIN listed
                           THEN [old[i] EXCEPT !.gen = listed[old[i].pid]] ELSE old[i]]
     \o [i \in DOMAIN fresh |-> [pid |-> fresh[i], gen |-> listed[fresh[i]]]]

\* rows that stay keep their place, new ones are appended in the order of the map
UpdatedRows(old) ==
  LET before == [i \in DOMAIN old |-> old[i].pid]
      pids   == Staying(before, DOMAIN listed) \o Ascending(DOMAIN listed \ Range(before))
  IN [i \in DOMAIN pids |-> [pid |-> pids[i], gen |-> listed[pids[i]]]]

\* updateProcessListDelay
UpdateProcessListDelay ==
  /\ updates > 0
  /\ updates' = updates - 1
  /\ rows' = UpdatedRows(rows)
  /\ LET shown == {r.pid : r \in ToSet(rows')} \ hidden IN
     /\ \E sel \in Moved(shown) : Highlight(Reselected(shown, sel))
     /\ dialog' = [dialog EXCEPT !.kept = @ /\ dialog.pid \in shown]
  /\ UNCHANGED <<gen, listed, hidden, menu, barred, guarded, scans>> /\ Quiet

\* onSearch: the proxy hides and shows rows
Search(pids) ==
  /\ ~Modal /\ ~menu
  /\ hidden' = pids
  /\ \E sel \in Moved(RowPids \ pids) : Highlight(sel)
  /\ UNCHANGED <<gen, listed, rows, updates, ui, guarded, scans>> /\ Quiet

\* selectionChanged, by a click or a key
Select(p) ==
  /\ ~Modal /\ ~menu /\ p \in Visible
  /\ current' = p /\ selectedPID' = p
  /\ UNCHANGED <<gen, listed, rows, updates, hidden, ui, guarded, scans>> /\ Quiet

\* selectionChanged returns early when nothing is selected
Deselect ==
  /\ ~Modal /\ ~menu
  /\ current' = NoPid
  /\ UNCHANGED <<gen, listed, rows, updates, hidden, selectedPID, ui, guarded, scans>> /\ Quiet

-----------------------------------------------------------------------------
(***************************************************************************)
(* The operations.                                                         *)
(***************************************************************************)
\* isProtectedProc with the arguments of getProcessById: without a row these are
\* empty, and every path of the list contains the empty string
IsProtected(p) ==
  /\ guarded
  /\ p \in DOMAIN listed => <<p, listed[p]>> \in Protected

\* kill(2), or pkexec kill or renice
Operate(kind, p) == sent' = [kind |-> kind, pid |-> p, gen |-> gen[p]]

Others == UNCHANGED <<gen, listed, rows, updates, view, guarded, scans>>
Steady == Others /\ UNCHANGED barred

\* nothing enables the priority entries again
DisplayProcessTableContextMenu ==
  /\ ~Modal /\ ~menu /\ current # NoPid /\ selectedPID # NoPid
  /\ menu' = TRUE
  /\ barred' = (barred \/ selectedPID \notin DOMAIN listed)
  /\ UNCHANGED dialog /\ Quiet /\ Others

CloseMenu ==
  /\ menu /\ menu' = FALSE
  /\ UNCHANGED dialog /\ Quiet /\ Steady

StopProcesses ==
  /\ menu /\ menu' = FALSE
  /\ selectedPID # Own /\ ~IsProtected(selectedPID)
  /\ Operate("stop", selectedPID)
  /\ UNCHANGED dialog /\ Steady

ContinueProcesses ==
  /\ menu /\ menu' = FALSE
  /\ Operate("continue", selectedPID)
  /\ UNCHANGED dialog /\ Steady

\* MyDialog and ReniceDialog name the selected process when they are made
Named(kind) == [NoDialog EXCEPT !.kind = kind, !.pid = selectedPID,
                                !.kept = selectedPID \in Visible]
MyDialog(kind) == Named(kind)
ReniceDialog == Named("renice")

\* showEndProcessDialog, showKillProcessDialog
ShowDialog(kind) ==
  /\ menu /\ menu' = FALSE
  /\ selectedPID \in DOMAIN listed /\ ~IsProtected(selectedPID)
  /\ dialog' = MyDialog(kind)
  /\ Quiet /\ Steady

\* changeProcPriority(32)
ShowReniceDialog ==
  /\ menu /\ ~barred /\ menu' = FALSE
  /\ selectedPID \in DOMAIN listed
  /\ dialog' = ReniceDialog
  /\ Quiet /\ Steady

\* the process whose values a new properties dialog shows, if it is listed
InitProcproperties(p) == IF p \in DOMAIN listed THEN listed[p] ELSE 0

ProcPropertiesDlg(p) == [Named("properties") EXCEPT !.name = InitProcproperties(p),
                                                    !.times = InitProcproperties(p)]

\* asks for no row
ShowPropertiesDialog ==
  /\ menu /\ menu' = FALSE
  /\ dialog' = ProcPropertiesDlg(selectedPID)
  /\ Quiet /\ Steady

\* the dialog's timer: only the times are read again, into a list of values that
\* is empty, and indexed all the same, if the dialog was opened with nothing to show
RefreshProcproperties ==
  /\ dialog.kind = "properties" /\ dialog.pid \in DOMAIN listed
  /\ dialog' = IF dialog.name = 0 THEN [dialog EXCEPT !.kind = "broken"]
               ELSE [dialog EXCEPT !.times = listed[dialog.pid]]
  /\ UNCHANGED menu /\ Quiet /\ Steady

\* without asking for the protection a second time (a mutant)
MayOperateUnchecked(kind) == kind = "renice" => selectedPID \in DOMAIN listed

\* what endProcesses, killProcesses and changeProcPriority ask before they act
MayOperate(kind) ==
  IF kind = "renice" THEN selectedPID \in DOMAIN listed ELSE ~IsProtected(selectedPID)

\* an entry of the priority menu
ChangeProcPriority ==
  /\ menu /\ ~barred /\ menu' = FALSE
  /\ MayOperate("renice") /\ Operate("renice", selectedPID)
  /\ UNCHANGED dialog /\ Steady

\* endDialogButtonClicked, killDialogButtonClicked: MyDialog closes, then acts;
\* the renice dialog stays open
Confirm ==
  /\ dialog.kind \in {"end", "kill", "renice"}
  /\ dialog' = IF dialog.kind = "renice" THEN dialog ELSE NoDialog
  /\ IF MayOperate(dialog.kind) THEN Operate(dialog.kind, selectedPID) ELSE Quiet
  /\ UNCHANGED menu /\ Steady

\* a button that does not act, OK or the corner of any dialog
Cancel ==
  /\ Modal /\ dialog.kind # "broken" /\ dialog' = NoDialog
  /\ UNCHANGED menu /\ Quiet /\ Steady

User ==
  \/ \E pids \in SUBSET Pids : Search(pids)
  \/ \E p \in Pids : Select(p)
  \/ Deselect \/ DisplayProcessTableContextMenu \/ CloseMenu
  \/ StopProcesses \/ ContinueProcesses \/ ChangeProcPriority
  \/ \E kind \in {"end", "kill"} : ShowDialog(kind)
  \/ ShowReniceDialog \/ ShowPropertiesDialog \/ Confirm \/ Cancel

Next ==
  \/ \E p \in Pids : Renew(p)
  \/ \E pids \in SUBSET Pids : Scan(pids)
  \/ Guard \/ UpdateProcessListDelay \/ RefreshProcproperties \/ User

\* the event loop runs posted events
Spec == Init /\ [][Next]_vars /\ WF_vars(UpdateProcessListDelay)
-----------------------------------------------------------------------------
TypeOK ==
  /\ gen \in [Pids -> 0 .. MaxGen]
  /\ DOMAIN listed \subseteq Pids /\ \A p \in DOMAIN listed : listed[p] \in 1 .. gen[p]
  /\ rows \in Seq([pid: Pids, gen: 1 .. MaxGen])
  /\ updates \in 0 .. MaxUpdates /\ scans \in 0 .. MaxScans
  /\ hidden \subseteq Pids
  /\ current \in Pids \cup {NoPid} /\ selectedPID \in Pids \cup {NoPid}
  /\ menu \in BOOLEAN /\ barred \in BOOLEAN /\ guarded \in BOOLEAN
  /\ dialog \in [kind: {"end", "kill", "renice", "properties", "broken"}, pid: Pids,
                 kept: BOOLEAN, name: 0 .. MaxGen, times: 0 .. MaxGen] \cup {NoDialog}

(***************************************************************************)
(* With no update posted the table shows the list: each of its processes   *)
(* once, as the last scan found it, and nothing else; and at any time no   *)
(* pid has two rows.                                                       *)
(***************************************************************************)
RowsMatchList ==
  /\ \A i, j \in DOMAIN rows : rows[i].pid = rows[j].pid => i = j
  /\ updates = 0 =>
       ToSet(rows) = {[pid |-> p, gen |-> listed[p]] : p \in DOMAIN listed}

(***************************************************************************)
(* What the menu acts on is what the user sees highlighted: a highlighted  *)
(* row is visible and m_selectedPID is its pid, whatever moved it there.   *)
(***************************************************************************)
HighlightIsTarget ==
  current # NoPid => current \in Visible /\ selectedPID = current

(***************************************************************************)
(* As long as the row of the process that a dialog names is shown without  *)
(* a break, no update of the table, insertion, removal or change of order  *)
(* of other rows turns the dialog on another process.                      *)
(***************************************************************************)
SteadyDialogTarget == dialog.kept => selectedPID = dialog.pid

(***************************************************************************)
(* The timer of a properties dialog finds the values it writes over, as    *)
(* long as the row of its process is shown without a break: a dialog that  *)
(* opens with nothing to show is of a pid whose row is about to go.        *)
(***************************************************************************)
PropertiesFilled == dialog.kept => dialog.kind # "broken"

\* Both, of every dialog whose row stays.
DialogHolds == SteadyDialogTarget /\ PropertiesFilled

(***************************************************************************)
(* No process whose row is on the protected list is stopped, ended or      *)
(* killed while the protection is on: also when the selection has moved    *)
(* to it, or the protection has been switched on, after the dialog's own   *)
(* check.                                                                  *)
(***************************************************************************)
ProtectedNotSignalled ==
  [][sent' # NotSent /\ sent'.kind \in {"stop", "end", "kill"} /\ guarded =>
       /\ sent'.pid \in DOMAIN listed
       /\ <<sent'.pid, listed[sent'.pid]>> \notin Protected]_vars

(***************************************************************************)
(* A process that has left the list for good leaves the table, and one     *)
(* that stays in the list gets a row that stays.                           *)
(***************************************************************************)
RowsCatchUp ==
  \A p \in Pids :
    /\ <>[](p \notin DOMAIN listed) => <>[](p \notin RowPids)
    /\ <>[](p \in DOMAIN listed) => <>[](p \in RowPids)

(***************************************************************************)
(* What the text of the dialogs says (processtableview.cpp:683 and 712):   *)
(* the process that is ended or killed is the one with the pid named.      *)
(***************************************************************************)
DialogActsOnNamed ==
  [][Modal /\ sent' # NotSent => sent'.pid = dialog.pid]_vars
=============================================================================
