------------------------- MODULE ProcessTableProofs -------------------------
(***************************************************************************)
(* What holds of the process table for any set of pids, any rows and any   *)
(* number of scans and updates: the selection, which depends on nothing    *)
(* but the set of rows; the protected list; the rows themselves; the       *)
(* dialogs.  Then the texts of the cells, of both tables, for any figures, *)
(* and what rests on the same texts: the figures and charts of the         *)
(* resource page.                                                          *)
(***************************************************************************)
EXTENDS MCProcessTable, Resources, Lemmas

\* What the user does in the table, and what he does in a menu or a dialog.
InTable  == (\E pids \in SUBSET Pids : Search(pids)) \/ (\E p \in Pids : Select(p)) \/ Deselect
InMenu   == DisplayProcessTableContextMenu \/ CloseMenu \/ StopProcesses
            \/ ContinueProcesses \/ ChangeProcPriority
InDialog == (\E kind \in {"end", "kill"} : ShowDialog(kind))
            \/ ShowReniceDialog \/ ShowPropertiesDialog \/ Confirm \/ Cancel
Around   == (\E p \in Pids : Renew(p)) \/ (\E pids \in SUBSET Pids : Scan(pids)) \/ Guard

LEMMA Transitions ==
  ASSUME [Next]_vars
  PROVE  \/ Around \/ UpdateProcessListDelay \/ RefreshProcproperties
         \/ InTable \/ InMenu \/ InDialog \/ UNCHANGED vars
BY DEF Next, User, Around, InTable, InMenu, InDialog

\* Neither a menu nor a dialog moves the highlight, nor what is listed.
LEMMA ViewStays ==
  ASSUME Around \/ RefreshProcproperties \/ InMenu \/ InDialog \/ UNCHANGED vars
  PROVE  UNCHANGED <<rows, view>>
<1>1. CASE Around \/ UNCHANGED vars
  BY <1>1 DEF Around, Renew, Scan, Guard, vars
<1>2. CASE RefreshProcproperties \/ InMenu
  BY <1>2 DEF RefreshProcproperties, InMenu, DisplayProcessTableContextMenu, CloseMenu,
              StopProcesses, ContinueProcesses, ChangeProcPriority, Others, Steady
<1>3. CASE InDialog
  BY <1>3 DEF InDialog, ShowDialog, ShowReniceDialog, ShowPropertiesDialog,
              Confirm, Cancel, Others, Steady
<1> QED
  BY <1>1, <1>2, <1>3

-----------------------------------------------------------------------------
(***************************************************************************)
(* The highlight.                                                          *)
(***************************************************************************)
\* Whatever rows are left, Qt and the handler of modelUpdated leave the
\* highlight on a row that is shown and m_selectedPID with it.
LEMMA SelectionMoves ==
  ASSUME HighlightIsTarget, NEW shown, NEW sel \in Moved(shown)
  PROVE  \A s \in {sel, Reselected(shown, sel)} : s[1] # NoPid => s[1] \in shown /\ s[2] = s[1]
<1>1. CASE sel = <<current, selectedPID>> /\ (current = NoPid \/ current \in shown)
  BY <1>1 DEF HighlightIsTarget, Reselected
<1>2. CASE \E p \in shown : sel = <<p, p>>
  BY <1>2 DEF Reselected
<1>3. CASE \E p \in Visible : sel = <<NoPid, p>>
  BY <1>3 DEF Reselected
<1> QED
  BY <1>1, <1>2, <1>3 DEF Moved, Neighbours

LEMMA HighlightInductive ==
  ASSUME HighlightIsTarget, [Next]_vars PROVE HighlightIsTarget'
<1>1. CASE UNCHANGED <<rows, view>>
  BY <1>1 DEF view, HighlightIsTarget, Visible, RowPids
<1>2. CASE UpdateProcessListDelay
  <2> DEFINE shown == {r.pid : r \in ToSet(rows')} \ hidden
  <2>1. PICK sel \in Moved(shown) : Highlight(Reselected(shown, sel))
    BY <1>2 DEF UpdateProcessListDelay
  <2>2. Visible' = shown
    BY <1>2 DEF UpdateProcessListDelay, Visible, RowPids
  <2> HIDE DEF shown
  <2> QED
    BY <2>1, <2>2, SelectionMoves DEF Highlight, HighlightIsTarget
<1>3. CASE \E pids \in SUBSET Pids : Search(pids)
  <2>1. PICK pids \in SUBSET Pids : Search(pids)
    BY <1>3
  <2>2. PICK sel \in Moved(RowPids \ pids) : Highlight(sel)
    BY <2>1 DEF Search
  <2>3. Visible' = RowPids \ pids
    BY <2>1 DEF Search, Visible, RowPids
  <2> QED
    BY <2>2, <2>3, SelectionMoves DEF Highlight, HighlightIsTarget
<1>4. CASE (\E p \in Pids : Select(p)) \/ Deselect
  BY <1>4 DEF Select, Deselect, HighlightIsTarget, Visible, RowPids
<1> QED
  BY <1>1, <1>2, <1>3, <1>4, Transitions, ViewStays DEF InTable

\* What a menu acts on is the row the user sees highlighted, however the rows
\* came, went and were hidden.
THEOREM HighlightIsTargetAlways == Spec => []HighlightIsTarget
<1>1. Init => HighlightIsTarget
  BY DEF Init, HighlightIsTarget
<1>2. HighlightIsTarget /\ [Next]_vars => HighlightIsTarget'
  BY HighlightInductive
<1> QED
  BY <1>1, <1>2, PTL DEF Spec

-----------------------------------------------------------------------------
(***************************************************************************)
(* The dialogs.  That m_selectedPID stays is not inductive: it stays       *)
(* because its row is shown, so that the view highlights it again.         *)
(***************************************************************************)
IsDialog ==
  /\ dialog = [k \in DOMAIN dialog |-> dialog[k]]
  /\ {"pid", "kept"} \subseteq DOMAIN dialog
KeptOnTarget == dialog.kept => selectedPID = dialog.pid /\ dialog.pid \in Visible

LEMMA KeptInductive ==
  ASSUME HighlightIsTarget, IsDialog, KeptOnTarget, [Next]_vars
  PROVE  IsDialog' /\ KeptOnTarget'
<1>1. CASE UNCHANGED <<rows, view, dialog>>
  BY <1>1 DEF view, IsDialog, KeptOnTarget, Visible, RowPids
<1>2. CASE UpdateProcessListDelay
  <2> DEFINE shown == {r.pid : r \in ToSet(rows')} \ hidden
  <2>1. PICK sel \in Moved(shown) : Highlight(Reselected(shown, sel))
    BY <1>2 DEF UpdateProcessListDelay
  <2>2. Visible' = shown /\ dialog' = [dialog EXCEPT !.kept = @ /\ dialog.pid \in shown]
    BY <1>2 DEF UpdateProcessListDelay, Visible, RowPids
  <2> HIDE DEF shown
  <2>3. IsDialog' /\ dialog'.pid = dialog.pid
    BY <2>2 DEF IsDialog
  <2>4. ASSUME dialog'.kept PROVE dialog.kept /\ dialog.pid \in shown
    BY <2>2, <2>4 DEF IsDialog
  <2>5. ASSUME dialog.kept, dialog.pid \in shown PROVE selectedPID' = dialog.pid
    <3>1. selectedPID = dialog.pid /\ (current = NoPid \/ current \in shown)
      BY <2>5 DEF KeptOnTarget, HighlightIsTarget
    <3>2. sel = <<current, selectedPID>>
      BY <3>1, <2>1 DEF Moved
    <3> QED
      BY <2>1, <2>5, <3>1, <3>2 DEF Reselected, Highlight
  <2> QED
    BY <2>2, <2>3, <2>4, <2>5 DEF KeptOnTarget
<1>3. CASE dialog' = NoDialog
  BY <1>3 DEF NoDialog, IsDialog, KeptOnTarget
<1>4. CASE InTable
  <2>1. dialog = NoDialog /\ dialog' = dialog
    BY <1>4 DEF InTable, Search, Select, Deselect, Modal, ui
  <2> QED
    BY <1>3, <2>1
<1>5. CASE RefreshProcproperties
  <2>1. IsDialog' /\ dialog'.pid = dialog.pid /\ dialog'.kept = dialog.kept
    BY <1>5 DEF RefreshProcproperties, IsDialog
  <2> QED
    BY <1>5, <2>1, ViewStays DEF KeptOnTarget, Visible, RowPids, view
<1>6. CASE (\E kind \in {"end", "kill"} : ShowDialog(kind)) \/ ShowReniceDialog
           \/ ShowPropertiesDialog
  <2>1. IsDialog' /\ dialog'.pid = selectedPID /\ dialog'.kept = (selectedPID \in Visible)
    BY <1>6 DEF ShowDialog, ShowReniceDialog, ShowPropertiesDialog, MyDialog, ReniceDialog,
                ProcPropertiesDlg, Named, NoDialog, IsDialog
  <2> QED
    BY <1>6, <2>1, ViewStays DEF InDialog, KeptOnTarget, Visible, RowPids, view
<1>7. CASE Around \/ InMenu \/ UNCHANGED vars
  BY <1>1, <1>7, ViewStays
     DEF Around, Renew, Scan, Guard, InMenu, DisplayProcessTableContextMenu, CloseMenu,
         StopProcesses, ContinueProcesses, ChangeProcPriority, ui, vars
<1>8. CASE Confirm \/ Cancel
  BY <1>1, <1>3, <1>8, ViewStays DEF InDialog, Confirm, Cancel
<1> QED
  BY <1>2, <1>4, <1>5, <1>6, <1>7, <1>8, Transitions DEF InDialog

\* A dialog whose row has been shown since it was opened acts on the process it
\* names, whatever happens to the other rows.
THEOREM SteadyDialogAlways == Spec => []SteadyDialogTarget
<1> DEFINE Inv == HighlightIsTarget /\ IsDialog /\ KeptOnTarget
<1>1. Init => Inv
  BY DEF Init, HighlightIsTarget, IsDialog, KeptOnTarget, NoDialog
<1>2. Inv /\ [Next]_vars => Inv'
  BY HighlightInductive, KeptInductive
<1>3. Inv => SteadyDialogTarget
  BY DEF KeptOnTarget, SteadyDialogTarget
<1> QED
  BY <1>1, <1>2, <1>3, PTL DEF Spec

-----------------------------------------------------------------------------
(***************************************************************************)
(* The protected list.                                                     *)
(***************************************************************************)
\* The second check is made with the process the signal goes to: no menu and no
\* dialog, however long it has been open, signals a protected process.
THEOREM ProtectedAreSafe == Spec => ProtectedNotSignalled
<1> DEFINE Safe == sent' # NotSent /\ sent'.kind \in {"stop", "end", "kill"} /\ guarded =>
                     /\ sent'.pid \in DOMAIN listed
                     /\ <<sent'.pid, listed[sent'.pid]>> \notin Protected
<1>1. [Next]_vars => [Safe]_vars
  <2> SUFFICES ASSUME [Next]_vars PROVE [Safe]_vars
    OBVIOUS
  <2>1. CASE Quiet
    BY <2>1 DEF Quiet
  <2>2. CASE StopProcesses
    BY <2>2 DEF StopProcesses, IsProtected, Operate
  <2>3. CASE Confirm
    BY <2>1, <2>3 DEF Confirm, MayOperate, IsProtected, Operate
  <2>4. CASE ContinueProcesses \/ ChangeProcPriority
    BY <2>4 DEF ContinueProcesses, ChangeProcPriority, Operate
  <2>5. CASE Around \/ UpdateProcessListDelay \/ RefreshProcproperties \/ InTable
    BY <2>1, <2>5 DEF Around, Renew, Scan, Guard, UpdateProcessListDelay,
                      RefreshProcproperties, InTable, Search, Select, Deselect
  <2>6. CASE DisplayProcessTableContextMenu \/ CloseMenu \/ ShowReniceDialog
             \/ ShowPropertiesDialog \/ Cancel \/ \E kind \in {"end", "kill"} : ShowDialog(kind)
    BY <2>1, <2>6 DEF DisplayProcessTableContextMenu, CloseMenu, ShowReniceDialog,
                      ShowPropertiesDialog, Cancel, ShowDialog
  <2> QED
    BY <2>2, <2>3, <2>4, <2>5, <2>6, Transitions DEF InMenu, InDialog
<1> QED
  BY <1>1, PTL DEF Spec, ProtectedNotSignalled

-----------------------------------------------------------------------------
(***************************************************************************)
(* The rows: those that stay, in their places, and the new ones behind     *)
(* them, are one for each listed process.                                  *)
(***************************************************************************)
Listed == DOMAIN listed \subseteq Pids /\ \A p \in DOMAIN listed : listed[p] \in Nat \ {0}
Rows == [pid: Pids, gen: Nat \ {0}]
OneEach(rs) == \A i, j \in DOMAIN rs : rs[i].pid = rs[j].pid => i = j

LEMMA UpdatedRowsAre ==
  ASSUME Listed, NEW old \in Seq(Rows), OneEach(old)
  PROVE  /\ UpdatedRows(old) \in Seq(Rows) /\ OneEach(UpdatedRows(old))
         /\ ToSet(UpdatedRows(old)) = {[pid |-> p, gen |-> listed[p]] : p \in DOMAIN listed}
<1> DEFINE L      == DOMAIN listed
           olds == [i \in DOMAIN old |-> old[i].pid]
           stay   == Staying(olds, L)
           fresh  == Ascending(L \ Range(olds))
           pids   == stay \o fresh
<1>1. olds \in Seq(Pids) /\ IsInjective(olds)
  <2>1. DOMAIN old = 1 .. Len(old) /\ Len(old) \in Nat /\ \A i \in DOMAIN old : old[i] \in Rows
    OBVIOUS
  <2>2. \A i \in DOMAIN old : old[i].pid \in Pids
    BY <2>1 DEF Rows
  <2> QED
    BY <2>1, <2>2 DEF OneEach, IsInjective
<1>2. L \subseteq Pids /\ Pids \subseteq Nat /\ IsFiniteSet(L \ Range(olds))
  BY ProcessTableAssumption, FS_Subset, FS_Difference DEF Listed
<1> HIDE DEF olds
<1>3. stay \in Seq(Pids) /\ Range(stay) = Range(olds) \cap L /\ IsInjective(stay)
  BY <1>1, StayingIs
<1>4. /\ fresh \in Seq(L \ Range(olds)) /\ Range(fresh) = L \ Range(olds)
      /\ IsInjective(fresh)
  <2>1. L \ Range(olds) \in SUBSET Nat
    BY <1>2
  <2> QED
    BY <1>2, <2>1, AscendingIs
<1>5. fresh \in Seq(Pids)
  BY <1>2, <1>4, SeqMonotonic
<1> HIDE DEF stay, fresh, L
<1>6. pids \in Seq(Pids) /\ Range(pids) = L
  <2>1. pids \in Seq(Pids)
    BY <1>3, <1>5, ConcatProperties
  <2>2. Range(pids) = Range(stay) \cup Range(fresh)
    BY <1>3, <1>5, RangeConcatenation
  <2> QED
    BY <1>3, <1>4, <2>1, <2>2
<1>7. IsInjective(pids)
  <2>1. Range(stay) \cap Range(fresh) = {}
    BY <1>3, <1>4
  <2> QED
    BY <1>3, <1>4, <1>5, <2>1, ConcatInjective
<1> HIDE DEF pids
<1>8. UpdatedRows(old) = [i \in DOMAIN pids |-> [pid |-> pids[i], gen |-> listed[pids[i]]]]
  BY DEF UpdatedRows, pids, stay, fresh, olds, L
<1>9. /\ DOMAIN UpdatedRows(old) = 1 .. Len(pids) /\ DOMAIN pids = 1 .. Len(pids) /\ Len(pids) \in Nat
      /\ \A i \in 1 .. Len(pids) : UpdatedRows(old)[i] = [pid |-> pids[i], gen |-> listed[pids[i]]]
  BY <1>6, <1>8
<1>10. \A i \in 1 .. Len(pids) : pids[i] \in L
  BY <1>6, <1>9 DEF Range
<1>11. UpdatedRows(old) \in Seq(Rows)
  <2>1. \A i \in 1 .. Len(pids) : UpdatedRows(old)[i] \in Rows
    BY <1>2, <1>9, <1>10 DEF Rows, Listed, L
  <2>2. UpdatedRows(old) = [i \in 1 .. Len(pids) |-> UpdatedRows(old)[i]]
    BY <1>8, <1>9
  <2> QED
    BY <1>9, <2>1, <2>2
<1>12. OneEach(UpdatedRows(old))
  BY <1>7, <1>9 DEF OneEach, IsInjective
<1>13. ToSet(UpdatedRows(old)) = {[pid |-> p, gen |-> listed[p]] : p \in L}
  <2>1. ToSet(UpdatedRows(old)) = {UpdatedRows(old)[i] : i \in 1 .. Len(pids)}
    BY <1>9 DEF ToSet
  <2>2. \A p \in L : \E i \in 1 .. Len(pids) : pids[i] = p
    BY <1>6, <1>9 DEF Range
  <2> QED
    BY <1>9, <1>10, <2>1, <2>2
<1> QED
  BY <1>11, <1>12, <1>13 DEF L

\* Before the first update, after a scan and after an update; an update that is
\* posted has not been run.
ListInv ==
  /\ gen \in [Pids -> Nat] /\ updates \in Nat
  /\ Listed /\ rows \in Seq(Rows) /\ RowsMatchList

LEMMA ListInductive ==
  ASSUME ListInv, [Next]_vars PROVE ListInv'
<1>1. CASE UNCHANGED <<gen, listed, rows, updates>>
  BY <1>1 DEF ListInv, Listed, RowsMatchList
<1>2. ASSUME NEW p \in Pids, Renew(p) PROVE ListInv'
  <2>1. gen' = [gen EXCEPT ![p] = gen[p] + 1] /\ UNCHANGED <<listed, rows, updates>>
    BY <1>2 DEF Renew
  <2>2. gen' \in [Pids -> Nat]
    BY <2>1 DEF ListInv
  <2> QED
    BY <2>1, <2>2 DEF ListInv, Listed, RowsMatchList
<1>3. ASSUME NEW pids \in SUBSET Pids, Scan(pids) PROVE ListInv'
  <2>1. /\ listed' = [p \in {q \in pids : gen[q] > 0} |-> gen[p]]
        /\ updates' = updates + 1 /\ UNCHANGED <<gen, rows>>
    BY <1>3 DEF Scan
  <2>2. Listed'
    BY <2>1 DEF Listed, ListInv
  <2>3. updates' \in Nat /\ updates' # 0
    BY <2>1 DEF ListInv
  <2> QED
    BY <2>1, <2>2, <2>3 DEF ListInv, RowsMatchList
<1>4. CASE UpdateProcessListDelay
  <2>1. rows' = UpdatedRows(rows) /\ updates' \in Nat /\ UNCHANGED <<gen, listed>>
    BY <1>4 DEF UpdateProcessListDelay, ListInv
  <2>2. rows' \in Seq(Rows) /\ OneEach(rows')
        /\ ToSet(rows') = {[pid |-> p, gen |-> listed[p]] : p \in DOMAIN listed}
    BY <2>1, UpdatedRowsAre DEF ListInv, RowsMatchList, OneEach
  <2> QED
    BY <2>1, <2>2 DEF ListInv, Listed, RowsMatchList, OneEach
<1>5. CASE Guard \/ RefreshProcproperties \/ InTable \/ InMenu \/ InDialog \/ UNCHANGED vars
  <2>1. CASE Guard \/ RefreshProcproperties \/ InTable
    BY <1>1, <2>1 DEF Guard, RefreshProcproperties, InTable, Search, Select, Deselect,
                      Others, Steady
  <2>2. CASE InMenu \/ InDialog
    BY <1>1, <2>2 DEF InMenu, DisplayProcessTableContextMenu, CloseMenu, StopProcesses,
                      ContinueProcesses, ChangeProcPriority, InDialog, ShowDialog,
                      ShowReniceDialog, ShowPropertiesDialog, Confirm, Cancel, Others, Steady
  <2>3. CASE UNCHANGED vars
    BY <1>1, <2>3 DEF vars
  <2> QED
    BY <1>5, <2>1, <2>2, <2>3
<1> QED
  BY <1>2, <1>3, <1>4, <1>5, Transitions DEF Around

LEMMA ListAlways == Spec => []ListInv
<1>1. Init => ListInv
  <2> SUFFICES ASSUME Init PROVE ListInv
    OBVIOUS
  <2>1. gen \in [Pids -> Nat] /\ updates \in Nat /\ Listed /\ rows \in Seq(Rows)
    BY DEF Init, Listed
  <2>2. RowsMatchList
    BY DEF Init, RowsMatchList, ToSet
  <2> QED
    BY <2>1, <2>2 DEF ListInv
<1> QED
  BY <1>1, ListInductive, PTL DEF Spec

\* No pid ever has two rows, and whenever no update is posted there is one row for
\* each process of the list, for any lists and however many scans an update waits for.
THEOREM RowsAlwaysMatch == Spec => []RowsMatchList
<1>1. ListInv => RowsMatchList
  BY DEF ListInv
<1> QED
  BY <1>1, ListAlways, PTL

-----------------------------------------------------------------------------
(***************************************************************************)
(* The properties dialog.  One that opens with nothing to show, of a row   *)
(* whose process is not listed any more, has an update posted that takes   *)
(* the row away, and no scan puts the process back into the list before    *)
(* that update is run: the timer's next scan comes after it.               *)
(***************************************************************************)
EmptyIsGoing ==
  dialog.kept =>
    /\ dialog.kind # "broken"
    /\ dialog.kind = "properties" /\ dialog.name = 0 =>
         dialog.pid \notin DOMAIN listed /\ updates > 0
DialogShape ==
  dialog = [kind |-> dialog.kind, pid |-> dialog.pid, kept |-> dialog.kept,
            name |-> dialog.name, times |-> dialog.times]

LEMMA FilledInductive ==
  ASSUME ListInv, DialogShape, EmptyIsGoing, [Next]_vars PROVE DialogShape' /\ EmptyIsGoing'
<1>1. CASE UNCHANGED <<dialog, listed, updates>>
  BY <1>1 DEF DialogShape, EmptyIsGoing
<1>2. CASE dialog' = NoDialog
  BY <1>2 DEF DialogShape, EmptyIsGoing, NoDialog
<1>3. ASSUME NEW pids \in SUBSET Pids, Scan(pids) PROVE DialogShape' /\ EmptyIsGoing'
  <2>1. dialog' = dialog /\ updates' = updates + 1 /\ (updates > 0 => dialog = NoDialog)
    BY <1>3 DEF Scan, ui, Modal
  <2>2. CASE dialog = NoDialog
    BY <1>2, <2>1, <2>2
  <2>3. CASE ~(updates > 0)
    BY <2>1, <2>3 DEF DialogShape, EmptyIsGoing
  <2> QED
    BY <2>1, <2>2, <2>3
<1>4. CASE UpdateProcessListDelay
  <2> DEFINE shown == {r.pid : r \in ToSet(rows')} \ hidden
  <2>1. /\ rows' = UpdatedRows(rows) /\ listed' = listed
        /\ dialog' = [dialog EXCEPT !.kept = @ /\ dialog.pid \in shown]
    BY <1>4 DEF UpdateProcessListDelay
  <2>2. ToSet(rows') = {[pid |-> p, gen |-> listed[p]] : p \in DOMAIN listed}
    BY <2>1, UpdatedRowsAre DEF ListInv, RowsMatchList, OneEach
  <2>3. shown \subseteq DOMAIN listed
    BY <2>2
  <2> HIDE DEF shown
  <2>4. /\ DialogShape' /\ dialog'.kind = dialog.kind /\ dialog'.name = dialog.name
        /\ dialog'.pid = dialog.pid
        /\ dialog'.kept => dialog.kept /\ dialog.pid \in shown
    BY <2>1 DEF DialogShape
  <2> QED
    BY <2>1, <2>3, <2>4 DEF EmptyIsGoing
<1>5. CASE RefreshProcproperties
  <2>1. /\ dialog.kind = "properties" /\ dialog.pid \in DOMAIN listed
        /\ UNCHANGED <<listed, updates>>
        /\ dialog' = IF dialog.name = 0 THEN [dialog EXCEPT !.kind = "broken"]
                     ELSE [dialog EXCEPT !.times = listed[dialog.pid]]
    BY <1>5 DEF RefreshProcproperties, Others, Steady
  <2>2. CASE dialog.name = 0
    <3>1. ~dialog.kept
      BY <2>1, <2>2 DEF EmptyIsGoing
    <3>2. DialogShape' /\ dialog'.kept = dialog.kept
      BY <2>1, <2>2 DEF DialogShape
    <3> QED
      BY <3>1, <3>2 DEF EmptyIsGoing
  <2>3. CASE dialog.name # 0
    <3>1. /\ DialogShape' /\ dialog'.kept = dialog.kept /\ dialog'.kind = dialog.kind
          /\ dialog'.name = dialog.name
      BY <2>1, <2>3 DEF DialogShape
    <3> QED
      BY <2>3, <3>1 DEF EmptyIsGoing
  <2> QED
    BY <2>2, <2>3
<1>6. CASE (\E kind \in {"end", "kill"} : ShowDialog(kind)) \/ ShowReniceDialog
  <2>1. DialogShape' /\ dialog'.kind \in {"end", "kill", "renice"}
    BY <1>6 DEF ShowDialog, ShowReniceDialog, MyDialog, ReniceDialog, Named, NoDialog, DialogShape
  <2> QED
    BY <2>1 DEF EmptyIsGoing
<1>7. CASE ShowPropertiesDialog
  <2>1. dialog' = ProcPropertiesDlg(selectedPID) /\ UNCHANGED <<listed, updates>>
    BY <1>7 DEF ShowPropertiesDialog, Others, Steady
  <2>2. /\ DialogShape' /\ dialog'.kind = "properties" /\ dialog'.pid = selectedPID
        /\ dialog'.kept = (selectedPID \in Visible)
        /\ dialog'.name = InitProcproperties(selectedPID)
    BY <2>1 DEF ProcPropertiesDlg, Named, NoDialog, DialogShape
  <2>3. ASSUME selectedPID \in Visible, InitProcproperties(selectedPID) = 0
        PROVE  selectedPID \notin DOMAIN listed /\ updates > 0
    <3>1. selectedPID \notin DOMAIN listed
      BY <2>3 DEF InitProcproperties, ListInv, Listed
    <3>2. selectedPID \in {r.pid : r \in ToSet(rows)}
      BY <2>3 DEF Visible, RowPids
    <3>3. updates # 0
      BY <3>1, <3>2 DEF ListInv, RowsMatchList
    <3> QED
      BY <3>1, <3>3 DEF ListInv
  <2> QED
    BY <2>1, <2>2, <2>3 DEF EmptyIsGoing
<1>8. CASE InTable \/ InMenu \/ Guard \/ (\E p \in Pids : Renew(p)) \/ UNCHANGED vars
  <2>1. CASE InTable \/ Guard \/ (\E p \in Pids : Renew(p)) \/ UNCHANGED vars
    BY <1>1, <2>1 DEF InTable, Search, Select, Deselect, Guard, Renew, ui, vars
  <2>2. CASE InMenu
    BY <1>1, <2>2 DEF InMenu, DisplayProcessTableContextMenu, CloseMenu, StopProcesses,
                      ContinueProcesses, ChangeProcPriority, Others, Steady
  <2> QED
    BY <1>8, <2>1, <2>2
<1>9. CASE Confirm \/ Cancel
  BY <1>1, <1>2, <1>9 DEF Confirm, Cancel, Others, Steady
<1> QED
  BY <1>3, <1>4, <1>5, <1>6, <1>7, <1>8, <1>9, Transitions DEF Around, InDialog

\* A dialog whose row has been shown since it was opened acts on the process it
\* names, and its timer finds the values it writes over.
THEOREM DialogAlwaysHolds == Spec => []DialogHolds
<1> DEFINE Inv == DialogShape /\ EmptyIsGoing
<1>1. Init => Inv
  BY DEF Init, NoDialog, DialogShape, EmptyIsGoing
<1>2. ListInv /\ Inv /\ [Next]_vars => Inv'
  BY FilledInductive
<1>3. Inv => PropertiesFilled
  BY DEF EmptyIsGoing, PropertiesFilled
<1> QED
  BY <1>1, <1>2, <1>3, ListAlways, SteadyDialogAlways, PTL DEF Spec, DialogHolds

-----------------------------------------------------------------------------
(***************************************************************************)
(* The texts of the cells.                                                 *)
(***************************************************************************)
LEMMA PowerIs ==
  /\ Power \in [0 .. 4 -> Nat \ {0}] /\ Power[0] = 1
  /\ \A k \in 1 .. 4 : Power[k] = KILO * Power[k - 1]
<1> DEFINE V == Nat \ {0}
           step == [n \in 1 .. 4 |-> [x \in V |-> KILO * x]]
<1>1. step \in [1 .. 4 -> [V -> V]] /\ 1 \in V /\ 4 \in Nat
  BY FiguresAssumption
<1>2. ASSUME NEW n \in 1 .. 4, NEW x \in V PROVE step[n][x] = KILO * x
  OBVIOUS
<1>3. ASSUME NEW x \in V PROVE KILO * x \in V
  BY FiguresAssumption
<1> HIDE DEF V, step
<1>4. PICK f \in [0 .. 4 -> V] : Goes(f, 4, 1, step)
  BY <1>1, StepsExist
<1>5. \A n \in 0 .. 4 : f[n] \in V
  BY <1>4
<1>6. ASSUME NEW n \in 0 .. 4, n # 0 PROVE step[n][f[n - 1]] = KILO * f[n - 1]
  BY <1>2, <1>5, <1>6
<1>7. f = [n \in 0 .. 4 |-> IF n = 0 THEN 1 ELSE KILO * f[n - 1]]
  BY <1>4, <1>6 DEF Goes
<1>8. Power = [n \in 0 .. 4 |-> IF n = 0 THEN 1 ELSE KILO * Power[n - 1]]
  BY <1>7 DEF Power
<1>9. Power[0] = 1 /\ \A k \in 1 .. 4 : Power[k] = KILO * Power[k - 1]
  BY <1>8
<1>10. 1 \in V /\ Power[0] \in V /\ Power[1] \in V /\ Power[2] \in V /\ Power[3] \in V /\ Power[4] \in V
  BY <1>1, <1>3, <1>9
<1>11. \A k \in 0 .. 4 : Power[k] \in V
  BY <1>10
<1> QED
  BY <1>8, <1>9, <1>11 DEF V

\* %.1f never goes down, is off by half a tenth at most, and a value that reaches
\* a unit, or does not reach KILO of them, says so.
LEMMA TenthsRise ==
  ASSUME NEW v \in Nat, NEW w \in Nat, v <= w, NEW unit \in Nat \ {0}
  PROVE  Tenths(v, unit) \in Nat /\ Tenths(v, unit) <= Tenths(w, unit)
<1> DEFINE q == (10 * v) \div unit  r == (10 * v) % unit
           p == (10 * w) \div unit  s == (10 * w) % unit
<1>1. 10 * v \in Nat /\ 10 * w \in Nat /\ 10 * v <= 10 * w
  OBVIOUS
<1>2. q \in Nat /\ r \in Nat /\ p \in Nat /\ s \in Nat
  BY <1>1, DivMod
<1>3. q <= p /\ (q = p => r <= s)
  BY <1>1, DivRises
<1>4. Tenths(v, unit) = (IF 2 * r > unit \/ (2 * r = unit /\ q % 2 = 1) THEN q + 1 ELSE q)
  BY DEF Tenths
<1>5. Tenths(w, unit) = (IF 2 * s > unit \/ (2 * s = unit /\ p % 2 = 1) THEN p + 1 ELSE p)
  BY DEF Tenths
<1> HIDE DEF q, r, p, s
<1>6. CASE q = p
  BY <1>2, <1>3, <1>4, <1>5, <1>6
<1>7. CASE q # p
  BY <1>2, <1>3, <1>4, <1>5, <1>7
<1> QED
  BY <1>6, <1>7

LEMMA TenthsBetween ==
  ASSUME NEW v \in Nat, NEW unit \in Nat \ {0}, NEW m \in Nat
  PROVE  /\ v >= m * unit => Tenths(v, unit) >= 10 * m
         /\ v < m * unit => Tenths(v, unit) <= 10 * m
<1> DEFINE q == (10 * v) \div unit  r == (10 * v) % unit
<1>1. q \in Nat /\ r \in Nat /\ r < unit /\ 10 * v = unit * q + r
  BY DivMod
<1>2. Tenths(v, unit) \in {q, q + 1}
  BY DEF Tenths
<1> HIDE DEF q, r
<1>3. ASSUME v >= m * unit, q < 10 * m PROVE FALSE
  <2>1. unit * (q + 1) <= unit * (10 * m)
    BY <1>1, <1>3
  <2>2. unit * (q + 1) = unit * q + unit /\ unit * (10 * m) = 10 * (m * unit)
    BY <1>1
  <2>3. m * unit \in Nat /\ unit * q \in Nat
    BY <1>1
  <2> HIDE DEF q
  <2> QED
    BY <1>1, <1>3, <2>1, <2>2, <2>3
<1>4. ASSUME v < m * unit, q + 1 > 10 * m PROVE FALSE
  <2>1. unit * q >= unit * (10 * m)
    BY <1>1, <1>4
  <2>2. unit * (10 * m) = 10 * (m * unit)
    BY <1>1
  <2>3. m * unit \in Nat /\ unit * q \in Nat
    BY <1>1
  <2> QED
    BY <1>1, <1>4, <2>1, <2>2, <2>3
<1> QED
  BY <1>1, <1>2, <1>3, <1>4

LEMMA PowersRise ==
  ASSUME NEW j \in 0 .. 4, NEW k \in 0 .. 4, j <= k
  PROVE  Power[j] <= Power[k]
<1>1. ASSUME NEW n \in 1 .. 4 PROVE Power[n - 1] \in Nat /\ Power[n] \in Nat /\ Power[n - 1] <= Power[n]
  <2>1. Power[n - 1] \in Nat \ {0} /\ Power[n] \in Nat /\ Power[n] = KILO * Power[n - 1]
    BY PowerIs
  <2> DEFINE p == Power[n - 1]
  <2>2. KILO \in Nat /\ KILO >= 1 /\ p \in Nat
    BY <2>1, FiguresAssumption
  <2>3. p <= KILO * p
    <3> HIDE DEF p
    <3> QED
      BY <2>2
  <2> QED
    BY <2>1, <2>3
<1>2. /\ Power[0] <= Power[1] /\ Power[1] <= Power[2] /\ Power[2] <= Power[3] /\ Power[3] <= Power[4]
      /\ Power[0] \in Nat /\ Power[1] \in Nat /\ Power[2] \in Nat /\ Power[3] \in Nat /\ Power[4] \in Nat
  <2>1. /\ 1 \in 1 .. 4 /\ 2 \in 1 .. 4 /\ 3 \in 1 .. 4 /\ 4 \in 1 .. 4
        /\ 1 - 1 = 0 /\ 2 - 1 = 1 /\ 3 - 1 = 2 /\ 4 - 1 = 3
    OBVIOUS
  <2> QED
    BY <1>1, <2>1
<1>3. (j = 0 \/ j = 1 \/ j = 2 \/ j = 3 \/ j = 4) /\ (k = 0 \/ k = 1 \/ k = 2 \/ k = 3 \/ k = 4)
  OBVIOUS
<1> QED
  BY <1>2, <1>3

\* a unit that a value is shown in: the value reaches it or it is the first, and
\* does not reach the next or it is the last
Reached(v, k, first, last) ==
  (k = first \/ v >= Power[k]) /\ (k = last \/ v < Power[k + 1])

LEMMA UnitIs ==
  ASSUME NEW v \in Nat, NEW first \in 0 .. 4, NEW last \in first .. 4
  PROVE  \E k \in first .. last : Reached(v, k, first, last) /\ UnitOf(v, first, last) = Power[k]
<1> DEFINE T == {k \in first .. last : k = first \/ v >= Power[k]}
<1>1. T \in SUBSET (0 .. 4) /\ T # {} /\ 4 \in Nat
  <2>1. first \in T
    OBVIOUS
  <2> QED
    BY <2>1
<1>2. PICK k \in T : \A m \in T : m <= k
  <2> HIDE DEF T
  <2> QED
    BY <1>1, GreatestNumber
<1>3. k \in first .. last /\ k \in Int /\ (k = first \/ v >= Power[k])
  OBVIOUS
<1>4. ASSUME k # last PROVE v < Power[k + 1]
  <2>1. k + 1 \in first .. last /\ k + 1 \in 0 .. 4 /\ ~(k + 1 <= k)
    BY <1>3, <1>4
  <2>2. k + 1 \notin T
    BY <1>2, <2>1
  <2>3. Power[k + 1] \in Nat
    BY <2>1, PowerIs
  <2> QED
    BY <2>1, <2>2, <2>3
<1>5. Reached(v, k, first, last)
  BY <1>3, <1>4 DEF Reached
<1> DEFINE c == CHOOSE n \in first .. last : Reached(v, n, first, last)
<1>6. c \in first .. last /\ Reached(v, c, first, last)
  BY <1>3, <1>5
<1>7. UnitOf(v, first, last) = Power[c]
  BY DEF UnitOf, Reached
<1> QED
  BY <1>6, <1>7

\* A larger figure never reads less, also across a change of unit.
LEMMA ReadingRises ==
  ASSUME NEW v \in Nat, NEW w \in Nat, v <= w, NEW first \in 0 .. 4, NEW last \in first .. 4
  PROVE  Reading(Text(v, UnitOf(v, first, last))) <= Reading(Text(w, UnitOf(w, first, last)))
<1>1. PICK k \in first .. last : Reached(v, k, first, last) /\ UnitOf(v, first, last) = Power[k]
  BY UnitIs
<1>2. PICK l \in first .. last : Reached(w, l, first, last) /\ UnitOf(w, first, last) = Power[l]
  BY UnitIs
<1>3. k \in 0 .. 4 /\ l \in 0 .. 4
  OBVIOUS
<1> DEFINE P == Power[k]  Q == Power[l]  x == Tenths(v, P)  y == Tenths(w, Q)
<1>4. P \in Nat \ {0} /\ Q \in Nat \ {0}
  BY <1>3, PowerIs
<1>5. x \in Nat /\ y \in Nat
  BY <1>4, TenthsRise
<1>6. Reading(Text(v, P)) = x * P /\ Reading(Text(w, Q)) = y * Q
  BY DEF Reading, Text
<1>7. x * P <= y * Q
  <2>1. CASE k = l
    <3>1. x <= y /\ P = Q
      BY <1>4, <2>1, TenthsRise
    <3> HIDE DEF x, y, P, Q
    <3> QED
      BY <1>4, <1>5, <3>1
  <2>2. CASE k < l
    <3>1. k + 1 \in 1 .. 4 /\ k + 1 <= l /\ k # last /\ l # first
      BY <1>3, <2>2
    <3> DEFINE R == Power[k + 1]
    <3>2. R = KILO * P /\ R \in Nat /\ R <= Q
      BY <1>3, <3>1, PowerIs, PowersRise
    <3>3. v < R /\ w >= Q
      BY <1>1, <1>2, <3>1 DEF Reached
    <3> HIDE DEF P, Q, R
    <3>4. KILO \in Nat /\ 1 \in Nat
      BY FiguresAssumption
    <3>5. x <= 10 * KILO
      BY <1>4, <3>2, <3>3, <3>4, TenthsBetween
    <3>6. w >= 1 * Q
      BY <1>4, <3>3
    <3>7. y >= 10 * 1
      BY <1>4, <3>4, <3>6, TenthsBetween
    <3> HIDE DEF x, y
    <3>8. x * P <= (10 * KILO) * P /\ (10 * KILO) * P = 10 * R
      BY <1>4, <1>5, <3>2, <3>4, <3>5
    <3>9. y * Q >= 10 * Q /\ y * Q \in Nat /\ x * P \in Nat
      BY <1>4, <1>5, <3>7
    <3> QED
      BY <1>4, <3>2, <3>8, <3>9
  <2>3. CASE k > l
    <3>1. l + 1 \in 0 .. 4 /\ l + 1 <= k /\ l # last /\ k # first
      BY <1>3, <2>3
    <3>2. v >= P /\ w < Power[l + 1]
      BY <1>1, <1>2, <3>1 DEF Reached
    <3>3. Power[l + 1] \in Nat /\ Power[l + 1] <= P
      BY <1>3, <3>1, PowerIs, PowersRise
    <3> HIDE DEF P
    <3> QED
      BY <1>4, <3>2, <3>3
  <2> QED
    BY <1>3, <2>1, <2>2, <2>3
<1> QED
  BY <1>1, <1>2, <1>6, <1>7

LEMMA RowTypes ==
  ASSUME NEW p \in Processes
  PROVE  /\ p.name \in Int /\ p.user \in Int /\ p.pid \in Int /\ p.nice \in -20 .. 19
         /\ p.disk \in Nat /\ p.cpu \in Nat /\ p.flow \in Nat /\ p.memory \in Nat
         /\ p.flow \div KILO \in Nat
         /\ p["name"] = p.name /\ p["user"] = p.user /\ p["pid"] = p.pid /\ p["disk"] = p.disk
         /\ p["memory"] = p.memory
<1>1. /\ {p.name, p.user, p.pid} \subseteq Int /\ {p.disk, p.cpu, p.flow, p.memory} \subseteq Nat
      /\ p.nice \in -20 .. 19
  BY CellsAssumption
<1>2. p.flow \in Nat /\ KILO \in Nat \ {0}
  BY <1>1, FiguresAssumption
<1>3. p.flow \div KILO \in Nat
  BY <1>2, DivMod
<1> QED
  BY <1>1, <1>3

\* what a column but the priority is sorted by: a first and a second figure
Key(p, column) ==
  CASE column = "name" -> <<p.name, p.cpu>>    [] column = "memory" -> <<p.memory, p.cpu>>
    [] column = "cpu" -> <<p.cpu, p.memory>>   [] column = "flow" -> <<p.flow \div KILO, 0>>
    [] column = "user" -> <<p.user, 0>>        [] column = "pid" -> <<p.pid, 0>>
    [] column = "disk" -> <<p.disk, 0>>

LEMMA KeyIs ==
  ASSUME NEW c \in Columns \ {"nice"}
  PROVE  /\ \A p \in Processes : Key(p, c)[1] \in Int /\ Key(p, c)[2] \in Int
         /\ \A l, r \in Processes :
              LessThan(c, l, r) <=> Before(Key(l, c)[1], Key(r, c)[1], Key(l, c)[2], Key(r, c)[2])
<1>1. \/ c = "name" \/ c = "user" \/ c = "disk" \/ c = "cpu" \/ c = "pid" \/ c = "flow"
      \/ c = "memory"
  BY DEF Columns
<1>2. \A p \in Processes : Key(p, c)[1] \in Int /\ Key(p, c)[2] \in Int
  BY <1>1, RowTypes DEF Key
<1>3. ASSUME NEW l \in Processes, NEW r \in Processes
      PROVE  LessThan(c, l, r) <=> Before(Key(l, c)[1], Key(r, c)[1], Key(l, c)[2], Key(r, c)[2])
  BY <1>1, RowTypes DEF Key, LessThan, Raw, Before
<1> QED
  BY <1>2, <1>3

LEMMA ColumnsSort ==
  ASSUME NEW c \in Columns \ {"nice"}
  PROVE  StrictWeak(LAMBDA l, r : LessThan(c, l, r), Processes)
<1> DEFINE a == [p \in Processes |-> Key(p, c)[1]]   b == [p \in Processes |-> Key(p, c)[2]]
<1>1. \A p \in Processes : a[p] \in Int /\ b[p] \in Int
  BY KeyIs
<1>2. \A l, r \in Processes : LessThan(c, l, r) <=> (a[l] < a[r] \/ (a[l] = a[r] /\ b[l] < b[r]))
  BY KeyIs DEF Before
<1> HIDE DEF a, b
<1>3. \A x \in Processes : ~LessThan(c, x, x)
  BY <1>1, <1>2
<1>4. ASSUME NEW x \in Processes, NEW y \in Processes, NEW z \in Processes
      PROVE  /\ LessThan(c, x, y) /\ LessThan(c, y, z) => LessThan(c, x, z)
             /\ ~LessThan(c, x, y) /\ ~LessThan(c, y, x) /\ ~LessThan(c, y, z) /\ ~LessThan(c, z, y)
                => ~LessThan(c, x, z)
  BY <1>1, <1>2
<1> QED
  BY <1>3, <1>4 DEF StrictWeak

LEMMA ColumnsRise ==
  ASSUME NEW c \in {"cpu", "flow", "memory"}
  PROVE  Rises(LAMBDA l, r : LessThan(c, l, r), LAMBDA p : Reading(Shown(p, c)), Processes)
<1> SUFFICES ASSUME NEW x \in Processes, NEW y \in Processes, LessThan(c, x, y)
             PROVE  Reading(Shown(x, c)) <= Reading(Shown(y, c))
  BY DEF Rises
<1>1. /\ x.cpu \in Nat /\ y.cpu \in Nat /\ x.flow \in Nat /\ y.flow \in Nat
      /\ x.memory \in Nat /\ y.memory \in Nat
  BY RowTypes
<1>2. CASE c = "flow"
  <2>1. x.flow \div KILO < y.flow \div KILO /\ KILO \in Nat \ {0}
    BY <1>2, FiguresAssumption DEF LessThan, Raw
  <2>2. ASSUME y.flow < x.flow PROVE FALSE
    <3>1. y.flow \div KILO <= x.flow \div KILO
      BY <1>1, <2>1, <2>2, DivRises
    <3>2. y.flow \div KILO \in Nat /\ x.flow \div KILO \in Nat
      BY <1>1, <2>1, DivMod
    <3> QED
      BY <2>1, <3>1, <3>2
  <2>3. x.flow <= y.flow /\ 1 \in 0 .. 4 /\ 3 \in 1 .. 4
    BY <1>1, <2>2
  <2>4. Shown(x, c) = Text(x.flow, UnitOf(x.flow, 1, 3)) /\ Shown(y, c) = Text(y.flow, UnitOf(y.flow, 1, 3))
    BY <1>2 DEF Shown, CalcFlownetPerSec
  <2> QED
    BY <1>1, <2>3, <2>4, ReadingRises
<1>3. CASE c # "flow"
  <2> DEFINE unit == IF c = "cpu" THEN 100 ELSE Power[2]
             a(p) == IF c = "cpu" THEN p.cpu ELSE p.memory
  <2>1. c = "cpu" \/ c = "memory"
    BY <1>3
  <2>2. unit \in Nat \ {0}
    BY PowerIs
  <2>3. a(x) \in Nat /\ a(y) \in Nat /\ a(x) <= a(y)
    BY <1>1, <2>1 DEF LessThan, Raw, Before
  <2>4. Shown(x, c) = Text(a(x), unit) /\ Shown(y, c) = Text(a(y), unit)
    BY <2>1 DEF Shown, FormatProcMemory
  <2> HIDE DEF unit, a
  <2>5. /\ Tenths(a(x), unit) <= Tenths(a(y), unit)
        /\ Tenths(a(x), unit) \in Nat /\ Tenths(a(y), unit) \in Nat
    BY <2>2, <2>3, TenthsRise
  <2>6. Tenths(a(x), unit) * unit <= Tenths(a(y), unit) * unit
    BY <2>2, <2>5
  <2> QED
    BY <2>4, <2>6 DEF Reading, Text
<1> QED
  BY <1>2, <1>3

LEMMA PrioritiesRise ==
  Rises(LAMBDA l, r : LessThan("nice", r, l), LAMBDA p : Shown(p, "nice"), Processes)
<1> SUFFICES ASSUME NEW x \in Processes, NEW y \in Processes, LessThan("nice", y, x)
             PROVE  Shown(x, "nice") <= Shown(y, "nice")
  BY DEF Rises
<1>1. x.nice \in Int /\ y.nice \in Int /\ x.nice <= y.nice
  BY RowTypes DEF LessThan
<1>2. Shown(x, "nice") = GetNiceLevel(x.nice) /\ Shown(y, "nice") = GetNiceLevel(y.nice)
  BY DEF Shown
<1> QED
  BY <1>1, <1>2 DEF GetNiceLevel

\* The text of a disk rate is cut off, and says at least half of it.
LEMMA DiskTold ==
  ASSUME NEW p \in Processes
  PROVE  Reading(Shown(p, "disk")) <= p.disk /\ p.disk <= 2 * Reading(Shown(p, "disk"))
<1> DEFINE speed == p.disk
           k == IF speed < Steps[1] THEN 0 ELSE IF speed < Steps[2] THEN 1
                ELSE IF speed < Steps[3] THEN 2 ELSE 3
           u == Power[k]   n == speed \div u   r == speed % u
<1>1. speed \in Nat /\ k \in 0 .. 3 /\ k \in 0 .. 4
  BY RowTypes
<1>2. Steps[1] \in Nat /\ Steps[2] \in Nat /\ Steps[3] \in Nat
  <2>1. Steps \in Seq(Nat) /\ Len(Steps) = 3
    BY FiguresAssumption
  <2>2. \A i \in 1 .. Len(Steps) : Steps[i] \in Nat
    BY <2>1, ElementOfSeq
  <2> QED
    BY <2>1, <2>2
<1>3. u \in Nat \ {0}
  BY <1>1, PowerIs
<1>4. k # 0 => speed >= u
  BY <1>1, <1>2, <1>3, FiguresAssumption
<1>5. k = 0 => u = 1
  BY PowerIs
<1>6. Reading(Shown(p, "disk")) = n * u
  BY DEF Shown, DiskIoPerSec, Reading
<1>7. n \in Nat /\ r \in Nat /\ r < u /\ speed = u * n + r
  BY <1>1, <1>3, DivMod
<1> HIDE DEF speed, k, u, n, r
<1>8. n * u = u * n /\ u * n \in Nat
  BY <1>3, <1>7
<1>9. speed >= u => u * n >= u
  <2> SUFFICES ASSUME speed >= u, n = 0 PROVE FALSE
    BY <1>3, <1>7
  <2> QED
    BY <1>3, <1>7
<1>10. n * u <= speed /\ speed <= 2 * (n * u)
  <2>1. CASE k = 0
    BY <1>1, <1>3, <1>5, <1>7, <1>8, <2>1
  <2>2. CASE k # 0
    BY <1>1, <1>3, <1>4, <1>7, <1>8, <1>9, <2>2
  <2> QED
    BY <2>1, <2>2
<1> QED
  BY <1>6, <1>10 DEF speed

LEMMA CapacityTypes ==
  ASSUME NEW c \in Capacities, NEW f \in FileSystems
  PROVE  Capacity(f, c) \in Nat
<1>1. {f.total, f.free, f.avail} \subseteq Nat /\ f.free <= f.total
  BY CellsAssumption
<1>2. c = "total" \/ c = "free" \/ c = "avail" \/ c = "used"
  BY DEF Capacities
<1> QED
  BY <1>1, <1>2 DEF Capacity, Used

LEMMA CapacitiesInOrder ==
  ASSUME NEW c \in Capacities
  PROVE  /\ StrictWeak(LAMBDA l, r : LessCapacity(c, l, r), FileSystems)
         /\ Rises(LAMBDA l, r : LessCapacity(c, l, r),
                  LAMBDA f : Reading(ShownCapacity(f, c)), FileSystems)
<1>1. \A f \in FileSystems : Capacity(f, c) \in Nat
  BY CapacityTypes
<1>2. StrictWeak(LAMBDA l, r : LessCapacity(c, l, r), FileSystems)
  BY <1>1 DEF StrictWeak, LessCapacity
<1>3. ASSUME NEW x \in FileSystems, NEW y \in FileSystems, LessCapacity(c, x, y)
      PROVE  Reading(ShownCapacity(x, c)) <= Reading(ShownCapacity(y, c))
  <2>1. Capacity(x, c) \in Nat /\ Capacity(y, c) \in Nat /\ Capacity(x, c) <= Capacity(y, c)
    BY <1>1, <1>3 DEF LessCapacity
  <2>2. 0 \in 0 .. 4 /\ 4 \in 0 .. 4
    OBVIOUS
  <2> QED
    BY <2>1, <2>2, ReadingRises DEF ShownCapacity, FormatByteCount
<1> QED
  BY <1>2, <1>3 DEF Rises

LEMMA CellsAlwaysInOrder == CellsInOrder
BY ColumnsSort, ColumnsRise, PrioritiesRise, DiskTold, CapacitiesInOrder DEF CellsInOrder

LEMMA EntriesTell ==
  /\ \A i \in DOMAIN Entries : GetNiceLevel(Entries[i]) = i
  /\ \A nice \in -20 .. 19 : Checked(nice) = Entries[GetNiceLevel(nice)]
<1>1. /\ DOMAIN Entries = 1 .. 5 /\ Entries[1] = -20 /\ Entries[2] = -5 /\ Entries[3] = 0
      /\ Entries[4] = 5 /\ Entries[5] = 19
  BY DEF Entries
<1>2. ASSUME NEW i \in 1 .. 5 PROVE GetNiceLevel(Entries[i]) = i
  <2>1. i = 1 \/ i = 2 \/ i = 3 \/ i = 4 \/ i = 5
    OBVIOUS
  <2> QED
    BY <1>1, <2>1 DEF GetNiceLevel
<1>3. ASSUME NEW nice \in -20 .. 19 PROVE Checked(nice) = Entries[GetNiceLevel(nice)]
  BY <1>1 DEF GetNiceLevel, Checked
<1> QED
  BY <1>1, <1>2, <1>3

\* A duration of two or three parts, of the units a, b and c: what remains of one
\* part is told by the next.
DurationTold(d) ==
  LET parts == FormatDurationForDisplay(d) IN
  /\ ReadDuration(parts) <= d /\ d < ReadDuration(parts) + parts[Len(parts)][2]
  /\ \A i \in 2 .. Len(parts) : parts[i][1] * parts[i][2] < parts[i - 1][2]

LEMMA TwoParts ==
  ASSUME NEW d \in Nat, NEW x \in Nat, NEW a \in Nat, NEW y \in Nat, NEW b \in Nat,
         FormatDurationForDisplay(d) = <<<<x, a>>, <<y, b>>>>,
         x * a + y * b <= d, d < x * a + y * b + b, y * b < a
  PROVE  DurationTold(d)
<1> DEFINE parts == <<<<x, a>>, <<y, b>>>>
<1>1. Len(parts) = 2 /\ DOMAIN parts = 1 .. 2 /\ parts[1] = <<x, a>> /\ parts[2] = <<y, b>>
  OBVIOUS
<1>2. x * a \in Nat /\ y * b \in Nat
  OBVIOUS
<1> HIDE DEF parts
<1>3. ReadDuration(parts) = x * a + y * b
  BY <1>1, <1>2 DEF ReadDuration
<1>4. \A i \in 2 .. Len(parts) : parts[i][1] * parts[i][2] < parts[i - 1][2]
  BY <1>1
<1> QED
  BY <1>1, <1>3, <1>4 DEF DurationTold, parts

LEMMA ThreeParts ==
  ASSUME NEW d \in Nat, NEW x \in Nat, NEW a \in Nat, NEW y \in Nat, NEW b \in Nat,
         NEW z \in Nat, NEW c \in Nat,
         FormatDurationForDisplay(d) = <<<<x, a>>, <<y, b>>, <<z, c>>>>,
         x * a + y * b + z * c <= d, d < x * a + y * b + z * c + c, y * b < a, z * c < b
  PROVE  DurationTold(d)
<1> DEFINE parts == <<<<x, a>>, <<y, b>>, <<z, c>>>>
<1>1. /\ Len(parts) = 3 /\ DOMAIN parts = 1 .. 3 /\ parts[1] = <<x, a>> /\ parts[2] = <<y, b>>
      /\ parts[3] = <<z, c>>
  OBVIOUS
<1>2. x * a \in Nat /\ y * b \in Nat /\ z * c \in Nat
  OBVIOUS
<1> HIDE DEF parts
<1>3. ReadDuration(parts) = x * a + y * b + z * c
  BY <1>1, <1>2 DEF ReadDuration
<1>4. \A i \in 2 .. Len(parts) : parts[i][1] * parts[i][2] < parts[i - 1][2]
  <2> TAKE i \in 2 .. Len(parts)
  <2>1. i = 2 \/ i = 3
    BY <1>1
  <2> QED
    BY <1>1, <2>1
<1> QED
  BY <1>1, <1>3, <1>4 DEF DurationTold, parts

\* A part in a, what remains of it in b, and what remains of that.
Multiple(a, b) == \E n \in Nat \ {0} : a = n * b

Parted(d, a, b) ==
  /\ d \div a \in Nat /\ (d % a) \div b \in Nat /\ d % b \in Nat /\ d % b < b
  /\ d = (d \div a) * a + ((d % a) \div b) * b + (d % b)
  /\ ((d % a) \div b) * b < a

LEMMA PartsOf ==
  ASSUME NEW d \in Nat, NEW b \in Nat \ {0}, NEW a \in Nat, Multiple(a, b)
  PROVE  Parted(d, a, b)
<1>0. PICK n \in Nat \ {0} : a = n * b
  BY DEF Multiple
<1> DEFINE x == d \div a  r == d % a  y == r \div b  s == r % b  q == d \div b  e == d % b
<1>1. a \in Nat \ {0}
  BY <1>0
<1>2. x \in Nat /\ r \in Nat /\ r < a /\ d = a * x + r
  BY <1>1, DivMod
<1>3. y \in Nat /\ s \in Nat /\ s < b /\ r = b * y + s
  BY <1>2, DivMod
<1>4. q \in Nat /\ e \in Nat /\ e < b /\ d = b * q + e
  BY DivMod
<1> HIDE DEF x, r, y, s, q, e
<1> DEFINE p == n * x + y
<1>5. p \in Nat /\ d = b * p + s
  <2>1. a * x = b * (n * x)
    BY <1>0, <1>2
  <2>2. b * p = b * (n * x) + b * y
    BY <1>2, <1>3
  <2> QED
    BY <1>2, <1>3, <2>1, <2>2
<1> HIDE DEF p
<1>6. s = e
  <2>1. ASSUME p < q PROVE FALSE
    <3>1. b * (p + 1) <= b * q /\ b * (p + 1) = b * p + b
      BY <1>4, <1>5, <2>1
    <3> QED
      BY <1>3, <1>4, <1>5, <3>1
  <2>2. ASSUME q < p PROVE FALSE
    <3>1. b * (q + 1) <= b * p /\ b * (q + 1) = b * q + b
      BY <1>4, <1>5, <2>2
    <3> QED
      BY <1>3, <1>4, <1>5, <3>1
  <2>3. p = q
    BY <1>4, <1>5, <2>1, <2>2
  <2> QED
    BY <1>3, <1>4, <1>5, <2>3
<1>7. a * x = x * a /\ b * y = y * b /\ a * x \in Nat /\ b * y \in Nat
  BY <1>2, <1>3
<1>8. y * b < a /\ d = x * a + y * b + e
  BY <1>2, <1>3, <1>6, <1>7
<1> QED
  BY <1>2, <1>3, <1>4, <1>8 DEF Parted, x, r, y, s, q, e

LEMMA DurationsTold ==
  ASSUME NEW d \in Nat
  PROVE  DurationTold(d)
<1> DEFINE second == 100   minute == 6000   hour == 60 * minute   day == 24 * hour   week == 7 * day
           least == 1
<1>1. /\ least \in Nat \ {0} /\ second \in Nat \ {0} /\ minute \in Nat \ {0} /\ hour \in Nat \ {0}
      /\ day \in Nat \ {0} /\ week \in Nat \ {0}
  OBVIOUS
<1>2. /\ Multiple(second, least) /\ Multiple(minute, second) /\ Multiple(hour, minute)
      /\ Multiple(day, hour) /\ Multiple(week, day)
  <2>1. minute = 60 * second /\ second = 100 * least
    OBVIOUS
  <2>2. 100 \in Nat \ {0} /\ 60 \in Nat \ {0} /\ 24 \in Nat \ {0} /\ 7 \in Nat \ {0}
    OBVIOUS
  <2> HIDE DEF second, minute, least
  <2> QED
    BY <2>1, <2>2 DEF Multiple
<1>3. FormatDurationForDisplay(d) =
        IF d >= week THEN <<<<d \div week, week>>, <<(d % week) \div day, day>>>>
        ELSE IF d >= day THEN <<<<d \div day, day>>, <<(d % day) \div hour, hour>>>>
        ELSE IF d >= hour THEN <<<<d \div hour, hour>>, <<(d % hour) \div minute, minute>>,
                                 <<(d % minute) \div second, second>>>>
        ELSE <<<<d \div minute, minute>>, <<(d % minute) \div second, second>>,
               <<(d % second) \div least, least>>>>
  <2>1. d % 100 = (d % 100) \div 1
    OBVIOUS
  <2> QED
    BY <2>1 DEF FormatDurationForDisplay
<1> HIDE DEF second, least, minute, hour, day, week
<1> DEFINE Two(a, b)      == <<<<d \div a, a>>, <<(d % a) \div b, b>>>>
           Three(a, b, c) == <<<<d \div a, a>>, <<(d % a) \div b, b>>, <<(d % b) \div c, c>>>>
<1>4. ASSUME NEW a \in Nat \ {0}, NEW b \in Nat \ {0}, Multiple(a, b),
             FormatDurationForDisplay(d) = Two(a, b)
      PROVE  DurationTold(d)
  <2> DEFINE x == d \div a   y == (d % a) \div b   e == d % b
  <2>1. /\ x \in Nat /\ y \in Nat /\ e \in Nat /\ e < b /\ d = x * a + y * b + e /\ y * b < a
    <3>1. Parted(d, a, b)
      BY <1>4, PartsOf
    <3> QED
      BY <3>1 DEF Parted
  <2>2. FormatDurationForDisplay(d) = <<<<x, a>>, <<y, b>>>>
    BY <1>4
  <2> HIDE DEF x, y, e
  <2>3. x * a \in Nat /\ y * b \in Nat
    BY <2>1
  <2>4. x * a + y * b <= d /\ d < x * a + y * b + b
    BY <2>1, <2>3
  <2> QED
    BY <2>1, <2>2, <2>4, TwoParts
<1>5. ASSUME NEW a \in Nat \ {0}, NEW b \in Nat \ {0}, NEW c \in Nat \ {0},
             Multiple(a, b), Multiple(b, c),
             FormatDurationForDisplay(d) = Three(a, b, c)
      PROVE  DurationTold(d)
  <2> DEFINE x == d \div a   y == (d % a) \div b   e == d % b   z == e \div c   g == e % c
  <2>1. /\ x \in Nat /\ y \in Nat /\ e \in Nat /\ e < b /\ d = x * a + y * b + e /\ y * b < a
    <3>1. Parted(d, a, b)
      BY <1>5, PartsOf
    <3> QED
      BY <3>1 DEF Parted
  <2>2. z \in Nat /\ g \in Nat /\ g < c /\ e = c * z + g
    <3> HIDE DEF e
    <3> QED
      BY <2>1, DivMod
  <2>3. FormatDurationForDisplay(d) = <<<<x, a>>, <<y, b>>, <<z, c>>>>
    BY <1>5
  <2> HIDE DEF x, y, z, e, g
  <2>4. x * a \in Nat /\ y * b \in Nat /\ z * c \in Nat /\ c * z = z * c
    BY <2>1, <2>2
  <2>5. x * a + y * b + z * c <= d /\ d < x * a + y * b + z * c + c /\ z * c < b
    BY <2>1, <2>2, <2>4
  <2> QED
    BY <2>1, <2>2, <2>3, <2>5, ThreeParts
<1> HIDE DEF Two, Three
<1>6. CASE d >= week
  <2>1. FormatDurationForDisplay(d) = Two(week, day)
    BY <1>3, <1>6 DEF Two
  <2> QED
    BY <1>1, <1>2, <1>4, <2>1
<1>7. CASE ~(d >= week) /\ d >= day
  <2>1. FormatDurationForDisplay(d) = Two(day, hour)
    BY <1>3, <1>7 DEF Two
  <2> QED
    BY <1>1, <1>2, <1>4, <2>1
<1>8. CASE ~(d >= week) /\ ~(d >= day) /\ d >= hour
  <2>1. FormatDurationForDisplay(d) = Three(hour, minute, second)
    BY <1>3, <1>8 DEF Three
  <2> QED
    BY <1>1, <1>2, <1>5, <2>1
<1>9. CASE ~(d >= week) /\ ~(d >= day) /\ ~(d >= hour)
  <2>1. FormatDurationForDisplay(d) = Three(minute, second, least)
    BY <1>3, <1>9 DEF Three
  <2> QED
    BY <1>1, <1>2, <1>5, <2>1
<1> QED
  BY <1>6, <1>7, <1>8, <1>9

LEMMA PercentageTells ==
  ASSUME NEW f \in FileSystems, Used(f.total, f.free) + f.avail > 0
  PROVE  LET shown == Percentage(f.total, f.free, f.avail) IN
         shown \in 0 .. 100 /\ (shown = 100 => f.avail = 0)
<1> DEFINE used == Used(f.total, f.free)  all == used + f.avail
           p == (100 * used) \div all  r == (100 * used) % all
<1>1. used \in Nat /\ f.avail \in Nat
  BY CellsAssumption DEF Used
<1>2. all \in Nat \ {0} /\ 100 * used \in Nat
  BY <1>1
<1>3. p \in Nat /\ r \in Nat /\ 100 * used = all * p + r
  BY <1>2, DivMod
<1>4. Percentage(f.total, f.free, f.avail)
        = IF f.total = 0 THEN 0 ELSE IF p > 100 THEN 100 ELSE p
  BY DEF Percentage
<1>5. all = used + f.avail
  OBVIOUS
<1> HIDE DEF used, all, p, r
<1>6. p >= 100 => all * p >= 100 * all
  BY <1>2, <1>3
<1>7. p >= 100 => f.avail = 0
  BY <1>1, <1>2, <1>3, <1>5, <1>6
<1> QED
  BY <1>1, <1>3, <1>4, <1>7

LEMMA TextsAlwaysTell == TextsTell
<1>1. \A d \in Durations : DurationTold(d)
  BY DurationsTold, CellsAssumption
<1> QED
  BY <1>1, EntriesTell, PercentageTells DEF TextsTell, DurationTold

-----------------------------------------------------------------------------
\* Whatever figures the rows have, each column but the priority is sorted by a
\* strict weak order, and its texts agree with it across every change of unit:
\* for any KILO, any steps of the disk rate and any processes and file systems.
THEOREM ShownInOrderAlways == Spec => []ShownInOrder
<1>1. ShownInOrder
  BY CellsAlwaysInOrder DEF ShownInOrder
<1> QED
  BY <1>1, PTL

\* And what is chosen from a list, a CPU time of any length and a percentage of
\* any sizes say what they stand for.
THEOREM ShownTellsAlways == Spec => []ShownTells
<1>1. ShownTells
  BY TextsAlwaysTell DEF ShownTells
<1> QED
  BY <1>1, PTL

-----------------------------------------------------------------------------
(***************************************************************************)
(* The rates of the resource page.  What is moved is counted for all       *)
(* interfaces together, while what is counted changes with the addresses;  *)
(* the invariant is therefore about every part of the interfaces that the  *)
(* last reading counted.                                                   *)
(***************************************************************************)
Of(d)         == [i \in Interfaces |-> nets[i].bytes[d]]
CountOf(d, C) == SumFunctionOnSet(Of(d), C)

Counters ==
  /\ clock \in Nat \ {0} /\ samples \in Nat /\ busy \in Nat /\ idle \in Nat
  /\ nets \in [Interfaces -> [bytes : [Directions -> Nat], address : BOOLEAN]]
  /\ moved \in [Directions -> Nat]
  /\ netinfo.last \in [Directions -> Nat] /\ netinfo.time \in Nat
  /\ before.clock = netinfo.time /\ before.counted \subseteq Interfaces

AllMoved ==
  \A d \in Directions : \A C \in SUBSET before.counted :
    CountOf(d, C) <= netinfo.last[d] + moved[d]

LEMMA SumIs ==
  ASSUME Counters, NEW d \in Directions, NEW C \in SUBSET Interfaces
  PROVE  /\ IsFiniteSet(C) /\ CountOf(d, C) \in Nat
         /\ \A x \in C : Of(d)[x] \in Nat /\ Of(d)[x] = nets[x].bytes[d]
<1>1. IsFiniteSet(C) /\ \A x \in C : Of(d)[x] \in Nat /\ Of(d)[x] = nets[x].bytes[d]
  BY FS_Subset, ResourcesAssumption DEF Of, Counters
<1> QED
  BY <1>1, SumMonotone DEF CountOf

LEMMA NowIs ==
  ASSUME Counters
  PROVE  /\ Counted \in SUBSET Interfaces
         /\ \A d \in Directions : Now[d] = CountOf(d, Counted) /\ Now[d] \in Nat
         /\ Now \in [Directions -> Nat]
<1>1. Counted \in SUBSET Interfaces
  BY DEF Counted
<1>2. \A d \in Directions : Now[d] = CountOf(d, Counted)
  BY DEF Now, Bytes, CountOf, Of
<1>3. \A d \in Directions : CountOf(d, Counted) \in Nat
  BY <1>1, SumIs
<1> QED
  BY <1>1, <1>2, <1>3 DEF Now

\* A sample is taken at some time after the start of the clock.
LEMMA SampleIsTimed ==
  ASSUME Counters, UpdateResourceStatus \/ UpdateInTrouble
  PROVE  \E read \in BOOLEAN : \E time \in Nat \ {0} : Sample(read, time)
<1>1. clock \in Nat \ {0}
  BY DEF Counters
<1>2. \A t \in Nat \ {0} : t + 1 \in Nat \ {0} /\ \A u \in {t - 1, t, t + 2} \ {0} : u \in Nat \ {0}
  OBVIOUS
<1>3. clock + 1 \in Nat \ {0} /\ \A u \in {clock - 1, clock, clock + 2} \ {0} : u \in Nat \ {0}
  BY <1>1, <1>2
<1> QED
  BY <1>3 DEF UpdateResourceStatus, UpdateInTrouble

LEMMA CountersInductive ==
  ASSUME Counters, [ResourcesNext]_resources PROVE Counters'
<1>1. CASE Work \/ Use
  <2>1. busy' \in {busy, busy + 1} /\ idle' \in {idle, idle + 1}
    BY <1>1 DEF Work, Use
  <2>2. busy' \in Nat /\ idle' \in Nat
    BY <2>1 DEF Counters
  <2>3. UNCHANGED <<clock, samples, nets, moved, netinfo, before>>
    BY <1>1 DEF Work, Use, page
  <2>4. nets' \in [Interfaces -> [bytes : [Directions -> Nat], address : BOOLEAN]]
    BY <2>3 DEF Counters
  <2>5. clock' \in Nat \ {0} /\ samples' \in Nat /\ moved' \in [Directions -> Nat]
    BY <2>3 DEF Counters
  <2>6. netinfo'.last \in [Directions -> Nat] /\ netinfo'.time \in Nat
    BY <2>3 DEF Counters
  <2>7. before'.clock = netinfo'.time /\ before'.counted \subseteq Interfaces
    BY <2>3 DEF Counters
  <2> QED
    BY <2>2, <2>4, <2>5, <2>6, <2>7, Zenon DEF Counters
<1>2. ASSUME NEW i \in Interfaces, NEW d \in Directions, Traffic(i, d) PROVE Counters'
  BY <1>2 DEF Traffic, Event, Counters, page
<1>3. ASSUME NEW i \in Interfaces, Address(i) PROVE Counters'
  <2>1. UNCHANGED <<busy, idle, clock, samples, moved, netinfo, before>>
    BY <1>3 DEF Address, page
  <2>2. /\ [bytes |-> Nothing, address |-> FALSE] \in [bytes : [Directions -> Nat], address : BOOLEAN]
        /\ nets \in [Interfaces -> [bytes : [Directions -> Nat], address : BOOLEAN]]
    BY DEF Nothing, Counters
  <2>3. \/ nets' = [nets EXCEPT ![i].address = ~@]
        \/ nets' = [nets EXCEPT ![i] = [bytes |-> Nothing, address |-> FALSE]]
    BY <1>3 DEF Address
  <2> DEFINE N == [bytes : [Directions -> Nat], address : BOOLEAN]
  <2>4. nets' \in [Interfaces -> N]
    <3>1. \A n \in N : [n EXCEPT !.address = ~@] \in N
      OBVIOUS
    <3>2. [bytes |-> Nothing, address |-> FALSE] \in N /\ nets \in [Interfaces -> N]
      BY <2>2
    <3> HIDE DEF N
    <3>3. CASE nets' = [nets EXCEPT ![i].address = ~@]
      BY <3>1, <3>2, <3>3
    <3>4. CASE nets' = [nets EXCEPT ![i] = [bytes |-> Nothing, address |-> FALSE]]
      BY <3>2, <3>4
    <3> QED
      BY <2>3, <3>3, <3>4
  <2>5. /\ clock' \in Nat \ {0} /\ samples' \in Nat /\ moved' \in [Directions -> Nat]
        /\ busy' \in Nat /\ idle' \in Nat
    BY <2>1 DEF Counters
  <2>6. netinfo'.last \in [Directions -> Nat] /\ netinfo'.time \in Nat
    BY <2>1 DEF Counters
  <2>7. before'.clock = netinfo'.time /\ before'.counted \subseteq Interfaces
    BY <2>1 DEF Counters
  <2> QED
    BY <2>4, <2>5, <2>6, <2>7, Zenon DEF Counters
<1>4. ASSUME NEW read \in BOOLEAN, NEW time \in Nat \ {0}, Sample(read, time) PROVE Counters'
  BY <1>4, NowIs DEF Sample, UpdateNetwork, Counters, Nothing
<1>5. CASE UNCHANGED resources
  BY <1>5 DEF resources, machine, page, Counters
<1>6. CASE UpdateResourceStatus \/ UpdateInTrouble
  <2>1. PICK read \in BOOLEAN, time \in Nat \ {0} : Sample(read, time)
    BY <1>6, SampleIsTimed
  <2> QED
    BY <1>4, <2>1
<1> QED
  BY <1>1, <1>2, <1>3, <1>5, <1>6 DEF ResourcesNext

LEMMA AllMovedInductive ==
  ASSUME Counters, AllMoved, [ResourcesNext]_resources PROVE AllMoved'
<1> USE DEF AllMoved
<1>1. CASE UNCHANGED <<nets, moved, netinfo, before>>
  BY <1>1 DEF CountOf, Of
<1>2. ASSUME NEW i \in Interfaces, NEW d \in Directions, Traffic(i, d) PROVE AllMoved'
  <2>1. /\ netinfo' = netinfo /\ before' = before /\ moved' = [moved EXCEPT ![d] = @ + 4]
        /\ nets' = [nets EXCEPT ![i].bytes[d] = @ + 4]
    BY <1>2 DEF Traffic, page
  <2> SUFFICES ASSUME NEW e \in Directions, NEW C \in SUBSET before.counted
               PROVE  CountOf(e, C)' <= netinfo.last[e] + moved'[e]
    BY <2>1
  <2>2. C \in SUBSET Interfaces
    BY DEF Counters
  <2>3. \A x \in C : Of(e)'[x] = IF e = d /\ x = i THEN nets[x].bytes[e] + 4 ELSE nets[x].bytes[e]
    BY <2>1, <2>2 DEF Of, Counters
  <2>4. moved'[e] = IF e = d THEN moved[e] + 4 ELSE moved[e]
    BY <2>1 DEF Counters
  <2>5. moved[e] \in Nat /\ netinfo.last[e] \in Nat /\ CountOf(e, C) <= netinfo.last[e] + moved[e]
    BY DEF Counters
  <2>6. IsFiniteSet(C) /\ CountOf(e, C) \in Nat /\ \A x \in C : Of(e)[x] \in Nat
    BY <2>2, SumIs
  <2>7. \A x \in C : Of(e)[x] = nets[x].bytes[e]
    BY <2>2, SumIs
  <2>8. CASE e = d /\ i \in C
    <3>1. \A x \in C : /\ Of(e)'[x] \in Int /\ Of(e)[x] \in Int
                        /\ Of(e)'[x] = IF x = i THEN Of(e)[x] + 4 ELSE Of(e)[x]
      BY <2>3, <2>6, <2>7, <2>8
    <3>2. CountOf(e, C)' = CountOf(e, C) - Of(e)[i] + Of(e)'[i]
      BY <2>6, <2>8, <3>1, SumAtOne DEF CountOf
    <3> QED
      BY <2>4, <2>5, <2>6, <2>8, <3>1, <3>2
  <2>9. CASE ~(e = d /\ i \in C)
    <3>1. \A x \in C : Of(e)[x] \in Int /\ Of(e)'[x] = Of(e)[x]
      BY <2>3, <2>6, <2>7, <2>9
    <3>2. CountOf(e, C)' = CountOf(e, C)
      BY <2>6, <3>1, SumSame DEF CountOf
    <3> QED
      BY <2>4, <2>5, <2>6, <3>2
  <2> QED
    BY <2>8, <2>9
<1>3. ASSUME NEW i \in Interfaces, Address(i) PROVE AllMoved'
  <2>1. UNCHANGED <<netinfo, before, moved>>
    BY <1>3 DEF Address, page
  <2>2. nets' \in {[nets EXCEPT ![i].address = ~@], [nets EXCEPT ![i] = [bytes |-> Nothing, address |-> FALSE]]}
    BY <1>3 DEF Address
  <2> SUFFICES ASSUME NEW e \in Directions, NEW C \in SUBSET before.counted
               PROVE  CountOf(e, C)' <= netinfo.last[e] + moved[e]
    BY <2>1
  <2>3. C \in SUBSET Interfaces
    BY DEF Counters
  <2>4. IsFiniteSet(C) /\ CountOf(e, C) \in Nat /\ \A x \in C : Of(e)[x] \in Nat
    BY <2>3, SumIs
  <2>5. \A x \in C : Of(e)'[x] = Of(e)[x] \/ (x = i /\ Of(e)'[x] = 0)
    BY <2>2, <2>3 DEF Of, Counters, Nothing
  <2>6. moved[e] \in Nat /\ netinfo.last[e] \in Nat /\ CountOf(e, C) <= netinfo.last[e] + moved[e]
    BY DEF Counters
  <2>7. CASE i \in C
    <3>1. \A x \in C : Of(e)[x] \in Int /\ Of(e)'[x] \in Int /\ (x # i => Of(e)'[x] = Of(e)[x])
      BY <2>4, <2>5
    <3>2. CountOf(e, C)' = CountOf(e, C) - Of(e)[i] + Of(e)'[i]
      BY <2>4, <2>7, <3>1, SumAtOne DEF CountOf
    <3>3. Of(e)'[i] <= Of(e)[i] /\ Of(e)[i] \in Int /\ Of(e)'[i] \in Int
      BY <2>4, <2>5, <2>7
    <3> QED
      BY <2>4, <2>6, <3>2, <3>3
  <2>8. CASE i \notin C
    <3>1. \A x \in C : Of(e)[x] \in Int /\ Of(e)'[x] = Of(e)[x]
      BY <2>4, <2>5, <2>8
    <3> QED
      BY <2>4, <2>6, <3>1, SumSame DEF CountOf
  <2> QED
    BY <2>7, <2>8
<1>4. ASSUME NEW read \in BOOLEAN, NEW time \in Nat \ {0}, Sample(read, time) PROVE AllMoved'
  <2>1. /\ nets' = nets /\ moved' = Nothing /\ netinfo'.last = Now /\ before'.counted = Counted
    BY <1>4 DEF Sample, UpdateNetwork
  <2>2. ASSUME NEW d \in Directions, NEW C \in SUBSET Counted
        PROVE  CountOf(d, C) <= Now[d]
    <3>1. IsFiniteSet(Counted) /\ \A x \in Counted : Of(d)[x] \in Nat
      BY NowIs, SumIs
    <3>2. CountOf(d, C) <= CountOf(d, Counted)
      BY <3>1, SumMonotone DEF CountOf
    <3> QED
      BY <3>2, NowIs
  <2>3. ASSUME NEW d \in Directions, NEW C \in SUBSET Counted
        PROVE  /\ CountOf(d, C)' = CountOf(d, C) /\ moved'[d] = 0 /\ Now[d] \in Nat /\ CountOf(d, C) \in Nat
    BY <2>1, NowIs, SumIs DEF CountOf, Of, Nothing
  <2> QED
    BY <2>1, <2>2, <2>3
<1>5. CASE UpdateResourceStatus \/ UpdateInTrouble
  <2>1. PICK read \in BOOLEAN, time \in Nat \ {0} : Sample(read, time)
    BY <1>5, SampleIsTimed
  <2> QED
    BY <1>4, <2>1
<1> QED
  BY <1>1, <1>2, <1>3, <1>5 DEF ResourcesNext, resources, machine, page, Work, Use

\* Every sample is one; no other step counts one.
LEMMA Sampled ==
  ASSUME Counters, [ResourcesNext]_resources, samples' # samples
  PROVE  \E read \in BOOLEAN : \E time \in Nat \ {0} : Sample(read, time)
BY SampleIsTimed DEF ResourcesNext, resources, Work, Use, Traffic, Address

\* The newest value of a ring is the one that was put in.
LEMMA LastPushed ==
  ASSUME NEW E, NEW list \in Seq(E), NEW x \in E
  PROVE  Push(list, x) \in Seq(E) /\ Push(list, x) # <<>> /\ Last(Push(list, x)) = x
<1> DEFINE longer == Append(list, x)
<1>1. Cap \in Nat \ {0}
  BY ResourcesAssumption
<1>2. longer \in Seq(E) /\ Len(longer) = Len(list) + 1 /\ longer[Len(longer)] = x
  OBVIOUS
<1>3. CASE Len(longer) > Cap
  <2>1. Push(list, x) = Tail(longer) /\ Len(longer) > 1
    BY <1>1, <1>3 DEF Push
  <2> HIDE DEF longer
  <2>2. /\ Tail(longer) \in Seq(E) /\ Len(Tail(longer)) = Len(longer) - 1
        /\ Tail(longer)[Len(longer) - 1] = longer[Len(longer)]
    BY <1>2, <2>1
  <2> QED
    BY <1>2, <2>1, <2>2 DEF Last
<1>4. CASE ~(Len(longer) > Cap)
  BY <1>2, <1>4 DEF Push, Last
<1> QED
  BY <1>3, <1>4

Rings == down \in Seq(Nat) /\ up \in Seq(Nat)

\* A rate is never more than what there was to divide.
LEMMA RateIs ==
  ASSUME Counters, AllMoved, Counted \subseteq before.counted,
         NEW d \in Directions, NEW time \in Nat, time > before.clock, NEW r \in Rates(d, time)
  PROVE  r \in Nat /\ r * (time - before.clock) <= moved[d]
<1> DEFINE s == time - netinfo.time
           b == Now[d]  a == netinfo.last[d]
<1>1. s \in Nat \ {0} /\ s = time - before.clock
  BY DEF Counters
<1>2. b \in Nat /\ a \in Nat /\ moved[d] \in Nat
  BY NowIs DEF Counters
<1>3. b <= a + moved[d]
  BY NowIs DEF AllMoved
<1>4. WORD \in Nat \ {0}
  BY ResourcesAssumption
<1>5. CASE CountersGrew
  <2>1. b >= a /\ r \in Quotients(Minus(b, a), s)
    BY <1>5 DEF CountersGrew, Rates
  <2> HIDE DEF s, a, b
  <2>2. r = Minus(b, a) \div s
    BY <1>1, <2>1 DEF Quotients
  <2>3. b - a \in Nat /\ b - a <= moved[d]
    BY <1>2, <1>3, <2>1
  <2>4. Minus(b, a) \in Nat /\ Minus(b, a) <= b - a
    <3> DEFINE n == b - a
    <3>1. n \in Nat
      BY <2>3
    <3> HIDE DEF n
    <3>2. (n % WORD) \in Nat /\ (n % WORD) <= n
      BY <3>1, <1>4
    <3> QED
      BY <3>2 DEF n, Minus
  <2>5. r \in Nat /\ r * s <= Minus(b, a)
    BY <1>1, <2>2, <2>4
  <2> QED
    BY <1>1, <1>2, <2>3, <2>4, <2>5
<1>6. CASE ~CountersGrew
  <2>1. r = 0
    BY <1>6 DEF Rates
  <2> HIDE DEF s
  <2> QED
    BY <1>1, <1>2, <2>1
<1> QED
  BY <1>5, <1>6

LEMMA RateIsNat ==
  ASSUME Counters, NEW d \in Directions, NEW time \in Nat, NEW r \in Rates(d, time)
  PROVE  r \in Nat
<1>1. WORD \in Nat \ {0} /\ Now[d] \in Nat /\ netinfo.last[d] \in Nat
  BY NowIs, ResourcesAssumption DEF Counters
<1>2. Minus(Now[d], netinfo.last[d]) \in Nat
  BY <1>1 DEF Minus
<1>3. time - netinfo.time \in Int
  BY DEF Counters
<1> QED
  BY <1>1, <1>2, <1>3 DEF Rates, Quotients, AnyRate

LEMMA RingsInductive ==
  ASSUME Counters, Rings, [ResourcesNext]_resources PROVE Rings'
<1>1. CASE UNCHANGED <<down, up>>
  BY <1>1 DEF Rings
<1>2. ASSUME NEW read \in BOOLEAN, NEW time \in Nat \ {0}, Sample(read, time) PROVE Rings'
  <2>1. PICK r \in Rates("in", time), s \in Rates("out", time) :
          down' = Push(down, r) /\ up' = Push(up, s)
    BY <1>2 DEF Sample, UpdateNetwork
  <2>2. r \in Nat /\ s \in Nat
    BY RateIsNat DEF Directions
  <2> QED
    BY <2>1, <2>2, LastPushed DEF Rings
<1> QED
  BY <1>1, <1>2, SampleIsTimed DEF ResourcesNext, resources, page, Work, Use, Traffic, Address

\* Nothing that has not moved makes a peak.
LEMMA NoPeakStep ==
  ASSUME Counters, AllMoved, Rings, [ResourcesNext]_resources,
         samples' # samples, Counted \subseteq before.counted, clock' > before.clock
  PROVE  /\ Last(down') * (clock' - before.clock) <= moved["in"]
         /\ Last(up') * (clock' - before.clock) <= moved["out"]
<1>1. PICK read \in BOOLEAN, time \in Nat \ {0} : Sample(read, time)
  BY Sampled
<1>2. PICK r \in Rates("in", time), s \in Rates("out", time) :
        down' = Push(down, r) /\ up' = Push(up, s)
  BY <1>1 DEF Sample, UpdateNetwork
<1>3. clock' = time
  BY <1>1 DEF Sample
<1>4. /\ r \in Nat /\ r * (time - before.clock) <= moved["in"]
      /\ s \in Nat /\ s * (time - before.clock) <= moved["out"]
  BY <1>3, RateIs DEF Directions
<1>5. Last(down') = r /\ Last(up') = s
  BY <1>2, <1>4, LastPushed DEF Rings
<1> QED
  BY <1>3, <1>4, <1>5

-----------------------------------------------------------------------------
(***************************************************************************)
(* The processor.  What the page keeps of a reading that failed is not a   *)
(* reading: its total is zero, and the next percentage is, too.            *)
(***************************************************************************)
LastReading ==
  /\ busy \in Nat \ {0} /\ idle \in Nat /\ before.read \in BOOLEAN
  /\ before.read => /\ before.busy \in 1 .. busy /\ before.idle \in 0 .. idle
                    /\ cpu.work = before.busy /\ cpu.total = before.busy + before.idle
  /\ ~before.read => cpu.total = 0
  /\ cpu \in [work : Nat, total : Nat]

LEMMA LastReadingInductive ==
  ASSUME LastReading, Counters, [ResourcesNext]_resources PROVE LastReading'
<1>1. CASE UNCHANGED <<busy, idle, before, cpu>>
  BY <1>1 DEF LastReading
<1>2. CASE Work
  <2>1. UNCHANGED <<before, cpu>> /\ busy' \in {busy, busy + 1} /\ idle' \in {idle, idle + 1}
    BY <1>2 DEF Work, page
  <2> QED
    BY <2>1 DEF LastReading
<1>3. ASSUME NEW read \in BOOLEAN, NEW time \in Nat \ {0}, Sample(read, time) PROVE LastReading'
  <2>1. /\ UNCHANGED <<busy, idle>> /\ cpu' = GetCpuTimeData(read)
        /\ before' = [busy |-> busy, idle |-> idle, clock |-> time, read |-> read, counted |-> Counted]
    BY <1>3 DEF Sample, UpdateCpu
  <2>2. CASE read
    BY <2>1, <2>2 DEF GetCpuTimeData, LastReading
  <2>3. CASE ~read
    <3>1. cpu'.total = 0 /\ cpu' \in [work : Nat, total : Nat] /\ before'.read = FALSE
      BY <2>1, <2>3 DEF GetCpuTimeData, LastReading
    <3> QED
      BY <2>1, <3>1 DEF LastReading
  <2> QED
    BY <2>2, <2>3
<1> QED
  BY <1>1, <1>2, <1>3, SampleIsTimed DEF ResourcesNext, resources, machine, page, Use, Traffic, Address

LEMMA ShareStep ==
  ASSUME LastReading, Counters, busy + idle < WORD, [ResourcesNext]_resources, samples' # samples
  PROVE  percent' = IF before.read /\ before'.read
                    THEN Percent(busy - before.busy, busy + idle - before.busy - before.idle)
                    ELSE 0
<1>1. PICK read \in BOOLEAN, time \in Nat \ {0} : Sample(read, time)
  BY Sampled
<1> DEFINE now == GetCpuTimeData(read)
<1>2. /\ before'.read = read
      /\ percent' = IF cpu.work # 0 /\ cpu.total # 0
                    THEN Percent(Minus(now.work, cpu.work), Minus(now.total, cpu.total))
                    ELSE 0
  BY <1>1 DEF Sample, UpdateCpu
<1>3. WORD \in Nat \ {0}
  BY ResourcesAssumption
<1>4. CASE ~before.read
  BY <1>2, <1>4 DEF LastReading
<1>5. CASE before.read
  <2>1. /\ cpu.work = before.busy /\ cpu.total = before.busy + before.idle
        /\ before.busy \in Nat /\ 1 <= before.busy /\ before.busy <= busy
        /\ before.idle \in Nat /\ before.idle <= idle
        /\ busy \in Nat /\ idle \in Nat
    BY <1>5 DEF LastReading
  <2>2. percent' = Percent(Minus(now.work, cpu.work), Minus(now.total, cpu.total))
    BY <1>2, <2>1
  <2>3. CASE read
    <3>1. now.work = busy /\ now.total = busy + idle
      BY <2>3 DEF GetCpuTimeData
    <3>2. /\ Minus(now.work, cpu.work) = busy - before.busy
          /\ Minus(now.total, cpu.total) = busy + idle - before.busy - before.idle
      <4> DEFINE x == busy - before.busy
                 y == busy + idle - before.busy - before.idle
      <4>1. x \in Nat /\ x < WORD /\ y \in Nat /\ y < WORD /\ (busy + idle) - (before.busy + before.idle) = y
        BY <1>3, <2>1
      <4> HIDE DEF x, y
      <4>2. (x % WORD) = x /\ (y % WORD) = y
        BY <1>3, <4>1
      <4> QED
        BY <2>1, <3>1, <4>1, <4>2 DEF Minus, x, y
    <3> QED
      BY <1>2, <1>5, <2>2, <2>3, <3>2
  <2>4. CASE ~read
    <3>1. now.total = 0 /\ now.work = cpu.work
      BY <2>4, <2>1 DEF GetCpuTimeData, LastReading
    <3> DEFINE t == before.busy + before.idle
    <3>2. t \in Nat /\ 0 < t /\ t < WORD
      BY <1>3, <2>1
    <3>3. Minus(now.work, cpu.work) = 0 /\ Minus(now.total, cpu.total) = WORD - t
      <4> HIDE DEF t
      <4>1. ((0 - t) % WORD) = WORD - t
        BY <1>3, <3>2
      <4>2. (0 % WORD) = 0
        BY <1>3
      <4> QED
        BY <2>1, <3>1, <4>1, <4>2 DEF Minus, t
    <3>4. Percent(0, WORD - t) = 0
      <4> HIDE DEF t
      <4>1. \A n \in Nat \ {0} : Percent(0, n) = 0
        BY DEF Percent
      <4> QED
        BY <1>3, <3>2, <4>1
    <3> QED
      BY <1>2, <2>2, <2>4, <3>3, <3>4
  <2> QED
    BY <2>3, <2>4
<1> QED
  BY <1>4, <1>5

-----------------------------------------------------------------------------
LEMMA FirstReading == ResourcesInit => Counters /\ AllMoved /\ Rings /\ LastReading
<1> SUFFICES ASSUME ResourcesInit PROVE Counters /\ AllMoved /\ Rings /\ LastReading
  OBVIOUS
<1>1. Nothing \in [Directions -> Nat] /\ \A d \in Directions : Nothing[d] = 0
  BY DEF Nothing
<1>2. Counters
  BY <1>1 DEF ResourcesInit, Counters
<1>3. AllMoved
  <2> SUFFICES ASSUME NEW d \in Directions PROVE CountOf(d, {}) <= netinfo.last[d] + moved[d]
    BY DEF ResourcesInit, AllMoved
  <2> QED
    BY <1>1, SumEmpty DEF ResourcesInit, CountOf
<1> QED
  BY <1>2, <1>3 DEF ResourcesInit, Rings, LastReading

\* What the page says was received or sent since the last sample was moved in that
\* time, whatever interfaces left or were reset, unless one came that was not
\* counted before.
THEOREM NoPeakOutOfNothing == ResourcesSpec => NoPeak
<1>1. Counters /\ AllMoved /\ Rings /\ [ResourcesNext]_resources
        => [samples' # samples /\ Counted \subseteq before.counted /\ clock' > before.clock =>
             /\ Last(down') * (clock' - before.clock) <= moved["in"]
             /\ Last(up') * (clock' - before.clock) <= moved["out"]]_resources
  BY NoPeakStep
<1> QED
  BY <1>1, FirstReading, CountersInductive, AllMovedInductive, RingsInductive, PTL
  DEF ResourcesSpec, NoPeak

\* The percentage shown is the share of work between two readings that succeeded,
\* and zero around one that failed, as long as the counters fit their word.
THEOREM ShareIsShown == ResourcesSpec /\ [](busy + idle < WORD) => CpuIsShare
<1>1. Counters /\ LastReading /\ busy + idle < WORD /\ [ResourcesNext]_resources
        => [samples' # samples =>
             percent' = IF before.read /\ before'.read
                        THEN Percent(busy - before.busy, busy + idle - before.busy - before.idle)
                        ELSE 0]_resources
  BY ShareStep
<1> QED
  BY <1>1, FirstReading, CountersInductive, LastReadingInductive, PTL DEF ResourcesSpec, CpuIsShare

-----------------------------------------------------------------------------
(***************************************************************************)
(* The charts.                                                             *)
(***************************************************************************)
LEMMA LeastIs ==
  ASSUME NEW S \in SUBSET Nat, S # {}
  PROVE  Min(S) \in S /\ \A k \in S : Min(S) <= k
BY LeastNumber DEF Min

LEMMA LesserOfTwo ==
  ASSUME NEW a \in Nat, NEW b \in Nat
  PROVE  Min({a, b}) = IF a <= b THEN a ELSE b
BY LeastIs

LEMMA GreatestIs ==
  ASSUME NEW a \in Nat, NEW b \in Nat, NEW c \in Nat
  PROVE  Max({a, b, c}) \in {a, b, c} /\ \A k \in {a, b, c} : k <= Max({a, b, c})
<1> DEFINE N == a + b + c
<1>1. {a, b, c} \in SUBSET (0 .. N) /\ {a, b, c} # {} /\ N \in Nat
  OBVIOUS
<1> HIDE DEF N
<1>2. \E n \in {a, b, c} : \A m \in {a, b, c} : m <= n
  BY <1>1, GreatestNumber
<1>3. \A n, m \in {a, b, c} : n >= m <=> m <= n
  OBVIOUS
<1> QED
  BY <1>2, <1>3 DEF Max

\* What is pushed on a ring makes it longer as long as there is room.
LEMMA PushedLen ==
  ASSUME NEW E, NEW list \in Seq(E), NEW x \in E, NEW n \in Nat, Len(list) = Min({n, Cap})
  PROVE  Push(list, x) \in Seq(E) /\ Len(Push(list, x)) = Min({n + 1, Cap})
<1> DEFINE longer == Append(list, x)
<1>1. Cap \in Nat \ {0} /\ Cap \in Nat /\ n + 1 \in Nat
  BY ResourcesAssumption
<1>2. /\ Len(list) = IF n <= Cap THEN n ELSE Cap
      /\ Min({n + 1, Cap}) = IF n + 1 <= Cap THEN n + 1 ELSE Cap
  BY <1>1, LesserOfTwo
<1>3. longer \in Seq(E) /\ Len(longer) = Len(list) + 1
  OBVIOUS
<1>4. Len(longer) > 0 => Tail(longer) \in Seq(E) /\ Len(Tail(longer)) = Len(longer) - 1
  BY <1>3
<1>5. Push(list, x) = IF Len(longer) > Cap THEN Tail(longer) ELSE longer
  BY DEF Push
<1> HIDE DEF longer
<1> QED
  BY <1>1, <1>2, <1>3, <1>4, <1>5

\* A point that a scale is above, or that it reaches, is on the chart.
LEMMA PointIs ==
  ASSUME NEW list, Len(list) \in Nat, NEW n \in 1 .. Len(list),
         NEW v \in Nat, list[Len(list) - n + 1] = v, NEW most \in Nat \ {0}
  PROVE  /\ v < most => Points(list, most)[n] < 100
         /\ v <= most => Points(list, most)[n] <= 100
<1>1. Points(list, most)[n] = ((100 * v) % WORD) \div most
  BY DEF Points
<1> DEFINE a == 100 * v  b == a % WORD  q == b \div most
<1>2. WORD \in Nat \ {0} /\ a \in Nat
  BY ResourcesAssumption
<1>3. b \in Nat /\ b <= a
  <2> HIDE DEF a
  <2> QED
    BY <1>2
<1>4. q \in Nat /\ q * most <= b
  <2> HIDE DEF b
  <2> QED
    BY <1>3
<1>5. ASSUME q >= 101 PROVE 101 * most <= q * most
  <2> HIDE DEF q
  <2> QED
    BY <1>4, <1>5
<1>6. ASSUME q >= 100 PROVE 100 * most <= q * most
  <2> HIDE DEF q
  <2> QED
    BY <1>4, <1>6
<1>7. q * most <= 100 * v /\ q * most \in Nat
  <2> DEFINE m == q * most
  <2>1. m \in Nat
    BY <1>4
  <2> HIDE DEF q, b, m
  <2> QED
    BY <1>2, <1>3, <1>4, <2>1 DEF m
<1> HIDE DEF q, b, a
<1>8. v < most => q < 100
  <2> DEFINE m == q * most
  <2> HIDE DEF m
  <2> QED
    BY <1>4, <1>6, <1>7 DEF m
<1>9. v <= most => q <= 100
  <2> DEFINE m == q * most
  <2> HIDE DEF m
  <2> QED
    BY <1>4, <1>5, <1>7 DEF m
<1> QED
  BY <1>1, <1>8, <1>9 DEF q, b, a

\* The scale that the ladder has for two rings.
LEMMA ScaleIs ==
  ASSUME NEW l \in Seq(Nat), NEW m \in Seq(Nat)
  PROVE  LET all == ToSet(l) \cup ToSet(m)
             s   == ScaleOf(l, m)
         IN  /\ \E k \in DOMAIN Ladder : s = Ladder[k]
             /\ \A v \in all : v < Last(Ladder) => v < s
             /\ \A k \in 1 .. Len(Ladder) - 1 : s = Ladder[k + 1] => \E v \in all : v >= Ladder[k]
<1> DEFINE all  == ToSet(l) \cup ToSet(m)
           fits == {k \in DOMAIN Ladder : \A v \in all : v < Ladder[k]}
           s    == ScaleOf(l, m)
<1>1. all \subseteq Nat
  BY DEF ToSet
<1>2. /\ Ladder \in Seq(Nat) /\ Ladder # <<>> /\ DOMAIN Ladder = 1 .. Len(Ladder)
      /\ Len(Ladder) \in Nat \ {0} /\ Last(Ladder) = Ladder[Len(Ladder)]
      /\ \A j, k \in DOMAIN Ladder : j < k => Ladder[j] < Ladder[k]
      /\ \A k \in DOMAIN Ladder : Ladder[k] \in Nat
  BY ResourcesAssumption DEF Last
<1>3. s = IF fits = {} THEN Last(Ladder) ELSE Ladder[Min(fits)]
  BY DEF ScaleOf
<1>4. fits # {} => Min(fits) \in fits /\ \A k \in fits : Min(fits) <= k
  <2>1. fits \in SUBSET Nat
    BY <1>2
  <2> HIDE DEF fits
  <2> QED
    BY <2>1, LeastIs
<1> HIDE DEF s, all
<1> DEFINE i == IF fits = {} THEN Len(Ladder) ELSE Min(fits)
<1>5. /\ i \in DOMAIN Ladder /\ s = Ladder[i] /\ \A k \in DOMAIN Ladder : k < i => k \notin fits
      /\ i # Len(Ladder) => i \in fits
  <2>1. CASE fits = {}
    BY <2>1, <1>2, <1>3
  <2>2. CASE fits # {}
    <3>1. i = Min(fits) /\ i \in fits /\ \A k \in fits : i <= k
      BY <2>2, <1>4
    <3>2. i \in DOMAIN Ladder /\ s = Ladder[i]
      BY <3>1, <2>2, <1>3
    <3> HIDE DEF i, fits
    <3>3. \A k \in DOMAIN Ladder : k < i => ~(i <= k)
      BY <3>2, <1>2
    <3> QED
      BY <3>1, <3>2, <3>3
  <2> QED
    BY <2>1, <2>2
<1> HIDE DEF i
<1>6. ASSUME NEW v \in all, v < Last(Ladder) PROVE v < s
  BY <1>2, <1>5, <1>6
<1>7. ASSUME NEW k \in 1 .. Len(Ladder) - 1, s = Ladder[k + 1] PROVE \E v \in all : v >= Ladder[k]
  <2>1. k \in DOMAIN Ladder /\ k + 1 \in DOMAIN Ladder /\ k < k + 1
    BY <1>2
  <2>2. i = k + 1
    <3> HIDE DEF fits
    <3> DEFINE j == k + 1
    <3>1. \A a, b \in 1 .. Len(Ladder) : a < b \/ b < a \/ a = b
      BY <1>2
    <3>2. i \in DOMAIN Ladder /\ j \in DOMAIN Ladder /\ Ladder[i] = Ladder[j]
      BY <2>1, <1>5, <1>7
    <3> HIDE DEF j
    <3>3. Ladder[i] \in Nat /\ ~(i < j) /\ ~(j < i)
      BY <3>2, <1>2
    <3>4. i = j
      BY <3>1, <3>2, <3>3, <1>2
    <3> QED
      BY <3>4 DEF j
  <2>3. k \notin fits
    BY <2>1, <2>2, <1>5
  <2> QED
    BY <2>1, <2>3, <1>1, <1>2
<1> QED
  BY <1>5, <1>6, <1>7 DEF s, all

\* The powers of two: each is 1, 2 or a multiple of 4.
LEMMA DoubledIs ==
  /\ Doubled \in [0 .. Doublings -> Nat \ {0}] /\ Doubled[0] = 1
  /\ \A k \in 1 .. Doublings : Doubled[k] = 2 * Doubled[k - 1]
<1> DEFINE V == Nat \ {0}
           N == Doublings
           step == [n \in 1 .. N |-> [x \in V |-> 2 * x]]
<1>1. step \in [1 .. N -> [V -> V]] /\ 1 \in V /\ N \in Nat
  BY ResourcesAssumption
<1>2. ASSUME NEW n \in 1 .. N, NEW x \in V PROVE step[n][x] = 2 * x
  OBVIOUS
<1> HIDE DEF V, step, N
<1>3. PICK f \in [0 .. N -> V] : Goes(f, N, 1, step)
  BY <1>1, StepsExist
<1>4. \A n \in 0 .. N : n # 0 => n \in 1 .. N /\ f[n - 1] \in V
  BY <1>1, <1>3
<1>5. f = [n \in 0 .. N |-> IF n = 0 THEN 1 ELSE 2 * f[n - 1]]
  BY <1>2, <1>3, <1>4 DEF Goes
<1> DEFINE Is(g) == g = [n \in 0 .. N |-> IF n = 0 THEN 1 ELSE 2 * g[n - 1]]
<1>6. Is(CHOOSE g : Is(g))
  BY <1>5
<1>7. Doubled = [n \in 0 .. N |-> IF n = 0 THEN 1 ELSE 2 * Doubled[n - 1]]
  BY <1>6 DEF Doubled, N
<1> DEFINE T == {n \in Nat : n <= N => Doubled[n] \in V}
<1>8. 0 \in T
  BY <1>1, <1>7
<1>9. ASSUME NEW n \in Nat, n \in T PROVE n + 1 \in T
  <2> SUFFICES ASSUME n + 1 <= N PROVE Doubled[n + 1] \in V
    OBVIOUS
  <2>1. n + 1 \in 0 .. N /\ n + 1 # 0 /\ (n + 1) - 1 = n /\ n <= N
    BY <1>1
  <2>2. Doubled[n + 1] = 2 * Doubled[n] /\ Doubled[n] \in V
    BY <1>7, <1>9, <2>1
  <2>3. \A x \in V : 2 * x \in V
    BY DEF V
  <2> QED
    BY <2>2, <2>3
<1> HIDE DEF T
<1>10. Nat \subseteq T
  BY <1>8, <1>9, Induction
<1>11. \A n \in 0 .. N : Doubled[n] \in V
  BY <1>1, <1>10 DEF T
<1>12. DOMAIN Doubled = 0 .. N /\ Doubled[0] = 1
  BY <1>1, <1>7
<1>13. \A k \in 1 .. N : k \in 0 .. N /\ k # 0
  BY <1>1
<1>14. \A k \in 1 .. N : Doubled[k] = 2 * Doubled[k - 1]
  BY <1>7, <1>13
<1>15. Doubled \in [0 .. N -> V]
  BY <1>7, <1>11
<1> QED
  BY <1>12, <1>14, <1>15 DEF V, N

LEMMA SpaceIs ==
  ASSUME NEW bytes \in Nat, bytes > 2, bytes <= Doubled[Doublings]
  PROVE  /\ MemMaxSpace(bytes) \in Nat /\ MemMaxSpace(bytes) >= bytes
         /\ MemMaxSpace(bytes) <= Doubled[Doublings]
         /\ \E q \in Nat \ {0} : MemMaxSpace(bytes) = 4 * q
<1> DEFINE N == Doublings
           T == {n \in 0 .. N : Doubled[n] >= bytes}
           k == CHOOSE n \in 0 .. N : Doubled[n] >= bytes /\ Doubled[n] < 2 * bytes
<1>1. N \in Nat
  BY ResourcesAssumption
<1>2. \A n \in 0 .. N : Doubled[n] \in Nat \ {0}
  BY DoubledIs
<1>3. \E n \in 0 .. N : Doubled[n] >= bytes /\ Doubled[n] < 2 * bytes
  <2>1. N \in T /\ T \in SUBSET Nat
    BY <1>1, <1>2
  <2> HIDE DEF T
  <2>2. PICK n \in T : \A m \in T : n <= m
    BY <2>1, LeastNumber
  <2>3. n \in 0 .. N /\ Doubled[n] >= bytes /\ n # 0
    BY <2>2, DoubledIs DEF T
  <2>4. n \in 1 .. N /\ n - 1 \in 0 .. N /\ ~(n <= n - 1)
    BY <1>1, <2>3
  <2>5. ~(Doubled[n - 1] >= bytes)
    BY <2>2, <2>4 DEF T
  <2>6. Doubled[n] = 2 * Doubled[n - 1]
    BY <2>4, DoubledIs
  <2> QED
    BY <1>2, <2>3, <2>4, <2>5, <2>6
<1>4. k \in 0 .. N /\ Doubled[k] >= bytes /\ MemMaxSpace(bytes) = Doubled[k]
  BY <1>3 DEF MemMaxSpace
<1> HIDE DEF k, N, T
<1>5. ASSUME NEW n \in 1 .. N PROVE Doubled[n] = 2 * Doubled[n - 1] /\ n - 1 \in 0 .. N
  BY <1>1, DoubledIs DEF N
<1>6. k # 0
  BY <1>4, DoubledIs
<1>7. k \in 1 .. N /\ k - 1 \in 0 .. N /\ Doubled[k] = 2 * Doubled[k - 1]
  BY <1>1, <1>4, <1>5, <1>6
<1>8. k - 1 # 0
  BY <1>4, <1>7, DoubledIs
<1>9. k - 1 \in 1 .. N /\ (k - 1) - 1 \in 0 .. N /\ Doubled[k - 1] = 2 * Doubled[(k - 1) - 1]
  BY <1>1, <1>5, <1>7, <1>8
<1>10. Doubled[k] = 4 * Doubled[(k - 1) - 1] /\ Doubled[(k - 1) - 1] \in Nat \ {0}
  BY <1>2, <1>7, <1>9
<1>11. Doubled[k] <= Doubled[N]
  <2> DEFINE U == {n \in Nat : k + n <= N => Doubled[k] <= Doubled[k + n]}
  <2>1. 0 \in U
    BY <1>2, <1>4
  <2>2. ASSUME NEW n \in Nat, n \in U PROVE n + 1 \in U
    <3> SUFFICES ASSUME k + (n + 1) <= N PROVE Doubled[k] <= Doubled[k + (n + 1)]
      OBVIOUS
    <3>1. k + n \in 0 .. N /\ k + (n + 1) \in 1 .. N /\ (k + (n + 1)) - 1 = k + n /\ k + n <= N
      BY <1>1, <1>4
    <3>2. Doubled[k] <= Doubled[k + n] /\ Doubled[k + (n + 1)] = 2 * Doubled[k + n]
      BY <2>2, <3>1, <1>5
    <3> QED
      BY <1>2, <1>4, <3>1, <3>2
  <2> HIDE DEF U
  <2>3. Nat \subseteq U
    BY <2>1, <2>2, Induction
  <2>4. PICK n \in Nat : k + n = N
    <3>1. N - k \in Nat /\ k + (N - k) = N
      BY <1>1, <1>4
    <3> QED
      BY <3>1
  <2>5. k + n <= N /\ n \in U
    BY <1>1, <2>3, <2>4
  <2> QED
    BY <2>4, <2>5 DEF U
<1> QED
  BY <1>2, <1>4, <1>10, <1>11 DEF N

\* What is shown with one decimal is off by half a tenth of the unit at most.
LEMMA TenthsNear ==
  ASSUME NEW v \in Nat, NEW unit \in Nat \ {0}
  PROVE  LET x == Tenths(v, unit) * unit IN
           x \in Nat /\ 2 * x <= 20 * v + unit /\ 20 * v <= 2 * x + unit
<1> DEFINE q == (10 * v) \div unit  r == (10 * v) % unit  n == Tenths(v, unit)
<1>1. q \in Nat /\ r \in Nat /\ r < unit /\ 10 * v = unit * q + r
  BY DivMod
<1>2. n = IF 2 * r > unit \/ (2 * r = unit /\ q % 2 = 1) THEN q + 1 ELSE q
  BY DEF Tenths
<1>3. \/ n = q /\ 2 * r <= unit
      \/ n = q + 1 /\ 2 * r >= unit
  <2> HIDE DEF q, r, n
  <2> QED
    BY <1>1, <1>2
<1> HIDE DEF q, r, n
<1> DEFINE m == unit * q
<1>4. m \in Nat /\ n * unit \in {m, m + unit} /\ (n = q => n * unit = m) /\ (n = q + 1 => n * unit = m + unit)
  BY <1>1, <1>3
<1>5. 10 * v = m + r
  BY <1>1
<1> HIDE DEF m
<1> DEFINE x == n * unit
<1>6. (x = m /\ 2 * r <= unit) \/ (x = m + unit /\ 2 * r >= unit)
  BY <1>3, <1>4
<1>7. x \in Nat
  BY <1>4
<1> HIDE DEF x
<1>8. 2 * x <= 20 * v + unit /\ 20 * v <= 2 * x + unit
  BY <1>1, <1>4, <1>5, <1>6, <1>7
<1> QED
  BY <1>7, <1>8 DEF x, n

\* The unit of a label is no more than the top of its axis.
LEMMA UnitFits ==
  ASSUME NEW top \in Nat, top >= KILO, NEW v \in Nat, v <= top
  PROVE  UnitOf(v, 1, 4) \in Nat \ {0} /\ UnitOf(v, 1, 4) <= top
<1>1. PICK k \in 1 .. 4 : Reached(v, k, 1, 4) /\ UnitOf(v, 1, 4) = Power[k]
  BY UnitIs
<1>2. Power[k] \in Nat \ {0} /\ Power[1] = KILO /\ KILO \in Nat
  <2>1. 1 \in 1 .. 4 /\ k \in 0 .. 4 /\ 1 - 1 = 0
    OBVIOUS
  <2>2. Power[1] = KILO * Power[0] /\ Power[0] = 1 /\ KILO \in Nat
    BY <2>1, PowerIs, FiguresAssumption
  <2>3. Power[1] = KILO
    BY <2>2
  <2>4. Power[k] \in Nat \ {0}
    BY <2>1, PowerIs
  <2> QED
    BY <2>2, <2>3, <2>4
<1>3. k = 1 \/ v >= Power[k]
  BY <1>1 DEF Reached
<1> QED
  BY <1>1, <1>2, <1>3

LEMMA TicksAre ==
  ASSUME NEW q \in Nat \ {0}, NEW top, top = 4 * q
  PROVE  \A i \in 0 .. 4 : Ticks(top)[i] = q * (4 - i)
<1> SUFFICES ASSUME NEW i \in 0 .. 4 PROVE (top * (4 - i)) \div 4 = q * (4 - i)
  BY DEF Ticks
<1>1. i = 0 \/ i = 1 \/ i = 2 \/ i = 3 \/ i = 4
  OBVIOUS
<1> QED
  BY <1>1

\* From the top of an axis down each label reads less than the one above.
LEMMA LabelsFall ==
  ASSUME NEW q \in Nat \ {0}, NEW top, top = 4 * q, top >= KILO, NEW i \in 1 .. 4
  PROVE  LET T(j) == Ticks(top)[j]
         IN  Reading(Text(T(i), UnitOf(T(i), 1, 4)))
               < Reading(Text(T(i - 1), UnitOf(T(i - 1), 1, 4)))
<1> DEFINE v == Ticks(top)[i]     w == Ticks(top)[i - 1]
           a == UnitOf(v, 1, 4)   b == UnitOf(w, 1, 4)
           x == Tenths(v, a) * a  y == Tenths(w, b) * b
<1>1. v \in Nat /\ w \in Nat /\ w = v + q /\ w <= 4 * q
  <2>1. i \in 0 .. 4 /\ i - 1 \in 0 .. 4
    OBVIOUS
  <2>2. v = q * (4 - i) /\ w = q * (4 - (i - 1))
    BY <2>1, TicksAre
  <2>3. i = 1 \/ i = 2 \/ i = 3 \/ i = 4
    OBVIOUS
  <2> QED
    BY <2>2, <2>3
<1> HIDE DEF v, w
<1>2. top \in Nat /\ v <= top /\ w <= top
  BY <1>1
<1>3. a \in Nat \ {0} /\ a <= top /\ b \in Nat \ {0} /\ b <= top
  BY <1>1, <1>2, UnitFits
<1> HIDE DEF a, b
<1>4. x \in Nat /\ 2 * x <= 20 * v + a /\ y \in Nat /\ 20 * w <= 2 * y + b
  BY <1>1, <1>3, TenthsNear
<1>5. Reading(Text(v, a)) = x /\ Reading(Text(w, b)) = y
  BY DEF Reading, Text
<1> HIDE DEF x, y
<1>6. x < y
  BY <1>1, <1>3, <1>4
<1> QED
  BY <1>5, <1>6 DEF v, w, a, b

\* What fits a chart of so many bytes.
Below(bytes) == {m \in Nat \X Nat : m[1] <= bytes /\ m[2] <= bytes}

InUse ==
  /\ mem \in [used : Nat, swap : Swaps, swapUsed : Nat]
  /\ mem.used <= Memory /\ mem.swapUsed <= mem.swap

Spaced ==
  /\ space \in Nat /\ space <= Doubled[Doublings] /\ memory \in Seq(Below(space))
  /\ samples > 0 => space >= KILO /\ \E q \in Nat \ {0} : space = 4 * q

Lengths ==
  /\ history \in Seq(Int) /\ Len(history) = Min({samples, Cap})
  /\ Len(memory) = Min({samples, Cap})
  /\ Len(down) = Min({samples, Cap}) /\ Len(up) = Min({samples, Cap})
  /\ scale = ScaleOf(down, up)

Charted == InUse /\ Spaced /\ Lengths

LEMMA InUseInductive == ASSUME InUse, [ResourcesNext]_resources PROVE InUse'
<1>1. CASE UNCHANGED mem
  BY <1>1 DEF InUse
<1>2. CASE Use
  <2>1. \/ mem' = [mem EXCEPT !.used = Memory]
        \/ \E t \in Swaps : mem' = [mem EXCEPT !.swap = t, !.swapUsed = t]
    BY <1>2 DEF Use
  <2>2. CASE mem' = [mem EXCEPT !.used = Memory]
    <3>1. Memory \in Nat /\ Memory <= Memory
      BY ResourcesAssumption
    <3>2. /\ mem' \in [used : Nat, swap : Swaps, swapUsed : Nat]
          /\ mem'.used = Memory /\ mem'.swap = mem.swap /\ mem'.swapUsed = mem.swapUsed
      BY <2>2, <3>1 DEF InUse
    <3> QED
      BY <3>1, <3>2 DEF InUse
  <2>3. ASSUME NEW t \in Swaps, mem' = [mem EXCEPT !.swap = t, !.swapUsed = t] PROVE InUse'
    <3>1. t \in Nat /\ t <= t
      BY ResourcesAssumption
    <3>2. /\ mem' \in [used : Nat, swap : Swaps, swapUsed : Nat]
          /\ mem'.used = mem.used /\ mem'.swap = t /\ mem'.swapUsed = t
      BY <2>3, <3>1 DEF InUse
    <3> QED
      BY <3>1, <3>2 DEF InUse
  <2> QED
    BY <2>1, <2>2, <2>3
<1>3. CASE UpdateResourceStatus \/ UpdateInTrouble
  BY <1>1, <1>3 DEF UpdateResourceStatus, UpdateInTrouble, Sample
<1> QED
  BY <1>1, <1>2, <1>3 DEF ResourcesNext, resources, machine, Work, Traffic, Address

\* A sample makes room for the memory and the swap there are.
LEMMA SpacedSample ==
  ASSUME InUse, Spaced, samples \in Nat, RefreshMemoryAndSwapData, samples' = samples + 1
  PROVE  Spaced'
<1> DEFINE bytes == Max({space, Memory, mem.swap})
<1>1. /\ Memory \in Nat /\ Memory > 2 /\ Memory >= KILO /\ Memory <= Doubled[Doublings]
      /\ mem.swap \in Nat /\ mem.swap <= Doubled[Doublings]
  BY ResourcesAssumption DEF InUse
<1>2. space \in Nat /\ space <= Doubled[Doublings]
  BY DEF Spaced
<1>3. /\ bytes \in {space, Memory, mem.swap}
      /\ space <= bytes /\ Memory <= bytes /\ mem.swap <= bytes
  BY <1>1, <1>2, GreatestIs
<1> HIDE DEF bytes
<1>4. bytes \in Nat /\ bytes > 2 /\ bytes <= Doubled[Doublings]
  BY <1>1, <1>2, <1>3
<1>5. space' = MemMaxSpace(bytes)
  BY DEF RefreshMemoryAndSwapData, NewSpace, bytes
<1>6. /\ space' \in Nat /\ space' >= bytes /\ space' <= Doubled[Doublings]
      /\ \E q \in Nat \ {0} : space' = 4 * q
  BY <1>4, <1>5, SpaceIs
<1>7. /\ space <= space' /\ mem.used <= space' /\ mem.swapUsed <= space' /\ KILO <= space'
      /\ mem.used \in Nat /\ mem.swapUsed \in Nat
  BY <1>1, <1>2, <1>3, <1>4, <1>6, FiguresAssumption DEF InUse
<1>8. Below(space) \subseteq Below(space') /\ <<mem.used, mem.swapUsed>> \in Below(space')
  BY <1>2, <1>6, <1>7 DEF Below
<1>9. memory \in Seq(Below(space'))
  BY <1>8 DEF Spaced
<1>10. memory' = Push(memory, <<mem.used, mem.swapUsed>>)
  BY DEF RefreshMemoryAndSwapData
<1>11. memory' \in Seq(Below(space'))
  BY <1>8, <1>9, <1>10, LastPushed
<1> QED
  BY <1>6, <1>7, <1>11, FiguresAssumption DEF Spaced

LEMMA LengthsSample ==
  ASSUME Counters, LastReading, Rings, InUse, Spaced, Lengths, NEW read \in BOOLEAN,
         NEW time \in Nat \ {0}, Sample(read, time)
  PROVE  Lengths'
<1>1. PICK r \in Rates("in", time), s \in Rates("out", time) :
        down' = Push(down, r) /\ up' = Push(up, s) /\ scale' = ScaleOf(down', up')
  BY DEF Sample, UpdateNetwork
<1>2. r \in Nat /\ s \in Nat
  BY RateIsNat DEF Directions
<1>3. samples \in Nat /\ samples' = samples + 1
  BY DEF Counters, Sample
<1>4. Len(down') = Min({samples + 1, Cap}) /\ Len(up') = Min({samples + 1, Cap})
  <2>1. Len(down) = Min({samples, Cap}) /\ Len(up) = Min({samples, Cap})
    BY DEF Lengths
  <2> DEFINE E == Nat
  <2>2. down \in Seq(E) /\ up \in Seq(E) /\ r \in E /\ s \in E
    BY <1>2 DEF Rings
  <2> HIDE DEF E
  <2>3. Len(Push(down, r)) = Min({samples + 1, Cap}) /\ Len(Push(up, s)) = Min({samples + 1, Cap})
    BY <1>3, <2>1, <2>2, PushedLen
  <2> QED
    BY <1>1, <2>3
<1>5. Len(memory') = Min({samples + 1, Cap})
  <2> DEFINE E == Nat \X Nat
  <2>1. memory' = Push(memory, <<mem.used, mem.swapUsed>>)
    BY DEF Sample, RefreshMemoryAndSwapData
  <2>2. memory \in Seq(E) /\ <<mem.used, mem.swapUsed>> \in E /\ Len(memory) = Min({samples, Cap})
    BY ResourcesAssumption DEF Spaced, Below, InUse, Lengths
  <2> HIDE DEF E
  <2> QED
    BY <1>3, <2>1, <2>2, PushedLen
<1>6. history' \in Seq(Int) /\ Len(history') = Min({samples + 1, Cap})
  <2>1. history' = Push(history, percent')
    BY DEF Sample, UpdateCpu
  <2>2. percent' \in Int
    <3> DEFINE now == GetCpuTimeData(read)
    <3>1. now.work \in Nat /\ now.total \in Nat /\ cpu.work \in Nat /\ cpu.total \in Nat
      BY DEF GetCpuTimeData, LastReading
    <3> HIDE DEF now
    <3>2. \A x, y \in Nat : Minus(x, y) \in Nat
      BY ResourcesAssumption DEF Minus
    <3>3. \A x, y \in Nat : Percent(x, y) \in Int
      BY DEF Percent, NaN
    <3>4. percent' = IF cpu.work # 0 /\ cpu.total # 0
                     THEN Percent(Minus(now.work, cpu.work), Minus(now.total, cpu.total))
                     ELSE 0
      BY DEF Sample, UpdateCpu, now
    <3>5. Percent(Minus(now.work, cpu.work), Minus(now.total, cpu.total)) \in Int /\ 0 \in Int
      <4>1. Minus(now.work, cpu.work) \in Nat /\ Minus(now.total, cpu.total) \in Nat
        BY <3>1, <3>2
      <4> QED
        BY <3>3, <4>1
    <3> QED
      BY <3>4, <3>5
  <2> QED
    BY <1>3, <2>1, <2>2, PushedLen DEF Lengths
<1> QED
  BY <1>1, <1>3, <1>4, <1>5, <1>6 DEF Lengths

LEMMA ChartedInductive ==
  ASSUME Counters, LastReading, Rings, Charted, [ResourcesNext]_resources PROVE Charted'
<1>1. InUse'
  BY InUseInductive DEF Charted
<1>2. CASE UNCHANGED <<samples, history, memory, down, up, scale, space>>
  <2>1. Spaced'
    BY <1>2 DEF Charted, Spaced
  <2>2. Lengths'
    BY <1>2 DEF Charted, Lengths
  <2> QED
    BY <1>1, <2>1, <2>2 DEF Charted
<1>3. CASE UpdateResourceStatus \/ UpdateInTrouble
  <2>1. PICK read \in BOOLEAN, time \in Nat \ {0} : Sample(read, time)
    BY <1>3, SampleIsTimed
  <2>2. RefreshMemoryAndSwapData /\ samples' = samples + 1 /\ samples \in Nat
    BY <2>1 DEF Sample, Counters
  <2> QED
    BY <1>1, <2>1, <2>2, SpacedSample, LengthsSample DEF Charted
<1> QED
  BY <1>2, <1>3 DEF ResourcesNext, resources, page, Work, Use, Traffic, Address

LEMMA MemoryAlwaysFits == ASSUME Charted, samples > 0 PROVE MemoryFits
<1> SUFFICES ASSUME NEW j \in 1 .. 2,
                    NEW n \in DOMAIN [m \in DOMAIN memory |-> memory[m][j]]
             PROVE  Points([m \in DOMAIN memory |-> memory[m][j]], space)[n] <= 100
  BY DEF MemoryFits
<1> DEFINE list == [m \in DOMAIN memory |-> memory[m][j]]
           k == Len(list) - n + 1
<1>1. space \in Nat \ {0} /\ memory \in Seq(Below(space))
  BY DEF Charted, Spaced
<1>2. DOMAIN memory = 1 .. Len(memory) /\ Len(memory) \in Nat
  BY <1>1
<1>3. Len(list) = Len(memory) /\ n \in 1 .. Len(list) /\ Len(list) \in Nat
  BY <1>2
<1>4. k \in 1 .. Len(memory)
  BY <1>2, <1>3
<1>5. memory[k] \in Below(space)
  BY <1>1, <1>4
<1>6. memory[k][j] \in Nat /\ memory[k][j] <= space
  <2>1. j = 1 \/ j = 2
    OBVIOUS
  <2> QED
    BY <1>5, <2>1 DEF Below
<1>7. list[k] = memory[k][j]
  BY <1>2, <1>4
<1> HIDE DEF list
<1>8. Points(list, space)[n] <= 100
  BY <1>1, <1>3, <1>6, <1>7, PointIs
<1> QED
  BY <1>8 DEF list

\* The top label of an axis is the top.
LEMMA TopIs ==
  ASSUME NEW top \in Nat
  PROVE  Ticks(top)[0] = top
<1>1. 0 \in 0 .. 4 /\ (top * (4 - 0)) \div 4 = top
  OBVIOUS
<1> QED
  BY <1>1 DEF Ticks

LEMMA ScaleKnown ==
  ASSUME Charted, Rings
  PROVE  LET all == ToSet(down) \cup ToSet(up) IN
         /\ scale \in Nat /\ scale >= KILO /\ \E q \in Nat \ {0} : scale = 4 * q
         /\ \A v \in all : v < Last(Ladder) => v < scale
         /\ \A k \in 1 .. Len(Ladder) - 1 : scale = Ladder[k + 1] => \E v \in all : v >= Ladder[k]
<1>1. scale = ScaleOf(down, up)
  BY DEF Charted, Lengths
<1>2. PICK k \in DOMAIN Ladder : scale = Ladder[k]
  BY <1>1, ScaleIs DEF Rings
<1>3. Ladder[k] \in Nat /\ Ladder[k] >= KILO /\ Ladder[k] % 4 = 0 /\ KILO \in Nat \ {0}
  BY ResourcesAssumption, FiguresAssumption
<1> DEFINE n == Ladder[k]
<1>4. \E q \in Nat \ {0} : n = 4 * q
  <2>1. n \in Nat \ {0} /\ (n % 4) = 0
    BY <1>3
  <2> HIDE DEF n
  <2>2. n = 4 * (n \div 4) /\ n \div 4 \in Nat
    BY <2>1
  <2> QED
    BY <2>1, <2>2
<1>5. scale \in Nat /\ scale >= KILO /\ \E q \in Nat \ {0} : scale = 4 * q
  BY <1>2, <1>3, <1>4
<1> QED
  BY <1>1, <1>5, ScaleIs DEF Rings

LEMMA LabelsAlwaysAgree == ASSUME Charted, Rings, samples > 0, samples \in Nat PROVE LabelsAgree
<1>1. /\ space \in Nat /\ space >= KILO /\ memory \in Seq(Below(space))
      /\ \E q \in Nat \ {0} : space = 4 * q
  BY DEF Charted, Spaced
<1>2. ASSUME NEW i \in 1 .. 4
      PROVE  /\ Reading(MemoryLabels[i]) < Reading(MemoryLabels[i - 1])
             /\ Reading(NetworkLabels[i]) < Reading(NetworkLabels[i - 1])
  <2>1. i \in 0 .. 4 /\ i - 1 \in 0 .. 4
    OBVIOUS
  <2>2. \A j \in 0 .. 4 : /\ MemoryLabels[j] = Text(Ticks(space)[j], UnitOf(Ticks(space)[j], 1, 4))
                          /\ NetworkLabels[j] = Text(Ticks(scale)[j], UnitOf(Ticks(scale)[j], 1, 4))
    BY DEF MemoryLabels, NetworkLabels, FormatMemory, FormatNetworkBrandWidth
  <2>3. PICK p \in Nat \ {0} : space = 4 * p
    BY <1>1
  <2>4. PICK q \in Nat \ {0} : scale = 4 * q
    BY ScaleKnown
  <2>5. Reading(MemoryLabels[i]) < Reading(MemoryLabels[i - 1])
    BY <1>1, <2>1, <2>2, <2>3, LabelsFall
  <2>6. Reading(NetworkLabels[i]) < Reading(NetworkLabels[i - 1])
    BY <2>1, <2>2, <2>4, ScaleKnown, LabelsFall
  <2> QED
    BY <2>5, <2>6
<1>3. ASSUME NEW d \in {down, up}, d # <<>>, Last(d) < Last(Ladder)
      PROVE  Reading(FormatNetworkBrandWidth(Last(d))) <= Reading(NetworkLabels[0])
  <2>1. Last(d) \in Nat /\ Last(d) \in ToSet(down) \cup ToSet(up)
    <3>1. d \in Seq(Nat)
      BY DEF Rings
    <3>2. Len(d) \in 1 .. Len(d) /\ Last(d) = d[Len(d)]
      BY <1>3, <3>1 DEF Last
    <3> QED
      BY <3>1, <3>2 DEF ToSet
  <2>2. Last(d) < scale /\ scale \in Nat
    BY <1>3, <2>1, ScaleKnown
  <2>3. NetworkLabels[0] = Text(scale, UnitOf(scale, 1, 4))
    BY <2>2, TopIs DEF NetworkLabels, FormatNetworkBrandWidth
  <2> QED
    BY <2>1, <2>2, <2>3, ReadingRises DEF FormatNetworkBrandWidth
<1>4. ASSUME memory # <<>>, NEW j \in 1 .. 2
      PROVE  Reading(FormatMemory(Last(memory)[j])) <= Reading(MemoryLabels[0])
  <2>1. Last(memory) \in Below(space)
    BY <1>1, <1>4 DEF Last
  <2>2. Last(memory)[j] \in Nat /\ Last(memory)[j] <= space
    <3>1. j = 1 \/ j = 2
      OBVIOUS
    <3> QED
      BY <2>1, <3>1 DEF Below
  <2>3. MemoryLabels[0] = Text(space, UnitOf(space, 1, 4))
    BY <1>1, TopIs DEF MemoryLabels, FormatMemory
  <2> QED
    BY <1>1, <2>2, <2>3, ReadingRises DEF FormatMemory
<1> QED
  BY <1>2, <1>3, <1>4 DEF LabelsAgree

LEMMA ChartedFits == ASSUME Counters, Rings, Charted PROVE ScaleFits
<1> DEFINE all == ToSet(down) \cup ToSet(up)
<1>1. samples \in Nat /\ Cap \in Nat
  BY ResourcesAssumption DEF Counters
<1>2. MemoryFits /\ (samples > 0 => LabelsAgree)
  <2>1. CASE samples > 0
    BY <1>1, <2>1, MemoryAlwaysFits, LabelsAlwaysAgree
  <2>2. CASE ~(samples > 0)
    <3>1. samples = 0 /\ Len(memory) = 0
      BY <1>1, <2>2, LesserOfTwo DEF Charted, Lengths
    <3>2. DOMAIN memory = {}
      BY <3>1 DEF Charted, Spaced
    <3> QED
      BY <2>2, <3>2 DEF MemoryFits
  <2> QED
    BY <2>1, <2>2
<1>3. /\ Len(down) = Len(up) /\ Len(down) = Min({samples, Cap})
      /\ Len(history) = Len(down) /\ Len(memory) = Len(down)
  BY DEF Charted, Lengths
<1>4. ASSUME \A v \in all : v < Last(Ladder), NEW n \in DOMAIN down
      PROVE  Points(down, scale)[n] < 100 /\ Points(up, scale)[n] < 100
  <2>1. /\ down \in Seq(Nat) /\ up \in Seq(Nat) /\ n \in 1 .. Len(down) /\ n \in 1 .. Len(up)
        /\ Len(down) \in Nat /\ Len(up) \in Nat
    BY <1>3 DEF Rings
  <2>2. Len(down) - n + 1 \in 1 .. Len(down) /\ Len(up) - n + 1 \in 1 .. Len(up)
    BY <2>1
  <2>3. /\ down[Len(down) - n + 1] \in Nat /\ up[Len(up) - n + 1] \in Nat
        /\ down[Len(down) - n + 1] \in all /\ up[Len(up) - n + 1] \in all
    <3>1. \A i \in 1 .. Len(down) : down[i] \in Nat /\ down[i] \in ToSet(down)
      BY <2>1 DEF ToSet
    <3>2. \A i \in 1 .. Len(up) : up[i] \in Nat /\ up[i] \in ToSet(up)
      BY <2>1 DEF ToSet
    <3> DEFINE i == Len(down) - n + 1  j == Len(up) - n + 1
    <3>3. i \in 1 .. Len(down) /\ j \in 1 .. Len(up)
      BY <2>2
    <3> HIDE DEF i, j
    <3>4. down[i] \in Nat /\ up[j] \in Nat /\ down[i] \in all /\ up[j] \in all
      BY <3>1, <3>2, <3>3
    <3> QED
      BY <3>4 DEF i, j
  <2>4. /\ down[Len(down) - n + 1] < scale /\ up[Len(up) - n + 1] < scale /\ scale \in Nat \ {0}
    BY <1>4, <2>3, ScaleKnown
  <2> QED
    BY <2>1, <2>3, <2>4, PointIs
<1>5. \A k \in 1 .. Len(Ladder) - 1 : scale = Ladder[k + 1] => \E v \in all : v >= Ladder[k]
  BY ScaleKnown
<1> QED
  BY <1>2, <1>3, <1>4, <1>5 DEF ScaleFits

LEMMA ChartedFirst == ResourcesInit => Charted
<1> SUFFICES ASSUME ResourcesInit PROVE Charted
  OBVIOUS
<1>1. InUse
  BY ResourcesAssumption DEF ResourcesInit, InUse
<1>2. Spaced
  <2>1. Memory \in Nat /\ Memory > 2 /\ Memory <= Doubled[Doublings] /\ Doublings \in Nat
    BY ResourcesAssumption
  <2>2. Doubled[Doublings] \in Nat
    BY <2>1, DoubledIs
  <2> QED
    BY <2>1, <2>2 DEF ResourcesInit, Spaced
<1>3. Lengths
  <2>1. Min({0, Cap}) = 0
    BY LesserOfTwo, ResourcesAssumption
  <2>2. ScaleOf(<<>>, <<>>) = Ladder[1]
    <3> DEFINE none == <<>>
    <3>0. none \in Seq(Nat)
      OBVIOUS
    <3> HIDE DEF none
    <3>1. PICK k \in DOMAIN Ladder : ScaleOf(none, none) = Ladder[k]
      BY <3>0, ScaleIs
    <3>2. ToSet(none) = {}
      BY DEF ToSet, none
    <3>3. Ladder \in Seq(Nat) /\ Len(Ladder) \in Nat \ {0}
      BY ResourcesAssumption
    <3>4. ASSUME k # 1 PROVE FALSE
      <4>1. k - 1 \in 1 .. Len(Ladder) - 1 /\ (k - 1) + 1 = k
        BY <3>3, <3>4
      <4> QED
        BY <3>0, <3>1, <3>2, <4>1, ScaleIs
    <3> QED
      BY <3>1, <3>4 DEF none
  <2> QED
    BY <2>1, <2>2 DEF ResourcesInit, Lengths
<1> QED
  BY <1>1, <1>2, <1>3 DEF Charted

\* The rings of the charts keep the same samples, every point is on its chart unless
\* it is beyond the last scale, the scale comes down when a peak has left, memory and
\* swap share one that holds both, and the labels tell where the lines are.
THEOREM ScaleAlwaysFits == ResourcesSpec => []ScaleFits
BY FirstReading, ChartedFirst, CountersInductive, LastReadingInductive, RingsInductive,
   ChartedInductive, ChartedFits, PTL DEF ResourcesSpec
=============================================================================
