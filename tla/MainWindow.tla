----------------------------- MODULE MainWindow -----------------------------
(***************************************************************************)
(* The window and its title bar: the search box, the page buttons and the  *)
(* box that chooses whose processes are listed (MonitorTitleWidget), the   *)
(* window's size and state (SystemMonitor), and what of it is stored for   *)
(* the next start (QSettings, GSettings).  All of it runs on the GUI       *)
(* thread; signals through the event queue, timers, the animation of the   *)
(* search label and messages of other starts come in between.              *)
(*                                                                         *)
(* Of sizes the model keeps the width: Small is the minimum, Screen what a *)
(* maximised window has.  The headers of the two tables are in Headers.    *)
(***************************************************************************)
EXTENDS Headers

CONSTANTS
  Texts, NoText,   \* what is typed, and the empty text
  Sizes, Small, Screen, \* widths of the window
  Wide,            \* what the user drags a column to
  Used,            \* bound: the columns the user acts on
  MaxInputs,       \* bound: what the user and the window manager do
  MaxStarts        \* bound: starts of the program

ASSUME MainWindowAssumption ==
  /\ NoText \notin Texts
  /\ Sizes \subseteq Nat /\ {Small, Screen} \subseteq Sizes
  /\ \A s \in Sizes : Small <= s /\ s <= Screen
  /\ 702 <= Small   \* MAINWINDOWWIDTH is 860
  /\ MaxInputs \in Nat /\ MaxStarts \in Nat

VARIABLES
  up,      \* the program runs
  starts, inputs, \* bounds
  \* search
  text,    \* m_searchEditNew
  changed, \* queued calls of handleSearchTextChanged
  cache,   \* searchTextCache
  searching, \* m_isSearching
  timer,   \* m_searchTimer is active
  signals, \* queued searchSignal
  pattern, \* what the table is filtered by (setSortFilterString)
  focus,   \* the search box has the focus
  leaving, \* focusProcessView's 100 ms timers
  inFocus, \* bInFocus of showSearchFocusAnimation
  moving,  \* m_animation runs
  label,   \* m_queryText is in the search box
  cut,     \* history: an animation was replaced before it had finished
  page,    \* current page of m_sysMonitorStack
  \* processes listed
  box,     \* index of m_changeBox; 3 stands for -1, nothing chosen
  tip,     \* which text its tooltip has
  filter,  \* ProcessTableView::m_strFilter
  scanned, \* filter of the process list
  \* window
  normal,  \* size when not maximised
  max,     \* window state: maximised
  icon,    \* maxTitleBtn shows "restore"
  header,  \* of each table
  lastSize, \* of each table, m_lastSize; 0 until it is shown
  dragged, \* history: tables with a column dragged since their last resize
  toMax,   \* SystemMonitor's timer to onMaximizeWindow
  \* what is stored
  menu,    \* GSettings which-menu
  saved,   \* QSettings: size, maximised, header states
  last     \* history: the window when it was closed

search == <<text, changed, cache, searching, timer, signals, pattern>>
looks  == <<focus, leaving, inFocus, moving, label, cut, page>>
listed == <<box, tip, filter, scanned, menu>>
tables == <<header, lastSize, dragged>>
window == <<normal, max, icon, tables, toMax>>
stored == <<saved, last>>
vars   == <<up, starts, inputs, search, looks, listed, window, stored>>

Defaults == [size |-> Small, max |-> FALSE, header |-> [t \in Tables |-> None]]

Fresh ==   \* the title bar of a program that starts
  /\ text' = NoText /\ changed' = 0 /\ cache' = NoText /\ searching' = FALSE
  /\ timer' = FALSE /\ signals' = <<>> /\ pattern' = NoText
  /\ focus' = FALSE /\ leaving' = FALSE /\ inFocus' = FALSE /\ moving' = FALSE
  /\ label' = TRUE /\ cut' = FALSE /\ page' = 0

Init ==
  /\ up = FALSE /\ starts = 0 /\ inputs = 0
  /\ text = NoText /\ changed = 0 /\ cache = NoText /\ searching = FALSE
  /\ timer = FALSE /\ signals = <<>> /\ pattern = NoText
  /\ focus = FALSE /\ leaving = FALSE /\ inFocus = FALSE /\ moving = FALSE
  /\ label = TRUE /\ cut = FALSE /\ page = 0
  /\ box = 3 /\ tip = 3 /\ filter = "all" /\ scanned = "all"
  /\ normal = Small /\ max = FALSE /\ icon = FALSE /\ toMax = FALSE
  /\ header = [t \in Tables |-> None] /\ lastSize = [t \in Tables |-> 0] /\ dragged = {}
  /\ menu \in {0, 3}   \* the default, and an earlier version's "Applications"
  /\ saved = Defaults /\ last = Defaults

-----------------------------------------------------------------------------
(***************************************************************************)
(* The tables.  Only the page on top is laid out; KTableView::resizeEvent  *)
(* sets all widths again when it comes with another size than the last.    *)
(***************************************************************************)
Size == IF max THEN Screen ELSE normal

\* the stack is 2 narrower than the window
View(s) == s - 2

\* table p with header h is on top of a window s wide
Shown(p, s, h) ==
  IF p \notin Tables \/ lastSize[p] = s
  THEN header' = h /\ UNCHANGED <<lastSize, dragged>>
  ELSE /\ lastSize' = [lastSize EXCEPT ![p] = s]
       /\ dragged' = dragged \ {p}
       /\ \E bar \in {0, Bar} :
            header' = [h EXCEPT ![p].width = Adjusted(p, View(s), bar)]

-----------------------------------------------------------------------------
(***************************************************************************)
(* The search box.                                                         *)
(***************************************************************************)
\* showSearchFocusAnimation: in, stop() and start(); out, start() alone,
\* which a running animation ignores (its values have changed already)
Animate(in) ==
  IF inFocus = in THEN UNCHANGED <<inFocus, moving, cut>>
  ELSE inFocus' = in /\ moving' = TRUE /\ cut' = (cut \/ moving)

\* QLineEdit::clear; textChanged is connected through the queue
Clear ==
  /\ text' = NoText
  /\ changed' = IF text = NoText THEN changed ELSE changed + 1

\* eventFilter on FocusOut
LoseFocus ==
  /\ focus' = FALSE
  /\ IF searching THEN UNCHANGED <<text, changed, inFocus, moving, cut>>
                  ELSE Clear /\ Animate(FALSE)

\* a step of the user or the window manager, and a step of the event loop
Input  == up /\ inputs < MaxInputs /\ inputs' = inputs + 1
InLoop == up /\ UNCHANGED inputs

restOfSearch == <<cache, searching, timer, signals, pattern>>
restOfAll    == <<up, starts, listed, window, stored>>

FocusIn ==
  /\ Input /\ page = 0 /\ ~focus
  /\ focus' = TRUE
  /\ IF text = NoText THEN Animate(TRUE) ELSE UNCHANGED <<inFocus, moving, cut>>
  /\ UNCHANGED <<search, leaving, label, page, restOfAll>>

FocusOut ==
  /\ Input /\ focus
  /\ LoseFocus
  /\ UNCHANGED <<restOfSearch, leaving, label, page, restOfAll>>

Type(t) ==
  /\ Input /\ focus /\ t # text
  /\ text' = t /\ changed' = changed + 1
  /\ UNCHANGED <<cache, searching, timer, signals, pattern, looks, restOfAll>>

\* Escape reaches the title bar, Tab the search box
Escape ==
  /\ Input /\ focus
  /\ Clear /\ Animate(FALSE) /\ leaving' = TRUE
  /\ UNCHANGED <<restOfSearch, focus, label, page, restOfAll>>

FocusProcessView ==
  /\ InLoop /\ leaving
  /\ leaving' = FALSE
  /\ IF focus THEN LoseFocus ELSE UNCHANGED <<focus, text, changed, inFocus, moving, cut>>
  /\ UNCHANGED <<restOfSearch, label, page, restOfAll>>

\* mutated form: the timer is started for a text only
StartsTimerForText ==
  /\ InLoop /\ changed > 0
  /\ changed' = changed - 1 /\ cache' = text /\ searching' = (text # NoText)
  /\ timer' = (text # NoText)
  /\ UNCHANGED <<text, signals, pattern, looks, restOfAll>>

HandleSearchTextChanged ==
  /\ InLoop /\ changed > 0
  /\ changed' = changed - 1 /\ cache' = text /\ searching' = (text # NoText)
  /\ timer' = TRUE
  /\ UNCHANGED <<text, signals, pattern, looks, restOfAll>>

OnRefreshSearchResult ==
  /\ InLoop /\ timer
  /\ timer' = FALSE
  /\ signals' = IF text = cache THEN Append(signals, cache) ELSE signals
  /\ UNCHANGED <<text, changed, cache, searching, pattern, looks, restOfAll>>

OnSearch ==
  /\ InLoop /\ signals # <<>>
  /\ pattern' = Head(signals) /\ signals' = Tail(signals)
  /\ UNCHANGED <<text, changed, cache, searching, timer, looks, restOfAll>>

\* the label changes its parent, whichever way the animation went
AnimationFinishedSlot ==
  /\ InLoop /\ moving
  /\ moving' = FALSE /\ label' = ~label
  /\ UNCHANGED <<search, focus, leaving, inFocus, cut, page, restOfAll>>

\* SystemMonitor::onChangePage: a table that is shown gets the window's size
OnChangePage(i) ==
  /\ page' = i
  /\ Shown(i, Size, header)

\* the page buttons; hiding the search box takes its focus first
ChangePage(i) ==
  /\ Input /\ i # page
  /\ OnChangePage(i)
  /\ IF i = 0 THEN UNCHANGED <<text, changed, focus, leaving, inFocus, moving, cut>>
     ELSE focus' = FALSE /\ Clear /\ Animate(FALSE) /\ leaving' = TRUE
  /\ UNCHANGED <<restOfSearch, label, up, starts, listed, normal, max, icon, toMax, stored>>

-----------------------------------------------------------------------------
(***************************************************************************)
(* Whose processes are listed.                                             *)
(***************************************************************************)
\* displayActiveProcess, displayCurrentUserProcess, displayAllProcess
Chosen(i) == IF i = 0 THEN "active" ELSE IF i = 1 THEN "user" ELSE "all"

\* the tooltip names the choice, also one that the box does not have any more
SetMyComBoxTootip(i) == tip' = i

\* onChangeProcessFilter: the list is told of a filter that is new
OnChangeProcessFilter(i) ==
  /\ filter' = Chosen(i)
  /\ scanned' = IF filter # Chosen(i) THEN Chosen(i) ELSE scanned

SwitchChangeItemProcessSignal(i) ==
  /\ Input /\ page = 0 /\ i # box
  /\ box' = i /\ menu' = i /\ SetMyComBoxTootip(i)
  /\ OnChangeProcessFilter(i)
  /\ UNCHANGED <<up, starts, search, looks, window, stored>>

-----------------------------------------------------------------------------
(***************************************************************************)
(* The window.  size() is the screen's while it is maximised.  The title   *)
(* bar looks at the state when its width changes, and when the button or   *)
(* the first timer has changed the state.                                  *)
(***************************************************************************)
keep == <<up, starts, search, looks, listed, stored>>

OnUpdateMaxBtnState == icon' = max'

\* mutated form: the icon is not looked at when the size changes
NotResized(m) ==
  /\ max' = m /\ UNCHANGED icon
  /\ Shown(page, IF m THEN Screen ELSE normal, header)

\* resizeEvent comes only if the width differs
Resized(m) ==
  /\ max' = m
  /\ IF normal # Screen THEN OnUpdateMaxBtnState ELSE UNCHANGED icon
  /\ Shown(page, IF m THEN Screen ELSE normal, header)

\* the button, and the timer set when the last session ended maximised
OnMaximizeWindow ==
  /\ \/ Input /\ UNCHANGED toMax
     \/ InLoop /\ toMax /\ toMax' = FALSE
  /\ max' = ~max /\ OnUpdateMaxBtnState
  /\ Shown(page, IF max' THEN Screen ELSE normal, header)
  /\ UNCHANGED <<normal, keep>>

\* mouseDoubleClickEvent, or the window manager
DoubleClick ==
  /\ Input /\ Resized(~max)
  /\ UNCHANGED <<normal, toMax, keep>>

\* activateWindow and sltMessageReceived: showNormal
MessageReceived ==
  /\ Input /\ max /\ Resized(FALSE)
  /\ UNCHANGED <<normal, toMax, keep>>

\* external: the user drags the border
Resize(s) ==
  /\ Input /\ ~max /\ s # normal
  /\ normal' = s /\ icon' = FALSE
  /\ Shown(page, s, header)
  /\ UNCHANGED <<max, toMax, keep>>

InHeader == page \in Tables /\ UNCHANGED <<lastSize, normal, max, icon, toMax, keep>>

ToggleColumn(c) ==
  /\ Input /\ InHeader /\ UNCHANGED dragged
  /\ c \in IF page = Processes THEN ProcessMenu ELSE FileMenu
  /\ header' = [header EXCEPT ![page] = Toggled(@, c)]

SortBy(c) ==
  /\ Input /\ InHeader /\ UNCHANGED dragged
  /\ c \in Columns(page) \ header[page].hidden
  /\ header' = [header EXCEPT ![page] = SortedBy(@, c)]

\* external, QHeaderView
DragColumn(c) ==
  /\ Input /\ InHeader
  /\ c \in Columns(page) \ header[page].hidden
  /\ header' = [header EXCEPT ![page].width[c] = Wide]
  /\ dragged' = dragged \cup {page}

-----------------------------------------------------------------------------
(***************************************************************************)
(* Start, close and kill.                                                  *)
(***************************************************************************)
\* mutated form: the second table's header is not stored
HeaderNotStored ==
  [size |-> Size, max |-> max, header |-> [header EXCEPT ![Files] = saved.header[Files]]]

ProcessSettings == header[Processes]   \* saveSettings
FileSettings    == header[Files]

\* closeEvent: size(), isMaximized(), and saveState() of both tables
Stored == [size |-> Size, max |-> max, 
   header |-> [t \in Tables |-> IF t = Processes THEN ProcessSettings ELSE FileSettings]]

\* ProcessTableView starts with "all", then takes the title bar's choice
FilterRestored(i) == filter' = Chosen(i) /\ scanned' = Chosen(i)

\* the choice of the last session: the box has no entry 3
BoxRestored == box' = menu /\ SetMyComBoxTootip(menu)

\* both views are built with what was stored; the first layout takes from the
\* one on top the widths restored
Built(s) ==
  LET loaded == [t \in Tables |-> IF t = Processes THEN LoadProcessSettings(saved.header[t])
                                                  ELSE LoadFileSettings(saved.header[t])]
  IN /\ dragged' = {} /\ lastSize' = [t \in Tables |-> IF t = Processes THEN s ELSE 0]
     /\ \E bar \in {0, Bar} :
          header' = [loaded EXCEPT ![Processes].width = Adjusted(Processes, View(s), bar)]

Start ==
  /\ ~up /\ starts < MaxStarts
  /\ up' = TRUE /\ starts' = starts + 1
  /\ BoxRestored /\ FilterRestored(menu)
  /\ normal' = saved.size /\ max' = FALSE /\ icon' = FALSE /\ toMax' = saved.max
  /\ Built(saved.size)
  /\ Fresh
  /\ UNCHANGED <<inputs, menu, stored>>

\* what a program that does not run has: nothing
Gone ==
  /\ up' = FALSE
  /\ Fresh
  /\ box' = 3 /\ tip' = 3 /\ filter' = "all" /\ scanned' = "all"
  /\ normal' = Small /\ max' = FALSE /\ icon' = FALSE /\ toMax' = FALSE
  /\ header' = [t \in Tables |-> None] /\ lastSize' = [t \in Tables |-> 0] /\ dragged' = {}

Close ==
  /\ up /\ Gone
  /\ saved' = Stored
  /\ last' = [size |-> normal, max |-> max,
              header |-> [t \in Tables |-> [header[t] EXCEPT !.width = <<>>]]]
  /\ UNCHANGED <<starts, inputs, menu>>

\* a signal: crashHandler stores nothing
Killed ==
  /\ up /\ Gone
  /\ UNCHANGED <<starts, inputs, menu, stored>>

EventLoop ==
  \/ HandleSearchTextChanged \/ OnRefreshSearchResult \/ OnSearch
  \/ FocusProcessView \/ AnimationFinishedSlot

User ==
  \/ FocusIn \/ FocusOut \/ Escape \/ (\E t \in Texts : Type(t))
  \/ (\E i \in 0 .. 2 : ChangePage(i) \/ SwitchChangeItemProcessSignal(i))
  \/ DoubleClick \/ MessageReceived
  \/ (\E c \in Used : ToggleColumn(c) \/ SortBy(c) \/ DragColumn(c))
  \/ (\E s \in Sizes : Resize(s))

Next == EventLoop \/ User \/ OnMaximizeWindow \/ Start \/ Close \/ Killed

\* Qt delivers what is queued and fires the timers that are due
Spec == Init /\ [][Next]_vars /\ WF_vars(HandleSearchTextChanged)
             /\ WF_vars(OnRefreshSearchResult) /\ WF_vars(OnSearch)

-----------------------------------------------------------------------------
(***************************************************************************)
(* Properties.                                                             *)
(***************************************************************************)
\* The queues and the stored settings stay what the code can read back.
TypeOK ==
  /\ {up, searching, timer, focus, leaving, inFocus, moving, label, cut, max,
      icon, toMax} \subseteq BOOLEAN
  /\ {text, cache, pattern} \subseteq Texts \cup {NoText}
  /\ signals \in Seq(Texts \cup {NoText})
  /\ starts \in 0 .. MaxStarts /\ inputs \in 0 .. MaxInputs /\ changed \in 0 .. MaxInputs + 1
  /\ page \in 0 .. 2 /\ {box, tip, menu} \subseteq 0 .. 3
  /\ filter \in {"active", "user", "all"} /\ scanned \in {"active", "user", "all"}
  /\ normal \in Sizes /\ saved.size \in Sizes
  /\ dragged \subseteq Tables /\ lastSize \in [Tables -> Sizes \cup {0}]
  /\ \A t \in Tables : up => DOMAIN header[t].width = Columns(t)

\* Once the user stops typing, the table is filtered by the text that stands in
\* the search box: the timer drops a search whose text has changed since, and
\* the change's own call makes the next one (monitortitlewidget.cpp:323-342).
SearchApplied == []<>(~up \/ pattern = text)

\* "Search" stands in the middle of the box when nobody writes there and at its
\* side when somebody does, after every animation that ran to its end: the
\* slot only inverts what it finds (monitortitlewidget.cpp:820-829).
LabelFollowsFocus == (up /\ ~moving /\ ~cut) => (label <=> ~inFocus)

\* The list, the view and the box agree about whose processes are shown, from
\* the first scan of a session on, and the choice outlives it.
FilterIsBox == up => (box = menu /\ tip = box /\ filter = Chosen(box) /\ scanned = filter)

\* A session starts with the columns and the order of both tables, the state
\* and the size the last closed one ended with, whatever was killed in between.
\* The size is lost if that one was closed maximised: its size() is the screen's
\* (systemmonitor.cpp:452).
Survives ==
  [][(up' /\ ~up) =>
       /\ \A t \in Tables : last.header[t] # None =>
            /\ header'[t].hidden = last.header[t].hidden
            /\ header'[t].sort = last.header[t].sort
       /\ toMax' = last.max
       /\ (~last.max => normal' = last.size)]_vars

\* The button shows "restore" exactly when the window is maximised, whoever
\* changed its state: the button, the title bar, the window manager or another
\* start.  A window as wide as the screen does not change its width.
IconTells == (up /\ normal # Screen) => (icon <=> max)

\* What the title bar says is so, at every step: its label, the box that names
\* the processes listed, and its button.
TitleBarTells == LabelFollowsFocus /\ FilterIsBox /\ IconTells

\* No column is pushed out of the view, which does not scroll sideways
\* (ktableview.cpp:96): whatever widths were stored by a larger window, whichever
\* columns are hidden and shown again, and with a scroll bar or without, unless
\* the user drags one (adjustColumnsSize).
ColumnsFit ==
  \A bar \in {0, Bar} :
    (up /\ page \in Tables \ dragged) => Fits(header[page], View(Size) - bar)

\* The window, its title bar and the table on top.
WindowTells == TitleBarTells /\ ColumnsFit
=============================================================================
