-------------------------- MODULE MainWindowProofs --------------------------
(***************************************************************************)
(* What the title bar says, for any texts, any sizes of the window and any *)
(* number of sessions.  The label is the one that needs an argument: its   *)
(* slot inverts what it finds, so it is right only because an animation    *)
(* starts where the one before it has ended.                               *)
(***************************************************************************)
EXTENDS MainWindow, Lemmas

\* Steps by what of the title bar they may change.
OfLabel == \/ FocusIn \/ FocusOut \/ Escape \/ FocusProcessView
           \/ (\E i \in 0 .. 2 : ChangePage(i)) \/ AnimationFinishedSlot
OfText  == \/ (\E t \in Texts : Type(t))
           \/ HandleSearchTextChanged \/ OnRefreshSearchResult \/ OnSearch
OfBox   == \E i \in 0 .. 2 : SwitchChangeItemProcessSignal(i)
OfState == OnMaximizeWindow \/ DoubleClick \/ MessageReceived \/ \E s \in Sizes : Resize(s)
OfTable == \E c \in Used : ToggleColumn(c) \/ SortBy(c) \/ DragColumn(c)
Session == Start \/ Close \/ Killed

LEMMA Transitions ==
  ASSUME [Next]_vars
  PROVE  OfLabel \/ OfText \/ OfBox \/ OfState \/ OfTable \/ Session \/ UNCHANGED vars
BY DEF Next, EventLoop, User, OfLabel, OfText, OfBox, OfState, OfTable, Session

\* Each of the three parts of the title bar is left alone by the steps of the others.
LEMMA LabelAlone ==
  ASSUME OfText \/ OfBox \/ OfState \/ OfTable \/ UNCHANGED vars
  PROVE  UNCHANGED <<up, inFocus, moving, label, cut>>
BY DEF OfText, Type, HandleSearchTextChanged, OnRefreshSearchResult, OnSearch,
       OfBox, SwitchChangeItemProcessSignal,
       OfState, OnMaximizeWindow, DoubleClick, MessageReceived, Resize, keep,
       OfTable, ToggleColumn, SortBy, DragColumn, InHeader, looks, restOfAll, vars

LEMMA BoxAlone ==
  ASSUME OfLabel \/ OfText \/ OfState \/ OfTable \/ UNCHANGED vars
  PROVE  UNCHANGED <<up, box, tip, filter, scanned, menu>>
BY DEF OfLabel, FocusIn, FocusOut, Escape, FocusProcessView, ChangePage, AnimationFinishedSlot,
       OfText, Type, HandleSearchTextChanged, OnRefreshSearchResult, OnSearch,
       OfState, OnMaximizeWindow, DoubleClick, MessageReceived, Resize, keep,
       OfTable, ToggleColumn, SortBy, DragColumn, InHeader, listed, restOfAll, vars

LEMMA IconAlone ==
  ASSUME OfLabel \/ OfText \/ OfBox \/ OfTable \/ UNCHANGED vars
  PROVE  UNCHANGED <<up, normal, max, icon>>
BY DEF OfLabel, FocusIn, FocusOut, Escape, FocusProcessView, ChangePage, AnimationFinishedSlot,
       OfText, Type, HandleSearchTextChanged, OnRefreshSearchResult, OnSearch,
       OfBox, SwitchChangeItemProcessSignal,
       OfTable, ToggleColumn, SortBy, DragColumn, InHeader, keep, window, restOfAll, vars

-----------------------------------------------------------------------------
(***************************************************************************)
(* The label.                                                              *)
(***************************************************************************)
LabelFlags == {inFocus, moving, label, cut} \subseteq BOOLEAN
LabelTurns ==
  up /\ ~cut => /\ moving => (label <=> inFocus)
                /\ ~moving => (label <=> ~inFocus)

LEMMA AnimateTurns ==
  ASSUME LabelFlags, LabelTurns, NEW in \in BOOLEAN, Animate(in), UNCHANGED <<up, label>>
  PROVE  LabelFlags' /\ LabelTurns'
BY DEF LabelFlags, LabelTurns, Animate

LEMMA LabelInductive ==
  ASSUME LabelFlags, LabelTurns, [Next]_vars PROVE LabelFlags' /\ LabelTurns'
<1>1. CASE UNCHANGED <<up, inFocus, moving, label, cut>>
  BY <1>1 DEF LabelFlags, LabelTurns
<1>2. CASE Session
  BY <1>2 DEF Session, Start, Close, Killed, Gone, Fresh, LabelFlags, LabelTurns
<1>3. CASE AnimationFinishedSlot
  <2>1. moving /\ moving' = FALSE /\ label' = ~label /\ UNCHANGED <<up, inFocus, cut>>
    BY <1>3 DEF AnimationFinishedSlot, restOfAll
  <2> QED
    BY <2>1 DEF LabelFlags, LabelTurns
<1>4. CASE OfLabel /\ ~AnimationFinishedSlot
  <2>1. UNCHANGED <<up, label>>
    BY <1>4 DEF OfLabel, FocusIn, FocusOut, Escape, FocusProcessView, ChangePage, restOfAll
  <2>2. Animate(TRUE) \/ Animate(FALSE) \/ UNCHANGED <<inFocus, moving, cut>>
    BY <1>4 DEF OfLabel, FocusIn, FocusOut, Escape, FocusProcessView, ChangePage, LoseFocus
  <2> QED
    BY <1>1, <2>1, <2>2, AnimateTurns
<1> QED
  BY <1>1, <1>2, <1>3, <1>4, Transitions, LabelAlone

-----------------------------------------------------------------------------
(***************************************************************************)
(* The box and the button.                                                 *)
(***************************************************************************)
LEMMA FilterInductive ==
  ASSUME FilterIsBox, [Next]_vars PROVE FilterIsBox'
<1>1. CASE OfBox
  BY <1>1 DEF OfBox, SwitchChangeItemProcessSignal, OnChangeProcessFilter, SetMyComBoxTootip,
              FilterIsBox
<1>2. CASE Session
  BY <1>2 DEF Session, Start, Close, Killed, Gone, BoxRestored, FilterRestored,
              SetMyComBoxTootip, FilterIsBox
<1> QED
  BY <1>1, <1>2, Transitions, BoxAlone DEF FilterIsBox

LEMMA IconInductive ==
  ASSUME IconTells, [Next]_vars PROVE IconTells'
<1>1. CASE OfState
  BY <1>1 DEF OfState, OnMaximizeWindow, DoubleClick, MessageReceived, Resize, Resized,
              OnUpdateMaxBtnState, IconTells
<1>2. CASE Session
  BY <1>2 DEF Session, Start, Close, Killed, Gone, IconTells
<1> QED
  BY <1>1, <1>2, Transitions, IconAlone DEF IconTells

\* What the title bar says is so at every step of every session: its label, the
\* box that names whose processes are listed, and its button.
THEOREM TitleBarAlwaysTells == Spec => []TitleBarTells
<1> DEFINE Inv == LabelFlags /\ LabelTurns /\ FilterIsBox /\ IconTells
<1>1. Init => Inv
  BY DEF Init, LabelFlags, LabelTurns, FilterIsBox, IconTells
<1>2. Inv /\ [Next]_vars => Inv'
  BY LabelInductive, FilterInductive, IconInductive
<1>3. Inv => TitleBarTells
  BY DEF LabelTurns, TitleBarTells, LabelFollowsFocus
<1> QED
  BY <1>1, <1>2, <1>3, PTL DEF Spec

-----------------------------------------------------------------------------
(***************************************************************************)
(* The widths adjustColumnsSize gives: whichever columns are hidden, those *)
(* that are shown leave the last of them its least width.                  *)
(***************************************************************************)
Pads(pad, n) ==
  /\ n = Len(pad) /\ DOMAIN pad = 1 .. n
  /\ (n = 8 /\ pad[1] = 140) \/ (n = 7 /\ pad[1] = 120)
  /\ \A c \in 1 .. n : pad[c] \in Nat /\ 80 <= pad[c]

LEMMA PaddingIs ==
  ASSUME NEW t \in Tables
  PROVE  \E n \in Nat : Pads(Padding(t), n) /\ Columns(t) = 1 .. n
<1>1. Pads(ProcessPadding, 8)
  BY DEF ProcessPadding, Pads
<1>2. Pads(FilePadding, 7)
  BY DEF FilePadding, Pads
<1>3. CASE t = Processes
  <2>1. Padding(t) = ProcessPadding /\ Columns(t) = DOMAIN ProcessPadding
    BY <1>3 DEF Padding, Columns
  <2>2. DOMAIN ProcessPadding = 1 .. 8
    BY <1>1 DEF Pads
  <2> QED
    BY <1>1, <2>1, <2>2
<1>4. CASE t # Processes
  <2>1. Padding(t) = FilePadding /\ Columns(t) = DOMAIN FilePadding
    BY <1>4 DEF Padding, Columns
  <2>2. DOMAIN FilePadding = 1 .. 7
    BY <1>2 DEF Pads
  <2> QED
    BY <1>2, <2>1, <2>2
<1> QED
  BY <1>3, <1>4

LEMMA AdjustedIs ==
  ASSUME NEW t \in Tables, NEW w, NEW bar
  PROVE  Adjusted(t, w, bar) =
           Spread(Padding(t), Total(Padding(t), Columns(t) \ {1}), w, bar)
BY DEF Adjusted, AdjustProcessColumns, AdjustFileColumns, Columns, Padding, Tables, Processes, Files

\* All columns together are no wider than the view, and none but the first is
\* narrower than 80.
LEMMA AdjustedSum ==
  ASSUME NEW t \in Tables, NEW w \in Nat, 700 <= w, NEW bar \in {0, Bar}
  PROVE  LET width == Adjusted(t, w, bar)
         IN  /\ DOMAIN width = Columns(t)
             /\ \A c \in Columns(t) : width[c] \in Nat
             /\ \A c \in Columns(t) \ {1} : 80 <= width[c]
             /\ Total(width, Columns(t)) <= w
<1> DEFINE pad   == Padding(t)
           C     == Columns(t)
           right == Total(pad, C \ {1})
           width == Adjusted(t, w, bar)
<1>1. PICK n \in Nat : Pads(pad, n) /\ C = 1 .. n
  BY PaddingIs
<1>2. /\ n \in Nat /\ n >= 1 /\ C = 1 .. n /\ DOMAIN pad = C /\ n = Len(pad)
      /\ \A c \in C : pad[c] \in Nat /\ 80 <= pad[c]
  BY <1>1 DEF Pads
<1>3. (n = 8 /\ pad[1] = 140) \/ (n = 7 /\ pad[1] = 120)
  BY <1>1 DEF Pads
<1>4. width = Spread(pad, right, w, bar)
  BY AdjustedIs
<1> HIDE DEF pad, C, width
<1>5. IsFiniteSet(C) /\ IsFiniteSet(C \ {1}) /\ 1 \in C /\ Cardinality(C \ {1}) = n - 1
  <2>1. IsFiniteSet(C) /\ Cardinality(C) = n
    <3>1. IsFiniteSet(1 .. n) /\ Cardinality(1 .. n) = n
      BY FS_Interval
    <3> QED
      BY <1>2, <3>1
  <2>2. 1 \in C
    BY <1>2
  <2>3. IsFiniteSet(C \ {1}) /\ Cardinality(C \ {1}) = Cardinality(C) - 1
    BY <2>1, <2>2, FS_RemoveElement
  <2> QED
    BY <2>1, <2>2, <2>3
<1>6. right \in Int
  <2>1. \A c \in C \ {1} : pad[c] \in Int /\ pad[c] = pad[c]
    BY <1>2
  <2> QED
    BY <1>5, <2>1, SumSame DEF Total
<1>7. bar \in Nat /\ bar <= 80 /\ pad[1] \in Nat /\ 80 <= pad[1]
  <2>1. Bar \in Nat /\ Bar <= 80
    BY HeadersAssumption
  <2> QED
    BY <1>2, <1>5, <2>1
<1> HIDE DEF right
<1>8. CASE w - right < pad[1]
  <2> DEFINE share == (w - pad[1]) \div (n - 1)
  <2>1. width = [c \in DOMAIN pad |-> IF c = 1 THEN pad[1] ELSE share]
    BY <1>2, <1>4, <1>8 DEF Spread
  <2>2. share \in Nat /\ 80 <= share /\ (n - 1) * share <= w - pad[1]
    <3>1. CASE n = 8
      BY <1>3, <3>1
    <3>2. CASE n = 7
      BY <1>3, <3>2
    <3> QED
      BY <1>3, <3>1, <3>2
  <2> HIDE DEF share
  <2>3. DOMAIN width = C /\ width[1] = pad[1] /\ \A c \in C \ {1} : width[c] = share
    BY <1>2, <1>5, <2>1
  <2>4. \A c \in C : width[c] \in Nat /\ width[c] \in Int
    BY <1>7, <2>2, <2>3
  <2>5. Total(width, C \ {1}) = (n - 1) * share
    BY <1>5, <2>2, <2>3, SumConstant DEF Total
  <2>6. Total(width, C) = pad[1] + Total(width, C \ {1})
    BY <1>5, <2>3, <2>4, SumRemove DEF Total
  <2>7. Total(width, C) <= w
    BY <1>2, <1>7, <2>2, <2>5, <2>6
  <2> QED
    BY <2>2, <2>3, <2>4, <2>7 DEF width, C
<1>9. CASE ~(w - right < pad[1])
  <2>1. width = [pad EXCEPT ![1] = w - bar - right]
    BY <1>4, <1>9 DEF Spread
  <2>2. /\ DOMAIN width = C /\ width[1] = w - bar - right
        /\ \A c \in C \ {1} : width[c] = pad[c]
    BY <1>2, <1>5, <2>1
  <2>3. width[1] \in Nat
    BY <1>6, <1>7, <1>9, <2>2
  <2>4. \A c \in C : width[c] \in Nat /\ width[c] \in Int
    BY <1>2, <2>2, <2>3
  <2>5. \A c \in C \ {1} : pad[c] \in Int /\ 80 <= pad[c]
    BY <1>2
  <2>6. Total(pad, C \ {1}) = Total(width, C \ {1})
    BY <1>5, <2>2, <2>5, SumSame DEF Total
  <2>7. Total(width, C) = width[1] + Total(width, C \ {1})
    BY <1>5, <2>4, SumRemove DEF Total
  <2>8. Total(width, C) <= w
    BY <1>6, <1>7, <2>2, <2>6, <2>7 DEF right
  <2> QED
    BY <2>2, <2>4, <2>5, <2>8 DEF width, C
<1> QED
  BY <1>8, <1>9

\* The shape of a header, which every step keeps; the first column is never hidden.
IsHeader(h, t) ==
  /\ h = [width |-> h.width, hidden |-> h.hidden, sort |-> h.sort]
  /\ h.width = [c \in Columns(t) |-> h.width[c]]
  /\ h.hidden \subseteq Columns(t) \ {1}

LEMMA AdjustedFits ==
  ASSUME NEW t \in Tables, NEW w \in Nat, 700 <= w, NEW bar0 \in {0, Bar}, NEW bar \in {0, Bar},
         NEW h, IsHeader(h, t), h.width = Adjusted(t, w, bar0)
  PROVE  Fits(h, w - bar)
<1> DEFINE C == Columns(t)
           shown == C \ h.hidden
           width == h.width
           m == Max(shown)
<1>1. /\ DOMAIN width = C /\ \A c \in C : width[c] \in Nat /\ width[c] \in Int
      /\ \A c \in C \ {1} : 80 <= width[c]
      /\ Total(width, C) <= w
  BY AdjustedSum
<1>2. PICK n \in Nat : Pads(Padding(t), n) /\ C = 1 .. n
  BY PaddingIs
<1>3. IsFiniteSet(C) /\ 1 \in C /\ 1 \in shown /\ shown \in SUBSET (0 .. n)
  <2>1. IsFiniteSet(C)
    BY <1>2, FS_Interval
  <2>2. 1 \in C /\ C \subseteq 0 .. n
    BY <1>2 DEF Pads
  <2> QED
    BY <2>1, <2>2 DEF IsHeader
<1>4. m \in shown /\ \A c \in shown : c <= m
  <2>1. \E k \in shown : \A c \in shown : c <= k
    BY <1>2, <1>3, GreatestNumber
  <2>2. \E k \in shown : \A c \in shown : k >= c
    BY <1>2, <1>3, <2>1
  <2>3. m \in shown /\ \A c \in shown : m >= c
    BY <2>2 DEF Max
  <2> QED
    BY <1>2, <1>3, <2>3
<1>5. bar \in Nat /\ MinSection \in Nat /\ bar + MinSection <= 80
  BY HeadersAssumption
<1> HIDE DEF m
<1>6. Total(width, shown \ {m}) + MinSection <= w - bar
  <2>1. CASE m = 1
    <3>1. shown \ {m} = {}
      BY <1>2, <1>3, <1>4, <2>1
    <3>2. Total(width, shown \ {m}) = 0
      BY <3>1, SumEmpty DEF Total
    <3> QED
      BY <1>5, <3>2
  <2>2. CASE m # 1
    <3>1. m \in C \ {1} /\ shown \ {m} \in SUBSET (C \ {m}) /\ IsFiniteSet(C \ {m})
      BY <1>2, <1>3, <1>4, <2>2, FS_RemoveElement
    <3>2. Total(width, C) = width[m] + Total(width, C \ {m})
      BY <1>1, <1>3, <3>1, SumRemove DEF Total
    <3>3. /\ Total(width, shown \ {m}) \in Nat /\ Total(width, C \ {m}) \in Nat
          /\ Total(width, shown \ {m}) <= Total(width, C \ {m})
      BY <1>1, <3>1, SumMonotone DEF Total
    <3>4. width[m] \in Nat /\ 80 <= width[m]
      BY <1>1, <3>1
    <3> QED
      BY <1>1, <1>5, <3>2, <3>3, <3>4
  <2> QED
    BY <2>1, <2>2
<1> QED
  BY <1>1, <1>6 DEF Fits, m

-----------------------------------------------------------------------------
(***************************************************************************)
(* The tables and what is stored of them.  A table that has been laid out  *)
(* for a width keeps the widths of its columns until it is laid out for    *)
(* another one, unless the user drags a column; the one on top has been    *)
(* laid out for the width the window has.                                  *)
(***************************************************************************)
Kinds ==
  /\ up \in BOOLEAN /\ page \in 0 .. 2 /\ max \in BOOLEAN
  /\ normal \in Sizes /\ saved.size \in Sizes

HeadersKept ==
  up => /\ header = [t \in Tables |-> header[t]]
        /\ \A t \in Tables : IsHeader(header[t], t)

LaidOut ==
  /\ lastSize \in [Tables -> Sizes \cup {0}]
  /\ up /\ page \in Tables => lastSize[page] = Size
  /\ \A t \in Tables : up /\ t \notin dragged /\ lastSize[t] # 0 =>
       \E bar \in {0, Bar} : header[t].width = Adjusted(t, View(lastSize[t]), bar)

\* What is stored is the window that was closed last.
StoredIsLast ==
  /\ saved.max = last.max /\ (~last.max => saved.size = last.size)
  /\ \A t \in Tables :
       IF saved.header[t] = None
         THEN last.header[t] = None
         ELSE /\ IsHeader(saved.header[t], t)
              /\ saved.header[t].hidden = last.header[t].hidden
              /\ saved.header[t].sort = last.header[t].sort

TablesInv == Kinds /\ HeadersKept /\ LaidOut /\ StoredIsLast

ofTables == <<up, page, normal, max, header, lastSize, dragged, saved, last>>

LEMMA TablesAlone ==
  ASSUME (OfLabel /\ ~(\E i \in 0 .. 2 : ChangePage(i))) \/ OfText \/ OfBox \/ UNCHANGED vars
  PROVE  UNCHANGED ofTables
BY DEF OfLabel, FocusIn, FocusOut, Escape, FocusProcessView, AnimationFinishedSlot,
       OfText, Type, HandleSearchTextChanged, OnRefreshSearchResult, OnSearch,
       OfBox, SwitchChangeItemProcessSignal,
       ofTables, looks, stored, window, tables, restOfAll, vars

LEMMA Ends == Small \in Sizes /\ Screen \in Sizes
BY MainWindowAssumption

LEMMA SizesAre == \A s \in Sizes : s \in Nat /\ 702 <= s /\ View(s) \in Nat /\ 700 <= View(s)
<1> SUFFICES ASSUME NEW s \in Sizes
             PROVE  s \in Nat /\ 702 <= s /\ View(s) \in Nat /\ 700 <= View(s)
  OBVIOUS
<1>1. s \in Nat /\ Small \in Nat /\ Small <= s /\ 702 <= Small
  BY MainWindowAssumption
<1> QED
  BY <1>1 DEF View

LEMMA AdjustedDomain ==
  ASSUME NEW t \in Tables, NEW s \in Sizes, NEW bar \in {0, Bar}
  PROVE  LET width == Adjusted(t, View(s), bar) IN width = [c \in Columns(t) |-> width[c]]
<1> DEFINE w == View(s)
<1>1. w \in Nat /\ 700 <= w
  BY SizesAre
<1> HIDE DEF w
<1>2. DOMAIN Adjusted(t, w, bar) = Columns(t)
  BY <1>1, AdjustedSum
<1>3. \E pad, right : Adjusted(t, w, bar) = Spread(pad, right, w, bar) /\ DOMAIN pad = Columns(t)
  BY AdjustedIs DEF Columns
<1>4. \A pad, right : LET f == Spread(pad, right, w, bar) IN f = [c \in DOMAIN f |-> f[c]]
  BY DEF Spread
<1>5. LET f == Adjusted(t, w, bar) IN f = [c \in DOMAIN f |-> f[c]]
  BY <1>3, <1>4
<1> QED
  BY <1>2, <1>5 DEF w

\* A table that comes on top, or whose window gets another width.
LEMMA ShownInv ==
  ASSUME TablesInv, up, UNCHANGED <<up, saved, last>>, page' \in 0 .. 2, max' \in BOOLEAN,
         normal' \in Sizes, Shown(page', Size', header)
  PROVE  TablesInv'
<1> DEFINE p == page'
           s == Size'
<1>1. s \in Sizes /\ s # 0
  BY MainWindowAssumption, SizesAre DEF Size
<1>2. Kinds' /\ StoredIsLast'
  BY DEF TablesInv, Kinds, StoredIsLast
<1>3. CASE p \notin Tables \/ lastSize[p] = s
  <2>1. UNCHANGED <<header, lastSize, dragged>>
    BY <1>3 DEF Shown
  <2>2. HeadersKept'
    BY <2>1 DEF TablesInv, HeadersKept
  <2>3. LaidOut'
    BY <1>3, <2>1 DEF TablesInv, LaidOut
  <2> QED
    BY <1>2, <2>2, <2>3 DEF TablesInv
<1>4. CASE p \in Tables /\ lastSize[p] # s
  <2>1. PICK bar \in {0, Bar} :
          /\ lastSize' = [lastSize EXCEPT ![p] = s] /\ dragged' = dragged \ {p}
          /\ header' = [header EXCEPT ![p].width = Adjusted(p, View(s), bar)]
    BY <1>4 DEF Shown
  <2> DEFINE width == Adjusted(p, View(s), bar)
  <2>2. width = [c \in Columns(p) |-> width[c]]
    BY <1>1, <1>4, AdjustedDomain
  <2> HIDE DEF width, p, s
  <2>3. /\ header = [t \in Tables |-> header[t]] /\ \A t \in Tables : IsHeader(header[t], t)
        /\ lastSize \in [Tables -> Sizes \cup {0}]
    BY DEF TablesInv, HeadersKept, LaidOut
  <2>4. /\ header'[p] = [header[p] EXCEPT !.width = width] /\ lastSize'[p] = s
        /\ header' = [t \in Tables |-> header'[t]] /\ lastSize' \in [Tables -> Sizes \cup {0}]
        /\ \A t \in Tables \ {p} : header'[t] = header[t] /\ lastSize'[t] = lastSize[t]
    BY <1>1, <1>4, <2>1, <2>3 DEF width, p, s
  <2>5. /\ header'[p].width = width /\ header'[p].hidden = header[p].hidden
        /\ header'[p] = [width |-> header'[p].width, hidden |-> header'[p].hidden,
                         sort |-> header'[p].sort]
    BY <1>4, <2>3, <2>4 DEF IsHeader
  <2>6. IsHeader(header'[p], p)
    BY <1>4, <2>2, <2>3, <2>5 DEF IsHeader
  <2>7. HeadersKept'
    BY <2>3, <2>4, <2>6 DEF HeadersKept
  <2>8. LaidOut'
    BY <1>4, <2>1, <2>4, <2>5 DEF TablesInv, LaidOut, p, s, width
  <2> QED
    BY <1>2, <2>7, <2>8 DEF TablesInv
<1> QED
  BY <1>3, <1>4

LEMMA StateInv ==
  ASSUME TablesInv, OfState \/ \E i \in 0 .. 2 : ChangePage(i) PROVE TablesInv'
<1>1. CASE OfState
  <2>1. up /\ UNCHANGED <<up, page, saved, last>>
    BY <1>1 DEF OfState, OnMaximizeWindow, DoubleClick, MessageReceived, Resize, Input, InLoop,
                keep, looks, stored
  <2>2. max' \in BOOLEAN /\ normal' \in Sizes
    BY <1>1 DEF OfState, OnMaximizeWindow, DoubleClick, MessageReceived, Resize, Resized,
                TablesInv, Kinds
  <2>3. Shown(page, Size', header)
    <3>1. CASE OnMaximizeWindow
      BY <3>1 DEF OnMaximizeWindow, Size
    <3>2. ASSUME NEW m \in BOOLEAN, Resized(m), normal' = normal PROVE Shown(page, Size', header)
      <4>1. Size' = IF m THEN Screen ELSE normal
        BY <3>2 DEF Resized, Size
      <4> QED
        BY <3>2, <4>1 DEF Resized
    <3>3. CASE DoubleClick \/ MessageReceived
      BY <3>2, <3>3 DEF DoubleClick, MessageReceived, TablesInv, Kinds
    <3>4. ASSUME NEW s \in Sizes, Resize(s) PROVE Shown(page, Size', header)
      BY <3>4 DEF Resize, Size
    <3> QED
      BY <1>1, <3>1, <3>3, <3>4 DEF OfState
  <2>4. page' \in 0 .. 2 /\ Shown(page', Size', header)
    BY <2>1, <2>3 DEF TablesInv, Kinds
  <2> QED
    BY <2>1, <2>2, <2>4, ShownInv
<1>2. ASSUME NEW i \in 0 .. 2, ChangePage(i) PROVE TablesInv'
  <2>1. up /\ UNCHANGED <<up, normal, max, saved, last>> /\ page' = i /\ Shown(i, Size, header)
    BY <1>2 DEF ChangePage, OnChangePage, Input, stored
  <2>2. max' \in BOOLEAN /\ normal' \in Sizes /\ page' \in 0 .. 2 /\ Shown(page', Size', header)
    BY <2>1 DEF TablesInv, Kinds, Size
  <2> QED
    BY <2>1, <2>2, ShownInv
<1> QED
  BY <1>1, <1>2

\* The user changes the header of the table on top.
LEMMA WidthChanged ==
  ASSUME NEW g, g = [width |-> g.width, hidden |-> g.hidden, sort |-> g.sort], NEW c, NEW wide
  PROVE  LET h == [g EXCEPT !.width[c] = wide]
         IN  h = [width |-> [g.width EXCEPT ![c] = wide], hidden |-> g.hidden, sort |-> g.sort]
OBVIOUS

LEMMA TableInv ==
  ASSUME TablesInv, OfTable PROVE TablesInv'
<1>1. up /\ page \in Tables /\ UNCHANGED <<up, page, normal, max, lastSize, saved, last>>
  BY DEF OfTable, ToggleColumn, SortBy, DragColumn, InHeader, Input, keep, looks, stored
<1>2. /\ header = [t \in Tables |-> header[t]] /\ \A t \in Tables : IsHeader(header[t], t)
  BY <1>1 DEF TablesInv, HeadersKept
<1>3. Kinds' /\ StoredIsLast'
  BY <1>1 DEF TablesInv, Kinds, StoredIsLast
<1>4. \A t \in Tables : 1 \in Columns(t)
  BY PaddingIs DEF Pads
<1>5. ASSUME NEW h, IsHeader(h, page), header' = [header EXCEPT ![page] = h],
             \/ h.width = header[page].width /\ dragged' = dragged
             \/ dragged' = dragged \cup {page}
      PROVE  TablesInv'
  <2>1. /\ header' = [t \in Tables |-> header'[t]] /\ header'[page] = h
        /\ \A t \in Tables \ {page} : header'[t] = header[t]
    BY <1>1, <1>2, <1>5
  <2>2. HeadersKept'
    BY <1>1, <1>2, <1>5, <2>1 DEF HeadersKept
  <2>3. LaidOut'
    BY <1>1, <1>5, <2>1 DEF TablesInv, LaidOut, Size
  <2> QED
    BY <1>3, <2>2, <2>3 DEF TablesInv
<1>6. ASSUME NEW c \in Used, ToggleColumn(c) PROVE TablesInv'
  <2> DEFINE h == Toggled(header[page], c)
  <2>1. c \in Columns(page) \ {1}
    BY <1>1, <1>6 DEF ToggleColumn, ProcessMenu, FileMenu, Tables
  <2>2. header' = [header EXCEPT ![page] = h] /\ dragged' = dragged
    BY <1>6 DEF ToggleColumn
  <2>3. h.width = header[page].width /\ IsHeader(h, page)
    BY <1>1, <1>2, <2>1 DEF Toggled, IsHeader
  <2> QED
    BY <1>5, <2>2, <2>3
<1>7. ASSUME NEW c \in Used, SortBy(c) PROVE TablesInv'
  <2> DEFINE h == SortedBy(header[page], c)
  <2>1. header' = [header EXCEPT ![page] = h] /\ dragged' = dragged
    BY <1>7 DEF SortBy
  <2>2. h.width = header[page].width /\ IsHeader(h, page)
    BY <1>1, <1>2 DEF SortedBy, IsHeader
  <2> QED
    BY <1>5, <2>1, <2>2
<1>8. ASSUME NEW c \in Used, DragColumn(c) PROVE TablesInv'
  <2> DEFINE h == [header[page] EXCEPT !.width[c] = Wide]
  <2>1. header' = [header EXCEPT ![page] = h] /\ dragged' = dragged \cup {page}
    BY <1>2, <1>8 DEF DragColumn
  <2>2. IsHeader(header[page], page)
    BY <1>1, <1>2
  <2>3. /\ h.width = [header[page].width EXCEPT ![c] = Wide]
        /\ h.hidden = header[page].hidden
        /\ h = [width |-> h.width, hidden |-> h.hidden, sort |-> h.sort]
    BY <2>2, WidthChanged DEF IsHeader
  <2> HIDE DEF h
  <2>4. IsHeader(h, page)
    BY <2>2, <2>3 DEF IsHeader
  <2> QED
    BY <1>5, <2>1, <2>4 DEF h
<1> QED
  BY <1>6, <1>7, <1>8 DEF OfTable

\* A table starts with the header that was stored, or with the default one.
Loaded(t) == IF t = Processes THEN LoadProcessSettings(saved.header[t])
                              ELSE LoadFileSettings(saved.header[t])

LEMMA NoHeader == \A t \in Tables : ~IsHeader(None, t)
<1> SUFFICES ASSUME NEW t \in Tables, IsHeader(None, t) PROVE FALSE
  OBVIOUS
<1>1. 1 \in Columns(t)
  BY PaddingIs DEF Pads
<1>2. DOMAIN None.width = Columns(t) /\ None.width = <<>>
  BY DEF IsHeader, None
<1> QED
  BY <1>1, <1>2

LEMMA LoadedIs ==
  ASSUME StoredIsLast, NEW t \in Tables
  PROVE  /\ IsHeader(Loaded(t), t)
         /\ last.header[t] # None => /\ Loaded(t).hidden = last.header[t].hidden
                                     /\ Loaded(t).sort = last.header[t].sort
<1>1. CASE saved.header[t] = None
  <2>1. last.header[t] = None
    BY <1>1 DEF StoredIsLast
  <2>2. IsHeader(Loaded(t), t)
    <3>1. CASE t = Processes
      <4>1. Loaded(t) = [width |-> ProcessPadding, hidden |-> {}, sort |-> <<4, TRUE>>]
        BY <1>1, <3>1 DEF Loaded, LoadProcessSettings, ProcessDefaults
      <4>2. Columns(t) = DOMAIN ProcessPadding
        BY <3>1 DEF Columns, Padding
      <4>3. ProcessPadding = [c \in DOMAIN ProcessPadding |-> ProcessPadding[c]]
        BY DEF ProcessPadding
      <4> QED
        BY <4>1, <4>2, <4>3 DEF IsHeader
    <3>2. CASE t # Processes
      <4>1. Loaded(t) = [width |-> FilePadding, hidden |-> {}, sort |-> <<1, TRUE>>]
        BY <1>1, <3>2 DEF Loaded, LoadFileSettings, FileDefaults
      <4>2. Columns(t) = DOMAIN FilePadding
        BY <3>2 DEF Columns, Padding
      <4>3. FilePadding = [c \in DOMAIN FilePadding |-> FilePadding[c]]
        BY DEF FilePadding
      <4> QED
        BY <4>1, <4>2, <4>3 DEF IsHeader
    <3> QED
      BY <3>1, <3>2
  <2> QED
    BY <2>1, <2>2
<1>2. CASE saved.header[t] # None
  <2>1. Loaded(t) = saved.header[t]
    BY <1>2 DEF Loaded, LoadProcessSettings, LoadFileSettings
  <2> QED
    BY <1>2, <2>1 DEF StoredIsLast
<1> QED
  BY <1>1, <1>2

\* What the first layout makes of the headers.
LEMMA StartIs ==
  ASSUME TablesInv, Start
  PROVE  /\ header' = [t \in Tables |-> header'[t]]
         /\ \A t \in Tables : /\ IsHeader(header'[t], t)
                              /\ header'[t].hidden = Loaded(t).hidden
                              /\ header'[t].sort = Loaded(t).sort
         /\ \E bar \in {0, Bar} :
              header'[Processes].width = Adjusted(Processes, View(saved.size), bar)
<1> DEFINE loaded == [t \in Tables |-> Loaded(t)]
<1>1. PICK bar \in {0, Bar} :
        header' = [loaded EXCEPT ![Processes].width = Adjusted(Processes, View(saved.size), bar)]
  BY DEF Start, Built, Loaded
<1> DEFINE width == Adjusted(Processes, View(saved.size), bar)
<1>2. Processes \in Tables
  BY DEF Tables
<1>3. width = [c \in Columns(Processes) |-> width[c]]
  BY <1>2, AdjustedDomain DEF TablesInv, Kinds
<1> HIDE DEF width
<1>4. \A t \in Tables : IsHeader(Loaded(t), t)
  BY LoadedIs DEF TablesInv
<1>5. /\ header' = [t \in Tables |-> header'[t]]
      /\ header'[Processes] = [Loaded(Processes) EXCEPT !.width = width]
      /\ \A t \in Tables \ {Processes} : header'[t] = Loaded(t)
  BY <1>1, <1>2 DEF width
<1>6. /\ header'[Processes].width = width
      /\ header'[Processes].hidden = Loaded(Processes).hidden
      /\ header'[Processes].sort = Loaded(Processes).sort
      /\ header'[Processes] = [width |-> header'[Processes].width,
                               hidden |-> header'[Processes].hidden,
                               sort |-> header'[Processes].sort]
  BY <1>2, <1>4, <1>5 DEF IsHeader
<1>7. IsHeader(header'[Processes], Processes)
  BY <1>2, <1>3, <1>4, <1>6 DEF IsHeader
<1> QED
  BY <1>4, <1>5, <1>6, <1>7 DEF width

LEMMA SessionInv ==
  ASSUME TablesInv, Session PROVE TablesInv'
<1>1. CASE Start
  <2>1. /\ up' = TRUE /\ page' = Processes /\ max' = FALSE /\ normal' = saved.size /\ dragged' = {}
        /\ lastSize' = [t \in Tables |-> IF t = Processes THEN saved.size ELSE 0]
        /\ UNCHANGED <<saved, last>>
    BY <1>1 DEF Start, Built, Fresh, Processes, stored
  <2>2. saved.size \in Sizes
    BY DEF TablesInv, Kinds
  <2>3. Kinds'
    <3>1. up' \in BOOLEAN /\ max' \in BOOLEAN
      BY <2>1
    <3>2. page' \in 0 .. 2
      BY <2>1 DEF Processes
    <3>3. normal' \in Sizes /\ saved'.size \in Sizes
      BY <2>1, <2>2
    <3> QED
      BY <3>1, <3>2, <3>3 DEF Kinds
  <2>4. StoredIsLast'
    BY <2>1 DEF TablesInv, StoredIsLast
  <2>5. HeadersKept'
    BY <1>1, <2>1, StartIs DEF HeadersKept
  <2>6. LaidOut'
    BY <1>1, <2>1, <2>2, StartIs DEF LaidOut, Size, Tables
  <2> QED
    BY <2>3, <2>5, <2>6, <2>4 DEF TablesInv
<1>2. CASE Close \/ Killed
  <2>1. /\ up' = FALSE /\ page' = 0 /\ max' = FALSE /\ normal' = Small
        /\ lastSize' = [t \in Tables |-> 0]
    BY <1>2 DEF Close, Killed, Gone, Fresh
  <2>2. HeadersKept' /\ LaidOut'
    BY <2>1 DEF HeadersKept, LaidOut
  <2>3. up' \in BOOLEAN /\ max' \in BOOLEAN
    BY <2>1
  <2>4. page' \in 0 .. 2
    BY <2>1
  <2>5. CASE Killed
    <3>1. UNCHANGED <<saved, last>>
      BY <2>5 DEF Killed, stored
    <3>2. Kinds'
      BY <2>1, <2>3, <2>4, <3>1, Ends DEF TablesInv, Kinds
    <3>3. StoredIsLast'
      BY <3>1 DEF TablesInv, StoredIsLast
    <3> QED
      BY <2>2, <3>2, <3>3 DEF TablesInv
  <2>6. CASE Close
    <3>1. /\ up /\ saved' = Stored
          /\ last' = [size |-> normal, max |-> max,
                      header |-> [t \in Tables |-> [header[t] EXCEPT !.width = <<>>]]]
      BY <2>6 DEF Close
    <3>2. /\ saved'.size = Size /\ saved'.max = max
          /\ \A t \in Tables : saved'.header[t] = header[t]
      <4>1. saved'.size = Size /\ saved'.max = max
        BY <3>1 DEF Stored
      <4>2. \A t \in Tables : saved'.header[t] = header[t]
        BY <3>1 DEF Stored, ProcessSettings, FileSettings, Tables, Files
      <4> QED
        BY <4>1, <4>2
    <3>3. /\ last'.size = normal /\ last'.max = max
          /\ \A t \in Tables : last'.header[t] = [header[t] EXCEPT !.width = <<>>]
      BY <3>1
    <3>4. \A t \in Tables : IsHeader(header[t], t) /\ header[t] # None
      BY <3>1, NoHeader DEF TablesInv, HeadersKept
    <3>5. \A t \in Tables : /\ header[t].hidden = last'.header[t].hidden
                            /\ header[t].sort = last'.header[t].sort
      <4> TAKE t \in Tables
      <4> DEFINE h == header[t]
      <4>1. h = [width |-> h.width, hidden |-> h.hidden, sort |-> h.sort]
        BY <3>4 DEF IsHeader
      <4>2. last'.header[t] = [h EXCEPT !.width = <<>>]
        BY <3>3
      <4> HIDE DEF h
      <4>3. last'.header[t].hidden = h.hidden /\ last'.header[t].sort = h.sort
        BY <4>1, <4>2
      <4> QED
        BY <4>3 DEF h
    <3>6. StoredIsLast'
      BY <3>2, <3>3, <3>4, <3>5 DEF StoredIsLast, Size
    <3>7. Kinds'
      <4>1. saved'.size \in Sizes
        BY <3>2, Ends DEF TablesInv, Kinds, Size
      <4> QED
        BY <2>1, <2>3, <2>4, <4>1, Ends DEF Kinds
    <3> QED
      BY <2>2, <3>6, <3>7 DEF TablesInv
  <2> QED
    BY <1>2, <2>5, <2>6
<1> QED
  BY <1>1, <1>2 DEF Session

LEMMA TablesInductive ==
  ASSUME TablesInv, [Next]_vars PROVE TablesInv'
<1>1. CASE UNCHANGED ofTables
  BY <1>1 DEF ofTables, TablesInv, Kinds, HeadersKept, LaidOut, StoredIsLast, Size
<1> QED
  BY <1>1, Transitions, TablesAlone, StateInv, TableInv, SessionInv

LEMMA TablesAlways == Spec => []TablesInv
<1>1. Init => TablesInv
  <2> SUFFICES ASSUME Init PROVE TablesInv
    OBVIOUS
  <2>1. \A t \in Tables : saved.header[t] = None /\ last.header[t] = None
    BY DEF Init, Defaults
  <2>2. saved.size = Small /\ saved.max = last.max /\ saved.size = last.size
    BY DEF Init, Defaults
  <2> QED
    <3>1. up \in BOOLEAN /\ max \in BOOLEAN
      BY DEF Init
    <3>2. page \in 0 .. 2
      BY DEF Init
    <3>3. Kinds
      BY <2>2, <3>1, <3>2, Ends DEF Init, Kinds
    <3>4. HeadersKept /\ LaidOut
      BY DEF Init, HeadersKept, LaidOut
    <3>5. StoredIsLast
      BY <2>1, <2>2 DEF StoredIsLast
    <3> QED
      BY <3>3, <3>4, <3>5 DEF TablesInv
<1> QED
  BY <1>1, TablesInductive, PTL DEF Spec

-----------------------------------------------------------------------------
\* A session starts with the columns and the order of both tables, the state and
\* the size the last closed one ended with, for any number of sessions, whichever
\* of them were killed and whatever was done to the tables in between.
THEOREM SettingsSurvive == Spec => Survives
<1>1. ASSUME TablesInv, [Next]_vars, up', ~up
      PROVE  /\ \A t \in Tables : last.header[t] # None =>
                  /\ header'[t].hidden = last.header[t].hidden
                  /\ header'[t].sort = last.header[t].sort
             /\ toMax' = last.max
             /\ (~last.max => normal' = last.size)
  <2>1. Start
    BY <1>1, Transitions, LabelAlone, BoxAlone DEF Session, Close, Killed, Gone, vars
  <2>2. normal' = saved.size /\ toMax' = saved.max
    BY <2>1 DEF Start
  <2> QED
    BY <1>1, <2>1, <2>2, StartIs, LoadedIs DEF TablesInv, StoredIsLast
<1> QED
  BY <1>1, TablesAlways, PTL DEF Spec, Survives

\* The table on top shows all its columns, at any width of the window from the
\* least on, whichever columns are hidden, with a scroll bar or without one, as
\* long as the user drags none; with the title bar, all of the window tells.
THEOREM WindowAlwaysTells == Spec => []WindowTells
<1>1. TablesInv => ColumnsFit
  <2> SUFFICES ASSUME TablesInv, NEW bar \in {0, Bar}, up, page \in Tables \ dragged
               PROVE  Fits(header[page], View(Size) - bar)
    BY DEF ColumnsFit
  <2>1. Size \in Sizes /\ Size # 0 /\ lastSize[page] = Size
    BY MainWindowAssumption, SizesAre DEF TablesInv, Kinds, LaidOut, Size
  <2>2. PICK bar0 \in {0, Bar} : header[page].width = Adjusted(page, View(Size), bar0)
    BY <2>1 DEF TablesInv, LaidOut
  <2>3. IsHeader(header[page], page)
    BY DEF TablesInv, HeadersKept
  <2>4. View(Size) \in Nat /\ 700 <= View(Size)
    BY <2>1, SizesAre
  <2> QED
    BY <2>2, <2>3, <2>4, AdjustedFits
<1> QED
  BY <1>1, TablesAlways, TitleBarAlwaysTells, PTL DEF WindowTells
=============================================================================
