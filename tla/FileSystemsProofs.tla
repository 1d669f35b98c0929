------------------------- MODULE FileSystemsProofs -------------------------
(***************************************************************************)
(* The file systems page, for any devices, any mount table and any number  *)
(* of changes of it.  A row shows what the worker found at one moment and  *)
(* the mount table may be another one at the next; what a row names and    *)
(* what it opens belong together all the same, because the worker never    *)
(* parts a device from the directory it first found it at, and the two     *)
(* lists of the model are cut and extended alike.                          *)
(***************************************************************************)
EXTENDS FileSystems, Lemmas

Row == [dir : Dirs, fs : AllDevs]

\* What is read is what the mount table has held.
Seen     == Entry \cap ever
ScanSeen == scan.todo \in Seq(Seen)
TableSeen == mounts \in Seq(Seen) /\ ever \subseteq Entry

\* The worker's devices, with the directory they were found at.
DisksSeen ==
  /\ DOMAIN disks \subseteq AllDevs /\ IsFiniteSet(DOMAIN disks)
  /\ \A d \in DOMAIN disks : disks[d] \in Row /\ [dev |-> d, dir |-> disks[d].dir] \in ever

RowsSeen ==
  /\ names \in Seq(AllDevs) /\ data \in Seq(Row)
  /\ OpensOwnDirectory

Flags ==
  /\ event \in BOOLEAN /\ watch \in {"none", "read", "armed", "failed"}
  /\ orig \subseteq Entry /\ IsFiniteSet(orig)
  /\ queued \in Nat /\ changes \in Nat /\ looked \in Nat
  /\ scan = [todo |-> scan.todo, found |-> scan.found, on |-> scan.on]
  /\ scan.found \subseteq AllDevs /\ scan.on \in BOOLEAN

\* The worker does not look before the watcher has been set up.
NotYet == watch \in {"none", "read"} => looked = 0 /\ ~scan.on

Named ==
  /\ selected \in AllDevs \cup {NoDev} /\ current \in AllDevs \cup {NoDev}
  /\ SelectionMatches

Inv == Flags /\ NotYet /\ TableSeen /\ ScanSeen /\ DisksSeen /\ RowsSeen /\ Named

-----------------------------------------------------------------------------
LEMMA InitInv == Init => Inv
<1> SUFFICES ASSUME Init PROVE Inv
  OBVIOUS
<1>1. [dev |-> Root, dir |-> Slash] \in Entry
  BY FileSystemsAssumption DEF Entry, AllDevs
<1>2. TableSeen
  BY <1>1 DEF Init, Lines, TableSeen, Seen
<1>3. Flags /\ NotYet /\ ScanSeen
  <2>1. scan.todo = <<>> /\ scan.found = {} /\ scan.on = FALSE
        /\ scan = [todo |-> scan.todo, found |-> scan.found, on |-> scan.on]
    BY DEF Init, NoScan
  <2>2. orig \subseteq Entry /\ IsFiniteSet(orig)
    BY FS_EmptySet DEF Init
  <2>3. ScanSeen /\ NotYet
    BY <2>1 DEF Init, ScanSeen, NotYet
  <2>4. event = FALSE /\ watch = "none" /\ queued = 0 /\ changes = 0 /\ looked = 0
    BY DEF Init
  <2> QED
    BY <2>1, <2>2, <2>3, <2>4 DEF Flags
<1>4. DisksSeen
  <2>1. DOMAIN disks = {}
    BY DEF Init
  <2> QED
    BY <2>1, FS_EmptySet DEF DisksSeen
<1>5. RowsSeen /\ Named
  BY DEF Init, RowsSeen, OpensOwnDirectory, Named, SelectionMatches
<1> QED
  BY <1>2, <1>3, <1>4, <1>5 DEF Inv

\* What has been seen stays seen.
LEMMA EverGrows ==
  ASSUME Inv, ever \subseteq ever', ever' \subseteq Entry,
         UNCHANGED <<watch, orig, queued, scan, view, looked>>,
         mounts' \in Seq(Seen'), event' \in BOOLEAN, changes' \in Nat
  PROVE  Inv'
<1>1. Seen \subseteq Seen'
  BY DEF Seen
<1>2. TableSeen' /\ Flags' /\ NotYet'
  BY DEF Inv, TableSeen, Flags, NotYet
<1>3. ScanSeen'
  BY <1>1, SeqMonotonic DEF Inv, ScanSeen
<1>4. DisksSeen' /\ RowsSeen' /\ Named'
  BY DEF Inv, DisksSeen, RowsSeen, OpensOwnDirectory, Opens, Named, SelectionMatches, view, rows
<1> QED
  BY <1>2, <1>3, <1>4 DEF Inv

LEMMA ChangeInv ==
  ASSUME Inv, NEW m \in Seq(Entry), Becomes(m) PROVE Inv'
<1>1. mounts' = m /\ changes' = changes + 1 /\ event' \in BOOLEAN /\ ever' = ever \cup Lines(m)
      /\ UNCHANGED <<watch, orig, queued, scan, view, looked>>
  BY DEF Becomes
<1>2. Lines(m) \subseteq Entry
  BY DEF Lines
<1>3. ever' \subseteq Entry /\ ever \subseteq ever'
  BY <1>1, <1>2 DEF Inv, TableSeen
<1>4. mounts' \in Seq(Seen')
  <2>1. \A i \in 1 .. Len(m) : m[i] \in Seen'
    BY <1>1, <1>2 DEF Seen, Lines
  <2> QED
    BY <1>1, <2>1
<1>5. changes' \in Nat
  BY <1>1 DEF Inv, Flags
<1> QED
  BY <1>1, <1>3, <1>4, <1>5, EverGrows

Joins(u, s, t) ==
  /\ Len(u) = Len(s) + Len(t)
  /\ \A i \in 1 .. Len(s) + Len(t) : u[i] = IF i <= Len(s) THEN s[i] ELSE t[i - Len(s)]

LEMMA Joined ==
  ASSUME NEW E, NEW s \in Seq(E), NEW t \in Seq(E)
  PROVE  s \o t \in Seq(E) /\ Joins(s \o t, s, t)
BY ConcatProperties DEF Joins

LEMMA RemoveAtSeq ==
  ASSUME NEW E, NEW s \in Seq(E), NEW i \in DOMAIN s
  PROVE  RemoveAt(s, i) \in Seq(E)
<1>1. SubSeq(s, 1, i - 1) \in Seq(E) /\ SubSeq(s, i + 1, Len(s)) \in Seq(E)
  BY SubSeqProperties
<1> QED
  BY <1>1, ConcatProperties DEF RemoveAt

LEMMA OutsideInv ==
  ASSUME Inv, (\E e \in Entry : Mount(e)) \/ (\E i \in DOMAIN mounts : Unmount(i))
  PROVE  Inv'
<1>1. mounts \in Seq(Entry)
  BY DEF Inv, TableSeen, Seen
<1>2. ASSUME NEW e \in Entry, Mount(e) PROVE Inv'
  BY <1>1, <1>2, ChangeInv, AppendProperties DEF Mount
<1>3. ASSUME NEW i \in DOMAIN mounts, Unmount(i) PROVE Inv'
  BY <1>1, <1>3, ChangeInv, RemoveAtSeq DEF Unmount
<1> QED
  BY <1>2, <1>3

-----------------------------------------------------------------------------
LEMMA LinesFinite ==
  ASSUME NEW m \in Seq(Entry) PROVE IsFiniteSet(Lines(m)) /\ Lines(m) \subseteq Entry
<1>1. IsFiniteSet(1 .. Len(m)) /\ DOMAIN m = 1 .. Len(m)
  BY FS_Interval
<1>2. m \in Surjection(1 .. Len(m), Lines(m))
  BY <1>1 DEF Lines, Surjection
<1>3. IsFiniteSet(Lines(m))
  BY <1>1, <1>2, FS_Surjection
<1> QED
  BY <1>3 DEF Lines

\* The watcher, and an update that begins.
LEMMA WatcherInv ==
  ASSUME Inv, ReadTable \/ OpenTable \/ OnMountDeviceFileContentsChanged
              \/ UpdateFileSystemListDelay
  PROVE  Inv'
<1>1. mounts \in Seq(Entry)
  BY DEF Inv, TableSeen, Seen
<1>2. IsFiniteSet(Lines(mounts)) /\ Lines(mounts) \subseteq Entry
  BY <1>1, LinesFinite
<1>3. UNCHANGED <<mounts, changes, ever, view>>
  BY DEF ReadTable, OpenTable, OnMountDeviceFileContentsChanged, UpdateFileSystemListDelay, outside
<1>4. TableSeen' /\ DisksSeen' /\ RowsSeen' /\ Named'
  BY <1>3 DEF Inv, TableSeen, Seen, DisksSeen, RowsSeen, OpensOwnDirectory, Opens, Named,
              SelectionMatches, view, rows
<1>5. ScanSeen'
  BY <1>3 DEF Inv, TableSeen, ScanSeen, Seen, ReadTable, OpenTable,
              OnMountDeviceFileContentsChanged, UpdateFileSystemListDelay, outside
<1>6. Flags' /\ NotYet'
  <2>1. CASE ReadTable \/ OpenTable
    BY <1>2, <2>1 DEF Inv, Flags, NotYet, ReadTable, OpenTable, outside
  <2>2. CASE OnMountDeviceFileContentsChanged
    <3>1. queued' \in Nat
      <4>1. Cardinality(Lines(mounts) \ orig) \in Nat /\ Cardinality(orig \ Lines(mounts)) \in Nat
        BY <1>2, FS_Difference, FS_CardinalityType DEF Inv, Flags
      <4> QED
        BY <2>2, <4>1 DEF OnMountDeviceFileContentsChanged, Inv, Flags
    <3> QED
      BY <1>2, <2>2, <3>1 DEF Inv, Flags, NotYet, OnMountDeviceFileContentsChanged
  <2>3. CASE UpdateFileSystemListDelay
    BY <2>3 DEF Inv, Flags, NotYet, UpdateFileSystemListDelay, outside, Idle
  <2> QED
    BY <2>1, <2>2, <2>3
<1> QED
  BY <1>4, <1>5, <1>6 DEF Inv

\* A path leads to a device that is mounted, or to the one of /.
LEMMA BehindIsDevice ==
  ASSUME mounts \in Seq(Entry), NEW dir PROVE Behind(dir) \in AllDevs
<1> DEFINE at == {i \in DOMAIN mounts : mounts[i].dir = dir}
<1>1. CASE at = {}
  BY <1>1, FileSystemsAssumption DEF Behind, AllDevs
<1>2. CASE at # {}
  <2>1. at \subseteq 1 .. Len(mounts) /\ Len(mounts) \in Nat
    OBVIOUS
  <2>2. \E i \in at : \A j \in at : j <= i
    <3> DEFINE T == {n \in Nat : \E i \in at : n = Len(mounts) - i}
    <3>1. T # {}
      BY <1>2, <2>1
    <3> HIDE DEF T
    <3>2. T \in SUBSET Nat
      BY DEF T
    <3>3. PICK n \in T : \A m \in T : n <= m
      BY <3>1, <3>2, LeastNumber
    <3>4. PICK i \in at : n = Len(mounts) - i
      BY <3>3 DEF T
    <3>5. ASSUME NEW j \in at PROVE j <= i
      <4>1. Len(mounts) - j \in T
        BY <2>1 DEF T
      <4>2. n <= Len(mounts) - j
        BY <3>3, <4>1
      <4> QED
        BY <2>1, <3>4, <4>2
    <3> QED
      BY <3>5
  <2>3. PICK i \in at : i = (CHOOSE k \in at : \A j \in at : j <= k)
    BY <2>2
  <2>4. mounts[i] \in Entry
    BY <2>1
  <2> QED
    BY <1>2, <2>3, <2>4 DEF Behind, Entry
<1> QED
  BY <1>1, <1>2

-----------------------------------------------------------------------------
\* One entry more: a device that is known keeps its directory, a new one gets
\* that of the entry, which the mount table has held.
LEMMA ScanEntryInv ==
  ASSUME Inv, ScanEntry PROVE Inv'
<1> DEFINE e == Head(scan.todo)
<1>1. /\ scan.on /\ scan.todo # <<>> /\ scan.todo \in Seq(Seen)
      /\ UNCHANGED <<outside, watch, orig, queued, names, data, selected, current, looked>>
  BY DEF ScanEntry, Inv, ScanSeen
<1>2. e \in Seen /\ Tail(scan.todo) \in Seq(Seen)
  BY <1>1, HeadTailProperties
<1>3. e \in Entry /\ e \in ever /\ e = [dev |-> e.dev, dir |-> e.dir]
      /\ e.dev \in AllDevs /\ e.dir \in Dirs
  BY <1>2 DEF Seen, Entry
<1>4. /\ scan'.todo = Tail(scan.todo)
      /\ scan'.found = scan.found \/ scan'.found = scan.found \cup {e.dev}
      /\ scan'.on = scan.on
      /\ scan' = [todo |-> scan'.todo, found |-> scan'.found, on |-> scan'.on]
  <2>1. scan = [todo |-> scan.todo, found |-> scan.found, on |-> scan.on]
    BY DEF Inv, Flags
  <2>2. \/ scan' = [scan EXCEPT !.todo = Tail(@), !.found = @ \cup {e.dev}]
        \/ scan' = [scan EXCEPT !.todo = Tail(@)]
    BY DEF ScanEntry
  <2> QED
    BY <2>1, <2>2
<1>5. TableSeen' /\ NotYet'
  BY <1>1, <1>4 DEF Inv, TableSeen, Seen, NotYet, outside
<1>6. ScanSeen' /\ Seen' = Seen
  BY <1>1, <1>2, <1>4 DEF ScanSeen, Seen, outside
<1>7. Flags'
  BY <1>1, <1>3, <1>4 DEF Inv, Flags, outside
<1>8. RowsSeen' /\ Named'
  BY <1>1 DEF Inv, RowsSeen, OpensOwnDirectory, Opens, Named, SelectionMatches, outside
<1>9. DisksSeen'
  <2>1. CASE UNCHANGED disks
    BY <1>1, <2>1 DEF Inv, DisksSeen, outside
  <2>2. CASE disks' = [d \in DOMAIN disks \cup {e.dev} |-> IF d = e.dev THEN DiskInfo(e) ELSE disks[d]]
    <3>1. DOMAIN disks' = DOMAIN disks \cup {e.dev} /\ IsFiniteSet(DOMAIN disks')
      BY <2>2, FS_AddElement DEF Inv, DisksSeen
    <3>2. DiskInfo(e) \in Row /\ [dev |-> e.dev, dir |-> DiskInfo(e).dir] \in ever
      <4>1. Behind(e.dir) \in AllDevs
        BY BehindIsDevice DEF Inv, TableSeen, Seen
      <4> QED
        BY <1>3, <4>1 DEF DiskInfo, Row, Inv, DisksSeen
    <3>3. ASSUME NEW d \in DOMAIN disks'
          PROVE  disks'[d] \in Row /\ [dev |-> d, dir |-> disks'[d].dir] \in ever
      BY <2>2, <3>1, <3>2 DEF Inv, DisksSeen
    <3> QED
      BY <1>1, <1>3, <3>1, <3>3 DEF Inv, DisksSeen, outside
  <2> QED
    BY <2>1, <2>2 DEF ScanEntry
<1> QED
  BY <1>5, <1>6, <1>7, <1>8, <1>9 DEF Inv

\* Both lists lose the same rows and get the same new ones.
LEMMA EndUpdateInv ==
  ASSUME Inv, EndUpdate PROVE Inv'
<1> DEFINE new     == Remaining
           staying == Staying(names, new)
           added   == SetToSeq(new \ Range(names))
           more    == [i \in DOMAIN added |-> disks[added[i]]]
<1>1. /\ scan' = NoScan /\ disks' = [d \in new |-> disks[d]]
      /\ names' = staying \o added /\ data' = Kept(new) \o more
      /\ Reselect(new)
      /\ UNCHANGED <<outside, watch, orig, queued, looked>>
  BY DEF EndUpdate
<1>2. /\ new \subseteq DOMAIN disks /\ new \subseteq AllDevs
      /\ IsFiniteSet(new) /\ IsFiniteSet(new \ Range(names))
  BY FS_Subset DEF Inv, DisksSeen, Remaining
<1>3. /\ staying \in Seq(AllDevs) /\ Range(staying) = Range(names) \cap new
  BY StayingIs DEF Inv, RowsSeen
<1>4. added \in Seq(new \ Range(names)) /\ Range(added) = new \ Range(names)
  BY <1>2, SetToSeqIs
<1>5. added \in Seq(AllDevs)
  BY <1>2, <1>4, SeqMonotonic
<1> HIDE DEF new, staying, added
<1>6. /\ names' \in Seq(AllDevs) /\ Len(names') = Len(staying) + Len(added)
      /\ \A i \in 1 .. Len(staying) + Len(added) :
           names'[i] = IF i <= Len(staying) THEN staying[i] ELSE added[i - Len(staying)]
  BY <1>1, <1>3, <1>5, ConcatProperties
<1>7. Range(names') = new
  <2>1. Range(names') = Range(staying) \cup Range(added)
    BY <1>1, <1>3, <1>5, RangeConcatenation
  <2> QED
    BY <1>3, <1>4, <2>1
<1>8. \A d \in new : disks[d] \in Row /\ [dev |-> d, dir |-> disks[d].dir] \in ever
  BY <1>2 DEF Inv, DisksSeen
<1> DEFINE kept == Kept(new)
<1>9. /\ kept \in Seq(Row) /\ Len(kept) = Len(staying)
      /\ \A i \in 1 .. Len(staying) : staying[i] \in new /\ kept[i] = disks[staying[i]]
  <2>1. DOMAIN staying = 1 .. Len(staying) /\ Len(staying) \in Nat
    BY <1>3
  <2>2. \A i \in 1 .. Len(staying) : staying[i] \in new
    BY <1>3, <2>1 DEF Range
  <2>3. kept = [i \in 1 .. Len(staying) |-> disks[staying[i]]]
    BY <2>1 DEF Kept, staying
  <2>4. \A i \in 1 .. Len(staying) : kept[i] \in Row
    BY <1>8, <2>2, <2>3
  <2> QED
    BY <2>1, <2>2, <2>3, <2>4
<1>10. /\ more \in Seq(Row) /\ Len(more) = Len(added)
       /\ \A i \in 1 .. Len(added) : added[i] \in new /\ more[i] = disks[added[i]]
  <2>1. DOMAIN added = 1 .. Len(added) /\ Len(added) \in Nat
    BY <1>5
  <2>2. \A i \in 1 .. Len(added) : added[i] \in new
    BY <1>4, <2>1 DEF Range
  <2>3. \A i \in 1 .. Len(added) : more[i] \in Row
    BY <1>8, <2>1, <2>2
  <2> QED
    BY <2>1, <2>2, <2>3
<1>11. data' = kept \o more
  BY <1>1
<1> HIDE DEF kept, more
<1>12. /\ data' \in Seq(Row) /\ Len(data') = Len(staying) + Len(added)
       /\ \A i \in 1 .. Len(staying) + Len(added) :
            data'[i] = IF i <= Len(staying) THEN kept[i] ELSE more[i - Len(staying)]
  <2>1. kept \in Seq(Row) /\ more \in Seq(Row) /\ Len(kept) = Len(staying) /\ Len(more) = Len(added)
    BY <1>9, <1>10
  <2>2. data' \in Seq(Row) /\ Joins(data', kept, more)
    BY <1>11, <2>1, Joined
  <2> QED
    BY <2>1, <2>2 DEF Joins
<1>13. ASSUME NEW i \in 1 .. Len(names')
       PROVE  names'[i] \in new /\ data'[i] = disks[names'[i]]
  <2>1. Len(staying) \in Nat /\ Len(added) \in Nat /\ i \in 1 .. Len(staying) + Len(added)
    BY <1>3, <1>5, <1>6
  <2>2. CASE i <= Len(staying)
    <3>1. i \in 1 .. Len(staying) /\ names'[i] = staying[i] /\ data'[i] = kept[i]
      BY <1>6, <1>12, <2>1, <2>2
    <3> QED
      BY <1>9, <3>1
  <2>3. CASE ~(i <= Len(staying))
    <3> DEFINE j == i - Len(staying)
    <3>1. j \in 1 .. Len(added) /\ names'[i] = added[j] /\ data'[i] = more[j]
      BY <1>6, <1>12, <2>1, <2>3
    <3> QED
      BY <1>10, <3>1
  <2> QED
    BY <2>2, <2>3
<1>14. RowsSeen'
  <2>1. Len(names') = Len(data') /\ DOMAIN names' = 1 .. Len(names')
    BY <1>6, <1>12
  <2>2. ASSUME NEW i \in 1 .. Len(names')
        PROVE  [dev |-> names'[i], dir |-> data'[i].dir] \in ever'
    BY <1>1, <1>8, <1>13 DEF outside
  <2> QED
    BY <1>6, <1>12, <2>1, <2>2 DEF RowsSeen, OpensOwnDirectory, Opens
<1>15. DisksSeen'
  BY <1>1, <1>2 DEF Inv, DisksSeen, outside
<1>16. Named'
  <2>1. current' # NoDev => current' = selected' /\ current' \in new
    BY <1>1 DEF Reselect, Inv, Named, SelectionMatches
  <2>2. selected' \in AllDevs \cup {NoDev} /\ current' \in AllDevs \cup {NoDev}
    BY <1>1, <1>2 DEF Reselect, Inv, Named
  <2> QED
    BY <1>7, <2>1, <2>2 DEF Named, SelectionMatches
<1>17. TableSeen' /\ NotYet'
  BY <1>1 DEF Inv, TableSeen, Seen, NotYet, NoScan, outside
<1>18. ScanSeen' /\ Flags'
  <2>1. /\ scan'.todo = <<>> /\ scan'.found = {} /\ scan'.on = FALSE
        /\ scan' = [todo |-> scan'.todo, found |-> scan'.found, on |-> scan'.on]
    BY <1>1 DEF NoScan
  <2>2. ScanSeen'
    BY <2>1 DEF ScanSeen
  <2> QED
    BY <1>1, <2>1, <2>2 DEF Inv, Flags, outside
<1> QED
  BY <1>14, <1>15, <1>16, <1>17, <1>18 DEF Inv

LEMMA UserInv ==
  ASSUME Inv, (\E i \in DOMAIN names : SelectRow(i)) \/ Deselect \/ Refresh \/ UNCHANGED vars
  PROVE  Inv'
<1>1. UNCHANGED <<outside, watch, orig, scan, rows, looked>>
  BY DEF SelectRow, Deselect, Refresh, vars, view
<1>2. queued' \in Nat
  BY DEF SelectRow, Deselect, Refresh, vars, Inv, Flags
<1>3. Flags' /\ NotYet' /\ TableSeen' /\ ScanSeen' /\ DisksSeen' /\ RowsSeen'
  BY <1>1, <1>2 DEF Inv, Flags, NotYet, TableSeen, ScanSeen, Seen, DisksSeen, RowsSeen,
                    OpensOwnDirectory, Opens, outside, rows
<1>4. Named'
  BY <1>1 DEF SelectRow, Deselect, Refresh, Inv, Named, SelectionMatches, RowsSeen, Range,
              rows, view, vars
<1> QED
  BY <1>3, <1>4 DEF Inv

LEMMA NextInv == Inv /\ [Next]_vars => Inv'
BY OutsideInv, WatcherInv, ScanEntryInv, EndUpdateInv, UserInv DEF Next, Gui

-----------------------------------------------------------------------------
LEMMA InvAlways == Spec => []Inv
BY InitInv, NextInv, PTL DEF Spec

\* Whatever is mounted, mounted over and unmounted in the middle of a scan, a
\* double click opens a directory at which the device of the row has been mounted,
\* and what is highlighted has a row and is what the view remembers.
THEOREM ActsOnShownRowAlways == Spec => []ActsOnShownRow
<1>1. Inv => ActsOnShownRow
  BY DEF Inv, RowsSeen, Named, ActsOnShownRow
<1> QED
  BY <1>1, InvAlways, PTL

\* Every variable keeps its type.
THEOREM TypeAlways == Spec => []TypeOK
<1>1. Inv => TypeOK
  <2> SUFFICES ASSUME Inv PROVE TypeOK
    OBVIOUS
  <2>1. mounts \in Seq(Entry) /\ scan.todo \in Seq(Entry)
    BY SeqMonotonic DEF Inv, TableSeen, ScanSeen, Seen
  <2>2. scan \in [todo: Seq(Entry), found: SUBSET AllDevs, on: BOOLEAN]
    BY <2>1 DEF Inv, Flags
  <2> QED
    BY <2>1, <2>2 DEF Inv, Flags, DisksSeen, RowsSeen, Named, TypeOK, Row
<1> QED
  BY <1>1, InvAlways, PTL

-----------------------------------------------------------------------------
LEMMA StepFollows ==
  ASSUME Inv, [Next]_vars PROVE [F!FChange \/ F!FLook]_(F!followVars)
<1>1. changes \in Nat /\ looked \in Nat /\ (watch \in {"none", "read"} => looked = 0)
  BY DEF Inv, Flags, NotYet
<1>2. CASE (\E e \in Entry : Mount(e)) \/ (\E i \in DOMAIN mounts : Unmount(i))
  <2>1. changes' = changes + 1 /\ UNCHANGED <<watch, looked>>
    BY <1>2 DEF Mount, Unmount, Becomes
  <2>2. CASE watch = "armed"
    BY <1>1, <2>1, <2>2 DEF F!FChange, Armed
  <2>3. CASE watch # "armed"
    BY <2>1, <2>3 DEF F!followVars, Armed
  <2> QED
    BY <2>2, <2>3
<1>3. CASE OpenTable
  <2>1. watch = "read" /\ looked = 0 /\ UNCHANGED <<changes, looked>>
    BY <1>1, <1>3 DEF OpenTable, outside
  <2>2. CASE watch' = "armed" /\ changes # 0
    BY <1>1, <2>1, <2>2 DEF F!FChange, Armed
  <2>3. CASE ~(watch' = "armed" /\ changes # 0)
    BY <2>1, <2>3 DEF F!followVars, Armed
  <2> QED
    BY <2>2, <2>3
<1>4. CASE UpdateFileSystemListDelay
  <2>1. looked' = changes /\ UNCHANGED <<changes, watch>>
    BY <1>4 DEF UpdateFileSystemListDelay, outside
  <2> QED
    BY <2>1 DEF F!FLook, Armed
<1>5. CASE \/ ReadTable \/ OnMountDeviceFileContentsChanged \/ ScanEntry \/ EndUpdate
           \/ (\E i \in DOMAIN names : SelectRow(i)) \/ Deselect \/ Refresh \/ UNCHANGED vars
  <2>1. UNCHANGED <<changes, looked>>
    BY <1>5 DEF ReadTable, OnMountDeviceFileContentsChanged, ScanEntry, EndUpdate, SelectRow,
                Deselect, Refresh, vars, outside
  <2>2. watch' = watch \/ (watch = "none" /\ watch' = "read")
    BY <1>5 DEF ReadTable, OnMountDeviceFileContentsChanged, ScanEntry, EndUpdate, SelectRow,
                Deselect, Refresh, vars
  <2> QED
    BY <2>1, <2>2 DEF F!followVars, Armed
<1> QED
  BY <1>2, <1>3, <1>4, <1>5 DEF Next, Gui

\* Step by step the page does what a follower of the mount table may do: the
\* table changes on its own, and the worker's look takes in all of it at once
\* and nothing that has not happened.  That a look always follows is liveness.
THEOREM FollowsStepByStep == Spec => F!FInit /\ [][F!FChange \/ F!FLook]_(F!followVars)
<1>1. Init => F!FInit
  BY DEF Init, F!FInit, Armed
<1> QED
  BY <1>1, StepFollows, InvAlways, PTL DEF Spec
=============================================================================
