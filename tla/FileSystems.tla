----------------------------- MODULE FileSystems -----------------------------
(***************************************************************************)
(* The file systems page.  FileSystemWatcher looks at /proc/mounts when    *)
(* the kernel reports a change and compares it with what it saw before; a  *)
(* difference makes FileSystemModel ask FileSystemWorker for the devices   *)
(* and bring its rows up to date; FileSystemTableView keeps the selection. *)
(* All of it runs on the GUI thread, in one handler at a time, while the   *)
(* mount table changes under it at any moment.                             *)
(*                                                                         *)
(* A mount table entry is a device and a directory.  Of the figures of a   *)
(* device the model keeps whose they are: the file system that statvfs     *)
(* found behind the directory.  changes, looked, since and ever are        *)
(* history.                                                                *)
(***************************************************************************)
EXTENDS Lists, Naturals, FiniteSets, SequencesExt

CONSTANTS
  Devices,     \* devices with capacity, shown when mounted
  Skipped,     \* tmpfs, none: have capacity, never shown
  Pseudo,      \* proc, sysfs: statvfs reports no blocks
  Root,        \* the device of /
  Dirs, Slash, \* mount points, and the directory of Root
  NoDev,       \* no row is selected
  MaxLines,    \* bound: entries of the mount table
  MaxChanges,  \* bound: mounts and unmounts
  MaxQueue,    \* bound: updates the user may ask for ahead
  Undo         \* the mount table may return to what the watcher last saw
               \* before the watcher looks again

AllDevs == Devices \cup Skipped \cup Pseudo

ASSUME FileSystemsAssumption ==
  /\ Root \in Devices /\ Slash \in Dirs /\ NoDev \notin AllDevs
  /\ MaxLines \in Nat /\ MaxChanges \in Nat /\ MaxQueue \in Nat
  /\ Undo \in BOOLEAN

Entry == [dev: AllDevs, dir: Dirs]

VARIABLES
  mounts,    \* external: /proc/mounts
  event,     \* external: the mount table changed since the last poll of m_fd
  watch,     \* initWatcher: "none", "read", then "armed" or "failed"
  orig,      \* m_origFileSet
  queued,    \* singleShot(0) timers to updateFileSystemListDelay
  scan,      \* the update that runs: entries left and devices found (newDiskList)
  disks,     \* FileSystemWorker::m_diskInfoList
  names,     \* FileSystemModel::m_devNameList
  data,      \* FileSystemModel::m_fileSystemDataList
  selected,  \* FileSystemTableView::m_selectedDevName
  current,   \* device of the row that is selected in the view
  changes,   \* number of changes of the mount table
  looked,    \* the change the worker's last look has seen
  since,     \* states of the mount table since the watcher looked
  ever       \* entries the mount table has held

outside == <<mounts, event, changes, since, ever>>
rows    == <<disks, names, data>>
view    == <<rows, selected, current>>
vars    == <<outside, watch, orig, queued, scan, view, looked>>

NoScan == [todo |-> <<>>, found |-> {}, on |-> FALSE]
Idle == watch \in {"armed", "failed"} /\ ~scan.on

Lines(m) == {m[i] : i \in DOMAIN m}      \* getFileContentsLineByLine

\* external: the file system a path leads to, the last one mounted there
Behind(dir) ==
  LET at == {i \in DOMAIN mounts : mounts[i].dir = dir}
  IN  IF at = {} THEN Root ELSE mounts[CHOOSE i \in at : \A j \in at : j <= i].dev

Init ==
  /\ mounts = <<[dev |-> Root, dir |-> Slash]>> /\ event = FALSE
  /\ watch = "none" /\ orig = {} /\ queued = 0 /\ scan = NoScan
  /\ disks = <<>> /\ names = <<>> /\ data = <<>>
  /\ selected = NoDev /\ current = NoDev
  /\ changes = 0 /\ looked = 0 /\ since = {} /\ ever = Lines(mounts)

-----------------------------------------------------------------------------
(***************************************************************************)
(* The mount table.                                                        *)
(***************************************************************************)
Becomes(m) ==
  /\ changes < MaxChanges
  /\ Undo \/ Lines(m) \notin since
  /\ mounts' = m /\ changes' = changes + 1
  /\ event' = (watch = "armed")
  /\ since' = since \cup {Lines(m)}
  /\ ever' = ever \cup Lines(m)
  /\ UNCHANGED <<watch, orig, queued, scan, view, looked>>

Mount(e) == Len(mounts) < MaxLines /\ e.dir # Slash /\ Becomes(Append(mounts, e))

Unmount(i) ==
  /\ mounts[i].dir # Slash
  /\ \A j \in DOMAIN mounts : mounts[j].dir = mounts[i].dir => j <= i
  /\ Becomes(RemoveAt(mounts, i))

-----------------------------------------------------------------------------
(***************************************************************************)
(* FileSystemWatcher, and the constructor of FileSystemModel, which asks   *)
(* for a first update.                                                     *)
(***************************************************************************)
ReadTable ==
  /\ watch = "none"
  /\ watch' = "read" /\ orig' = Lines(mounts) /\ since' = {Lines(mounts)}
  /\ UNCHANGED <<mounts, event, changes, ever, queued, scan, view, looked>>

OpenTable ==
  /\ watch = "read"
  /\ watch' \in {"armed", "failed"} /\ queued' = 1
  /\ UNCHANGED <<outside, orig, scan, view, looked>>

\* mutated form: the sets are not compared again with what was seen last
KeepsOldSet ==
  /\ Idle /\ watch = "armed" /\ event
  /\ event' = FALSE
  /\ queued' = queued + Cardinality(Lines(mounts) \ orig) + Cardinality(orig \ Lines(mounts))
  /\ since' = {Lines(mounts)}
  /\ UNCHANGED <<mounts, changes, ever, watch, orig, scan, view, looked>>

\* one update for every line that came or went
OnMountDeviceFileContentsChanged ==
  /\ Idle /\ watch = "armed" /\ event
  /\ event' = FALSE
  /\ queued' = queued + Cardinality(Lines(mounts) \ orig) + Cardinality(orig \ Lines(mounts))
  /\ orig' = Lines(mounts) /\ since' = {Lines(mounts)}
  /\ UNCHANGED <<mounts, changes, ever, watch, scan, view, looked>>

-----------------------------------------------------------------------------
(***************************************************************************)
(* An update: FileSystemWorker::onFileSystemListChanged takes the list of  *)
(* mounts at once and the figures of each directory one after the other;   *)
(* then FileSystemModel changes its two lists.                             *)
(***************************************************************************)
UpdateFileSystemListDelay ==
  /\ Idle /\ queued > 0
  /\ queued' = queued - 1
  /\ scan' = [todo |-> mounts, found |-> {}, on |-> TRUE]
  /\ looked' = changes
  /\ UNCHANGED <<outside, watch, orig, view>>

\* add_disk: its devname and type, and blocks of what is behind the directory
Valid(e) == Behind(e.dir) \notin Pseudo /\ e.dev \notin Skipped

\* a device that is known keeps its directory
DiskInfo(e) ==
  [dir |-> IF e.dev \in DOMAIN disks THEN disks[e.dev].dir ELSE e.dir,
   fs  |-> Behind(e.dir)]

ScanEntry ==
  /\ scan.on /\ scan.todo # <<>>
  /\ LET e == Head(scan.todo) IN
       IF Valid(e)
         THEN /\ scan' = [scan EXCEPT !.todo = Tail(@), !.found = @ \cup {e.dev}]
              /\ disks' = [d \in DOMAIN disks \cup {e.dev} |->
                             IF d = e.dev THEN DiskInfo(e) ELSE disks[d]]
         ELSE scan' = [scan EXCEPT !.todo = Tail(@)] /\ UNCHANGED disks
  /\ UNCHANGED <<outside, watch, orig, queued, names, data, selected, current, looked>>

\* mutated form: a row leaves the list of names only
KeptData(new) == data

\* the rows that stay, with the worker's figures
Kept(new) ==
  LET staying == Staying(names, new)
  IN  [i \in DOMAIN staying |-> disks[staying[i]]]

\* external: when the selected row goes, the view selects one next to it.
\* Then modelUpdated selects the row of m_selectedDevName again, if there is one
Reselect(new) ==
  IF current # NoDev /\ current \notin new
    THEN \/ \E d \in new : selected' = d /\ current' = d
         \/ new = {} /\ current' = NoDev /\ UNCHANGED selected
    ELSE /\ current' = (IF selected \in new THEN selected ELSE NoDev)
         /\ UNCHANGED selected

\* mutated form: devices that are gone stay in the worker's list
NothingRemoved == DOMAIN disks

Remaining == DOMAIN disks \cap scan.found

EndUpdate ==
  /\ scan.on /\ scan.todo = <<>>
  /\ scan' = NoScan
  /\ LET new   == Remaining
         added == SetToSeq(new \ Range(names))
     IN  /\ disks' = [d \in new |-> disks[d]]
         /\ names' = Staying(names, new) \o added
         /\ data' = Kept(new) \o [i \in DOMAIN added |-> disks[added[i]]]
         /\ Reselect(new)
  /\ UNCHANGED <<outside, watch, orig, queued, looked>>

-----------------------------------------------------------------------------
(***************************************************************************)
(* The user.                                                               *)
(***************************************************************************)
SelectRow(i) ==
  /\ Idle
  /\ selected' = names[i] /\ current' = names[i]
  /\ UNCHANGED <<outside, watch, orig, queued, scan, rows, looked>>

\* selectionChanged returns early and keeps the name
Deselect ==
  /\ Idle /\ current # NoDev
  /\ current' = NoDev
  /\ UNCHANGED <<outside, watch, orig, queued, scan, rows, selected, looked>>

\* the context menu opens on a selected row only
Refresh ==
  /\ Idle /\ current # NoDev /\ selected # NoDev /\ queued < MaxQueue
  /\ queued' = queued + 1
  /\ UNCHANGED <<outside, watch, orig, scan, view, looked>>

\* onDoubleClicked: the directory that is opened for a row
Opens(i) == data[i].dir

Gui == \/ ReadTable \/ OpenTable \/ OnMountDeviceFileContentsChanged
       \/ UpdateFileSystemListDelay \/ ScanEntry \/ EndUpdate

Next ==
  \/ \E e \in Entry : Mount(e)
  \/ \E i \in DOMAIN mounts : Unmount(i)
  \/ Gui
  \/ \E i \in DOMAIN names : SelectRow(i)
  \/ Deselect \/ Refresh

\* Qt's event loop runs the handlers; the outside and the user may rest
Spec == Init /\ [][Next]_vars /\ WF_vars(Gui)

-----------------------------------------------------------------------------
\* Every variable has its type.
TypeOK ==
  /\ mounts \in Seq(Entry) /\ event \in BOOLEAN
  /\ watch \in {"none", "read", "armed", "failed"}
  /\ orig \subseteq Entry /\ queued \in Nat
  /\ scan \in [todo: Seq(Entry), found: SUBSET AllDevs, on: BOOLEAN]
  /\ DOMAIN disks \subseteq AllDevs
  /\ \A d \in DOMAIN disks : disks[d] \in [dir: Dirs, fs: AllDevs]
  /\ names \in Seq(AllDevs) /\ data \in Seq([dir: Dirs, fs: AllDevs])
  /\ selected \in AllDevs \cup {NoDev} /\ current \in AllDevs \cup {NoDev}
  /\ changes \in Nat /\ looked \in Nat

\* A double click on a row opens a directory at which the device named in
\* that very row has been mounted: m_devNameList and m_fileSystemDataList stay
\* in step through every insertion and removal (FileSystemModel, onDoubleClicked).
OpensOwnDirectory ==
  /\ Len(names) = Len(data)
  /\ \A i \in DOMAIN names : [dev |-> names[i], dir |-> Opens(i)] \in ever

\* What is highlighted is what the view remembers, and it has a row, whatever
\* comes and goes (selectionChanged, which ignores an empty selection).
SelectionMatches ==
  current # NoDev => current = selected /\ current \in Range(names)

\* What the user acts on is what the row shows: both of the above.
ActsOnShownRow == OpensOwnDirectory /\ SelectionMatches

\* A row for each device that can be reached at one of its directories, none
\* twice, none for another, with the figures of what is mounted there last.
Mirrors ==
  LET last(d) == CHOOSE i \in DOMAIN mounts :
                   /\ mounts[i].dev = d /\ Valid(mounts[i])
                   /\ \A j \in DOMAIN mounts :
                        mounts[j].dev = d /\ Valid(mounts[j]) => j <= i
  IN /\ Range(names) = {mounts[i].dev : i \in {j \in DOMAIN mounts : Valid(mounts[j])}}
     /\ IsInjective(names)
     /\ \A i \in DOMAIN names : data[i].fs = Behind(mounts[last(names[i])].dir)

\* Once the mount table rests, the rows are those of the mount table
\* (FileSystemWatcher's signals; it works if /proc/mounts could be opened).
TableCatchesUp == []<>(watch = "failed" \/ Mirrors)

\* Every change is followed by a look of the worker at the mount table, from
\* the moment it is watched.
Armed(n) == IF watch = "armed" THEN n ELSE 0
F == INSTANCE Follower WITH changed <- Armed(changes), looked <- Armed(looked)
Follows == F!FSpec
=============================================================================
