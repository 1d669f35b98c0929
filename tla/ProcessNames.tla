---------------------------- MODULE ProcessNames ----------------------------
(***************************************************************************)
(* What a row is called and which picture it has: DesktopFileInfo, read    *)
(* once from the desktop files, the part of a scan that names a process,   *)
(* and the icon map of ProcessTableModel.                                  *)
(*                                                                         *)
(* Text is made of words.  A command, a name or an Exec line is a sequence *)
(* of them; a path is a word, and Base gives its last component.  The scan *)
(* reads one process per step and processes go on meanwhile.               *)
(***************************************************************************)
EXTENDS Integers, Sequences, FiniteSets, Functions, SequencesExt, Lists

CONSTANTS
  Pids,
  Programs,    \* what a process runs: [cmd, argv, line], line without its spaces
  Tables,      \* sets of desktop files: [auto, apps, local], each file name -> file
  Base,        \* a path -> its last component
  Begins,      \* a word -> the words that are beginnings of it
  Custom,      \* names that hold a key of CUSTOMPROC -> the name searched for
  Optional,    \* words of an Exec line that begin with %
  Paths,       \* icons that are paths, and those of them that exist
  IconFiles,
  Theme,       \* names of icons that the theme has
  Shells,      \* names in /etc/shells
  MaxChanges, MaxScans   \* bounds

None == ""     \* an empty text
Gone == [cmd |-> None, argv |-> <<>>, line |-> None]   \* zeros of libgtop
Default == "application-x-executable"
NoProcess == [name |-> <<>>, line |-> None, icon |-> None, title |-> None]

ASSUME ProcessNamesAssumption ==
  /\ Pids \subseteq Nat \ {0} /\ IsFiniteSet(Pids) /\ {MaxChanges, MaxScans} \subseteq Nat
  \* a file's name is its place among them; the Exec of a file has one word at least
  /\ \A t \in Tables : \A files \in {t.auto, t.apps, t.local} :
       DOMAIN files \subseteq Nat \ {0} /\ \A n \in DOMAIN files : Len(files[n].exec) \in Nat \ {0}
  /\ IconFiles \subseteq Paths /\ Default \notin Paths
  \* the theme has no icon called as a shell: the two would share a key
  /\ Shells \cap (Theme \cup Paths \cup {Default}) = {}

VARIABLES
  table,     \* the desktop files, as read at start
  running,   \* pid -> its program
  set,       \* m_set: pid -> name, arguments, icon and title
  todo,      \* pids the scan has still to read
  rows,      \* m_processList: pid -> key of its picture and title
  map,       \* m_procIconMap: key -> picture
  posted,    \* updateProcessListDelay waits in the event queue
  events, scans

namesVars == <<table, running, set, todo, rows, map, posted, events, scans>>

-----------------------------------------------------------------------------
(***************************************************************************)
(* readAllDesktopFileInfo.                                                 *)
(***************************************************************************)
\* the first text of a sequence that is not empty
FirstOf(texts) == LET i == SelectInSeq(texts, LAMBDA t : t # None)
                  IN IF i = 0 THEN None ELSE texts[i]

\* an autostart file's name counts in the user's language only
Entry(f, translated) ==
  [exec  |-> f.exec,
   title |-> FirstOf(<<f.local, IF translated THEN None ELSE f.plain, f.generic, f.comment>>),
   icon  |-> f.icon]

\* m_mapDesktopInfoList, of two files of one name the autostart one
Entries(t) == [n \in DOMAIN t.auto \cup DOMAIN t.apps |->
  IF n \in DOMAIN t.auto THEN Entry(t.auto[n], TRUE) ELSE Entry(t.apps[n], FALSE)]

\* m_mapAndroidAppList
Androids(t) == [n \in DOMAIN t.local |-> Entry(t.local[n], FALSE)]

First(files) == CHOOSE n \in files : \A m \in files : n <= m

-----------------------------------------------------------------------------
(***************************************************************************)
(* The search for the entry of a process: two passes over the entries in   *)
(* the order of their file names.                                          *)
(***************************************************************************)
Exchange(name) == IF name \in DOMAIN Custom THEN Custom[name] ELSE name

BaseOf(w) == IF w \in DOMAIN Base THEN Base[w] ELSE w

\* the entry is of the program that the name begins with
Match(e, name) == e.exec \in {name, <<name[1]>>} \/ BaseOf(e.exec[1]) = name[1]

\* parameters after the program up to the first that is a placeholder
Required(e) == LET n == SelectInSeq(e.exec, LAMBDA w : w \in Optional \cup {None})
               IN 2 .. (IF n = 0 THEN Len(e.exec) ELSE n - 1)

Accepts(e, name) ==
  \/ Len(e.exec) = 1 /\ Len(name) = 1
  \/ /\ Len(e.exec) > 1 /\ Len(name) <= Len(e.exec)
     /\ \A n \in Required(e) : n <= Len(name) /\ name[n] = e.exec[n]

\* all in one pass (a mutant)
FindInOnePass(es, asked) ==
  LET name == Exchange(asked)
      all  == {n \in DOMAIN es : Match(es[n], name)}
  IN IF all = {} THEN 0 ELSE First(all)

\* getNameByExec and getIconByExec search alike: the file found, 0 if there is none
Find(es, asked) ==
  LET name  == Exchange(asked)
      all   == {n \in DOMAIN es : Match(es[n], name)}
      exact == {n \in all : Accepts(es[n], name)}
  IN IF exact # {} THEN First(exact) ELSE IF all # {} THEN First(all) ELSE 0

GetNameByExec(name) == LET n == Find(Entries(table), name)
                       IN IF n = 0 THEN None ELSE Entries(table)[n].title
GetIconByExec(name) == LET n == Find(Entries(table), name)
                       IN IF n = 0 THEN None ELSE Entries(table)[n].icon

\* getAndroidAppNameByCmd and getAndroidAppIconByCmd
Android(line) ==
  LET as  == Androids(table)
      all == {n \in DOMAIN as : line \in ToSet(as[n].exec)}
  IN IF all = {} THEN [title |-> None, icon |-> None] ELSE as[First(all)]

-----------------------------------------------------------------------------
NamesInit ==
  /\ table \in Tables
  /\ running \in [Pids -> Programs]
  /\ set = <<>> /\ todo = {} /\ rows = <<>> /\ map = <<>> /\ posted = FALSE
  /\ events = 0 /\ scans = 0

\* a process starts, runs another program, sets its title or is gone
Become(p, program) ==
  /\ events < MaxChanges /\ program # running[p]
  /\ events' = events + 1
  /\ running' = [running EXCEPT ![p] = program]
  /\ UNCHANGED <<table, set, todo, rows, map, posted, scans>>

Listed == DOMAIN set
Row(p) == IF p \in Listed THEN set[p] ELSE NoProcess

BeginScan ==
  /\ todo = {} /\ ~posted /\ scans < MaxScans
  /\ scans' = scans + 1
  /\ todo' = {p \in Pids : running[p] # Gone}
  /\ set' = Restrict(set, Listed \cap todo')
  /\ posted' = (todo' = {})
  /\ UNCHANGED <<table, running, rows, map, events>>

\* get_process_name: of the first two arguments the one that cmd is a beginning of
ProcName(program) ==
  LET base == [i \in 1 .. 2 |-> IF i > Len(program.argv) THEN <<>>
                                ELSE [program.argv[i] EXCEPT ![1] = BaseOf(@)]]
      fits == {i \in 1 .. 2 : base[i] # <<>> /\ program.cmd \in Begins[base[i][1]]}
  IN IF fits = {} THEN <<program.cmd>> ELSE base[First(fits)]

\* the icon is looked up for a new process only (a mutant)
IconOnce(p, name, line) ==
  IF p \in Listed THEN set[p].icon
  ELSE FirstOf(<<GetIconByExec(name), Android(line).icon>>)

\* a process that keeps its name keeps its icon
IconOf(p, name, line) ==
  IF name = Row(p).name THEN set[p].icon
  ELSE FirstOf(<<GetIconByExec(name), Android(line).icon>>)

\* None stands for the name itself
TitleOf(name, line) == FirstOf(<<GetNameByExec(name), Android(line).title>>)

\* a turn of the scan's loop; the process may be gone when it is read
ReadProcess ==
  /\ todo # {}
  /\ LET p    == First(todo)
         name == ProcName(running[p])
         line == running[p].line
     IN /\ set' = [q \in Listed \cup {p} |->
             IF q = p THEN [name |-> name, line |-> line, icon |-> IconOf(p, name, line),
                            title |-> TitleOf(name, line)]
             ELSE set[q]]
        /\ todo' = todo \ {p}
        /\ posted' = (todo' = {})
  /\ UNCHANGED <<table, running, rows, map, events, scans>>

IsShell(name) == Len(name) = 1 /\ name[1] \in Shells

\* a row's picture and the key it is kept under
Picture(icon, name) ==
  IF icon \in IconFiles \cup Theme THEN [key |-> icon, pixmap |-> icon]
  ELSE IF IsShell(name) THEN [key |-> name[1], pixmap |-> "terminal"]
  ELSE [key |-> Default, pixmap |-> Default]

\* any key that has a picture keeps it (a mutant)
ShownByAnyKey(m, p) ==
  IF set[p].icon \in DOMAIN m THEN [key |-> set[p].icon, pixmap |-> m[set[p].icon]]
  ELSE Picture(set[p].icon, set[p].name)

\* the picture a refreshed row has: a path that has one in the map keeps it
Shown(m, p) ==
  IF set[p].icon \in Paths \cap DOMAIN m
  THEN [key |-> set[p].icon, pixmap |-> m[set[p].icon]]
  ELSE Picture(set[p].icon, set[p].name)

Put(m, p) == LET s == Shown(m, p)
             IN [k \in DOMAIN m \cup {s.key} |-> IF k = s.key THEN s.pixmap ELSE m[k]]

\* updateProcessListDelay, in the order of the pids
UpdateProcessListDelay ==
  /\ posted /\ posted' = FALSE
  /\ LET order == Ascending(Listed)
         maps[i \in 0 .. Len(order)] == IF i = 0 THEN map ELSE Put(maps[i - 1], order[i])
     IN /\ rows' = [p \in Listed |->
             LET i == CHOOSE j \in DOMAIN order : order[j] = p
             IN [key |-> Shown(maps[i - 1], p).key, title |-> set[p].title]]
        /\ map' = maps[Len(order)]
  /\ UNCHANGED <<table, running, set, todo, events, scans>>

NamesNext ==
  \/ \E p \in Pids, program \in Programs \cup {Gone} : Become(p, program)
  \/ BeginScan \/ ReadProcess \/ UpdateProcessListDelay

NamesSpec == NamesInit /\ [][NamesNext]_namesVars

-----------------------------------------------------------------------------
(***************************************************************************)
(* The search does not mistake the start of one program for another: a     *)
(* process without parameters is taken for an entry that requires some     *)
(* only when every entry of its program does, and an entry that is found   *)
(* for a command line of its own is that command line's.                   *)
(***************************************************************************)
LookupIsBest ==
  \A name \in {ProcName(q) : q \in Programs} :
    LET es    == Entries(table)
        found == Find(es, name)
        same  == {n \in DOMAIN es : Match(es[n], Exchange(name))}
    IN IF found = 0 THEN same = {}
       ELSE /\ found \in same
            /\ Len(Exchange(name)) = 1 /\ (\E n \in same : Required(es[n]) = {})
                 => Required(es[found]) = {}
            /\ (\E n \in same : es[n].exec = Exchange(name) /\ Len(es[n].exec) > 1)
                 => Accepts(es[found], Exchange(name))

(***************************************************************************)
(* A row is of one program: once a scan read it, a name with a desktop     *)
(* file has the icon and the title of that one file, whatever program the  *)
(* pid ran when it was read before.                                        *)
(***************************************************************************)
RowIsOneProgram ==
  \A p \in Listed \ todo : LET n == Find(Entries(table), set[p].name) IN
    n # 0 /\ Entries(table)[n].icon # None /\ Entries(table)[n].title # None
      => set[p].icon = Entries(table)[n].icon /\ set[p].title = Entries(table)[n].title

(***************************************************************************)
(* Rows share the map of pictures by key, and each shows the picture it    *)
(* would have if it were the only row, whatever rows were there before.    *)
(***************************************************************************)
IconShown ==
  todo = {} /\ ~posted => DOMAIN rows = Listed /\
    \A p \in Listed : LET own == Picture(set[p].icon, set[p].name) IN
      rows[p].title = set[p].title /\ map[rows[p].key] = own.pixmap
=============================================================================
