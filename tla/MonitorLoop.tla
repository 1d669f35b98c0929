---------------------------- MODULE MonitorLoop -----------------------------
(***************************************************************************)
(* Starting and stopping the traffic monitor.  ProcessList's constructor   *)
(* starts the ProcessNetwork thread, whose run() is nethogsmonitor_loop;   *)
(* its destructor asks the loop to stop, waits for the thread and destroys *)
(* it, which asks once more.  The two threads share monitor_run_flag and   *)
(* self_pipe and hold no lock.                                             *)
(*                                                                         *)
(* nb_devices and nb_failed_devices are only ever compared with each       *)
(* other, so the model keeps their difference: the devices opened.         *)
(***************************************************************************)
EXTENDS Naturals

CONSTANT MaxDevices   \* bound: interfaces found by get_default_devices

ASSUME MonitorLoopAssumption == MaxDevices \in Nat \ {0}

VARIABLES
  gui,        \* GUI thread, see GuiPlaces
  net,        \* network thread, see NetPlaces
  status,     \* what nethogsmonitor_loop returned, or "none"
  left,       \* devices not yet looked at by nethogsmonitor_init
  opened,     \* nb_devices - nb_failed_devices
  handles,    \* open pcap handles
  useSelect,  \* pc_loop_use_select
  flag,       \* monitor_run_flag
  pipe,       \* self_pipe: "none" (-1), "open", "noReader"
  byte,       \* something has been written to self_pipe
  addrsOk     \* external: getifaddrs succeeds

\* ProcessList: constructor, in use, then ~ProcessList and ~ProcessNetwork
GuiPlaces == {"ctor", "live", "stopFlag", "stopWrite", "wait",
              "againFlag", "againWrite", "gone", "killed"}
\* nethogsmonitor_init: start .. pipe; nethogsmonitor_loop: enter .. close
NetPlaces == {"start", "devices", "pipe", "enter", "check", "poll", "wait",
              "close", "done"}

initVars == <<status, left, opened, handles, useSelect>>
vars     == <<gui, net, initVars, flag, pipe, byte, addrsOk>>

Init ==
  /\ gui = "ctor" /\ net = "start"
  /\ status = "none" /\ left = 0 /\ opened = 0 /\ handles = 0
  /\ useSelect = TRUE /\ flag = FALSE
  /\ pipe = "none" /\ byte = FALSE
  /\ addrsOk \in BOOLEAN

\* the process is there: SIGPIPE ends all threads
Alive == gui # "killed"

-----------------------------------------------------------------------------
(***************************************************************************)
(* The network thread.                                                     *)
(***************************************************************************)
Return(s) == net' = "done" /\ status' = s

\* get_default_devices: interfaces that are up and running, if any
Run ==
  /\ net = "start"
  /\ IF flag THEN Return("FAILURE") /\ UNCHANGED left
     ELSE \E n \in 0 .. MaxDevices :
            /\ left' = n
            /\ IF n = 0 THEN Return("NO_DEVICE") ELSE net' = "devices" /\ UNCHANGED status
  /\ UNCHANGED <<gui, opened, handles, useSelect, flag, pipe, byte, addrsOk>>

\* getLocal failed: `continue' without going on to the next device
GetLocalFails ==
  /\ net = "devices" /\ left > 0 /\ ~addrsOk
  /\ UNCHANGED vars

\* the outcomes of dp_open_live and pcap_get_selectable_fd
OpenDevice ==
  /\ net = "devices" /\ left > 0 /\ addrsOk
  /\ left' = left - 1
  /\ \/ UNCHANGED <<opened, handles, useSelect>>
     \/ /\ opened' = opened + 1
        /\ handles' = handles + 1
        /\ useSelect' \in {useSelect, FALSE}
  /\ UNCHANGED <<gui, net, status, flag, pipe, byte, addrsOk>>

\* mutated form: one device that fails is enough
SomeDeviceFailed ==
  /\ net = "devices" /\ left = 0
  /\ IF opened < MaxDevices THEN Return("FAILURE") ELSE net' = "pipe" /\ UNCHANGED status
  /\ UNCHANGED <<gui, left, opened, handles, useSelect, flag, pipe, byte, addrsOk>>

DevicesOpened ==
  /\ net = "devices" /\ left = 0
  /\ IF opened = 0 THEN Return("FAILURE") ELSE net' = "pipe" /\ UNCHANGED status
  /\ UNCHANGED <<gui, left, opened, handles, useSelect, flag, pipe, byte, addrsOk>>

MakePipe ==
  /\ net = "pipe"
  /\ net' = "enter"
  /\ IF useSelect
       THEN \/ pipe' = "open" /\ UNCHANGED useSelect
            \/ useSelect' = FALSE /\ UNCHANGED pipe
       ELSE UNCHANGED <<pipe, useSelect>>
  /\ UNCHANGED <<gui, status, left, opened, handles, flag, byte, addrsOk>>

EnterLoop ==
  /\ net = "enter"
  /\ flag' = TRUE
  /\ net' = "check"
  /\ UNCHANGED <<gui, initVars, pipe, byte, addrsOk>>

\* mutated form: the loop looks at the pipe only
CheckPipeOnly ==
  /\ net = "check"
  /\ net' = "poll"
  /\ UNCHANGED <<gui, initVars, flag, pipe, byte, addrsOk>>

CheckFlag ==
  /\ net = "check"
  /\ net' = IF flag THEN "poll" ELSE "close"
  /\ UNCHANGED <<gui, initVars, flag, pipe, byte, addrsOk>>

\* dp_dispatch on every device, maybe an update with its callbacks
Poll ==
  /\ net = "poll"
  /\ net' \in {"check", "wait"}
  /\ UNCHANGED <<gui, initVars, flag, pipe, byte, addrsOk>>

\* wait_for_next_trigger: select may be interrupted, and then sees no byte
Wait ==
  /\ net = "wait"
  /\ net' \in IF useSelect /\ byte THEN {"close", "check"} ELSE {"check"}
  /\ UNCHANGED <<gui, initVars, flag, pipe, byte, addrsOk>>

CleanUp ==
  /\ net = "close"
  /\ handles' = 0
  /\ pipe' = IF useSelect THEN "noReader" ELSE pipe
  /\ Return("OK")
  /\ UNCHANGED <<gui, left, opened, useSelect, flag, byte, addrsOk>>

NetStep ==
  /\ Alive
  /\ \/ Run \/ OpenDevice \/ DevicesOpened \/ MakePipe
     \/ EnterLoop \/ CheckFlag \/ Poll \/ Wait \/ CleanUp

-----------------------------------------------------------------------------
(***************************************************************************)
(* The GUI thread.                                                         *)
(***************************************************************************)
Goto(from, to) == gui = from /\ gui' = to

Connected == Goto("ctor", "live") /\ UNCHANGED <<net, initVars, flag, pipe, byte, addrsOk>>

Quit == Goto("live", "stopFlag") /\ UNCHANGED <<net, initVars, flag, pipe, byte, addrsOk>>

\* nethogsmonitor_breakloop, first the flag ...
BreakFlag(from, to) ==
  /\ Goto(from, to)
  /\ flag' = FALSE
  /\ UNCHANGED <<net, initVars, pipe, byte, addrsOk>>

\* ... then the pipe; a pipe without reader raises SIGPIPE, which nobody handles
BreakWrite(from, to) ==
  /\ gui = from
  /\ gui' = IF pipe = "noReader" THEN "killed" ELSE to
  /\ byte' = (byte \/ pipe = "open")
  /\ UNCHANGED <<net, initVars, flag, pipe, addrsOk>>

\* mutated form: the destructor does not wait
NotWaited == Goto("wait", "againFlag") /\ UNCHANGED <<net, initVars, flag, pipe, byte, addrsOk>>

\* QThread::wait
Waited ==
  /\ net = "done"
  /\ Goto("wait", "againFlag")
  /\ UNCHANGED <<net, initVars, flag, pipe, byte, addrsOk>>

StopStep ==
  \/ BreakFlag("stopFlag", "stopWrite") \/ BreakWrite("stopWrite", "wait")
  \/ Waited
  \/ BreakFlag("againFlag", "againWrite") \/ BreakWrite("againWrite", "gone")

\* getifaddrs starts or stops failing (no memory, no descriptors)
AddrsChange ==
  /\ addrsOk' = ~addrsOk
  /\ UNCHANGED <<gui, net, initVars, flag, pipe, byte>>

Next ==
  \/ NetStep \/ (Alive /\ GetLocalFails)
  \/ Connected \/ Quit \/ StopStep
  \/ (Alive /\ AddrsChange)

(***************************************************************************)
(* Both threads are scheduled; the user need not quit, and a failure of    *)
(* getifaddrs need not pass.                                               *)
(***************************************************************************)
Spec == Init /\ [][Next]_vars /\ WF_vars(NetStep) /\ WF_vars(Connected) /\ WF_vars(StopStep)

-----------------------------------------------------------------------------
TypeOK ==
  /\ gui \in GuiPlaces /\ net \in NetPlaces
  /\ status \in {"none", "OK", "FAILURE", "NO_DEVICE"}
  /\ left \in 0 .. MaxDevices /\ opened \in 0 .. MaxDevices /\ handles \in 0 .. MaxDevices
  /\ useSelect \in BOOLEAN /\ flag \in BOOLEAN /\ byte \in BOOLEAN /\ addrsOk \in BOOLEAN
  /\ pipe \in {"none", "open", "noReader"}

(***************************************************************************)
(* The callback gets the ProcessNetwork object: the loop never runs it     *)
(* once the destructor of that object has begun.                           *)
(***************************************************************************)
CallbackOnLiveObject ==
  net = "poll" => gui \notin {"againFlag", "againWrite", "gone"}

(***************************************************************************)
(* A loop that was entered ends only because breakloop was called: neither *)
(* an interrupted select nor its time-out ends the monitoring.             *)
(***************************************************************************)
EndsOnlyWhenStopped ==
  net = "close" \/ status = "OK" => gui \notin {"ctor", "live", "stopFlag"}

(***************************************************************************)
(* Whatever the call returns, no capture handle is left open.              *)
(***************************************************************************)
NoHandleLeft == net = "done" => handles = 0

(***************************************************************************)
(* A stop request that finds the loop entered makes the call return, with  *)
(* and without select, however busy the devices are.                       *)
(***************************************************************************)
RunningLoopStops == (gui = "stopFlag" /\ flag) ~> net = "done"

-----------------------------------------------------------------------------
(***************************************************************************)
(* What comments of the code say and the code does not do.                 *)
(***************************************************************************)

\* libnethogs.h:83 "Makes the call to nethogsmonitor_loop return": once
\* nethogsmonitor_breakloop has returned, so does nethogsmonitor_loop.
BreakloopStopsLoop == (gui = "wait" /\ addrsOk) ~> (net = "done" \/ ~addrsOk)

\* libnethogs.h:74 "will block until nethogsmonitor_breakloop() is called or a
\* failure occurs": a failure of getLocal makes the call return.
FailureReturns == (net = "devices" /\ left > 0 /\ ~addrsOk) ~> (net = "done" \/ addrsOk)

\* libnethogs.cpp:42 "used to interrupt the select() in the main loop": the
\* pipe is written only while there may be a loop to interrupt.
PipeInterruptsLoop == [][byte' # byte \/ gui' = "killed" => net # "done"]_vars
=============================================================================
