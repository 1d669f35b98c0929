------------------------------ MODULE Presence ------------------------------
(***************************************************************************)
(* What a single-instance application promises: at most one process has    *)
(* the window, it changes hands only through nobody, and a message of      *)
(* another start is heard only by whoever has it.                          *)
(***************************************************************************)
CONSTANT Proc

VARIABLES windows,   \* processes that have a main window
          heard      \* starts whose message has been heard

presenceVars == <<windows, heard>>

PInit == windows = {} /\ heard = {}

Appear(p) == windows = {} /\ windows' = {p} /\ UNCHANGED heard
Vanish    == windows' = {} /\ UNCHANGED heard
Hear(p)   == windows # {} /\ heard' = heard \cup {p} /\ UNCHANGED windows
Renew(p)  == heard' = heard \ {p} /\ UNCHANGED windows

PNext == Vanish \/ \E p \in Proc : Appear(p) \/ Hear(p) \/ Renew(p)

PSpec == PInit /\ [][PNext]_presenceVars
=============================================================================
