------------------------------ MODULE Follower ------------------------------
(***************************************************************************)
(* What a view of outside state promises: the outside changes on its own,  *)
(* and every change is sooner or later followed by a look at the latest    *)
(* state.  Changes are numbered; looked is the number of the change that   *)
(* the last look saw.                                                      *)
(***************************************************************************)
EXTENDS Naturals

VARIABLES changed, looked

followVars == <<changed, looked>>

FInit == changed = 0 /\ looked = 0

FChange == changed' > changed /\ UNCHANGED looked
FLook   == looked' = changed /\ UNCHANGED changed

FSpec == FInit /\ [][FChange \/ FLook]_followVars /\ WF_followVars(FLook)
=============================================================================
