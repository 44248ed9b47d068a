-------------------------- MODULE ArmingStateClaims ---------------------------
(***************************************************************************)
(* What comments say of the arming state that the code does not do.        *)
(***************************************************************************)
EXTENDS ArmingState

\* "Fail transition if pre-arm check fails" (state_machine_helper.cpp:211): the
\* main loop never arms a vehicle in which the pre-arm check finds something,
\* also after a calibration.
PrearmCheckDecides == [][~ArmsUnchecked]_vars
===============================================================================
