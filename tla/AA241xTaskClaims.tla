------------------------- MODULE AA241xTaskClaims --------------------------
(***************************************************************************)
(* What comments say of start and stop that the code does not do.          *)
(***************************************************************************)
EXTENDS AA241xTask

\* The destructor waits "for the task to quit at our request"
\* (aa241x_low_main.cpp:406): whatever the priorities, no task holds an object
\* that has been deleted.
TaskHasQuit == \A k \in Tasks : Outlived(k)
=============================================================================
