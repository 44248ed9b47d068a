--------------------------- MODULE MCAA241xTask ------------------------------
(* Two addresses and two task identifiers: a new object can lie where the  *)
(* old one did or elsewhere, while the old task is still on its way out.   *)
EXTENDS AA241xTaskClaims
=============================================================================
