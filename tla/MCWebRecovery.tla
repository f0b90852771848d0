--------------------------- MODULE MCWebRecovery ---------------------------
(* One tab for TLC: the bounds of WebRecovery.cfg, with a timer's operation *)
(* able to wait behind another one.                                         *)
EXTENDS WebRecovery, TLC
=============================================================================
