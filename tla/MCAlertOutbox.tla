--------------------------- MODULE MCAlertOutbox ---------------------------
(* The constants of AlertOutbox have their values in the configurations.   *)
EXTENDS AlertOutbox
=============================================================================
