---------------------------- MODULE MCSettings ----------------------------
(* The instance of Settings TLC checks; MCSettings.cfg gives its constants.  *)
EXTENDS Settings
=============================================================================
