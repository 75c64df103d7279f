---------------------------- MODULE MCIOTransfer ----------------------------
(* Instance of IOTransfer for TLC: see the .cfg files for the bounds.      *)
EXTENDS IOTransfer
=============================================================================
