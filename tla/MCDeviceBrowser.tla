--------------------------- MODULE MCDeviceBrowser ---------------------------
(* Small instance of DeviceBrowser for TLC. *)
EXTENDS DeviceBrowser

\* The devices are alike.
Alike == Permutations(Names)
==============================================================================
