------------------------------ MODULE MCServer ------------------------------
(* Small instances of Server for TLC; the bounds are in the cfg files.     *)
EXTENDS Server
=============================================================================
