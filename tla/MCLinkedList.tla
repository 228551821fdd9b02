---------------------------- MODULE MCLinkedList ----------------------------
(* Small instances of LinkedList for TLC; the constants are in the cfg.    *)
EXTENDS LinkedList
=============================================================================
