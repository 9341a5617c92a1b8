---------------------------- MODULE MCThreadPatch ----------------------------
(* Instances of ThreadPatch for TLC.                                        *)
EXTENDS ThreadPatch, TLC

AllWorlds == World
=============================================================================
