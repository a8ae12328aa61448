---------------------------- MODULE MCWebSession ----------------------------
(* Instances of WebSession for TLC.                                        *)
EXTENDS WebSession
=============================================================================
