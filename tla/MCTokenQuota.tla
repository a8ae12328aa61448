---------------------------- MODULE MCTokenQuota ----------------------------
(* Small instances of TokenQuota.                                           *)
EXTENDS TokenQuota
=============================================================================
