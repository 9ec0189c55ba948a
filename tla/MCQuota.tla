------------------------------ MODULE MCQuota -------------------------------
(***************************************************************************)
(* QuotaStore for TLC: three connections and room for two fetches, so that *)
(* the queue fills, several connections are under way and one answer can   *)
(* make room for another.  One connection is volatile; a symmetry of the   *)
(* others is not declared, for there are temporal properties.              *)
(***************************************************************************)
EXTENDS QuotaStore
=============================================================================
