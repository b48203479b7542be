----------------------------- MODULE MCEagerApi -----------------------------
(***************************************************************************)
(* EagerApi for TLC: two uploads for one permit and a queue of one, and      *)
(* three threads for two slots, so that requests are refused at both gates, *)
(* a thread waits, and two of them update the gauge at once.                *)
(***************************************************************************)
EXTENDS EagerApi, TLC

CONSTANTS u1, u2, t1, t2, t3

TwoUploads   == {u1, u2}
ThreeThreads == {t1, t2, t3}
=============================================================================
