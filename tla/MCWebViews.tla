----------------------------- MODULE MCWebViews -----------------------------
(* WebViews for TLC: two tabs, the first with two pages, one of which has  *)
(* a frame in a frame, both out of process.                                *)
EXTENDS WebViews, TLC

CONSTANTS t1, t2, p1, p2, f1, f2

MCParentOf == (p1 :> t1) @@ (p2 :> t1) @@ (f1 :> p1) @@ (f2 :> f1)
=============================================================================
