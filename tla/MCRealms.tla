---- MODULE MCRealms ----
(* Two pages and a worker of the first, whose start the client asks to be    *)
(* paused; the pages are paused by the broker.                              *)
EXTENDS Realms, TLC

CONSTANTS A, B, W, R
MCParent == (A :> R) @@ (B :> R) @@ (W :> A)
====
