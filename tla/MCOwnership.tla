---- MODULE MCOwnership ----
(* Two connections, a context and two pages.                                *)
EXTENDS Ownership

CONSTANTS c1, c2
====
