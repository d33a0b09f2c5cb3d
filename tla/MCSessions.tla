---- MODULE MCSessions ----
(* A session that only the second of two slots can answer for, a promoted  *)
(* one, and one client more than the ceiling.                              *)
EXTENDS Sessions, TLC
CONSTANTS p, q, s1, s2
MCSlots == <<s1, s2>>
MCFits == (p :> {s2}) @@ (q :> {})
====
