---- MODULE MCBroker ----
(* Two sessions, which may be of one target or of two.                      *)
EXTENDS Broker
CONSTANTS s1, s2, lang, other
====
