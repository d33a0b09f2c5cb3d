---- MODULE MCTransport ----
(* One client command, two ctx.sends, so that a hook can wait on one while  *)
(* another is in flight, and one swallowed command.                        *)
EXTENDS Transport

MCClientIds == {1}
====
