-------------------------------- MODULE MCActors --------------------------------
EXTENDS Actors
CONSTANTS login, banner, first, second
MCOrder   == <<login, banner>>
MCMatches == [a \in Actors |-> IF a = login THEN {first} ELSE {first, second}]
=============================================================================
