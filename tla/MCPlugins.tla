-------------------------------- MODULE MCPlugins --------------------------------
EXTENDS Plugins
CONSTANTS contexts, block, recorder, screen, webgl, page, hello, own, history, probe, m1, m2, m3, m4

MCList     == <<screen, block, recorder, contexts, probe, webgl>>
MCKind     == [p \in Plugins |-> IF p \in {screen, webgl} THEN "surface" ELSE "protocol"]
MCPinned   == [p \in Plugins |-> IF p = contexts THEN "first" ELSE "no"]
MCPriority == [p \in Plugins |-> CASE p = block -> 2 [] p = webgl -> 1 [] OTHER -> 0]
MCHooks    == [p \in Plugins |->
                 CASE p = block -> {"onRequest", "onEvent"}
                   [] p \in {recorder, contexts} -> {"onRequest", "onResponse", "onEvent"}
                   [] OTHER -> {}]
MCMatches  == [p \in Plugins |-> IF p = recorder THEN {page, hello, own, history} ELSE {page, hello, history}]
MCRewrites == [p \in Plugins |-> IF p = block THEN {own} ELSE {}]
MCDeclares == [p \in Plugins |-> CASE p = block -> {own, hello} [] p = probe -> {own} [] OTHER -> {}]
MCClaims   == [p \in Plugins |->
                 CASE p = screen -> [header |-> "languages", part |-> "screen"]
                   [] p = webgl  -> [header |-> "languages", part |-> "monitor"]
                   [] OTHER      -> [header |-> None, part |-> None]]
MCWay      == [m \in Messages |-> IF m = m3 THEN "onEvent" ELSE "onRequest"]
MCMethod   == [m \in Messages |-> CASE m = m1 -> own [] m = m2 -> hello [] m = m4 -> history [] OTHER -> page]
=============================================================================
