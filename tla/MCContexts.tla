------------------------------- MODULE MCContexts -------------------------------
EXTENDS Contexts
CONSTANTS a, b
MCSubs == <<a>>
=============================================================================
