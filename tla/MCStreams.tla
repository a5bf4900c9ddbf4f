------------------------------ MODULE MCStreams -------------------------------
EXTENDS Streams

MCIdent == [t \in 1..MaxTurns |-> 1]
=============================================================================
