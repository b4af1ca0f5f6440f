---------------------------- MODULE MCPlayerMoves ----------------------------
\* A line of five places, a limit of one per tick, and a bot that walks at it.
EXTENDS PlayerMoves
Line == -2..2
=============================================================================
