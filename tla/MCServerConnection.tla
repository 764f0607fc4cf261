-------------------------- MODULE MCServerConnection --------------------------
EXTENDS ServerConnection

\* A 2-bit uid field: the range check accepts -2..3 and bind's arguments
\* include a value on each side of it, a negative uid that the cast wraps,
\* and 0.
MCUidWidth == 2
MCUidArgs == {-3, -1, 0, 1, 4}
MCMaxSession == 2
=============================================================================
