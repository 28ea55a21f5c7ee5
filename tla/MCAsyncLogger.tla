--------------------------- MODULE MCAsyncLogger ----------------------------
(* Small instances of AsyncLogger for TLC.                                 *)
EXTENDS AsyncLogger

CONSTANTS a, b  \* writers

MCWriters == {a, b}
MCThrowing == {b}
\* A logger at info or off; records at debug, info and off.
MCLeasts == {2, 6}
MCLogLevels == {1, 2, 6}
=============================================================================
