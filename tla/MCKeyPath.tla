----------------------------- MODULE MCKeyPath ------------------------------
EXTENDS KeyPath

\* Of three keys the last is too long to be recorded, and two of the second
\* take more bytes than the path has.
LengthOf == [a |-> 1, bb |-> 2, ccc |-> 3]
=============================================================================
