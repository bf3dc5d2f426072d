------------------------------ MODULE MCMuxDemux ------------------------------
(***************************************************************************)
(* A varint byte holds 4 values here, and a varint is at most 2 bytes of   *)
(* which the last holds 2.  Of the bytes, 5 says that another follows: it  *)
(* begins a length that is whole (5, 0), too long a message (5, 1), no     *)
(* varint (5, 2) or cut short (5), and 5, 5 is longer than a varint.       *)
(***************************************************************************)
EXTENDS MuxDemux, TLC

\* Empty, in one chunk, in several, with a length of two bytes, and longer than
\* max_message.
SomeMessages == {<<>>, <<5>>, <<0, 1>>, <<1, 2, 3, 4>>, <<0, 0, 0, 0, 0>>}
\* No key is special: the one the caller names is the scope.
Symmetric == Permutations(Keys)
=============================================================================
