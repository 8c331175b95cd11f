-------------------------- MODULE MCPendingChains --------------------------
(* Two chains from genesis that differ from the first block on, the second    *)
(* block of one alone, as a sender that already has the first would send it,  *)
(* and the two blocks of a chain in the wrong order, of which the second goes *)
(* to a file two past its index; the node mines blocks of its own.            *)
EXTENDS PendingChains

A == <<"g", "a">>
AB == <<"g", "a", "b">>
AC == <<"g", "a", "c">>
D == <<"g", "d">>
MCReceived == {<<A, AB>>, <<D>>, <<AC>>, <<AC, A>>}
=============================================================================
