------------------------------ MODULE MCBuffer ------------------------------
(* Buffer for TLC: pieces of all lengths up to five, of two kinds of bytes *)
(* such that no piece looks like another one shifted.                      *)
EXTENDS Buffer

CONSTANTS x, y
MCPieces == {<<>>, <<x>>, <<y>>, <<x, y>>, <<y, y, x>>, <<x, y, y, x, x>>}
=============================================================================
