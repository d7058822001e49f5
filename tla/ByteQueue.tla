----------------------------- MODULE ByteQueue -----------------------------
(***************************************************************************)
(* What a Buffer promises to its two sides: the bytes that are put in come *)
(* out once each and in the same order, however they are split.            *)
(***************************************************************************)
EXTENDS Integers, Sequences

VARIABLES
  contents,    \* the bytes put in and not yet taken out
  last         \* the last operation, and the bytes it put in or took out

vars == <<contents, last>>

Operation(name, bytes) == [op |-> name, bytes |-> bytes]

Init == contents = <<>> /\ last = Operation("none", <<>>)

Put ==
  /\ last'.op = "put"
  /\ contents' = contents \o last'.bytes

Take ==
  /\ last'.op = "take"
  /\ contents = last'.bytes \o contents'

Next == Put \/ Take

Spec == Init /\ [][Next]_vars

=============================================================================
