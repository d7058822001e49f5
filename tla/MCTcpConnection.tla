-------------------------- MODULE MCTcpConnection --------------------------
(* Instances of TcpConnection for TLC: the configurations choose what the  *)
(* other threads call and whether the server may end.  The messages are    *)
(* interchangeable.                                                        *)
EXTENDS TcpConnection, TLC

MessageSymmetry == Permutations(Messages)
=============================================================================
