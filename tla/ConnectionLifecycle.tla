------------------------- MODULE ConnectionLifecycle -------------------------
(***************************************************************************)
(* What the user of a TcpConnection sees of its life: the connection       *)
(* callback is called once when the connection is established and once     *)
(* when it is closed, message callbacks come between the two, callbacks    *)
(* of one connection never overlap, and the object goes away only after    *)
(* the user was told that it is down.                                      *)
(***************************************************************************)
VARIABLES
  life,        \* "connecting", "up", "down" or "gone"
  callback     \* the callback being run: "none", "up", "message" or "down"

vars == <<life, callback>>

Init == life = "connecting" /\ callback = "none"

(* The connection callback is called, connected() being true.              *)
Up ==
  /\ life = "connecting" /\ callback = "none"
  /\ life' = "up" /\ callback' = "up"

Message ==
  /\ life = "up" /\ callback = "none"
  /\ callback' = "message"
  /\ UNCHANGED life

(* The connection callback is called, connected() being false.             *)
Down ==
  /\ life = "up" /\ callback = "none"
  /\ life' = "down" /\ callback' = "down"

Return ==
  /\ callback # "none"
  /\ callback' = "none"
  /\ UNCHANGED life

Gone ==
  /\ life = "down" /\ callback = "none"
  /\ life' = "gone"
  /\ UNCHANGED callback

Next == Up \/ Message \/ Down \/ Return \/ Gone

Spec == Init /\ [][Next]_vars

=============================================================================
