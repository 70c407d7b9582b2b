------------------------------ MODULE MCClient ------------------------------
(***************************************************************************)
(* Two agents with a workspace each.                                       *)
(***************************************************************************)
EXTENDS Client

Pairs == {<<1, 1>>, <<2, 1>>}

\* Two files dropped by the user, one made by the browser
TwoBatches ==
  <<[for |-> "drop", files |-> 2], [for |-> "artifact", files |-> 1]>>
=============================================================================
