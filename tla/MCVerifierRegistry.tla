------------------------- MODULE MCVerifierRegistry -------------------------
(* Two obligations of three kinds, one of them the command kind with a       *)
(* valid or an invalid payload, and good and bad plugin tuples.              *)
EXTENDS VerifierRegistry

CONSTANTS o1, o2

Obligations ==
  [id : {o1, o2}, kind : {"custom", "unsupported"}, payload : {Malformed}] \cup
  [id : {o1, o2}, kind : {Command}, payload : {1, Malformed}]

MCPlans == UNION {[1..n -> Obligations] : n \in 0..2}
MCIds == {o1, o2}
MCRegistries == {<<>>, <<{}>>, <<{Command}, {"custom"}>>, <<{Command}>>,
                 <<{"custom"}, {Command, "custom"}>>}
=============================================================================
