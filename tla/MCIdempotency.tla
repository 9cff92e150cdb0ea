--------------------------- MODULE MCIdempotency ---------------------------
(***************************************************************************)
(* Instances of Idempotency for TLC.                                       *)
(***************************************************************************)
EXTENDS Idempotency

Req(operation, d, b) == [op |-> operation, key |-> "k", definition |-> d, body |-> b]

Body(t, members) == [type |-> t, text |-> members]

\* Calls 1 to 3 start d1 under one key: with the number 1, with the string
\* "1", which Python prints alike, and with an object.  Calls 4 and 5 register
\* one document written in two orders, under the same key; 6 starts an
\* unknown definition.
Repeated ==
    <<Req("START_EXECUTION", "d1", Body("number", <<"1">>)),
      Req("START_EXECUTION", "d1", Body("string", <<"1">>)),
      Req("START_EXECUTION", "d1", Body("object", <<"x", "y">>)),
      Req("REGISTER_DEFINITION", "none", Body("object", <<"x", "y">>)),
      Req("REGISTER_DEFINITION", "none", Body("object", <<"y", "x">>)),
      Req("START_EXECUTION", "d9", Body("number", <<"1">>))>>

=============================================================================
