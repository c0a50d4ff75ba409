---------------------------- MODULE MCParameterActor ----------------------------
(* Small instances of ParameterActor for TLC. *)
EXTENDS ParameterActor

CONSTANTS ns, x

(* A namespace and a parameter in it. *)
OneInTheOther == [p \in Params |-> IF p = ns THEN {x} ELSE {}]

(* All there is to ask of one of them, which may also be read. *)
AllOfOne ==
    {{"cached", "set", "delete"} \X {ns},
     {"cached", "set", "delete", "read"} \X {x}}
=============================================================================
