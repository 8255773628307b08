---------------------------- MODULE MCParameters ----------------------------
(* Instances of module Parameters for TLC.                                 *)
EXTENDS Parameters

\* Two values of the kinds whose length is kept, one of the others.
Any == [kind : Kinds, is : {1}] \cup {[kind |-> "bytes", is |-> 3], [kind |-> "string", is |-> 3]}

\* Any value alone; side by side those that differ in type, length and indicator.
Number == [kind |-> "integer", is |-> 1]
Text == [kind |-> "string", is |-> 3]
AnyArrays == {<<>>} \cup {<<v>> : v \in Any}
               \cup {<<Number, Text>>, <<Text, Null>>, <<Null, Text>>}

\* Every direction with every type, alone, and some that have two.
Pairs == [io : Directions, type : {"bigint", "char"}]
AnyProcedures == {<<d>> : d \in [io : Directions, type : SqlTypes]} \cup (Pairs \X Pairs)

\* What a column of numbers that may be null is given.
NumbersOrNull == {<<>>, <<Null>>, <<Number>>}
=============================================================================
