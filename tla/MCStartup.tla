------------------------------ MODULE MCStartup ------------------------------
(***************************************************************************)
(* An instance of Startup: pointers of three bits, numbers of two bytes, a *)
(* memory of six bytes or of all that a pointer reaches; lists that fit,   *)
(* an empty one, and one with more bytes than a number holds.              *)
(***************************************************************************)
EXTENDS Startup

ConstContexts ==
  {[args |-> <<1, 2>>, environ |-> <<>>],
   [args |-> <<4, 5>>, environ |-> <<3, 5>>]}
ConstPreopens == [f \in {"three", "four"} |-> IF f = "three" THEN 1 ELSE 3]
=============================================================================
