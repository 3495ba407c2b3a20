------------------------------ MODULE MCReaddir ------------------------------
(***************************************************************************)
(* An instance of Readdir: two listings of a directory of three slots,     *)
(* with buffers for no entry, for one of the small ones, and for two.      *)
(***************************************************************************)
EXTENDS Readdir

\* A record and a name: "long" is longer than the others.
ConstSizeOf == [n \in Name |-> IF n = "long" THEN 3 ELSE 2]
=============================================================================
