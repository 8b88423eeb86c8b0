--------------------------------- MODULE MCIde ---------------------------------
(* A text that does not compile, an empty program that has terminated when it   *)
(* is compiled, and two programs of one and two instructions.                   *)
EXTENDS Ide, TLC

CONSTANTS broken, empty, one, two

MCLength == (empty :> 0) @@ (one :> 1) @@ (two :> 2)
================================================================================
