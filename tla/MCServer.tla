------------------------------- MODULE MCServer -------------------------------
(* More requests than connections, and more than workers.                     *)
EXTENDS Server, TLC

Names == {"ada", ""}
================================================================================
