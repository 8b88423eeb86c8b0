--------------------------------- MODULE Front ---------------------------------
(* Compiler::compile of src/core/src/lib.rs as a whole: a text is parsed, and  *)
(* the statements of a text that parses are validated and delabelled. A syntax *)
(* error ends the compilation; it is the only one reported.                    *)
EXTENDS Compile, Parse

frontVars == <<compileVars, parseVars>>

FrontInit ==
  /\ ParseInit
  /\ hardware_spec \in HardwareSpecs
  /\ stage = "parse"
  /\ body = <<>> /\ i = 0
  /\ labels = EmptyMap /\ label_map = EmptyMap
  /\ errors = <<>> /\ instructions = <<>>

ParseText == ParseNext /\ UNCHANGED compileVars

\* Compiler<Program>: the tree takes the text's place.
HandOver ==
  /\ stage = "parse" /\ syntax = "parsed"
  /\ body' = [k \in DOMAIN parsed |-> parsed[k].value]
  /\ stage' = "collect_labels"
  /\ UNCHANGED <<hardware_spec, i, labels, errors, label_map, instructions, parseVars>>

CompileTree == CompileNext /\ UNCHANGED parseVars

FrontNext == ParseText \/ HandOver \/ CompileTree

FrontSpec == FrontInit /\ [][FrontNext]_frontVars
===============================================================================
