-------------------------------- MODULE Compile --------------------------------
(* The compiler of src/core/src after parsing: Compiler::validate              *)
(* (validate.rs) collects every static error of a source body, and             *)
(* Compiler::delabel (delabel.rs) turns an accepted body into instructions     *)
(* whose jumps are relative. Each pass is a loop over the body; an action is   *)
(* one iteration, so that what a pass has established about the statements it  *)
(* has seen can be stated, checked and proved.                                 *)
EXTENDS Lang

CONSTANT Bodies, HardwareSpecs   \* the sources and the hardware compiled

\* The parser rejects a source with no statement (parse.rs:230-243).
ASSUME CompileAssumption ==
  /\ Bodies \subseteq Seq(Statement) \ {<<>>}
  /\ HardwareSpecs \subseteq HardwareSpec

VARIABLES
  body,          \* the parsed statements; a statement's span is its position
  stage,         \* the pass that is running
  i,             \* 0-based index of the pass's loop
  labels,        \* label |-> span of its first declaration
  errors,        \* the compile errors, in the order they were pushed
  label_map,     \* label |-> index of the instruction it stands before
  instructions   \* the compiled program so far

compileVars == <<hardware_spec, body, stage, i, labels, errors, label_map, instructions>>

Stages == {"collect_labels", "validate", "rejected", "map_labels", "map_statements", "compiled"}

EmptyMap == [l \in {} |-> 0]
With(map, l, v) == [k \in DOMAIN map \cup {l} |-> IF k = l THEN v ELSE map[k]]

Stmt == body[i + 1]
Span == i + 1
AtEnd == i = Len(body)

-------------------------------------------------------------------------------
(* The errors of one statement, in the order its parts are validated *)

Error(kind) == [kind |-> kind, span |-> Span]
OneIf(cond, kind) == IF cond THEN <<Error(kind)>> ELSE <<>>

\* Mutant: off by one at the number of registers.
RegisterErrorsPastEnd(reg) ==
  OneIf(\/ reg.kind = "StackLength" /\ reg.id >= hardware_spec.num_stacks
        \/ reg.kind = "User" /\ reg.id > hardware_spec.num_registers,
        "InvalidRegisterRef")

RegisterErrors(reg) ==
  OneIf(\/ reg.kind = "StackLength" /\ reg.id >= hardware_spec.num_stacks
        \/ reg.kind = "User" /\ reg.id >= hardware_spec.num_registers,
        "InvalidRegisterRef")

SourceErrors(src) == IF src.kind = "Const" THEN <<>> ELSE RegisterErrors(src.reg)

StackErrors(stack) == OneIf(stack >= hardware_spec.num_stacks, "InvalidStackRef")

WritableErrors(reg) == OneIf(~ Writable(reg), "UnwritableRegister")

LabelErrors(label) == OneIf(label \notin DOMAIN labels, "InvalidLabel")

DestinationErrors(reg) == RegisterErrors(reg) \o WritableErrors(reg)

\* POP's destination is checked to exist, not to be writable.
StatementErrors(stmt) ==
  CASE stmt.op \in {"Label"} -> <<>>
    [] stmt.op = "Read" -> DestinationErrors(stmt.dst)
    [] stmt.op = "Write" -> SourceErrors(stmt.src)
    [] stmt.op \in {"Set"} \cup ArithmeticOps ->
         DestinationErrors(stmt.dst) \o SourceErrors(stmt.src)
    [] stmt.op = "Cmp" ->
         DestinationErrors(stmt.dst) \o SourceErrors(stmt.src) \o SourceErrors(stmt.src_2)
    [] stmt.op = "Push" -> SourceErrors(stmt.src) \o StackErrors(stmt.stack)
    [] stmt.op = "Pop" -> StackErrors(stmt.stack) \o RegisterErrors(stmt.dst)
    [] stmt.op = "Jmp" -> LabelErrors(stmt.label)
    [] stmt.op \in ConditionalJumps -> SourceErrors(stmt.src) \o LabelErrors(stmt.label)

-------------------------------------------------------------------------------
CompileInit ==
  /\ hardware_spec \in HardwareSpecs
  /\ body \in Bodies
  /\ stage = "collect_labels"
  /\ i = 0
  /\ labels = EmptyMap
  /\ errors = <<>>
  /\ label_map = EmptyMap
  /\ instructions = <<>>

\* The next pass starts over from the first statement.
NextStage(from, to) ==
  /\ stage = from /\ AtEnd
  /\ stage' = to
  /\ i' = 0
  /\ UNCHANGED <<hardware_spec, body, labels, errors, label_map, instructions>>

Iterate(in) ==
  /\ stage = in /\ ~ AtEnd
  /\ i' = i + 1
  /\ UNCHANGED <<hardware_spec, body, stage>>

\* Mutant: insert overwrites the first declaration.
CollectLabelOverwrite ==
  /\ Iterate("collect_labels")
  /\ \/ /\ IsLabel(Stmt)
        /\ labels' = With(labels, Stmt.label, Span)
        /\ errors' = IF Stmt.label \notin DOMAIN labels THEN errors
                     ELSE Append(errors, [kind |-> "DuplicateLabel", span |-> Span,
                                          original |-> labels[Stmt.label]])
     \/ ~ IsLabel(Stmt) /\ UNCHANGED <<labels, errors>>
  /\ UNCHANGED <<label_map, instructions>>

\* collect_labels: the first declaration of a label counts, later ones are errors.
CollectLabel ==
  /\ Iterate("collect_labels")
  /\ \/ /\ IsLabel(Stmt) /\ Stmt.label \notin DOMAIN labels
        /\ labels' = With(labels, Stmt.label, Span)
        /\ UNCHANGED errors
     \/ /\ IsLabel(Stmt) /\ Stmt.label \in DOMAIN labels
        /\ errors' = Append(errors, [kind |-> "DuplicateLabel", span |-> Span,
                                     original |-> labels[Stmt.label]])
        /\ UNCHANGED labels
     \/ ~ IsLabel(Stmt) /\ UNCHANGED <<labels, errors>>
  /\ UNCHANGED <<label_map, instructions>>

LabelsCollected == NextStage("collect_labels", "validate")

ValidateStatement ==
  /\ Iterate("validate")
  /\ errors' = errors \o StatementErrors(Stmt)
  /\ UNCHANGED <<labels, label_map, instructions>>

Reject == errors # <<>> /\ NextStage("validate", "rejected")
Accept == errors = <<>> /\ NextStage("validate", "map_labels")

\* Mutant: the labels above are counted.
MapLabelToPosition ==
  /\ Iterate("map_labels")
  /\ label_map' = IF IsLabel(Stmt) THEN With(label_map, Stmt.label, i) ELSE label_map
  /\ UNCHANGED <<labels, errors, instructions>>

\* map_labels: the index of a label does not count the labels above it.
MapLabel ==
  /\ Iterate("map_labels")
  /\ label_map' = IF IsLabel(Stmt)
                  THEN With(label_map, Stmt.label, i - Cardinality(DOMAIN label_map))
                  ELSE label_map
  /\ UNCHANGED <<labels, errors, instructions>>

LabelsMapped == NextStage("map_labels", "map_statements")

\* map_statement: a jump's offset is relative to the jump itself, whose index
\* is the number of instructions before it.
Compiled(stmt) ==
  IF ~ IsJump(stmt) THEN stmt
  ELSE LET offset == label_map[stmt.label] - Len(instructions)
       IN  IF stmt.op = "Jmp" THEN [op |-> "Jmp", offset |-> offset]
           ELSE [op |-> stmt.op, src |-> stmt.src, offset |-> offset]

\* Labels are filtered out first, so that they do not get an index.
MapStatement ==
  /\ Iterate("map_statements")
  /\ instructions' = IF IsLabel(Stmt) THEN instructions
                     ELSE Append(instructions, [value |-> Compiled(Stmt), span |-> Span])
  /\ UNCHANGED <<labels, errors, label_map>>

StatementsMapped == NextStage("map_statements", "compiled")

CompileNext ==
  \/ CollectLabel \/ LabelsCollected
  \/ ValidateStatement \/ Reject \/ Accept
  \/ MapLabel \/ LabelsMapped
  \/ MapStatement \/ StatementsMapped

\* The compiler is a function: nothing can suspend its loops.
CompileSpec ==
  CompileInit /\ [][CompileNext]_compileVars /\ WF_compileVars(CompileNext)

-------------------------------------------------------------------------------
(* What a source must satisfy to compile, said without the compiler. *)

LabelPositions == {p \in DOMAIN body : IsLabel(body[p])}
InstructionPositions == DOMAIN body \ LabelPositions

Duplicates ==
  {p \in LabelPositions : \E q \in LabelPositions : q < p /\ body[q].label = body[p].label}

MissingRegister(reg) ==
  \/ reg.kind = "StackLength" /\ ~ reg.id < hardware_spec.num_stacks
  \/ reg.kind = "User" /\ ~ reg.id < hardware_spec.num_registers

\* The kinds of error statement p has, by the rules of the language. A
\* read-only destination is an error, except that POP lets it through.
Faults(p) ==
  LET s == body[p] IN
  {k \in {"DuplicateLabel", "InvalidLabel", "InvalidRegisterRef", "InvalidStackRef",
          "UnwritableRegister"} :
    \/ k = "DuplicateLabel" /\ p \in Duplicates
    \/ /\ k = "InvalidLabel" /\ IsJump(s)
       /\ \A q \in LabelPositions : body[q].label # s.label
    \/ k = "InvalidRegisterRef" /\ \E reg \in RegistersNamed(s) : MissingRegister(reg)
    \/ k = "InvalidStackRef" /\ \E n \in StacksNamed(s) : n >= hardware_spec.num_stacks
    \/ k = "UnwritableRegister" /\ HasDst(s.op) /\ s.op # "Pop" /\ ~ Writable(s.dst)}

-------------------------------------------------------------------------------
(* Properties *)

\* The state of the passes has its declared shape.
CompileTypeOK ==
  /\ hardware_spec \in HardwareSpec
  /\ body \in Seq(Statement) \ {<<>>}
  /\ stage \in Stages
  /\ i \in 0 .. Len(body)
  /\ DOMAIN labels \subseteq Label /\ DOMAIN label_map \subseteq Label
  /\ \A l \in DOMAIN labels : labels[l] \in 1 .. Len(body)
  /\ \A l \in DOMAIN label_map : label_map[l] \in Int
  /\ instructions \in Seq(InstructionNode)

\* Redefined labels come first, one error for each; both groups go from the top to the
\* bottom. A statement may have the same error twice (ADD RX9 RX9).
InOrder(e, f) ==
  \/ /\ errors[e].kind = "DuplicateLabel"
     /\ errors[f].kind = "DuplicateLabel" => errors[e].span < errors[f].span
  \/ /\ errors[e].kind # "DuplicateLabel" /\ errors[f].kind # "DuplicateLabel"
     /\ errors[e].span <= errors[f].span

\* validate reports every fault of every statement, by position and kind, and nothing
\* else, and each extra declaration of a label once: compiling stops at the end of
\* validation exactly when the source has a fault, and the user sees all of them at
\* once, in the order the editor lists them (validate.rs:189-232).
ReportsEveryFault ==
  /\ \A e, f \in DOMAIN errors : e < f => InOrder(e, f)
  /\ stage = "rejected" =>
       {<<errors[e].span, errors[e].kind>> : e \in DOMAIN errors}
         = UNION {{<<p, k>> : k \in Faults(p)} : p \in DOMAIN body}
  /\ stage = "rejected" => \E p \in DOMAIN body : Faults(p) # {}
  /\ stage \in {"map_labels", "map_statements", "compiled"} =>
       \A p \in DOMAIN body : Faults(p) = {}

\* "Label x redefined" shows the declaration that stands: the first one.
DuplicatesNameTheFirst ==
  \A e \in DOMAIN errors : errors[e].kind = "DuplicateLabel" =>
    LET p == errors[e].span
        q == errors[e].original
    IN  /\ q < p /\ body[q].label = body[p].label
        /\ \A r \in LabelPositions : body[r].label = body[p].label => q <= r

\* map_statement's unwrap finds every label a jump names, and no label index
\* underflows (`i - label_map.len()` is a usize).
LabelLookupsSucceed ==
  /\ stage = "map_statements" =>
       \A p \in DOMAIN body : IsJump(body[p]) => body[p].label \in DOMAIN label_map
  /\ \A l \in DOMAIN label_map : label_map[l] >= 0

\* A jump lands on the first instruction below its label, or past the last
\* instruction when there is none, however many labels are on the way.
JumpsReachTheirLabels ==
  stage = "compiled" =>
    \A k \in DOMAIN instructions : IsJump(instructions[k].value) =>
      \E p \in LabelPositions :
        LET target == k + instructions[k].value.offset
            below == {q \in InstructionPositions : q > p}
        IN  /\ body[p].label = body[instructions[k].span].label
            /\ IF below = {} THEN target = Len(instructions) + 1
               ELSE /\ target \in DOMAIN instructions
                    /\ instructions[target].span \in below
                    /\ \A q \in below : instructions[target].span <= q
===============================================================================
