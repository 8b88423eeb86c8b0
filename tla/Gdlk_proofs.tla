------------------------------- MODULE Gdlk_proofs -------------------------------
(* The core crate behind the parser, for every tree, hardware, program spec and  *)
(* width: the compiler finds every error and every label, the machine is safe    *)
(* for every program, and what compiling establishes is what the machine relies  *)
(* on, so that its safety holds of every source that compiles.                   *)
EXTENDS Gdlk, FiniteSetTheorems, SequenceTheorems, TLAPS

-------------------------------------------------------------------------------
(* The compiler: its tables                                                     *)

Validated == {"map_labels", "map_statements", "compiled"}

\* The errors validation reports; a jump that names no label is one of them.
CompileError ==
  [kind : {"InvalidRegisterRef", "InvalidStackRef", "UnwritableRegister", "InvalidLabel"},
   span : Nat]
  \cup [kind : {"DuplicateLabel"}, span : Nat, original : Nat]

\* A label's span is that of its first declaration, among those seen so far.
FirstDeclarations ==
  \A l \in DOMAIN labels :
    /\ labels[l] \in LabelPositions /\ body[labels[l]].label = l
    /\ stage = "collect_labels" => labels[l] <= i
    /\ \A p \in LabelPositions : body[p].label = l => labels[l] <= p

SeenLabels ==
  \A p \in LabelPositions :
    (stage = "collect_labels" => p <= i) => body[p].label \in DOMAIN labels

\* As long as validation has found nothing, the jumps it has seen name labels.
JumpsKnown ==
  \A p \in DOMAIN body :
    /\ IsJump(body[p])
    /\ \/ stage = "validate" /\ errors = <<>> /\ p <= i
       \/ stage \in Validated
    => body[p].label \in DOMAIN labels

MappedLabels ==
  \A p \in LabelPositions :
    (stage = "map_labels" /\ p <= i) \/ stage \in {"map_statements", "compiled"}
      => body[p].label \in DOMAIN label_map

\* `i - label_map.len()` does not underflow: each label in the map took an iteration.
MapFits ==
  /\ IsFiniteSet(DOMAIN label_map)
  /\ stage \notin Validated => DOMAIN label_map = {}
  /\ stage = "map_labels" => Cardinality(DOMAIN label_map) <= i
  /\ \A l \in DOMAIN label_map : label_map[l] >= 0

CInv ==
  /\ CompileTypeOK
  /\ errors \in Seq(CompileError)
  /\ FirstDeclarations /\ SeenLabels /\ DuplicatesNameTheFirst
  /\ JumpsKnown /\ MappedLabels /\ MapFits

-------------------------------------------------------------------------------
(* The statement under the loop's index *)

\* The operands an instruction has are those its opcode says.
LEMMA OperatorFields ==
  ASSUME NEW o \in Operator
  PROVE  /\ o.op \in {"Read", "Write", "Set", "Cmp", "Push", "Pop"} \cup ArithmeticOps
         /\ HasDst(o.op) => o.dst \in RegisterRef
         /\ o.op \in {"Write", "Set", "Cmp", "Push"} \cup ArithmeticOps => o.src \in ValueSource
         /\ o.op = "Cmp" => o.src_2 \in ValueSource
         /\ o.op \in {"Push", "Pop"} => o.stack \in Nat
BY DEF Operator, HasDst, ArithmeticOps

LEMMA StatementParts ==
  ASSUME NEW s \in Statement
  PROVE  /\ IsLabel(s) => s.label \in Label
         /\ IsJump(s) => s.label \in Label /\ ~ IsLabel(s)
         /\ s.op \in ConditionalJumps => s.src \in ValueSource
         /\ ~ IsLabel(s) /\ ~ IsJump(s) => s \in Operator
<1>1. CASE s \in [op : {"Label"}, label : Label]
  BY <1>1 DEF IsLabel, IsJump, JumpOps, ConditionalJumps
<1>2. CASE s \in Operator
  BY <1>2, OperatorFields DEF IsLabel, IsJump, JumpOps, ConditionalJumps, ArithmeticOps
<1>3. CASE s \in [op : {"Jmp"}, label : Label]
  BY <1>3 DEF IsLabel, IsJump, JumpOps, ConditionalJumps
<1>4. CASE s \in [op : ConditionalJumps, src : ValueSource, label : Label]
  BY <1>4 DEF IsLabel, IsJump, JumpOps, ConditionalJumps
<1> QED
  BY <1>1, <1>2, <1>3, <1>4 DEF Statement

LEMMA StmtFacts ==
  ASSUME CompileTypeOK, ~ AtEnd
  PROVE  /\ i \in Nat /\ i < Len(body) /\ Len(body) \in Nat
         /\ Span \in DOMAIN body /\ Span \in 1 .. Len(body) /\ DOMAIN body = 1 .. Len(body)
         /\ Stmt = body[Span] /\ Stmt \in Statement
         /\ IsLabel(Stmt) <=> Span \in LabelPositions
         /\ i + 1 \in 0 .. Len(body)
         /\ \A p \in DOMAIN body : p \in Nat /\ (p <= i + 1 <=> p <= i \/ p = Span)
BY DEF CompileTypeOK, AtEnd, Stmt, Span, LabelPositions

-------------------------------------------------------------------------------
(* What validation finds in one statement                                       *)

PlainKind == {"InvalidRegisterRef", "InvalidStackRef", "UnwritableRegister", "InvalidLabel"}
PlainError == [kind : PlainKind, span : Nat]

\* Errors at the statement under the index, of exactly these kinds.
Reports(found, kinds) ==
  /\ found \in Seq(PlainError)
  /\ \A e \in DOMAIN found : found[e].span = Span
  /\ {found[e].kind : e \in DOMAIN found} = kinds

KindIf(cond, kind) == IF cond THEN {kind} ELSE {}
MissingKinds(regs) == KindIf(\E reg \in regs : MissingRegister(reg), "InvalidRegisterRef")
RegistersOf(src) == IF src.kind = "Const" THEN {} ELSE {src.reg}
ReadOnlyKinds(reg) == KindIf(~ Writable(reg), "UnwritableRegister")
StackKinds(n) == KindIf(n >= hardware_spec.num_stacks, "InvalidStackRef")
LabelKinds(label) == KindIf(label \notin DOMAIN labels, "InvalidLabel")

KindsFound(s) ==
  (((MissingKinds(RegistersNamed(s))
     \cup (IF HasDst(s.op) /\ s.op # "Pop" THEN ReadOnlyKinds(s.dst) ELSE {}))
    \cup (IF s.op \in {"Push", "Pop"} THEN StackKinds(s.stack) ELSE {}))
   \cup (IF IsJump(s) THEN LabelKinds(s.label) ELSE {}))

LEMMA ReportsNothing == Reports(<<>>, {})
BY DEF Reports

LEMMA ReportsOne ==
  ASSUME Span \in Nat, NEW kind \in PlainKind
  PROVE  Reports(<<Error(kind)>>, {kind})
<1>1. Error(kind) \in PlainError /\ Error(kind).span = Span /\ Error(kind).kind = kind
  BY DEF Error, PlainError
<1> HIDE DEF PlainError
<1>2. /\ <<Error(kind)>> \in Seq(PlainError) /\ DOMAIN <<Error(kind)>> = {1}
      /\ <<Error(kind)>>[1] = Error(kind)
  BY <1>1
<1> QED
  BY <1>1, <1>2 DEF Reports

LEMMA ReportsBoth ==
  ASSUME NEW s, NEW t, NEW kinds, NEW others, Reports(s, kinds), Reports(t, others)
  PROVE  Reports(s \o t, kinds \cup others)
<1>1. s \in Seq(PlainError) /\ t \in Seq(PlainError) /\ s \o t \in Seq(PlainError)
  BY DEF Reports
<1>2. \A e \in DOMAIN (s \o t) : \/ e \in DOMAIN s /\ (s \o t)[e] = s[e]
                                 \/ e - Len(s) \in DOMAIN t /\ (s \o t)[e] = t[e - Len(s)]
  BY <1>1
<1>3. \A e \in DOMAIN s : e \in DOMAIN (s \o t) /\ (s \o t)[e] = s[e]
  BY <1>1
<1>4. \A e \in DOMAIN t : e + Len(s) \in DOMAIN (s \o t) /\ (s \o t)[e + Len(s)] = t[e]
  BY <1>1
<1>5. \A e \in DOMAIN (s \o t) :
        (s \o t)[e].span = Span /\ (s \o t)[e].kind \in kinds \cup others
  BY <1>2 DEF Reports
<1>6. \A k \in kinds \cup others : \E e \in DOMAIN (s \o t) : (s \o t)[e].kind = k
  <2>1. ASSUME NEW k \in kinds PROVE \E e \in DOMAIN (s \o t) : (s \o t)[e].kind = k
    <3>1. PICK e \in DOMAIN s : s[e].kind = k
      BY <2>1 DEF Reports
    <3> QED
      BY <1>3, <3>1
  <2>2. ASSUME NEW k \in others PROVE \E e \in DOMAIN (s \o t) : (s \o t)[e].kind = k
    <3>1. PICK e \in DOMAIN t : t[e].kind = k
      BY <2>2 DEF Reports
    <3> QED
      BY <1>4, <3>1
  <2> QED
    BY <2>1, <2>2
<1> QED
  BY <1>1, <1>5, <1>6 DEF Reports

LEMMA PartsReport ==
  ASSUME CompileTypeOK, Span \in Nat
  PROVE  /\ \A reg \in RegisterRef : /\ Reports(RegisterErrors(reg), MissingKinds({reg}))
                                     /\ Reports(WritableErrors(reg), ReadOnlyKinds(reg))
         /\ \A src \in ValueSource : Reports(SourceErrors(src), MissingKinds(RegistersOf(src)))
         /\ \A n \in Nat : Reports(StackErrors(n), StackKinds(n))
         /\ \A label : Reports(LabelErrors(label), LabelKinds(label))
<1>1. ASSUME NEW kind \in PlainKind PROVE Reports(<<Error(kind)>>, {kind})
  BY ReportsOne
<1>2. Reports(<<>>, {})
  BY ReportsNothing
<1>3. ASSUME NEW reg \in RegisterRef
      PROVE  Reports(RegisterErrors(reg), MissingKinds({reg}))
  <2>1. RegisterErrors(reg) =
          IF MissingRegister(reg) THEN <<Error("InvalidRegisterRef")>> ELSE <<>>
    BY DEF CompileTypeOK, HardwareSpec, RegisterRef, RegisterErrors, OneIf, MissingRegister
  <2>2. MissingKinds({reg}) = IF MissingRegister(reg) THEN {"InvalidRegisterRef"} ELSE {}
    BY DEF MissingKinds, KindIf
  <2> QED
    BY <1>1, <1>2, <2>1, <2>2 DEF PlainKind
<1>4. ASSUME NEW reg \in RegisterRef
      PROVE  Reports(WritableErrors(reg), ReadOnlyKinds(reg))
  BY <1>1, <1>2 DEF WritableErrors, ReadOnlyKinds, OneIf, KindIf, PlainKind
<1>5. ASSUME NEW src \in ValueSource
      PROVE  Reports(SourceErrors(src), MissingKinds(RegistersOf(src)))
  <2>1. CASE src.kind = "Const"
    <3>1. SourceErrors(src) = <<>> /\ MissingKinds(RegistersOf(src)) = {}
      BY <2>1 DEF SourceErrors, RegistersOf, MissingKinds, KindIf
    <3> QED
      BY <1>2, <3>1
  <2>2. CASE src.kind # "Const"
    <3>1. SourceErrors(src) = RegisterErrors(src.reg) /\ RegistersOf(src) = {src.reg}
      BY <2>2 DEF SourceErrors, RegistersOf
    <3>2. src.reg \in RegisterRef
      BY <2>2 DEF ValueSource
    <3> QED
      BY <1>3, <3>1, <3>2
  <2> QED
    BY <2>1, <2>2
<1>6. ASSUME NEW n \in Nat PROVE Reports(StackErrors(n), StackKinds(n))
  BY <1>1, <1>2 DEF StackErrors, StackKinds, OneIf, KindIf, PlainKind
<1>7. ASSUME NEW label PROVE Reports(LabelErrors(label), LabelKinds(label))
  BY <1>1, <1>2 DEF LabelErrors, LabelKinds, OneIf, KindIf, PlainKind
<1> QED
  BY <1>3, <1>4, <1>5, <1>6, <1>7

LEMMA MissingUnion ==
  ASSUME NEW A, NEW B
  PROVE  MissingKinds(A \cup B) = MissingKinds(A) \cup MissingKinds(B)
BY DEF MissingKinds, KindIf

\* A register is an error once, whichever part of the statement names it.
LEMMA RegistersByParts ==
  ASSUME NEW s \in Statement
  PROVE  /\ s.op \in {"Label", "Jmp"} => RegistersNamed(s) = {}
         /\ s.op = "Read" => RegistersNamed(s) = {s.dst}
         /\ s.op \in {"Write", "Push"} \cup ConditionalJumps => RegistersNamed(s) = RegistersOf(s.src)
         /\ s.op \in {"Set"} \cup ArithmeticOps =>
              RegistersNamed(s) = {s.dst} \cup RegistersOf(s.src)
         /\ s.op = "Cmp" =>
              RegistersNamed(s) = ({s.dst} \cup RegistersOf(s.src)) \cup RegistersOf(s.src_2)
         /\ s.op = "Pop" => RegistersNamed(s) = {s.dst}
<1>1. ASSUME NEW src \in ValueSource
      PROVE  {t.reg : t \in {u \in {src} : u.kind = "Register"}} = RegistersOf(src)
  BY <1>1 DEF ValueSource, RegistersOf
<1>2. ReadsSrc(s.op) => s.src \in ValueSource
  BY StatementParts, OperatorFields DEF ReadsSrc, IsLabel, IsJump, JumpOps, ArithmeticOps, ConditionalJumps
<1>3. s.op = "Cmp" => s.src_2 \in ValueSource
  BY StatementParts, OperatorFields DEF IsLabel, IsJump, JumpOps, ConditionalJumps
<1> QED
  BY <1>1, <1>2, <1>3
     DEF RegistersNamed, RegistersRead, Sources, ReadsSrc, HasDst, ArithmeticOps, ConditionalJumps

LEMMA StatementReports ==
  ASSUME CompileTypeOK, ~ AtEnd
  PROVE  Reports(StatementErrors(Stmt), KindsFound(Stmt))
<1> DEFINE s == Stmt
<1>0. Span \in Nat /\ Stmt \in Statement
  BY StmtFacts
<1>1. s.op \in {"Label", "Read", "Write", "Set", "Cmp", "Push", "Pop", "Jmp"}
                  \cup ArithmeticOps \cup ConditionalJumps
  BY <1>0, StatementParts, OperatorFields DEF IsLabel, IsJump, JumpOps
<1>2. /\ HasDst(s.op) => s.dst \in RegisterRef
      /\ ReadsSrc(s.op) => s.src \in ValueSource
      /\ s.op = "Cmp" => s.src_2 \in ValueSource
      /\ s.op \in {"Push", "Pop"} => s.stack \in Nat
  BY <1>0, StatementParts, OperatorFields
     DEF ReadsSrc, HasDst, IsLabel, IsJump, JumpOps, ArithmeticOps, ConditionalJumps
<1> HIDE DEF s
<1>3. ASSUME NEW reg \in RegisterRef
      PROVE  Reports(DestinationErrors(reg), MissingKinds({reg}) \cup ReadOnlyKinds(reg))
  BY <1>0, PartsReport, ReportsBoth DEF DestinationErrors
<1>4. MissingKinds({}) = {}
  BY DEF MissingKinds, KindIf
<1> USE <1>0, <1>2, PartsReport, ReportsBoth, RegistersByParts DEF s
<1>5. CASE s.op = "Label"
  <2>1. StatementErrors(s) = <<>> /\ KindsFound(s) = {}
    BY <1>4, <1>5 DEF StatementErrors, KindsFound, HasDst, IsJump, JumpOps, ArithmeticOps, ConditionalJumps
  <2> QED
    BY <2>1, ReportsNothing
<1>6. CASE s.op = "Read"
  <2>1. StatementErrors(s) = DestinationErrors(s.dst)
    BY <1>6 DEF StatementErrors, ArithmeticOps, ConditionalJumps
  <2>2. KindsFound(s) = MissingKinds({s.dst}) \cup ReadOnlyKinds(s.dst)
    BY <1>6 DEF KindsFound, HasDst, IsJump, JumpOps, ArithmeticOps, ConditionalJumps
  <2> QED
    BY <1>3, <1>6, <2>1, <2>2 DEF HasDst
<1>7. CASE s.op = "Write"
  <2>1. StatementErrors(s) = SourceErrors(s.src)
    BY <1>7 DEF StatementErrors, ArithmeticOps, ConditionalJumps
  <2>2. KindsFound(s) = MissingKinds(RegistersOf(s.src))
    BY <1>7 DEF KindsFound, HasDst, IsJump, JumpOps, ArithmeticOps, ConditionalJumps
  <2> QED
    BY <1>7, <2>1, <2>2 DEF ReadsSrc
<1>8. CASE s.op \in {"Set"} \cup ArithmeticOps
  <2>1. StatementErrors(s) = DestinationErrors(s.dst) \o SourceErrors(s.src)
    BY <1>8 DEF StatementErrors, ArithmeticOps, ConditionalJumps
  <2>2. KindsFound(s) =
          (MissingKinds({s.dst}) \cup ReadOnlyKinds(s.dst)) \cup MissingKinds(RegistersOf(s.src))
    BY <1>8, MissingUnion DEF KindsFound, HasDst, IsJump, JumpOps, ArithmeticOps, ConditionalJumps
  <2>3. s.dst \in RegisterRef /\ s.src \in ValueSource
    BY <1>8 DEF ReadsSrc, HasDst
  <2>4. Reports(DestinationErrors(s.dst), MissingKinds({s.dst}) \cup ReadOnlyKinds(s.dst))
    BY <1>3, <2>3
  <2>5. Reports(SourceErrors(s.src), MissingKinds(RegistersOf(s.src)))
    BY <2>3
  <2>6. ASSUME NEW kinds, kinds = MissingKinds({s.dst}) \cup ReadOnlyKinds(s.dst)
        PROVE  Reports(DestinationErrors(s.dst) \o SourceErrors(s.src),
                       kinds \cup MissingKinds(RegistersOf(s.src)))
    BY ONLY <2>4, <2>5, <2>6, ReportsBoth
  <2> QED
    BY ONLY <2>1, <2>2, <2>6
<1>9. CASE s.op = "Cmp"
  <2> DEFINE first == DestinationErrors(s.dst) \o SourceErrors(s.src)
             kinds == (MissingKinds({s.dst}) \cup ReadOnlyKinds(s.dst)) \cup MissingKinds(RegistersOf(s.src))
  <2>1. StatementErrors(s) = first \o SourceErrors(s.src_2)
    BY <1>9 DEF StatementErrors, ArithmeticOps, ConditionalJumps
  <2>2. KindsFound(s) = kinds \cup MissingKinds(RegistersOf(s.src_2))
    <3>1. MissingKinds(RegistersNamed(s)) =
            (MissingKinds({s.dst}) \cup MissingKinds(RegistersOf(s.src)))
              \cup MissingKinds(RegistersOf(s.src_2))
      <4>1. RegistersNamed(s) = ({s.dst} \cup RegistersOf(s.src)) \cup RegistersOf(s.src_2)
        BY <1>9
      <4>2. ASSUME NEW A, NEW B PROVE MissingKinds(A \cup B) = MissingKinds(A) \cup MissingKinds(B)
        BY MissingUnion
      <4>3. MissingKinds({s.dst} \cup RegistersOf(s.src)) =
              MissingKinds({s.dst}) \cup MissingKinds(RegistersOf(s.src))
        BY ONLY <4>2
      <4>4. MissingKinds(RegistersNamed(s)) =
              MissingKinds({s.dst} \cup RegistersOf(s.src)) \cup MissingKinds(RegistersOf(s.src_2))
        BY ONLY <4>1, <4>2
      <4> QED
        BY ONLY <4>3, <4>4
    <3> QED
      BY <1>9, <3>1 DEF KindsFound, HasDst, IsJump, JumpOps, ArithmeticOps, ConditionalJumps
  <2>3. Reports(first, kinds)
    BY <1>3, <1>9 DEF ReadsSrc, HasDst
  <2>4. Reports(SourceErrors(s.src_2), MissingKinds(RegistersOf(s.src_2)))
    BY <1>9
  <2> HIDE DEF first, kinds
  <2> QED
    BY <2>1, <2>2, <2>3, <2>4
<1>10. CASE s.op = "Push"
  <2>1. StatementErrors(s) = SourceErrors(s.src) \o StackErrors(s.stack)
    BY <1>10 DEF StatementErrors, ArithmeticOps, ConditionalJumps
  <2>2. KindsFound(s) = MissingKinds(RegistersOf(s.src)) \cup StackKinds(s.stack)
    BY <1>10 DEF KindsFound, HasDst, IsJump, JumpOps, ArithmeticOps, ConditionalJumps
  <2> QED
    BY <1>10, <2>1, <2>2 DEF ReadsSrc
<1>11. CASE s.op = "Pop"
  <2>1. StatementErrors(s) = StackErrors(s.stack) \o RegisterErrors(s.dst)
    BY <1>11 DEF StatementErrors, ArithmeticOps, ConditionalJumps
  <2>2. KindsFound(s) = StackKinds(s.stack) \cup MissingKinds({s.dst})
    BY <1>11 DEF KindsFound, HasDst, IsJump, JumpOps, ArithmeticOps, ConditionalJumps
  <2> QED
    BY <1>11, <2>1, <2>2 DEF HasDst
<1>12. CASE s.op = "Jmp"
  <2>1. StatementErrors(s) = LabelErrors(s.label)
    BY <1>12 DEF StatementErrors, ArithmeticOps, ConditionalJumps
  <2>2. KindsFound(s) = LabelKinds(s.label)
    BY <1>4, <1>12 DEF KindsFound, HasDst, IsJump, JumpOps, ArithmeticOps, ConditionalJumps
  <2> QED
    BY <2>1, <2>2
<1>13. CASE s.op \in ConditionalJumps
  <2>1. StatementErrors(s) = SourceErrors(s.src) \o LabelErrors(s.label)
    BY <1>13 DEF StatementErrors, ArithmeticOps, ConditionalJumps
  <2>2. KindsFound(s) = MissingKinds(RegistersOf(s.src)) \cup LabelKinds(s.label)
    BY <1>13 DEF KindsFound, HasDst, IsJump, JumpOps, ArithmeticOps, ConditionalJumps
  <2> QED
    BY <1>13, <2>1, <2>2 DEF ReadsSrc
<1> QED
  BY <1>1, <1>5, <1>6, <1>7, <1>8, <1>9, <1>10, <1>11, <1>12, <1>13

\* Validation reports errors only, and a jump without a label is one.
LEMMA StatementErrorsFacts ==
  ASSUME CompileTypeOK, ~ AtEnd
  PROVE  /\ StatementErrors(Stmt) \in Seq(CompileError)
         /\ \A e \in DOMAIN StatementErrors(Stmt) :
              StatementErrors(Stmt)[e].kind # "DuplicateLabel"
         /\ StatementErrors(Stmt) = <<>> /\ IsJump(Stmt) => Stmt.label \in DOMAIN labels
<1> DEFINE found == StatementErrors(Stmt)
<1>1. Reports(found, KindsFound(Stmt))
  BY StatementReports
<1> HIDE DEF found
<1>2. found \in Seq(PlainError)
  BY <1>1 DEF Reports
<1>3. PlainError \subseteq CompileError /\ \A e \in PlainError : e.kind # "DuplicateLabel"
  BY DEF PlainError, PlainKind, CompileError
<1>4. found \in Seq(CompileError) /\ \A e \in DOMAIN found : found[e].kind # "DuplicateLabel"
  BY <1>2, <1>3
<1>5. found = <<>> => KindsFound(Stmt) = {}
  BY <1>1 DEF Reports
<1>6. KindsFound(Stmt) = {} /\ IsJump(Stmt) => Stmt.label \in DOMAIN labels
  BY DEF KindsFound, LabelKinds, KindIf
<1> QED
  BY <1>4, <1>5, <1>6 DEF found

-------------------------------------------------------------------------------
(* Each pass keeps the invariant *)

\* A tree is there, and none of the passes has begun.
Unstarted ==
  /\ hardware_spec \in HardwareSpec
  /\ body \in Seq(Statement) \ {<<>>}
  /\ stage = "collect_labels" /\ i = 0
  /\ labels = EmptyMap /\ label_map = EmptyMap
  /\ errors = <<>> /\ instructions = <<>>

LEMMA InitUnstarted == CompileInit => Unstarted
BY CompileAssumption DEF CompileInit, Unstarted

LEMMA InitCInv ==
  ASSUME Unstarted
  PROVE  CInv
<1>1. CompileTypeOK
  BY DEF Unstarted, CompileTypeOK, EmptyMap, Stages
<1>2. errors \in Seq(CompileError) /\ DOMAIN errors = {}
  BY DEF Unstarted
<1>3. FirstDeclarations /\ SeenLabels
  BY <1>1 DEF Unstarted, CompileTypeOK, FirstDeclarations, SeenLabels, EmptyMap, LabelPositions
<1>4. DuplicatesNameTheFirst
  BY <1>2 DEF DuplicatesNameTheFirst
<1>5. JumpsKnown /\ MappedLabels
  BY DEF Unstarted, JumpsKnown, MappedLabels, Validated
<1>6. MapFits
  BY FS_EmptySet DEF Unstarted, MapFits, EmptyMap, Validated
<1> QED
  BY <1>1, <1>2, <1>3, <1>4, <1>5, <1>6 DEF CInv

\* A new declaration extends the table; a repeated one is an error against it.
LEMMA CollectLabelOK ==
  ASSUME CInv, CollectLabel
  PROVE  CInv'
<1>0. /\ stage = "collect_labels" /\ stage' = stage /\ i' = i + 1 /\ ~ AtEnd
      /\ UNCHANGED <<hardware_spec, body, label_map, instructions>>
  BY DEF CollectLabel, Iterate
<1>1. CompileTypeOK /\ errors \in Seq(CompileError) /\ LabelPositions' = LabelPositions
  BY <1>0 DEF CInv, LabelPositions
<1>2. CASE IsLabel(Stmt) /\ Stmt.label \notin DOMAIN labels
  <2>1. /\ labels' = With(labels, Stmt.label, Span) /\ UNCHANGED errors
        /\ DOMAIN labels' = DOMAIN labels \cup {Stmt.label}
        /\ labels'[Stmt.label] = Span
        /\ \A l \in DOMAIN labels : labels'[l] = labels[l]
    BY <1>2 DEF CollectLabel, With
  <2>2. Stmt.label \in Label /\ Span \in LabelPositions /\ body[Span].label = Stmt.label
    BY <1>0, <1>1, <1>2, StmtFacts, StatementParts
  <2>3. CompileTypeOK'
    BY <1>0, <1>1, <2>1, <2>2, StmtFacts DEF CompileTypeOK
  <2>4. FirstDeclarations'
    <3>1. \A p \in LabelPositions : p <= i => body[p].label \in DOMAIN labels
      BY <1>0 DEF CInv, SeenLabels
    <3>2. \A p \in LabelPositions : body[p].label = Stmt.label => Span <= p
      BY <1>0, <1>1, <1>2, <3>1, StmtFacts DEF Span, LabelPositions
    <3>3. \A l \in DOMAIN labels :
            /\ labels[l] \in LabelPositions /\ body[labels[l]].label = l /\ labels[l] <= i
            /\ \A p \in LabelPositions : body[p].label = l => labels[l] <= p
      BY <1>0 DEF CInv, FirstDeclarations
    <3>4. labels'[Stmt.label] <= i + 1 /\ \A l \in DOMAIN labels : labels'[l] <= i + 1
      BY <1>0, <1>1, <2>1, <3>3, StmtFacts DEF Span, LabelPositions
    <3> QED
      BY <1>0, <1>1, <2>1, <2>2, <3>2, <3>3, <3>4 DEF FirstDeclarations
  <2>5. SeenLabels'
    BY <1>0, <1>1, <2>1, <2>2, StmtFacts DEF CInv, SeenLabels, LabelPositions
  <2>6. DuplicatesNameTheFirst'
    BY <1>0, <1>1, <2>1 DEF CInv, DuplicatesNameTheFirst
  <2> QED
    BY <1>0, <1>1, <2>1, <2>3, <2>4, <2>5, <2>6
       DEF CInv, JumpsKnown, MappedLabels, MapFits, Validated
<1>3. CASE IsLabel(Stmt) /\ Stmt.label \in DOMAIN labels
  <2> DEFINE new == [kind |-> "DuplicateLabel", span |-> Span, original |-> labels[Stmt.label]]
  <2>1. UNCHANGED labels /\ errors' = Append(errors, new)
    BY <1>3 DEF CollectLabel
  <2>2. new \in CompileError
    BY <1>0, <1>1, <1>3, StmtFacts DEF CompileError, CompileTypeOK
  <2>3. errors' \in Seq(CompileError)
    BY <1>1, <2>1, <2>2
  <2>4. CompileTypeOK'
    BY <1>0, <1>1, <2>1, StmtFacts DEF CompileTypeOK
  <2>5. FirstDeclarations' /\ SeenLabels'
    <3>1. FirstDeclarations'
      BY <1>0, <1>1, <2>1, StmtFacts DEF CInv, FirstDeclarations, LabelPositions
    <3>2. SeenLabels'
      BY <1>0, <1>1, <1>3, <2>1, StmtFacts DEF CInv, SeenLabels, LabelPositions
    <3> QED
      BY <3>1, <3>2
  <2>6. DuplicatesNameTheFirst'
    <3>1. SUFFICES ASSUME NEW e \in DOMAIN errors', errors'[e].kind = "DuplicateLabel"
                   PROVE  LET p == errors'[e].span
                              q == errors'[e].original
                          IN  /\ q < p /\ body[q].label = body[p].label
                              /\ \A r \in LabelPositions : body[r].label = body[p].label => q <= r
      BY <1>0, <1>1 DEF DuplicatesNameTheFirst
    <3>2. CASE e \in DOMAIN errors /\ errors'[e] = errors[e]
      BY <3>1, <3>2 DEF CInv, DuplicatesNameTheFirst
    <3>3. CASE errors'[e] = new
      <4>1. /\ labels[Stmt.label] \in LabelPositions /\ labels[Stmt.label] <= i
            /\ body[labels[Stmt.label]].label = Stmt.label
            /\ \A p \in LabelPositions : body[p].label = Stmt.label => labels[Stmt.label] <= p
        BY <1>0, <1>3 DEF CInv, FirstDeclarations
      <4>2. labels[Stmt.label] < Span /\ body[Span].label = Stmt.label
        BY <1>0, <1>1, <4>1, StmtFacts DEF Span, LabelPositions
      <4> QED
        BY <3>3, <4>1, <4>2
    <3>4. \/ e \in DOMAIN errors /\ errors'[e] = errors[e]
          \/ errors'[e] = new
      <4> HIDE DEF new
      <4> QED
        BY <1>1, <2>1
    <3> QED
      BY <3>2, <3>3, <3>4
  <2> QED
    BY <1>0, <1>1, <2>3, <2>4, <2>5, <2>6 DEF CInv, JumpsKnown, MappedLabels, MapFits, Validated
<1>4. CASE ~ IsLabel(Stmt)
  <2>1. UNCHANGED <<labels, errors>>
    BY <1>4 DEF CollectLabel
  <2>2. CompileTypeOK'
    BY <1>0, <1>1, <2>1, StmtFacts DEF CompileTypeOK
  <2>3. FirstDeclarations'
    BY <1>0, <1>1, <2>1, StmtFacts DEF CInv, FirstDeclarations, LabelPositions
  <2>4. SeenLabels'
    BY <1>0, <1>1, <1>4, <2>1, StmtFacts DEF CInv, SeenLabels, LabelPositions
  <2>5. DuplicatesNameTheFirst'
    BY <1>0, <1>1, <2>1 DEF CInv, DuplicatesNameTheFirst
  <2> QED
    BY <1>0, <1>1, <2>1, <2>2, <2>3, <2>4, <2>5
       DEF CInv, JumpsKnown, MappedLabels, MapFits, Validated
<1> QED
  BY <1>2, <1>3, <1>4

\* Errors that are no redeclarations leave the redeclarations right.
LEMMA ValidateStatementOK ==
  ASSUME CInv, ValidateStatement
  PROVE  CInv'
<1> DEFINE found == StatementErrors(Stmt)
<1>0. /\ stage = "validate" /\ stage' = stage /\ i' = i + 1 /\ ~ AtEnd
      /\ UNCHANGED <<hardware_spec, body, labels, label_map, instructions>>
      /\ errors' = errors \o found
  BY DEF ValidateStatement, Iterate
<1>1. CompileTypeOK /\ errors \in Seq(CompileError) /\ LabelPositions' = LabelPositions
  BY <1>0 DEF CInv, LabelPositions
<1>2. found \in Seq(CompileError) /\ \A e \in DOMAIN found : found[e].kind # "DuplicateLabel"
  BY <1>0, <1>1, StatementErrorsFacts
<1>3. found = <<>> /\ IsJump(Stmt) => Stmt.label \in DOMAIN labels
  BY <1>0, <1>1, StatementErrorsFacts
<1> HIDE DEF found
<1>4. CompileTypeOK'
  BY <1>0, <1>1, StmtFacts DEF CompileTypeOK
<1>5. errors' \in Seq(CompileError)
  BY <1>0, <1>1, <1>2
<1>6. FirstDeclarations' /\ SeenLabels'
  BY <1>0, <1>1 DEF CInv, FirstDeclarations, SeenLabels
<1>7. DuplicatesNameTheFirst'
  <2>1. ASSUME NEW e \in DOMAIN errors', errors'[e].kind = "DuplicateLabel"
        PROVE  e \in DOMAIN errors /\ errors'[e] = errors[e]
    <3>1. e \notin DOMAIN errors => e - Len(errors) \in DOMAIN found
                                   /\ errors'[e] = found[e - Len(errors)]
      BY <1>0, <1>1, <1>2
    <3>2. e \in DOMAIN errors => errors'[e] = errors[e]
      BY <1>0, <1>1, <1>2
    <3> QED
      BY <1>2, <2>1, <3>1, <3>2
  <2> QED
    BY <1>0, <1>1, <2>1 DEF CInv, DuplicatesNameTheFirst
<1>8. JumpsKnown'
  <2>1. errors' = <<>> => errors = <<>> /\ found = <<>>
    <3>1. Len(errors') = Len(errors) + Len(found) /\ Len(errors) \in Nat /\ Len(found) \in Nat
      BY <1>0, <1>1, <1>2
    <3>2. errors' = <<>> => Len(errors) = 0 /\ Len(found) = 0
      BY <3>1
    <3> QED
      BY <1>1, <1>2, <3>2
  <2> QED
    BY <1>0, <1>1, <1>3, <2>1, StmtFacts DEF CInv, JumpsKnown, Validated
<1> QED
  BY <1>0, <1>4, <1>5, <1>6, <1>7, <1>8 DEF CInv, MappedLabels, MapFits, Validated

\* The map grows by at most one label, and so does the index.
LEMMA MapLabelOK ==
  ASSUME CInv, MapLabel
  PROVE  CInv'
<1>0. /\ stage = "map_labels" /\ stage' = stage /\ i' = i + 1 /\ ~ AtEnd
      /\ UNCHANGED <<hardware_spec, body, labels, errors, instructions>>
  BY DEF MapLabel, Iterate
<1>1. CompileTypeOK /\ errors \in Seq(CompileError) /\ LabelPositions' = LabelPositions
  BY <1>0 DEF CInv, LabelPositions
<1>2. /\ IsFiniteSet(DOMAIN label_map) /\ Cardinality(DOMAIN label_map) \in Nat
      /\ Cardinality(DOMAIN label_map) <= i /\ \A l \in DOMAIN label_map : label_map[l] >= 0
  BY <1>0, FS_CardinalityType DEF CInv, MapFits
<1>3. /\ IsLabel(Stmt) => /\ Stmt.label \in Label
                          /\ DOMAIN label_map' = DOMAIN label_map \cup {Stmt.label}
                          /\ label_map'[Stmt.label] = i - Cardinality(DOMAIN label_map)
                          /\ \A l \in DOMAIN label_map : l # Stmt.label =>
                               label_map'[l] = label_map[l]
      /\ ~ IsLabel(Stmt) => label_map' = label_map
  <2>1. Stmt \in Statement
    BY <1>0, <1>1, StmtFacts
  <2> QED
    BY <2>1, StatementParts DEF MapLabel, With
<1>4. CompileTypeOK'
  <2>1. DOMAIN label_map' \subseteq Label /\ \A l \in DOMAIN label_map' : label_map'[l] \in Int
    BY <1>1, <1>2, <1>3 DEF CompileTypeOK
  <2> QED
    BY <1>0, <1>1, <2>1, StmtFacts DEF CompileTypeOK
<1>5. FirstDeclarations' /\ SeenLabels' /\ DuplicatesNameTheFirst' /\ JumpsKnown'
  BY <1>0, <1>1
     DEF CInv, FirstDeclarations, SeenLabels, DuplicatesNameTheFirst, JumpsKnown, Validated
<1>6. MappedLabels'
  BY <1>0, <1>1, <1>3, StmtFacts DEF CInv, MappedLabels, LabelPositions
<1>7. MapFits'
  <2>1. IsFiniteSet(DOMAIN label_map') /\ Cardinality(DOMAIN label_map') <= i + 1
    <3>1. i \in Nat
      BY <1>0, <1>1, StmtFacts
    <3>2. CASE IsLabel(Stmt)
      <4>1. /\ IsFiniteSet(DOMAIN label_map \cup {Stmt.label})
            /\ \/ Cardinality(DOMAIN label_map \cup {Stmt.label}) = Cardinality(DOMAIN label_map)
               \/ Cardinality(DOMAIN label_map \cup {Stmt.label}) = Cardinality(DOMAIN label_map) + 1
        BY <1>2, FS_AddElement
      <4> QED
        BY <1>2, <1>3, <3>1, <3>2, <4>1
    <3>3. CASE ~ IsLabel(Stmt)
      BY <1>2, <1>3, <3>1, <3>3
    <3> QED
      BY <3>2, <3>3
  <2>2. \A l \in DOMAIN label_map' : label_map'[l] >= 0
    BY <1>0, <1>1, <1>2, <1>3, StmtFacts
  <2> QED
    BY <1>0, <2>1, <2>2 DEF MapFits, Validated
<1> QED
  BY <1>0, <1>1, <1>4, <1>5, <1>6, <1>7 DEF CInv

\* Each jump's label is in the map, so that its instruction has an offset.
LEMMA MapStatementOK ==
  ASSUME CInv, MapStatement
  PROVE  CInv'
<1>0. /\ stage = "map_statements" /\ stage' = stage /\ i' = i + 1 /\ ~ AtEnd
      /\ UNCHANGED <<hardware_spec, body, labels, errors, label_map>>
  BY DEF MapStatement, Iterate
<1>1. CompileTypeOK /\ errors \in Seq(CompileError) /\ LabelPositions' = LabelPositions
  BY <1>0 DEF CInv, LabelPositions
<1>2. Span \in DOMAIN body /\ Stmt = body[Span] /\ Stmt \in Statement /\ Span \in Nat \ {0}
  BY <1>0, <1>1, StmtFacts
<1>3. IsJump(Stmt) => Stmt.label \in DOMAIN label_map
  BY <1>0, <1>2 DEF CInv, JumpsKnown, FirstDeclarations, MappedLabels, Validated
<1>4. ~ IsLabel(Stmt) => Compiled(Stmt) \in Instruction
  <2>1. CASE IsJump(Stmt)
    <3>1. label_map[Stmt.label] - Len(instructions) \in Int
      BY <1>1, <1>3, <2>1 DEF CompileTypeOK
    <3>2. Stmt.op = "Jmp" \/ (Stmt.op \in ConditionalJumps /\ Stmt.src \in ValueSource)
      BY <1>2, <2>1, StatementParts DEF IsJump, JumpOps
    <3> QED
      BY <2>1, <3>1, <3>2 DEF Compiled, Instruction, ConditionalJumps
  <2>2. CASE ~ IsJump(Stmt)
    BY <1>2, <2>2, StatementParts DEF Compiled, Instruction
  <2> QED
    BY <2>1, <2>2
<1>5. instructions' \in Seq(InstructionNode)
  <2>1. CASE IsLabel(Stmt)
    BY <1>1, <2>1 DEF MapStatement, CompileTypeOK
  <2>2. CASE ~ IsLabel(Stmt)
    <3>1. [value |-> Compiled(Stmt), span |-> Span] \in InstructionNode
      BY <1>2, <1>4, <2>2 DEF InstructionNode
    <3> QED
      BY <1>1, <2>2, <3>1 DEF MapStatement, CompileTypeOK
  <2> QED
    BY <2>1, <2>2
<1>6. CompileTypeOK'
  BY <1>0, <1>1, <1>5, StmtFacts DEF CompileTypeOK
<1>7. FirstDeclarations' /\ SeenLabels' /\ DuplicatesNameTheFirst' /\ JumpsKnown'
  BY <1>0, <1>1
     DEF CInv, FirstDeclarations, SeenLabels, DuplicatesNameTheFirst, JumpsKnown, Validated
<1>8. MappedLabels' /\ MapFits'
  BY <1>0, <1>1 DEF CInv, MappedLabels, MapFits, Validated
<1> QED
  BY <1>0, <1>1, <1>6, <1>7, <1>8 DEF CInv

\* What a pass has established at the end of its loop is what the next one needs.
LEMMA NextStageOK ==
  ASSUME CInv, NEW from \in Stages, NEW to \in Stages, NextStage(from, to),
         <<from, to>> \in {<<"collect_labels", "validate">>, <<"validate", "rejected">>,
                           <<"validate", "map_labels">>, <<"map_labels", "map_statements">>,
                           <<"map_statements", "compiled">>},
         to = "map_labels" => errors = <<>>
  PROVE  CInv'
<1>0. /\ stage = from /\ stage' = to /\ i = Len(body) /\ i' = 0
      /\ UNCHANGED <<hardware_spec, body, labels, errors, label_map, instructions>>
  BY DEF NextStage, AtEnd
<1>1. CompileTypeOK /\ errors \in Seq(CompileError) /\ LabelPositions' = LabelPositions
  BY <1>0 DEF CInv, LabelPositions
<1>2. i \in Nat /\ DOMAIN body = 1 .. i /\ \A p \in DOMAIN body : p <= i /\ ~ p <= 0
  BY <1>0, <1>1 DEF CompileTypeOK
<1>3. CompileTypeOK'
  BY <1>0, <1>1 DEF CompileTypeOK
<1>4. FirstDeclarations' /\ SeenLabels' /\ DuplicatesNameTheFirst'
  BY <1>0, <1>1, <1>2
     DEF CInv, FirstDeclarations, SeenLabels, DuplicatesNameTheFirst, LabelPositions
<1>5. JumpsKnown'
  BY <1>0, <1>1, <1>2 DEF CInv, JumpsKnown, Validated
<1>6. MappedLabels'
  BY <1>0, <1>1, <1>2 DEF CInv, MappedLabels, LabelPositions
<1>7. MapFits'
  BY <1>0, <1>1, FS_EmptySet DEF CInv, MapFits, Validated
<1> QED
  BY <1>0, <1>1, <1>3, <1>4, <1>5, <1>6, <1>7 DEF CInv

-------------------------------------------------------------------------------
(* The theorems *)

LEMMA NextCInv ==
  ASSUME CInv, [CompileNext]_compileVars
  PROVE  CInv'
<1>1. CASE LabelsCollected
  BY <1>1, NextStageOK DEF LabelsCollected, Stages
<1>2. CASE Reject
  BY <1>2, NextStageOK DEF Reject, Stages
<1>3. CASE Accept
  BY <1>3, NextStageOK DEF Accept, Stages
<1>4. CASE LabelsMapped
  BY <1>4, NextStageOK DEF LabelsMapped, Stages
<1>5. CASE StatementsMapped
  BY <1>5, NextStageOK DEF StatementsMapped, Stages
<1>6. CASE UNCHANGED compileVars
  <2>1. CompileTypeOK' /\ errors' \in Seq(CompileError)
    BY <1>6 DEF CInv, CompileTypeOK, compileVars
  <2>2. FirstDeclarations' /\ SeenLabels' /\ DuplicatesNameTheFirst'
    BY <1>6 DEF CInv, FirstDeclarations, SeenLabels, DuplicatesNameTheFirst, LabelPositions,
                compileVars
  <2>3. JumpsKnown' /\ MappedLabels' /\ MapFits'
    BY <1>6 DEF CInv, JumpsKnown, MappedLabels, MapFits, LabelPositions, compileVars
  <2> QED
    BY <2>1, <2>2, <2>3 DEF CInv
<1> QED
  BY <1>1, <1>2, <1>3, <1>4, <1>5, <1>6, CollectLabelOK, ValidateStatementOK, MapLabelOK,
     MapStatementOK DEF CompileNext

\* "Label x redefined" names the declaration that stands, the first one, for every
\* source and hardware (validate.rs:202-211).
THEOREM RedefinitionsNameTheFirst == CompileSpec => []DuplicatesNameTheFirst
<1>1. CInv => DuplicatesNameTheFirst
  BY DEF CInv
<1> QED
  BY InitUnstarted, InitCInv, NextCInv, <1>1, PTL DEF CompileSpec

\* The compiler does not panic: the label of every jump it compiles is in the map
\* (the unwrap of delabel.rs), the subtraction of usize values there does not
\* underflow, and what it compiles is a program of the machine's instructions.
THEOREM CompilerDoesNotPanic == CompileSpec => [](CompileTypeOK /\ LabelLookupsSucceed)
<1>1. CInv => CompileTypeOK /\ LabelLookupsSucceed
  <2>1. ASSUME CInv, stage = "map_statements", NEW p \in DOMAIN body, IsJump(body[p])
        PROVE  body[p].label \in DOMAIN label_map
    <3>1. body[p].label \in DOMAIN labels
      BY <2>1 DEF CInv, JumpsKnown, Validated
    <3>2. PICK q \in LabelPositions : body[q].label = body[p].label
      BY <2>1, <3>1 DEF CInv, FirstDeclarations
    <3> QED
      BY <2>1, <3>2 DEF CInv, MappedLabels
  <2> QED
    BY <2>1 DEF CInv, MapFits, LabelLookupsSucceed
<1> QED
  BY InitUnstarted, InitCInv, NextCInv, <1>1, PTL DEF CompileSpec

-------------------------------------------------------------------------------
(* Validation reports the faults of the source, all of them and no others       *)

\* The passes so far, up to index n of this one, have looked for this kind of fault
\* at this position.
Looked(kind, p, pass, n) ==
  IF kind = "DuplicateLabel" THEN pass = "collect_labels" => p <= n
  ELSE pass # "collect_labels" /\ (pass = "validate" => p <= n)

ErrorsAreFaults ==
  \A e \in DOMAIN errors :
    /\ errors[e].span \in DOMAIN body /\ errors[e].kind \in Faults(errors[e].span)
    /\ Looked(errors[e].kind, errors[e].span, stage, i)

FaultsAreErrors ==
  \A p \in DOMAIN body : \A kind \in Faults(p) : Looked(kind, p, stage, i) =>
    \E e \in DOMAIN errors : errors[e].span = p /\ errors[e].kind = kind

InOrderSoFar == \A e, f \in DOMAIN errors : e < f => InOrder(e, f)

Judged ==
  /\ stage \in Validated => errors = <<>>
  /\ stage = "rejected" => errors # <<>>

FInv == ErrorsAreFaults /\ FaultsAreErrors /\ InOrderSoFar /\ Judged

LEMMA FaultKinds ==
  ASSUME NEW p
  PROVE  Faults(p) \subseteq PlainKind \cup {"DuplicateLabel"}
BY DEF Faults, PlainKind

LEMMA FaultsKept ==
  ASSUME UNCHANGED <<hardware_spec, body>>
  PROVE  LabelPositions' = LabelPositions /\ \A p : Faults(p)' = Faults(p)
<1>1. LabelPositions' = LabelPositions /\ Duplicates' = Duplicates
  BY DEF LabelPositions, Duplicates
<1>2. \A reg : MissingRegister(reg)' <=> MissingRegister(reg)
  BY DEF MissingRegister
<1> QED
  BY <1>1, <1>2 DEF Faults

\* What the rules of the language say of a statement is what its parts report.
LEMMA FoundAreFaults ==
  ASSUME CInv, stage = "validate", ~ AtEnd
  PROVE  KindsFound(Stmt) = Faults(Span) \ {"DuplicateLabel"}
<1>1. CompileTypeOK /\ Span \in DOMAIN body /\ Stmt = body[Span] /\ Stmt \in Statement
  BY StmtFacts DEF CInv
<1>2. \A label : label \notin DOMAIN labels <=> \A q \in LabelPositions : body[q].label # label
  BY DEF CInv, FirstDeclarations, SeenLabels
<1>3. /\ "InvalidRegisterRef" \in KindsFound(Stmt) <=>
           \E reg \in RegistersNamed(Stmt) : MissingRegister(reg)
      /\ "UnwritableRegister" \in KindsFound(Stmt) <=>
           HasDst(Stmt.op) /\ Stmt.op # "Pop" /\ ~ Writable(Stmt.dst)
      /\ "InvalidStackRef" \in KindsFound(Stmt) <=>
           Stmt.op \in {"Push", "Pop"} /\ Stmt.stack >= hardware_spec.num_stacks
      /\ "InvalidLabel" \in KindsFound(Stmt) <=> IsJump(Stmt) /\ Stmt.label \notin DOMAIN labels
      /\ KindsFound(Stmt) \subseteq PlainKind
  BY DEF KindsFound, MissingKinds, ReadOnlyKinds, StackKinds, LabelKinds, KindIf, PlainKind
<1>4. /\ "InvalidRegisterRef" \in Faults(Span) <=>
           \E reg \in RegistersNamed(Stmt) : MissingRegister(reg)
      /\ "UnwritableRegister" \in Faults(Span) <=>
           HasDst(Stmt.op) /\ Stmt.op # "Pop" /\ ~ Writable(Stmt.dst)
      /\ "InvalidStackRef" \in Faults(Span) <=>
           \E n \in StacksNamed(Stmt) : n >= hardware_spec.num_stacks
      /\ "InvalidLabel" \in Faults(Span) <=>
           IsJump(Stmt) /\ \A q \in LabelPositions : body[q].label # Stmt.label
  BY <1>1 DEF Faults
<1>5. (\E n \in StacksNamed(Stmt) : n >= hardware_spec.num_stacks) <=>
        Stmt.op \in {"Push", "Pop"} /\ Stmt.stack >= hardware_spec.num_stacks
  BY DEF StacksNamed
<1>6. \A kind \in PlainKind : kind \in KindsFound(Stmt) <=> kind \in Faults(Span)
  BY <1>2, <1>3, <1>4, <1>5 DEF PlainKind
<1> QED
  BY <1>3, <1>6, FaultKinds DEF PlainKind

LEMMA InitFInv ==
  ASSUME Unstarted
  PROVE  FInv
<1>1. DOMAIN errors = {} /\ stage = "collect_labels" /\ i = 0
  BY DEF Unstarted
<1>2. DOMAIN body = 1 .. Len(body) /\ Len(body) \in Nat
  BY DEF Unstarted
<1> QED
  BY <1>1, <1>2
     DEF FInv, ErrorsAreFaults, FaultsAreErrors, Looked, InOrderSoFar, Judged, Validated

\* Errors of later statements go below the ones that are there.
LEMMA OrderOfErrors ==
  ASSUME NEW old \in Seq(CompileError), NEW new \in Seq(CompileError),
         errors = old, errors' = old \o new, InOrderSoFar, NEW n \in Nat,
         \A e \in DOMAIN new : new[e].span = n,
         \/ /\ \A e \in DOMAIN old : old[e].kind = "DuplicateLabel" /\ old[e].span < n
            /\ \A e \in DOMAIN new : new[e].kind = "DuplicateLabel"
            /\ Len(new) <= 1
         \/ /\ \A e \in DOMAIN old : old[e].kind # "DuplicateLabel" => old[e].span <= n
            /\ \A e \in DOMAIN new : new[e].kind # "DuplicateLabel"
  PROVE  InOrderSoFar'
<1>1. SUFFICES ASSUME NEW e \in DOMAIN errors', NEW f \in DOMAIN errors', e < f
               PROVE  InOrder(e, f)'
  BY DEF InOrderSoFar
<1>2. \A g \in DOMAIN errors' : \/ g \in DOMAIN old /\ errors'[g] = old[g]
                                \/ /\ g \notin DOMAIN old /\ g > Len(old)
                                   /\ g - Len(old) \in DOMAIN new
                                   /\ errors'[g] = new[g - Len(old)]
  OBVIOUS
<1>3. f \in DOMAIN old => e \in DOMAIN old
  BY <1>1, <1>2
<1>4. CASE f \in DOMAIN old
  <2>1. InOrder(e, f)
    BY <1>1, <1>3, <1>4 DEF InOrderSoFar
  <2>2. errors'[e] = errors[e] /\ errors'[f] = errors[f]
    BY <1>2, <1>3, <1>4
  <2> QED
    BY <2>1, <2>2 DEF InOrder
<1>5. CASE f \notin DOMAIN old /\ e \in DOMAIN old
  <2>1. f - Len(old) \in DOMAIN new /\ errors'[f] = new[f - Len(old)] /\ errors'[e] = old[e]
    BY <1>1, <1>2, <1>5
  <2>2. errors'[f].span = n
    BY <2>1
  <2> QED
    BY <1>5, <2>1, <2>2 DEF InOrder
<1>6. CASE f \notin DOMAIN old /\ e \notin DOMAIN old
  <2>1. /\ f - Len(old) \in DOMAIN new /\ errors'[f] = new[f - Len(old)]
        /\ e - Len(old) \in DOMAIN new /\ errors'[e] = new[e - Len(old)]
    BY <1>1, <1>2, <1>6
  <2>2. errors'[f].span = n /\ errors'[e].span = n
    BY <2>1
  <2>3. ~ (Len(new) <= 1)
    BY <1>1, <2>1
  <2> QED
    BY <2>1, <2>2, <2>3 DEF InOrder
<1> QED
  BY <1>4, <1>5, <1>6

\* A pass that adds the faults it looks for at the next statement.
LEMMA FoundOK ==
  ASSUME CInv, FInv, UNCHANGED <<hardware_spec, body, stage>>,
         stage \in {"collect_labels", "validate"}, ~ AtEnd, i' = i + 1,
         NEW found \in Seq(CompileError), errors' = errors \o found,
         \A e \in DOMAIN found : found[e].span = Span,
         stage = "collect_labels" => Len(found) <= 1,
         {found[e].kind : e \in DOMAIN found} =
           {kind \in Faults(Span) : stage = "collect_labels" <=> kind = "DuplicateLabel"}
  PROVE  FInv'
<1>1. /\ i \in Nat /\ Span = i + 1 /\ Span \in DOMAIN body /\ errors \in Seq(CompileError)
      /\ \A p \in DOMAIN body : p \in Nat /\ (p <= i + 1 <=> p <= i \/ p = Span)
  BY StmtFacts DEF CInv, Span
<1>2. LabelPositions' = LabelPositions /\ \A p : Faults(p)' = Faults(p)
  BY FaultsKept
<1>3. ASSUME NEW kind, NEW p \in DOMAIN body
      PROVE  /\ Looked(kind, p, stage, i) => Looked(kind, p, stage', i')
             /\ Looked(kind, p, stage', i') =>
                  \/ Looked(kind, p, stage, i)
                  \/ p = Span /\ (stage = "collect_labels" <=> kind = "DuplicateLabel")
             /\ stage = "collect_labels" /\ kind = "DuplicateLabel" =>
                  Looked(kind, Span, stage', i')
             /\ stage = "validate" /\ kind # "DuplicateLabel" => Looked(kind, Span, stage', i')
  <2>1. p \in Nat /\ (p <= i' <=> p <= i \/ p = Span) /\ Span <= i' /\ stage' = stage
    BY <1>1
  <2>2. CASE stage = "collect_labels"
    BY <2>1, <2>2 DEF Looked
  <2>3. CASE stage = "validate"
    BY <2>1, <2>3 DEF Looked
  <2> QED
    BY <2>2, <2>3
<1>4. \A e \in DOMAIN errors' : \/ e \in DOMAIN errors /\ errors'[e] = errors[e]
                                \/ /\ e - Len(errors) \in DOMAIN found
                                   /\ errors'[e] = found[e - Len(errors)]
  BY <1>1
<1>5. /\ \A e \in DOMAIN errors : e \in DOMAIN errors' /\ errors'[e] = errors[e]
      /\ \A e \in DOMAIN found : e + Len(errors) \in DOMAIN errors'
                                 /\ errors'[e + Len(errors)] = found[e]
  BY <1>1
<1>6. \A e \in DOMAIN found :
        /\ found[e].kind \in Faults(Span)
        /\ stage = "collect_labels" => found[e].kind = "DuplicateLabel"
        /\ stage = "validate" => found[e].kind # "DuplicateLabel"
  OBVIOUS
<1>7. ErrorsAreFaults'
  <2> SUFFICES ASSUME NEW e \in DOMAIN errors'
               PROVE  /\ errors'[e].span \in DOMAIN body
                      /\ errors'[e].kind \in Faults(errors'[e].span)
                      /\ Looked(errors'[e].kind, errors'[e].span, stage', i')
    BY <1>2 DEF ErrorsAreFaults, Looked
  <2>1. CASE e \in DOMAIN errors /\ errors'[e] = errors[e]
    BY <1>3, <2>1 DEF FInv, ErrorsAreFaults, Looked
  <2>2. CASE e - Len(errors) \in DOMAIN found /\ errors'[e] = found[e - Len(errors)]
    BY <1>1, <1>3, <1>6, <2>2
  <2> QED
    BY <1>4, <2>1, <2>2
<1>8. FaultsAreErrors'
  <2> SUFFICES ASSUME NEW p \in DOMAIN body, NEW kind \in Faults(p), Looked(kind, p, stage', i')
               PROVE  \E e \in DOMAIN errors' : errors'[e].span = p /\ errors'[e].kind = kind
    BY <1>2 DEF FaultsAreErrors
  <2>1. CASE Looked(kind, p, stage, i)
    <3>1. PICK e \in DOMAIN errors : errors[e].span = p /\ errors[e].kind = kind
      BY <2>1 DEF FInv, FaultsAreErrors
    <3> QED
      BY <1>5, <3>1
  <2>2. CASE p = Span /\ (stage = "collect_labels" <=> kind = "DuplicateLabel")
    <3>1. PICK e \in DOMAIN found : found[e].kind = kind
      BY <2>2
    <3> QED
      BY <1>5, <2>2, <3>1
  <2> QED
    BY <1>3, <2>1, <2>2
<1>9. InOrderSoFar'
  <2>1. \A e \in DOMAIN errors : errors[e].span \in Nat /\ Looked(errors[e].kind, errors[e].span, stage, i)
    BY <1>1 DEF FInv, ErrorsAreFaults
  <2>2. Span \in Nat /\ \A n \in Nat : n <= i => n < Span /\ n <= Span
    BY <1>1
  <2>3. CASE stage = "collect_labels"
    <3>1. \A e \in DOMAIN errors : errors[e].kind = "DuplicateLabel" /\ errors[e].span < Span
      BY <2>1, <2>2, <2>3 DEF Looked
    <3>2. \A e \in DOMAIN found : found[e].kind = "DuplicateLabel"
      BY <1>6, <2>3
    <3>3. InOrderSoFar /\ errors \in Seq(CompileError) /\ Span \in Nat
      BY <1>1, <2>2 DEF FInv
    <3> QED
      BY <2>3, <3>1, <3>2, <3>3, OrderOfErrors
  <2>4. CASE stage = "validate"
    <3>1. \A e \in DOMAIN errors : errors[e].kind # "DuplicateLabel" => errors[e].span <= Span
      BY <2>1, <2>2, <2>4 DEF Looked
    <3> QED
      BY <1>1, <1>6, <2>2, <2>4, <3>1, OrderOfErrors DEF FInv
  <2> QED
    BY <2>3, <2>4
<1>10. Judged'
  BY DEF Judged, Validated
<1> QED
  BY <1>7, <1>8, <1>9, <1>10 DEF FInv

LEMMA CollectLabelFaults ==
  ASSUME CInv, FInv, CollectLabel
  PROVE  FInv'
<1>0. /\ stage = "collect_labels" /\ ~ AtEnd /\ i' = i + 1
      /\ UNCHANGED <<hardware_spec, body, stage>>
  BY DEF CollectLabel, Iterate
<1>1. /\ Span = i + 1 /\ i \in Nat /\ Span \in DOMAIN body /\ Stmt = body[Span]
      /\ IsLabel(Stmt) <=> Span \in LabelPositions
      /\ errors \in Seq(CompileError) /\ CompileTypeOK
      /\ \A p \in DOMAIN body : p \in Nat /\ (p <= i <=> p < Span)
  BY <1>0, StmtFacts DEF CInv, Span
<1>2. Span \in Duplicates <=> IsLabel(Stmt) /\ Stmt.label \in DOMAIN labels
  <2>1. ASSUME IsLabel(Stmt), Stmt.label \in DOMAIN labels PROVE Span \in Duplicates
    <3>1. /\ labels[Stmt.label] \in LabelPositions /\ labels[Stmt.label] <= i
          /\ body[labels[Stmt.label]].label = Stmt.label
      BY <1>0, <2>1 DEF CInv, FirstDeclarations
    <3> QED
      BY <1>1, <2>1, <3>1 DEF Duplicates, LabelPositions
  <2>2. ASSUME Span \in Duplicates PROVE IsLabel(Stmt) /\ Stmt.label \in DOMAIN labels
    <3>1. PICK q \in LabelPositions : q < Span /\ body[q].label = body[Span].label
      BY <2>2 DEF Duplicates
    <3>2. q <= i
      BY <1>1, <3>1 DEF LabelPositions
    <3> QED
      BY <1>0, <1>1, <2>2, <3>1, <3>2 DEF CInv, SeenLabels, Duplicates
  <2> QED
    BY <2>1, <2>2
<1>3. {kind \in Faults(Span) : stage = "collect_labels" <=> kind = "DuplicateLabel"} =
        IF Span \in Duplicates THEN {"DuplicateLabel"} ELSE {}
  BY <1>0 DEF Faults
<1>4. CASE IsLabel(Stmt) /\ Stmt.label \in DOMAIN labels
  <2> DEFINE new == [kind |-> "DuplicateLabel", span |-> Span, original |-> labels[Stmt.label]]
  <2>1. errors' = Append(errors, new)
    BY <1>4 DEF CollectLabel
  <2>2. new \in CompileError /\ new.span = Span /\ new.kind = "DuplicateLabel"
    BY <1>1, <1>4 DEF CompileError, CompileTypeOK
  <2> HIDE DEF new
  <2>3. /\ <<new>> \in Seq(CompileError) /\ errors' = errors \o <<new>>
        /\ DOMAIN <<new>> = {1} /\ <<new>>[1] = new /\ Len(<<new>>) <= 1
    BY <1>1, <2>1, <2>2
  <2>4. {<<new>>[e].kind : e \in DOMAIN <<new>>} = {"DuplicateLabel"}
    BY <2>2, <2>3
  <2> QED
    BY <1>0, <1>2, <1>3, <1>4, <2>2, <2>3, <2>4, FoundOK
<1>5. CASE ~ (IsLabel(Stmt) /\ Stmt.label \in DOMAIN labels)
  <2>1. errors' = errors
    BY <1>5 DEF CollectLabel
  <2>2. /\ <<>> \in Seq(CompileError) /\ errors' = errors \o <<>>
        /\ {<<>>[e].kind : e \in DOMAIN <<>>} = {} /\ Len(<<>>) <= 1
    BY <1>1, <2>1
  <2> QED
    BY <1>0, <1>2, <1>3, <1>5, <2>2, FoundOK
<1> QED
  BY <1>4, <1>5

LEMMA ValidateStatementFaults ==
  ASSUME CInv, FInv, ValidateStatement
  PROVE  FInv'
<1> DEFINE found == StatementErrors(Stmt)
<1>0. /\ stage = "validate" /\ ~ AtEnd /\ i' = i + 1 /\ errors' = errors \o found
      /\ UNCHANGED <<hardware_spec, body, stage>>
  BY DEF ValidateStatement, Iterate
<1>1. found \in Seq(CompileError)
  BY <1>0, StatementErrorsFacts DEF CInv
<1>2. /\ \A e \in DOMAIN found : found[e].span = Span
      /\ {found[e].kind : e \in DOMAIN found} = Faults(Span) \ {"DuplicateLabel"}
  BY <1>0, StatementReports, FoundAreFaults DEF Reports, CInv
<1>3. {kind \in Faults(Span) : stage = "collect_labels" <=> kind = "DuplicateLabel"} =
        Faults(Span) \ {"DuplicateLabel"}
  BY <1>0
<1> HIDE DEF found
<1> QED
  BY <1>0, <1>1, <1>2, <1>3, FoundOK

\* The other passes look for nothing, and the verdict is what was found.
LEMMA NextStageFaults ==
  ASSUME CInv, FInv, NEW from \in Stages, NEW to \in Stages, NextStage(from, to),
         <<from, to>> \in {<<"collect_labels", "validate">>, <<"validate", "rejected">>,
                           <<"validate", "map_labels">>, <<"map_labels", "map_statements">>,
                           <<"map_statements", "compiled">>},
         to = "map_labels" => errors = <<>>, to = "rejected" => errors # <<>>
  PROVE  FInv'
<1>0. /\ stage = from /\ stage' = to /\ i = Len(body) /\ i' = 0
      /\ UNCHANGED <<hardware_spec, body, labels, errors, label_map, instructions>>
  BY DEF NextStage, AtEnd
<1>1. i \in Nat /\ \A p \in DOMAIN body : p <= i /\ ~ p <= 0
  BY <1>0 DEF CInv, CompileTypeOK
<1>2. \A kind, p : p \in DOMAIN body => (Looked(kind, p, stage', i') <=> Looked(kind, p, stage, i))
  BY <1>0, <1>1 DEF Looked
<1>3. \A p : Faults(p)' = Faults(p)
  BY <1>0, FaultsKept
<1>4. ErrorsAreFaults'
  <2>1. \A e \in DOMAIN errors : Looked(errors[e].kind, errors[e].span, stage', i')
    BY <1>2 DEF FInv, ErrorsAreFaults
  <2> QED
    BY <1>0, <1>3, <2>1 DEF FInv, ErrorsAreFaults, Looked
<1>5. FaultsAreErrors'
  BY <1>0, <1>2, <1>3 DEF FInv, FaultsAreErrors
<1>6. InOrderSoFar' /\ Judged'
  BY <1>0 DEF FInv, InOrderSoFar, InOrder, Judged, Validated
<1> QED
  BY <1>4, <1>5, <1>6 DEF FInv

LEMMA MapsFaults ==
  ASSUME CInv, FInv, MapLabel \/ MapStatement \/ UNCHANGED compileVars
  PROVE  FInv'
<1>0. /\ UNCHANGED <<hardware_spec, body, stage, errors>>
      /\ stage \in {"map_labels", "map_statements"} \/ i' = i
  BY DEF MapLabel, MapStatement, Iterate, compileVars
<1>1. \A kind, p : Looked(kind, p, stage', i') <=> Looked(kind, p, stage, i)
  BY <1>0 DEF Looked
<1>2. \A p : Faults(p)' = Faults(p)
  BY <1>0, FaultsKept
<1>3. ErrorsAreFaults'
  <2>1. \A e \in DOMAIN errors : Looked(errors[e].kind, errors[e].span, stage', i')
    BY <1>1 DEF FInv, ErrorsAreFaults
  <2> QED
    BY <1>0, <1>2, <2>1 DEF FInv, ErrorsAreFaults, Looked
<1>4. FaultsAreErrors' /\ InOrderSoFar' /\ Judged'
  <2>1. FaultsAreErrors'
    BY <1>0, <1>1, <1>2 DEF FInv, FaultsAreErrors
  <2> QED
    BY <1>0, <2>1 DEF FInv, InOrderSoFar, InOrder, Judged, Validated
<1> QED
  BY <1>3, <1>4 DEF FInv

LEMMA NextFInv ==
  ASSUME CInv, FInv, [CompileNext]_compileVars
  PROVE  FInv'
<1>1. CASE LabelsCollected
  BY <1>1, NextStageFaults DEF LabelsCollected, Stages
<1>2. CASE Reject
  BY <1>2, NextStageFaults DEF Reject, Stages
<1>3. CASE Accept
  BY <1>3, NextStageFaults DEF Accept, Stages
<1>4. CASE LabelsMapped
  BY <1>4, NextStageFaults DEF LabelsMapped, Stages
<1>5. CASE StatementsMapped
  BY <1>5, NextStageFaults DEF StatementsMapped, Stages
<1> QED
  BY <1>1, <1>2, <1>3, <1>4, <1>5, CollectLabelFaults, ValidateStatementFaults, MapsFaults
     DEF CompileNext

LEMMA NoFaults ==
  ASSUME CInv, FInv, stage \in Validated, NEW p \in DOMAIN body
  PROVE  Faults(p) = {}
<1>1. \A kind : Looked(kind, p, stage, i)
  BY DEF Looked, Validated
<1>2. DOMAIN errors = {}
  BY DEF FInv, Judged
<1> QED
  BY <1>1, <1>2 DEF FInv, FaultsAreErrors

LEMMA FaultsOfInvariant ==
  ASSUME CInv, FInv
  PROVE  ReportsEveryFault
<1>1. \A e, f \in DOMAIN errors : e < f => InOrder(e, f)
  BY DEF FInv, InOrderSoFar
<1>2. ASSUME stage = "rejected"
      PROVE  /\ {<<errors[e].span, errors[e].kind>> : e \in DOMAIN errors}
                  = UNION {{<<p, k>> : k \in Faults(p)} : p \in DOMAIN body}
             /\ \E p \in DOMAIN body : Faults(p) # {}
  <2>1. \A kind, p : Looked(kind, p, stage, i)
    BY <1>2 DEF Looked
  <2>2. \A e \in DOMAIN errors : errors[e].span \in DOMAIN body
                                 /\ errors[e].kind \in Faults(errors[e].span)
    BY DEF FInv, ErrorsAreFaults
  <2>3. \A p \in DOMAIN body : \A k \in Faults(p) :
          \E e \in DOMAIN errors : errors[e].span = p /\ errors[e].kind = k
    BY <2>1 DEF FInv, FaultsAreErrors
  <2>4. \E e \in DOMAIN errors : TRUE
    <3>1. errors \in Seq(CompileError) /\ errors # <<>>
      BY <1>2 DEF FInv, Judged, CInv
    <3>2. 1 \in DOMAIN errors
      BY <3>1
    <3> QED
      BY <3>2
  <2>5. ASSUME NEW x \in {<<errors[e].span, errors[e].kind>> : e \in DOMAIN errors}
        PROVE  x \in UNION {{<<p, k>> : k \in Faults(p)} : p \in DOMAIN body}
    BY <2>2
  <2>6. ASSUME NEW p \in DOMAIN body, NEW k \in Faults(p)
        PROVE  <<p, k>> \in {<<errors[e].span, errors[e].kind>> : e \in DOMAIN errors}
    BY <2>3
  <2>7. UNION {{<<p, k>> : k \in Faults(p)} : p \in DOMAIN body}
          \subseteq {<<errors[e].span, errors[e].kind>> : e \in DOMAIN errors}
    BY <2>6
  <2> QED
    BY <2>2, <2>4, <2>5, <2>7
<1>3. stage \in Validated => \A p \in DOMAIN body : Faults(p) = {}
  BY NoFaults
<1> QED
  BY <1>1, <1>2, <1>3 DEF ReportsEveryFault, Validated

\* The positions and kinds of the errors are those of the faults of the source, in the
\* editor's order and with one error for each extra declaration of a label, and
\* compiling stops exactly when there is a fault, for every source and hardware
\* (validate.rs:189-232).
THEOREM ValidationIsExact == CompileSpec => []ReportsEveryFault
<1>1. CompileInit => CInv /\ FInv
  BY InitUnstarted, InitCInv, InitFInv
<1>2. CInv /\ FInv /\ [CompileNext]_compileVars => CInv' /\ FInv'
  BY NextCInv, NextFInv
<1> QED
  BY <1>1, <1>2, FaultsOfInvariant, PTL DEF CompileSpec

-------------------------------------------------------------------------------
(* Delabelling: an instruction's index is the number of instructions above it   *)

InstructionsUpTo(n) == {q \in InstructionPositions : q <= n}
Count(n) == Cardinality(InstructionsUpTo(n))

LEMMA CountFacts ==
  ASSUME body \in Seq(Statement), NEW n \in Nat
  PROVE  /\ IsFiniteSet(InstructionsUpTo(n)) /\ Count(n) \in Nat
         /\ Count(0) = 0
         /\ n + 1 \in InstructionPositions => Count(n + 1) = Count(n) + 1
         /\ n + 1 \notin InstructionPositions => Count(n + 1) = Count(n)
<1>1. InstructionPositions \subseteq 1 .. Len(body) /\ Len(body) \in Nat
  BY DEF InstructionPositions
<1>2. IsFiniteSet(1 .. Len(body))
  BY <1>1, FS_Interval
<1>3. \A m : IsFiniteSet(InstructionsUpTo(m))
  BY <1>1, <1>2, FS_Subset DEF InstructionsUpTo
<1>0. \A q \in InstructionPositions :
        /\ q \in Nat /\ ~ q <= 0 /\ q + 1 \in Nat
        /\ q <= n + 1 <=> q <= n \/ q = n + 1
        /\ q = n + 1 => ~ q <= n
  BY <1>1
<1>4. InstructionsUpTo(0) = {}
  BY <1>0 DEF InstructionsUpTo
<1>a. n + 1 <= n + 1
  OBVIOUS
<1>5. n + 1 \in InstructionPositions =>
        InstructionsUpTo(n + 1) = InstructionsUpTo(n) \cup {n + 1} /\ n + 1 \notin InstructionsUpTo(n)
  BY <1>0, <1>a DEF InstructionsUpTo
<1>6. n + 1 \notin InstructionPositions => InstructionsUpTo(n + 1) = InstructionsUpTo(n)
  BY <1>0 DEF InstructionsUpTo
<1> QED
  BY <1>3, <1>4, <1>5, <1>6, FS_CardinalityType, FS_EmptySet, FS_AddElement DEF Count

\* The count grows with the position, and at each instruction.
LEMMA CountGrows ==
  ASSUME body \in Seq(Statement), NEW m \in Nat, NEW n \in Nat, m <= n
  PROVE  /\ Count(m) <= Count(n)
         /\ n \in InstructionPositions /\ m < n => Count(m) < Count(n)
<1>0. \A q \in InstructionPositions : q \in Nat /\ (q <= m => q <= n)
  BY DEF InstructionPositions
<1>1. /\ IsFiniteSet(InstructionsUpTo(n)) /\ InstructionsUpTo(m) \subseteq InstructionsUpTo(n)
      /\ Count(m) \in Nat /\ Count(n) \in Nat
  BY <1>0, CountFacts DEF InstructionsUpTo
<1>2. n \in InstructionPositions /\ m < n => n \in InstructionsUpTo(n) \ InstructionsUpTo(m)
  BY DEF InstructionsUpTo
<1>3. Count(m) <= Count(n)
  BY <1>1, FS_Subset DEF Count
<1>4. Count(m) = Count(n) => InstructionsUpTo(m) = InstructionsUpTo(n)
  BY <1>1, FS_Subset DEF Count
<1> QED
  BY <1>1, <1>2, <1>3, <1>4

LEMMA CountKept ==
  ASSUME UNCHANGED body
  PROVE  /\ InstructionPositions' = InstructionPositions /\ LabelPositions' = LabelPositions
         /\ \A n : Count(n)' = Count(n)
<1>1. InstructionPositions' = InstructionPositions /\ LabelPositions' = LabelPositions
  BY DEF InstructionPositions, LabelPositions
<1> QED
  BY <1>1 DEF Count, InstructionsUpTo

\* A label's index is the number of instructions above it, and every iteration of
\* map_labels is counted by the map or by the instructions.
LabelsCount ==
  /\ stage = "map_labels" => Cardinality(DOMAIN label_map) + Count(i) = i
  /\ \A l \in DOMAIN label_map :
       \E p \in LabelPositions :
         /\ body[p].label = l /\ label_map[l] = Count(p)
         /\ stage = "map_labels" => p <= i

\* Instruction k is what its statement compiles to, at index k - 1.
CompilesTo(k, s, value) ==
  /\ ~ IsJump(s) => value = s
  /\ s.op = "Jmp" => value = [op |-> "Jmp", offset |-> label_map[s.label] - (k - 1)]
  /\ s.op \in ConditionalJumps =>
       value = [op |-> s.op, src |-> s.src, offset |-> label_map[s.label] - (k - 1)]

InstructionsCount ==
  /\ stage \notin {"map_statements", "compiled"} => instructions = <<>>
  /\ stage = "map_statements" => Len(instructions) = Count(i)
  /\ stage = "compiled" => Len(instructions) = Count(Len(body))
  /\ \A k \in DOMAIN instructions :
       /\ instructions[k].span \in InstructionPositions /\ Count(instructions[k].span) = k
       /\ CompilesTo(k, body[instructions[k].span], instructions[k].value)

DInv == LabelsCount /\ InstructionsCount

LEMMA InitDInv ==
  ASSUME Unstarted
  PROVE  DInv
BY DEF Unstarted, DInv, LabelsCount, InstructionsCount, EmptyMap

LEMMA MapLabelCounts ==
  ASSUME CInv, FInv, DInv, MapLabel
  PROVE  DInv'
<1>0. /\ stage = "map_labels" /\ stage' = stage /\ i' = i + 1 /\ ~ AtEnd
      /\ UNCHANGED <<hardware_spec, body, labels, errors, instructions>>
  BY DEF MapLabel, Iterate
<1>1. /\ CompileTypeOK /\ body \in Seq(Statement) /\ i \in Nat /\ i + 1 \in DOMAIN body
      /\ Stmt = body[i + 1] /\ Span = i + 1 /\ Stmt \in Statement
      /\ IsLabel(Stmt) <=> i + 1 \in LabelPositions
      /\ LabelPositions \subseteq Nat
  BY <1>0, StmtFacts DEF CInv, CompileTypeOK, Span, LabelPositions
<1>2. IsFiniteSet(DOMAIN label_map) /\ Cardinality(DOMAIN label_map) \in Nat
  BY FS_CardinalityType DEF CInv, MapFits
<1>3. Count(i) \in Nat /\ Cardinality(DOMAIN label_map) + Count(i) = i
  BY <1>0, <1>1, CountFacts DEF DInv, LabelsCount
<1>4. \A n : Count(n)' = Count(n)
  BY <1>0, CountKept
<1>5. LabelPositions' = LabelPositions /\ InstructionPositions' = InstructionPositions
  BY <1>0, CountKept
<1>6. InstructionsCount'
  BY <1>0 DEF DInv, InstructionsCount, CInv, CompileTypeOK
<1>7. CASE IsLabel(Stmt)
  <2>1. Stmt.label \notin DOMAIN label_map
    <3>1. i + 1 \notin Duplicates
      BY <1>0, <1>1, NoFaults DEF Faults, Validated
    <3>2. \A p \in LabelPositions : p <= i => body[p].label # Stmt.label
      BY <1>1, <1>7, <3>1 DEF Duplicates
    <3> QED
      BY <1>0, <3>2 DEF DInv, LabelsCount
  <2>2. /\ DOMAIN label_map' = DOMAIN label_map \cup {Stmt.label}
        /\ label_map'[Stmt.label] = i - Cardinality(DOMAIN label_map)
        /\ \A l \in DOMAIN label_map : label_map'[l] = label_map[l]
    BY <1>7, <2>1 DEF MapLabel, With
  <2>3. Cardinality(DOMAIN label_map') = Cardinality(DOMAIN label_map) + 1
    BY <1>2, <2>1, <2>2, FS_AddElement
  <2>4. Count(i + 1) = Count(i)
    BY <1>1, <1>7, CountFacts DEF InstructionPositions
  <2>5. label_map'[Stmt.label] = Count(i + 1)
    BY <1>2, <1>3, <2>2, <2>4
  <2>6. Cardinality(DOMAIN label_map') + Count(i + 1) = i + 1
    BY <1>1, <1>2, <1>3, <2>3, <2>4
  <2>7. \A l \in DOMAIN label_map' :
          \E p \in LabelPositions :
            body[p].label = l /\ label_map'[l] = Count(p) /\ p <= i + 1
    <3>1. ASSUME NEW l \in DOMAIN label_map
          PROVE  \E p \in LabelPositions :
                   body[p].label = l /\ label_map'[l] = Count(p) /\ p <= i + 1
      <4>1. PICK p \in LabelPositions : body[p].label = l /\ label_map[l] = Count(p) /\ p <= i
        BY <1>0, <3>1 DEF DInv, LabelsCount
      <4> QED
        BY <1>1, <2>2, <3>1, <4>1
    <3>2. i + 1 \in LabelPositions /\ body[i + 1].label = Stmt.label /\ i + 1 <= i + 1
      BY <1>1, <1>7
    <3> QED
      BY <2>2, <2>5, <3>1, <3>2
  <2> QED
    BY <1>0, <1>4, <1>5, <1>6, <2>6, <2>7 DEF DInv, LabelsCount, Count
<1>8. CASE ~ IsLabel(Stmt)
  <2>1. label_map' = label_map
    BY <1>8 DEF MapLabel
  <2>2. Count(i + 1) = Count(i) + 1
    BY <1>1, <1>8, CountFacts DEF InstructionPositions
  <2>3. Cardinality(DOMAIN label_map') + Count(i + 1) = i + 1
    BY <1>1, <1>2, <1>3, <2>1, <2>2
  <2>4. \A l \in DOMAIN label_map' :
          \E p \in LabelPositions :
            body[p].label = l /\ label_map'[l] = Count(p) /\ p <= i + 1
    BY <1>0, <1>1, <2>1 DEF DInv, LabelsCount
  <2> QED
    BY <1>0, <1>4, <1>5, <1>6, <2>3, <2>4 DEF DInv, LabelsCount, Count
<1> QED
  BY <1>7, <1>8

LEMMA MapStatementCounts ==
  ASSUME CInv, FInv, DInv, MapStatement
  PROVE  DInv'
<1>0. /\ stage = "map_statements" /\ stage' = stage /\ i' = i + 1 /\ ~ AtEnd
      /\ UNCHANGED <<hardware_spec, body, labels, errors, label_map>>
  BY DEF MapStatement, Iterate
<1>1. /\ body \in Seq(Statement) /\ i \in Nat /\ i + 1 \in DOMAIN body
      /\ Stmt = body[i + 1] /\ Span = i + 1 /\ Stmt \in Statement
      /\ IsLabel(Stmt) <=> i + 1 \in LabelPositions
      /\ instructions \in Seq(InstructionNode)
  BY <1>0, StmtFacts DEF CInv, CompileTypeOK, Span, LabelPositions
<1>2. /\ InstructionPositions' = InstructionPositions /\ LabelPositions' = LabelPositions
      /\ \A n : Count(n)' = Count(n)
  BY <1>0, CountKept
<1>3. Count(i) \in Nat /\ Len(instructions) = Count(i)
  BY <1>0, <1>1, CountFacts DEF DInv, InstructionsCount
<1>4. LabelsCount'
  BY <1>0, <1>2 DEF DInv, LabelsCount
<1>5. \A k \in DOMAIN instructions :
        /\ instructions[k].span \in InstructionPositions /\ Count(instructions[k].span) = k
        /\ CompilesTo(k, body[instructions[k].span], instructions[k].value)
  BY DEF DInv, InstructionsCount
<1>6. \A k, s, value : CompilesTo(k, s, value)' <=> CompilesTo(k, s, value)
  BY <1>0 DEF CompilesTo
<1>7. /\ Len(instructions') = Count(i + 1)
      /\ \A k \in DOMAIN instructions' :
           /\ instructions'[k].span \in InstructionPositions /\ Count(instructions'[k].span) = k
           /\ CompilesTo(k, body[instructions'[k].span], instructions'[k].value)
  <2>1. CASE IsLabel(Stmt)
    <3>1. instructions' = instructions
      BY <2>1 DEF MapStatement
    <3>2. Count(i + 1) = Count(i)
      BY <1>1, <2>1, CountFacts DEF InstructionPositions
    <3> QED
      BY <1>3, <1>5, <3>1, <3>2
  <2>2. CASE ~ IsLabel(Stmt)
    <3> DEFINE new == [value |-> Compiled(Stmt), span |-> Span]
               n == Len(instructions) + 1
    <3>1. instructions' = Append(instructions, new)
      BY <2>2 DEF MapStatement
    <3>2. i + 1 \in InstructionPositions /\ Count(i + 1) = Count(i) + 1
      BY <1>1, <2>2, CountFacts DEF InstructionPositions
    <3>3. new.span = i + 1 /\ new.value = Compiled(Stmt) /\ n \in Nat /\ n = Count(i + 1)
      BY <1>1, <1>3, <3>2
    <3>4. CompilesTo(n, Stmt, Compiled(Stmt))
      <4>1. Len(instructions) = n - 1
        BY <1>1
      <4> HIDE DEF n
      <4> QED
        BY <4>1 DEF CompilesTo, Compiled, IsJump, JumpOps, ConditionalJumps
    <3> HIDE DEF new
    <3>5. /\ Len(instructions') = n
          /\ \A k \in DOMAIN instructions' :
               \/ k \in DOMAIN instructions /\ instructions'[k] = instructions[k]
               \/ k = n /\ instructions'[k] = new
      BY <1>1, <3>1
    <3> QED
      BY <1>1, <1>5, <3>2, <3>3, <3>4, <3>5
  <2> QED
    BY <2>1, <2>2
<1>8. InstructionsCount'
  <2>1. Len(instructions') = Count(i)'
    BY <1>0, <1>2, <1>7 DEF Count, InstructionsUpTo
  <2>2. \A k \in DOMAIN instructions' :
           /\ (instructions[k].span \in InstructionPositions)'
           /\ (Count(instructions[k].span) = k)'
           /\ CompilesTo(k, body[instructions[k].span], instructions[k].value)'
    BY <1>0, <1>2, <1>7 DEF Count, InstructionsUpTo, CompilesTo
  <2> QED
    BY <1>0, <2>1, <2>2 DEF InstructionsCount
<1> QED
  BY <1>4, <1>8 DEF DInv

LEMMA NextStageCounts ==
  ASSUME CInv, FInv, DInv, NEW from \in Stages, NEW to \in Stages, NextStage(from, to),
         <<from, to>> \in {<<"collect_labels", "validate">>, <<"validate", "rejected">>,
                           <<"validate", "map_labels">>, <<"map_labels", "map_statements">>,
                           <<"map_statements", "compiled">>}
  PROVE  DInv'
<1>0. /\ stage = from /\ stage' = to /\ i = Len(body) /\ i' = 0
      /\ UNCHANGED <<hardware_spec, body, labels, errors, label_map, instructions>>
  BY DEF NextStage, AtEnd
<1>1. body \in Seq(Statement) /\ Count(0) = 0
  BY CountFacts DEF CInv, CompileTypeOK
<1>2. /\ InstructionPositions' = InstructionPositions /\ LabelPositions' = LabelPositions
      /\ Count(i)' = 0 /\ Count(Len(body))' = Count(Len(body))
  BY <1>0, <1>1, CountKept DEF Count, InstructionsUpTo
<1>3. to = "map_labels" => Cardinality(DOMAIN label_map) = 0
  BY <1>0, FS_EmptySet DEF CInv, MapFits, Validated
<1>4. LabelsCount'
  <2>1. (stage = "map_labels" => Cardinality(DOMAIN label_map) + Count(i) = i)'
    BY <1>0, <1>2, <1>3
  <2>2. to = "map_labels" => DOMAIN label_map = {}
    BY <1>0 DEF CInv, MapFits, Validated
  <2>3. \A l \in DOMAIN label_map :
          \E p \in LabelPositions : body[p].label = l /\ label_map[l] = Count(p)
    BY DEF DInv, LabelsCount
  <2>4. \A l \in DOMAIN label_map' :
          \E p \in LabelPositions' : (body[p].label = l /\ label_map[l] = Count(p))'
    BY <1>0, <1>2, <2>3 DEF Count, InstructionsUpTo
  <2> QED
    BY <1>0, <2>1, <2>2, <2>4 DEF LabelsCount
<1>5. InstructionsCount'
  <2>1. to # "compiled" => instructions = <<>>
    BY <1>0 DEF DInv, InstructionsCount
  <2>2. to = "compiled" => Len(instructions) = Count(Len(body))
    <3>1. to = "compiled" => Len(instructions) = Count(i)
      BY <1>0 DEF DInv, InstructionsCount
    <3> QED
      BY <1>0, <3>1
  <2>3. \A k \in DOMAIN instructions' :
           /\ (instructions[k].span \in InstructionPositions)'
           /\ (Count(instructions[k].span) = k)'
           /\ CompilesTo(k, body[instructions[k].span], instructions[k].value)'
    BY <1>0, <1>2 DEF DInv, InstructionsCount, Count, InstructionsUpTo, CompilesTo
  <2>4. to = "map_statements" => Len(instructions) = 0
    BY <2>1
  <2> QED
    BY <1>0, <1>2, <2>1, <2>2, <2>3, <2>4 DEF InstructionsCount
<1> QED
  BY <1>4, <1>5 DEF DInv

LEMMA NextDInv ==
  ASSUME CInv, FInv, DInv, [CompileNext]_compileVars
  PROVE  DInv'
<1>1. CASE LabelsCollected
  BY <1>1, NextStageCounts DEF LabelsCollected, Stages
<1>2. CASE Reject
  BY <1>2, NextStageCounts DEF Reject, Stages
<1>3. CASE Accept
  BY <1>3, NextStageCounts DEF Accept, Stages
<1>4. CASE LabelsMapped
  BY <1>4, NextStageCounts DEF LabelsMapped, Stages
<1>5. CASE StatementsMapped
  BY <1>5, NextStageCounts DEF StatementsMapped, Stages
<1>6. CASE CollectLabel \/ ValidateStatement \/ UNCHANGED compileVars
  <2>1. UNCHANGED <<body, stage, label_map, instructions>>
    BY <1>6 DEF CollectLabel, ValidateStatement, Iterate, compileVars
  <2>2. stage \in {"map_labels", "map_statements"} => i' = i
    BY <1>6 DEF CollectLabel, ValidateStatement, Iterate, compileVars
  <2>3. InstructionPositions' = InstructionPositions /\ LabelPositions' = LabelPositions
    BY <2>1, CountKept
  <2>4. LabelsCount'
    BY <2>1, <2>2, <2>3 DEF DInv, LabelsCount, Count, InstructionsUpTo
  <2>5. InstructionsCount'
    BY <2>1, <2>2, <2>3 DEF DInv, InstructionsCount, CompilesTo, Count, InstructionsUpTo
  <2> QED
    BY <2>4, <2>5 DEF DInv
<1> QED
  BY <1>1, <1>2, <1>3, <1>4, <1>5, <1>6, MapLabelCounts, MapStatementCounts DEF CompileNext

\* Where a label's jumps go: to the first instruction below it, or past the end.
LEMMA LabelTarget ==
  ASSUME CInv, DInv, stage = "compiled", NEW p \in LabelPositions, NEW target,
         target = Count(p) + 1
  PROVE  LET below == {q \in InstructionPositions : q > p} IN
         IF below = {} THEN target = Len(instructions) + 1
         ELSE /\ target \in DOMAIN instructions
              /\ instructions[target].span \in below
              /\ \A q \in below : instructions[target].span <= q
<1> DEFINE below == {q \in InstructionPositions : q > p}
<1>0. /\ body \in Seq(Statement) /\ DOMAIN body = 1 .. Len(body) /\ Len(body) \in Nat
      /\ p \in Nat /\ p <= Len(body) /\ instructions \in Seq(InstructionNode)
      /\ \A q \in InstructionPositions : q \in Nat /\ q <= Len(body)
      /\ Len(instructions) = Count(Len(body))
      /\ Count(p) \in Nat /\ Count(Len(body)) \in Nat
  <2>1. /\ body \in Seq(Statement) /\ instructions \in Seq(InstructionNode)
        /\ Len(instructions) = Count(Len(body))
    BY DEF CInv, CompileTypeOK, DInv, InstructionsCount
  <2>2. /\ DOMAIN body = 1 .. Len(body) /\ Len(body) \in Nat /\ p \in Nat /\ p <= Len(body)
        /\ \A q \in InstructionPositions : q \in Nat /\ q <= Len(body)
    BY <2>1 DEF LabelPositions, InstructionPositions
  <2> QED
    BY <2>1, <2>2, CountFacts
<1>1. CASE below = {}
  <2>1. InstructionsUpTo(p) = InstructionsUpTo(Len(body))
    <3>1. \A q \in InstructionPositions : q <= p
      BY <1>0, <1>1
    <3> QED
      BY <1>0, <3>1 DEF InstructionsUpTo
  <2> QED
    BY <1>0, <1>1, <2>1 DEF Count
<1>2. CASE below # {}
  <2>1. \A q \in below : q \in Nat /\ p < q /\ Count(p) < Count(q) /\ Count(q) \in Nat
    BY <1>0, CountGrows, CountFacts
  <2>2. PICK q \in below : TRUE
    BY <1>2
  <2>3. Count(q) <= Count(Len(body))
    BY <1>0, <2>1, <2>2, CountGrows
  <2>4. target \in DOMAIN instructions
    BY <1>0, <2>1, <2>2, <2>3
  <2> DEFINE s == instructions[target].span
  <2>5. s \in InstructionPositions /\ Count(s) = target
    BY <2>4 DEF DInv, InstructionsCount
  <2>6. s \in Nat /\ s \in below
    <3>1. s \in Nat /\ ~ s <= p
      BY <1>0, <2>5, CountGrows
    <3> QED
      BY <1>0, <2>5, <3>1
  <2>7. \A r \in below : s <= r
    <3> SUFFICES ASSUME NEW r \in below, ~ s <= r PROVE FALSE
      OBVIOUS
    <3>1. r \in Nat /\ r < s
      BY <2>1, <2>6
    <3>2. Count(r) < Count(s)
      BY <1>0, <2>5, <2>6, <3>1, CountGrows
    <3> QED
      BY <1>0, <2>1, <2>5, <3>2
  <2> QED
    BY <1>2, <2>4, <2>6, <2>7
<1> QED
  BY <1>1, <1>2

LEMMA JumpsOfInvariant ==
  ASSUME CInv, FInv, DInv
  PROVE  JumpsReachTheirLabels
<1> SUFFICES ASSUME stage = "compiled", NEW k \in DOMAIN instructions,
                    IsJump(instructions[k].value)
             PROVE  \E p \in LabelPositions :
                      LET target == k + instructions[k].value.offset
                          below == {q \in InstructionPositions : q > p}
                      IN  /\ body[p].label = body[instructions[k].span].label
                          /\ IF below = {} THEN target = Len(instructions) + 1
                             ELSE /\ target \in DOMAIN instructions
                                  /\ instructions[target].span \in below
                                  /\ \A q \in below : instructions[target].span <= q
  BY DEF JumpsReachTheirLabels
<1> DEFINE s == body[instructions[k].span]
<1>1. /\ instructions[k].span \in InstructionPositions /\ instructions[k].span \in DOMAIN body
      /\ CompilesTo(k, s, instructions[k].value)
  BY DEF DInv, InstructionsCount, InstructionPositions
<1>2. IsJump(s) /\ instructions[k].value.offset = label_map[s.label] - (k - 1)
  BY <1>1 DEF CompilesTo, IsJump, JumpOps, ConditionalJumps
<1>3. s.label \in DOMAIN label_map
  <2>1. s.label \in DOMAIN labels
    BY <1>1, <1>2 DEF CInv, JumpsKnown, Validated
  <2> QED
    BY <2>1 DEF CInv, FirstDeclarations, MappedLabels
<1>4. PICK p \in LabelPositions : body[p].label = s.label /\ label_map[s.label] = Count(p)
  BY <1>3 DEF DInv, LabelsCount
<1>5. k + instructions[k].value.offset = Count(p) + 1
  <2>1. k \in Nat /\ Count(p) \in Nat
    <3>1. body \in Seq(Statement) /\ instructions \in Seq(InstructionNode)
      BY DEF CInv, CompileTypeOK
    <3>2. k \in Nat /\ p \in Nat
      BY <3>1 DEF LabelPositions
    <3> QED
      BY <3>1, <3>2, CountFacts
  <2> QED
    BY <1>2, <1>4, <2>1
<1> HIDE DEF s
<1> QED
  BY <1>4, <1>5, LabelTarget DEF s

\* A jump lands on the first instruction below its label, or past the last one,
\* however many labels are on the way, for every source that compiles
\* (delabel.rs:26-96).
THEOREM JumpsArrive == CompileSpec => []JumpsReachTheirLabels
<1>1. CompileInit => CInv /\ FInv /\ DInv
  BY InitUnstarted, InitCInv, InitFInv, InitDInv
<1>2. CInv /\ FInv /\ DInv /\ [CompileNext]_compileVars => CInv' /\ FInv' /\ DInv'
  BY NextCInv, NextFInv, NextDInv
<1>3. CInv /\ FInv /\ DInv => JumpsReachTheirLabels
  BY JumpsOfInvariant
<1> QED
  BY <1>1, <1>2, <1>3, PTL DEF CompileSpec

-------------------------------------------------------------------------------
(* The machine: values and syntax trees, for every width                        *)

LEMMA RangeFacts ==
  /\ MaxValue \in Nat /\ MaxValue >= 1 /\ MinValue \in Int /\ MinValue = -MaxValue - 1
  /\ LangValue \subseteq Int
  /\ \A v : v \in LangValue <=> v \in Int /\ MinValue <= v /\ v <= MaxValue
  /\ {-1, 0, 1} \subseteq LangValue
BY ValueAssumption DEF MinValue, LangValue

\* Wrapping keeps a value of the type (machine.rs:234-257), whatever the result.
LEMMA WrapInRange ==
  ASSUME NEW n \in Int
  PROVE  Wrap(n) \in LangValue
<1> DEFINE width == MaxValue - MinValue + 1
<1>1. width \in Nat /\ width > 0
  BY RangeFacts
<1>2. n - MinValue \in Int
  BY RangeFacts
<1> HIDE DEF width
<1>3. \A a \in Int : a % width \in 0 .. width - 1
  BY <1>1
<1>4. (n - MinValue) % width \in 0 .. width - 1
  BY <1>2, <1>3
<1> QED
  BY <1>4, RangeFacts DEF Wrap, width

\* A result that fits is not changed by wrapping.
LEMMA WrapIdentity ==
  ASSUME NEW n \in LangValue
  PROVE  Wrap(n) = n
<1> DEFINE width == MaxValue - MinValue + 1
<1>1. width \in Nat /\ width > 0 /\ n - MinValue \in 0 .. width - 1
  BY RangeFacts
<1> HIDE DEF width
<1>2. \A a \in 0 .. width - 1 : a % width = a
  BY <1>1
<1> QED
  BY <1>1, <1>2, RangeFacts DEF Wrap, width

LEMMA DivBounds ==
  ASSUME NEW a \in Nat, NEW b \in Nat, b >= 1
  PROVE  /\ a \div b \in Nat
         /\ a \div b <= a
         /\ b >= 2 => 2 * (a \div b) <= a
<1>1. a \div b \in Int /\ b * (a \div b) <= a /\ a \div b >= 0
  BY SMT
<1> DEFINE q == a \div b
<1>2. q \in Nat /\ b * q <= a
  BY <1>1
<1> HIDE DEF q
<1>3. q <= b * q /\ (b >= 2 => 2 * q <= b * q)
  BY <1>2, SMT
<1> QED
  BY <1>2, <1>3 DEF q

\* Division leaves the type in one case only (machine.rs:258-267).
LEMMA QuotientInRange ==
  ASSUME NEW a \in LangValue, NEW b \in LangValue, b # 0, ~ (b = -1 /\ a = MinValue)
  PROVE  Quotient(a, b) \in LangValue
<1> DEFINE q == Magnitude(a) \div Magnitude(b)
<1>1. Magnitude(a) \in Nat /\ Magnitude(b) \in Nat /\ Magnitude(b) >= 1
      /\ Magnitude(a) <= MaxValue + 1
  BY RangeFacts DEF Magnitude
<1>2. q \in Nat /\ q <= Magnitude(a) /\ (Magnitude(b) >= 2 => 2 * q <= Magnitude(a))
  BY <1>1, DivBounds
<1> HIDE DEF q
<1>3. CASE Magnitude(b) >= 2
  <2>1. q <= MaxValue
    BY <1>1, <1>2, <1>3, RangeFacts
  <2> QED
    BY <1>2, <2>1, RangeFacts DEF Quotient, q
<1>4. CASE Magnitude(b) = 1
  <2>1. b = 1 \/ b = -1
    BY <1>4, RangeFacts DEF Magnitude
  <2>2. (a < 0 <=> b < 0) => a # MinValue /\ q <= MaxValue
    BY <2>1, <1>1, <1>2, RangeFacts DEF Magnitude
  <2>3. q <= MaxValue + 1 /\ -q \in LangValue
    BY <1>1, <1>2, RangeFacts
  <2> QED
    BY <1>2, <2>2, <2>3, RangeFacts DEF Quotient, q
<1> QED
  BY <1>1, <1>3, <1>4

\* A product of the width leaves nothing.
LEMMA MultipleOfWidth ==
  ASSUME NEW w \in Nat, w >= 1, NEW q \in Int
  PROVE  (w * q) % w = 0
<1> DEFINE m == w * q
           r == m % w
           d == m \div w
<1>1. m \in Int /\ r \in 0 .. w - 1 /\ d \in Int /\ m = w * d + r
  BY SMT
<1>2. w * q - w * d = w * (q - d)
  BY <1>1, SMT
<1>3. r = w * (q - d)
  BY <1>1, <1>2
<1> HIDE DEF r, d, m
<1>4. q - d >= 1 => w * (q - d) >= w
  BY <1>1, SMT
<1>5. q - d <= -1 => w * (q - d) <= -w
  BY <1>1, SMT
<1>6. q - d = 0
  BY <1>1, <1>3, <1>4, <1>5
<1> QED
  BY <1>3, <1>6 DEF r, m

\* What wrapping takes away is a multiple of the width (machine.rs:234-257).
LEMMA WrapTakesWidths ==
  ASSUME NEW n \in Int
  PROVE  \E k \in Int : n - Wrap(n) = (2 * MaxValue + 2) * k
<1> DEFINE width == MaxValue - MinValue + 1
           k == (n - MinValue) \div width
<1>1. width \in Nat /\ width >= 1 /\ width = 2 * MaxValue + 2 /\ n - MinValue \in Int
  BY RangeFacts
<1> HIDE DEF width
<1>2. \A a \in Int : a \div width \in Int /\ a = width * (a \div width) + (a % width)
                     /\ a % width \in Int
  BY <1>1, SMT
<1>3. k \in Int /\ n - MinValue = width * k + ((n - MinValue) % width)
      /\ (n - MinValue) % width \in Int
  BY <1>1, <1>2
<1> HIDE DEF k
<1>4. n - Wrap(n) = width * k
  <2>1. Wrap(n) = ((n - MinValue) % width) + MinValue
    BY DEF Wrap, width
  <2>2. width * k \in Int
    BY <1>1, <1>3
  <2> QED
    BY <2>1, <2>2, <1>3, RangeFacts
<1> QED
  BY <1>1, <1>3, <1>4

LEMMA WrapIsModular ==
  ASSUME NEW n \in Int
  PROVE  /\ (n - Wrap(n)) % (2 * MaxValue + 2) = 0
         /\ (Wrap(n) - n) % (2 * MaxValue + 2) = 0
<1> DEFINE w == 2 * MaxValue + 2
<1>1. w \in Nat /\ w >= 1 /\ Wrap(n) \in Int
  BY WrapInRange, RangeFacts
<1>2. PICK k \in Int : n - Wrap(n) = w * k
  BY WrapTakesWidths
<1> HIDE DEF w
<1>3. Wrap(n) - n = w * (-k)
  BY <1>1, <1>2, SMT
<1>4. (w * k) % w = 0 /\ (w * (-k)) % w = 0
  BY <1>1, MultipleOfWidth
<1>5. (n - Wrap(n)) % w = 0 /\ (Wrap(n) - n) % w = 0
  BY <1>2, <1>3, <1>4
<1> QED
  BY <1>5 DEF w

LEMMA SmallMultiple ==
  ASSUME NEW w \in Int, NEW k \in Int, w > 0, -w < w * k, w * k < w
  PROVE  k = 0
<1>1. k >= 1 => w * k >= w
  BY SMT
<1>2. k <= -1 => w * k <= -w
  BY SMT
<1> QED
  BY <1>1, <1>2, SMT

\* Two numbers less than a width apart are equal when they are equal modulo it.
LEMMA ResidueIsUnique ==
  ASSUME NEW w \in Nat, w >= 1, NEW x \in Int, NEW y \in Int, x % w = 0, y % w = 0,
         -w < x - y, x - y < w
  PROVE  x = y
<1> DEFINE j == x \div w
           k == y \div w
<1>1. j \in Int /\ x = w * j + (x % w)
  BY SMT
<1>2. k \in Int /\ y = w * k + (y % w)
  BY SMT
<1> HIDE DEF j, k
<1>3. x = w * j /\ y = w * k
  <2>1. w * j \in Int /\ w * k \in Int
    BY <1>1, <1>2, SMT
  <2> QED
    BY <1>1, <1>2, <2>1
<1>4. x - y = w * (j - k)
  BY <1>1, <1>2, <1>3, SMT
<1>5. j - k = 0
  BY <1>1, <1>2, <1>4, SmallMultiple
<1> QED
  BY <1>1, <1>2, <1>3, <1>5

\* The remainder of a quotient of naturals.
LEMMA NaturalRemainder ==
  ASSUME NEW a \in Nat, NEW b \in Nat, b >= 1
  PROVE  a \div b \in Nat /\ a - b * (a \div b) \in 0 .. b - 1
BY SMT

\* Dividing and multiplying back loses less than the divisor, on the dividend's side
\* of zero (machine.rs:258-267).
LEMMA QuotientIsTruncated ==
  ASSUME NEW a \in Int, NEW b \in Int, b # 0
  PROVE  LET r == a - b * Quotient(a, b)
         IN  Magnitude(r) < Magnitude(b) /\ (r = 0 \/ (r < 0 <=> a < 0))
<1> DEFINE q == Magnitude(a) \div Magnitude(b)
           rest == Magnitude(a) - Magnitude(b) * q
           r == a - b * Quotient(a, b)
<1>1. Magnitude(a) \in Nat /\ Magnitude(b) \in Nat /\ Magnitude(b) >= 1
  BY DEF Magnitude
<1>2. q \in Nat /\ rest \in 0 .. Magnitude(b) - 1
  BY <1>1, NaturalRemainder
<1> HIDE DEF q
<1>3. r = IF a < 0 THEN -rest ELSE rest
  <2>1. CASE a < 0 /\ b < 0
    BY <1>2, <2>1, SMT DEF Magnitude, Quotient, q
  <2>2. CASE a < 0 /\ ~ b < 0
    BY <1>2, <2>2, SMT DEF Magnitude, Quotient, q
  <2>3. CASE ~ a < 0 /\ b < 0
    BY <1>2, <2>3, SMT DEF Magnitude, Quotient, q
  <2>4. CASE ~ a < 0 /\ ~ b < 0
    BY <1>2, <2>4, SMT DEF Magnitude, Quotient, q
  <2> QED
    BY <2>1, <2>2, <2>3, <2>4
<1> HIDE DEF rest, r
<1>4. Magnitude(r) < Magnitude(b) /\ (r = 0 \/ (r < 0 <=> a < 0))
  BY <1>1, <1>2, <1>3 DEF Magnitude
<1> QED
  BY <1>4 DEF r

\* There is no other such quotient.
LEMMA QuotientIsUnique ==
  ASSUME NEW a \in Int, NEW b \in Int, b # 0, NEW q \in Int,
         Magnitude(a - b * q) < Magnitude(b),
         a - b * q = 0 \/ (a - b * q < 0 <=> a < 0)
  PROVE  q = Quotient(a, b)
<1> DEFINE t == Quotient(a, b)
           r == a - b * q
           s == a - b * t
<1>1. t \in Int
  <2>1. Magnitude(a) \in Nat /\ Magnitude(b) \in Nat /\ Magnitude(b) >= 1
    BY DEF Magnitude
  <2>2. Magnitude(a) \div Magnitude(b) \in Nat
    BY <2>1, NaturalRemainder
  <2> QED
    BY <2>2 DEF Quotient
<1>2. Magnitude(s) < Magnitude(b) /\ (s = 0 \/ (s < 0 <=> a < 0))
  BY QuotientIsTruncated
<1> HIDE DEF t
<1>3. r \in Int /\ s \in Int /\ s - r = b * (q - t)
  BY <1>1, SMT
<1>4. Magnitude(r) < Magnitude(b) /\ (r = 0 \/ (r < 0 <=> a < 0))
  OBVIOUS
<1> HIDE DEF r, s
<1>5. -Magnitude(b) < s - r /\ s - r < Magnitude(b)
  BY <1>2, <1>3, <1>4 DEF Magnitude
<1>6. q - t = 0
  <2>1. CASE b > 0
    <3>1. -b < b * (q - t) /\ b * (q - t) < b
      BY <1>3, <1>5, <2>1 DEF Magnitude
    <3> QED
      BY <1>1, <2>1, <3>1, SmallMultiple
  <2>2. CASE b < 0
    <3>1. (-b) * (t - q) = b * (q - t)
      BY <1>1, SMT
    <3>2. -(-b) < (-b) * (t - q) /\ (-b) * (t - q) < -b
      BY <1>3, <1>5, <2>2, <3>1 DEF Magnitude
    <3>3. t - q = 0
      BY <1>1, <2>2, <3>2, SmallMultiple
    <3> QED
      BY <1>1, <3>3
  <2> QED
    BY <2>1, <2>2
<1> QED
  BY <1>1, <1>6 DEF t

LEMMA OrderingInRange ==
  ASSUME NEW a \in LangValue, NEW b \in LangValue
  PROVE  Ordering(a, b) \in LangValue
BY RangeFacts DEF Ordering

\* The operands an instruction has are those its opcode says.
LEMMA OperatorParts ==
  ASSUME NEW o \in Operator
  PROVE  /\ o.op \in {"Read", "Write", "Set", "Cmp", "Push", "Pop"} \cup ArithmeticOps
         /\ HasDst(o.op) => o.dst \in RegisterRef
         /\ o.op \in {"Write", "Set", "Cmp", "Push"} \cup ArithmeticOps => o.src \in ValueSource
         /\ o.op = "Cmp" => o.src_2 \in ValueSource
         /\ o.op \in {"Push", "Pop"} => o.stack \in Nat
BY DEF Operator, HasDst, ArithmeticOps

LEMMA InstructionParts ==
  ASSUME NEW n \in Instruction
  PROVE  /\ n.op \in {"Read", "Write", "Set", "Cmp", "Push", "Pop"} \cup ArithmeticOps \cup JumpOps
         /\ HasDst(n.op) => n.dst \in RegisterRef
         /\ ReadsSrc(n.op) => n.src \in ValueSource
         /\ n.op = "Cmp" => n.src_2 \in ValueSource
         /\ n.op \in {"Push", "Pop"} => n.stack \in Nat
         /\ n.op \in JumpOps => n.offset \in Int
<1>1. CASE n \in Operator
  BY <1>1, OperatorParts DEF ReadsSrc, ConditionalJumps, JumpOps, ArithmeticOps
<1>2. CASE n \in [op : {"Jmp"}, offset : Int]
  BY <1>2 DEF HasDst, ReadsSrc, ArithmeticOps, ConditionalJumps, JumpOps
<1>3. CASE n \in [op : ConditionalJumps, src : ValueSource, offset : Int]
  BY <1>3 DEF HasDst, ReadsSrc, ArithmeticOps, ConditionalJumps, JumpOps
<1> QED
  BY <1>1, <1>2, <1>3 DEF Instruction

-------------------------------------------------------------------------------
(* The machine: its invariant                                                   *)

\* What the safety argument rests on: the program is well formed, and the
\* program counter has stayed where its jumps keep it.
Inv ==
  /\ TypeOK
  /\ WellFormed(program, hardware_spec)
  /\ PcInProgram
  /\ CycleBudget
  /\ StackCapacity

-------------------------------------------------------------------------------
(* The instruction under the program counter *)

LEMMA NodeFacts ==
  ASSUME Inv, Ready
  PROVE  /\ program_counter \in 0 .. Len(program) - 1
         /\ program_counter + 1 \in DOMAIN program
         /\ Node \in InstructionNode
         /\ Instr \in Instruction
         /\ OperandsExist(Instr, hardware_spec)
         /\ WritesChecked(Instr)
         /\ IsJump(Instr) => program_counter + Instr.offset \in 0 .. Len(program)
<1>1. program \in Seq(InstructionNode) /\ program_counter \in 0 .. Len(program) - 1
  BY DEF Inv, TypeOK, PcInProgram, Ready
<1>2. program_counter + 1 \in DOMAIN program /\ Node \in InstructionNode
  BY <1>1 DEF Node
<1>3. Instr \in Instruction
  BY <1>2 DEF InstructionNode, Instr
<1>4. OperandsExist(Instr, hardware_spec) /\ WritesChecked(Instr)
  BY <1>2 DEF Inv, WellFormed, Instr, Node
<1>5. IsJump(Instr) => program_counter + Instr.offset \in 0 .. Len(program)
  <2> SUFFICES ASSUME IsJump(Instr)
               PROVE  program_counter + Instr.offset \in 0 .. Len(program)
    OBVIOUS
  <2>1. (program_counter + 1) - 1 + Instr.offset \in 0 .. Len(program)
    BY <1>2 DEF Inv, WellFormed, JumpsInside, Instr, Node
  <2>2. Instr.offset \in Int
    BY <1>3, InstructionParts DEF IsJump
  <2> QED
    BY <1>1, <2>1, <2>2
<1> QED
  BY <1>1, <1>2, <1>3, <1>4, <1>5

\* A register that exists holds an i16, or a length.
LEMMA RegisterValue ==
  ASSUME Inv, NEW reg \in RegisterRef, RegisterExists(reg, hardware_spec)
  PROVE  /\ GetReg(reg) \in Int
         /\ GetReg(reg) \notin LangValue =>
              \/ reg.kind = "InputLength" /\ GetReg(reg) = Len(input) /\ Len(input) > MaxValue
              \/ /\ reg.kind = "StackLength" /\ reg.id \in DOMAIN stacks
                 /\ GetReg(reg) = Len(stacks[reg.id]) /\ Len(stacks[reg.id]) > MaxValue
         /\ reg.kind = "User" => reg.id \in DOMAIN registers
<1>1. CASE reg.kind = "Null"
  BY <1>1, RangeFacts DEF GetReg
<1>2. CASE reg.kind = "InputLength"
  <2>1. Len(input) \in Nat
    BY DEF Inv, TypeOK
  <2> QED
    BY <1>2, <2>1, RangeFacts DEF GetReg
<1>3. CASE reg.kind = "StackLength"
  <2>1. reg.id \in 0 .. hardware_spec.num_stacks - 1
    BY <1>3 DEF RegisterRef, RegisterExists, Inv, TypeOK, HardwareSpec
  <2>2. stacks[reg.id] \in Seq(LangValue) /\ reg.id \in DOMAIN stacks
    BY <2>1 DEF Inv, TypeOK
  <2>3. Len(stacks[reg.id]) \in Nat
    BY <2>2
  <2> QED
    BY <1>3, <2>2, <2>3, RangeFacts DEF GetReg
<1>4. CASE reg.kind = "User"
  <2>1. reg.id \in 0 .. hardware_spec.num_registers - 1
    BY <1>4 DEF RegisterRef, RegisterExists, Inv, TypeOK, HardwareSpec
  <2>2. registers[reg.id] \in LangValue /\ reg.id \in DOMAIN registers
    BY <2>1 DEF Inv, TypeOK
  <2> QED
    BY <1>4, <2>2, RangeFacts DEF GetReg
<1> QED
  BY <1>1, <1>2, <1>3, <1>4 DEF RegisterRef

\* Every register the instruction mentions exists.
LEMMA NamedRegisters ==
  ASSUME Inv, Ready
  PROVE  /\ \A reg \in RegistersRead(Instr) :
              reg \in RegisterRef /\ RegisterExists(reg, hardware_spec)
         /\ HasDst(Instr.op) =>
              Instr.dst \in RegisterRef /\ RegisterExists(Instr.dst, hardware_spec)
<1>1. Instr \in Instruction /\ OperandsExist(Instr, hardware_spec)
  BY NodeFacts
<1>2. \A s \in Sources(Instr) : s \in ValueSource
  BY <1>1, InstructionParts DEF Sources
<1>3. \A s \in Sources(Instr) : s.kind = "Register" => s.reg \in RegisterRef
  BY <1>2 DEF ValueSource
<1>4. Instr.op \in ArithmeticOps => HasDst(Instr.op)
  BY DEF HasDst
<1>5. \A reg \in RegistersRead(Instr) : reg \in RegisterRef
  BY <1>1, <1>3, <1>4, InstructionParts DEF RegistersRead
<1>6. \A reg \in RegistersRead(Instr) : RegisterExists(reg, hardware_spec)
  BY <1>1 DEF OperandsExist, RegistersNamed
<1>7. HasDst(Instr.op) =>
        Instr.dst \in RegisterRef /\ RegisterExists(Instr.dst, hardware_spec)
  BY <1>1, InstructionParts DEF OperandsExist, RegistersNamed
<1> QED
  BY <1>5, <1>6, <1>7

\* An operand that is read yields an i16.
LEMMA OperandValue ==
  ASSUME Inv, Ready, ReadsFit
  PROVE  /\ \A s \in Sources(Instr) : GetVal(s) \in LangValue
         /\ Instr.op \in ArithmeticOps => GetReg(Instr.dst) \in LangValue
<1>1. ASSUME NEW s \in Sources(Instr)
      PROVE  GetVal(s) \in LangValue
  <2>1. s \in ValueSource
    BY NodeFacts, InstructionParts DEF Sources
  <2>2. CASE s.kind = "Const"
    BY <2>1, <2>2 DEF ValueSource, GetVal
  <2>3. CASE s.kind = "Register"
    <3>1. s.reg \in RegistersRead(Instr)
      BY <2>3 DEF RegistersRead
    <3> QED
      BY <3>1, <2>3 DEF ReadsFit, GetVal
  <2> QED
    BY <2>1, <2>2, <2>3 DEF ValueSource
<1>2. Instr.op \in ArithmeticOps => GetReg(Instr.dst) \in LangValue
  BY DEF ReadsFit, RegistersRead
<1> QED
  BY <1>1, <1>2

-------------------------------------------------------------------------------
(* What a step must establish, split by the part of the state *)

ControlOK ==
  /\ program_counter' \in 0 .. Len(program)
  /\ error' \in RuntimeError \cup {NoError}
  /\ panicked' \in PanicKind \cup {NoPanic}
  /\ result' \in Returned \cup {NoResult}

DataOK ==
  /\ input' \in Seq(LangValue)
  /\ output' \in Seq(LangValue)
  /\ registers' \in [0 .. hardware_spec.num_registers - 1 -> LangValue]
  /\ stacks' \in [0 .. hardware_spec.num_stacks - 1 -> Seq(LangValue)]
  /\ \A s \in DOMAIN stacks' : Len(stacks'[s]) <= hardware_spec.max_stack_length

CyclesOK ==
  /\ cycle_count' \in 0 .. MAX_CYCLE_COUNT
  /\ error'.kind = "TooManyCycles" =>
       cycle_count' = MAX_CYCLE_COUNT /\ program_counter' < Len(program)

LEMMA InvFromParts ==
  ASSUME Inv, UNCHANGED static, looping' \in BOOLEAN, ControlOK, DataOK, CyclesOK
  PROVE  Inv'
<1>1. hardware_spec' = hardware_spec /\ program' = program /\ expected_output' = expected_output
  BY DEF static
<1>2. WellFormed(program, hardware_spec)'
  BY <1>1 DEF Inv, WellFormed, JumpsInside, OperandsExist, RegisterExists
<1>3. TypeOK'
  BY <1>1 DEF Inv, TypeOK, ControlOK, DataOK, CyclesOK
<1>4. PcInProgram' /\ StackCapacity'
  BY <1>1 DEF ControlOK, DataOK, PcInProgram, StackCapacity
<1>5. CycleBudget'
  BY <1>1, CycleAssumption DEF CyclesOK, CycleBudget
<1> QED
  BY <1>2, <1>3, <1>4, <1>5 DEF Inv

LEMMA DataKept ==
  ASSUME Inv, UNCHANGED data
  PROVE  DataOK
BY DEF Inv, TypeOK, StackCapacity, data, DataOK

LEMMA ReturnTyped ==
  ASSUME Inv, NEW ok \in {"true", "false", "error"}, Return("next", ok)
  PROVE  result' \in Returned \cup {NoResult}
BY DEF Inv, TypeOK, Return, Returned

LEMMA AdvanceOK ==
  ASSUME Inv, NEW n \in Int, program_counter + n \in 0 .. Len(program), Advance(n)
  PROVE  ControlOK /\ error' = error
<1>1. result' \in Returned \cup {NoResult}
  BY ReturnTyped DEF Advance
<1> QED
  BY <1>1 DEF Inv, TypeOK, Advance, ControlOK

LEMMA FailOK ==
  ASSUME Inv, Ready, NEW kind \in ErrorKind, Fail(kind)
  PROVE  ControlOK /\ DataOK /\ error'.kind = kind /\ program_counter' = program_counter
<1>1. result' \in Returned \cup {NoResult}
  BY ReturnTyped DEF Fail
<1>2. Node.span \in Nat \ {0}
  BY NodeFacts DEF InstructionNode
<1>3. program_counter' = program_counter /\ program_counter \in 0 .. Len(program)
  BY DEF Fail, Inv, PcInProgram
<1>4. error' \in RuntimeError /\ error'.kind = kind
  BY <1>2 DEF Fail, RuntimeError
<1>5. panicked' \in PanicKind \cup {NoPanic}
  BY DEF Fail, Inv, TypeOK
<1>6. DataOK
  BY DataKept DEF Fail
<1> QED
  BY <1>1, <1>3, <1>4, <1>5, <1>6 DEF ControlOK

LEMMA PanicOK ==
  ASSUME Inv, NEW kind \in PanicKind, Panic(kind)
  PROVE  ControlOK /\ error' = error
BY DEF Inv, TypeOK, PcInProgram, Panic, ControlOK

LEMMA SetRegOK ==
  ASSUME Inv, Ready, NEW reg \in RegisterRef, RegisterExists(reg, hardware_spec),
         NEW value \in LangValue, SetReg(reg, value)
  PROVE  /\ ControlOK /\ error' = error
         /\ registers' \in [0 .. hardware_spec.num_registers - 1 -> LangValue]
<1>1. program_counter + 1 \in 0 .. Len(program) /\ registers \in [0 .. hardware_spec.num_registers - 1 -> LangValue]
  BY NodeFacts DEF Inv, TypeOK
<1>2. CASE reg.kind = "Null" /\ UNCHANGED registers /\ Advance(1)
  BY <1>1, <1>2, AdvanceOK
<1>3. CASE reg.kind = "User" /\ registers' = [registers EXCEPT ![reg.id] = value] /\ Advance(1)
  <2>1. ControlOK /\ error' = error
    BY <1>1, <1>3, AdvanceOK
  <2> QED
    BY <1>1, <1>3, <2>1
<1>4. CASE UNCHANGED registers /\ Panic("UnwritableRegister")
  BY <1>1, <1>4, PanicOK DEF PanicKind
<1> QED
  BY <1>2, <1>3, <1>4 DEF SetReg

\* An instruction that ran leaves room for the cycle it was charged.
LEMMA FetchCycles ==
  ASSUME Inv, Begin, error' = error \/ error'.kind # "TooManyCycles"
  PROVE  CyclesOK
BY CycleAssumption DEF Inv, TypeOK, Begin, Ready, CyclesOK, NoError

-------------------------------------------------------------------------------
(* One lemma per kind of instruction *)

LEMMA ReadInstrOK ==
  ASSUME Inv, ReadInstr
  PROVE  ControlOK /\ DataOK /\ CyclesOK
<1>1. Begin /\ Ready /\ Instr.op = "Read"
  BY DEF ReadInstr, Fetch, Begin
<1>2. CASE Fail("EmptyInput")
  <2>1. ControlOK /\ DataOK /\ error'.kind = "EmptyInput"
    BY <1>1, <1>2, FailOK DEF ErrorKind
  <2> QED
    BY <1>1, <2>1, FetchCycles
<1>3. CASE input # <<>> /\ input' = Tail(input) /\ SetReg(Instr.dst, Head(input))
           /\ UNCHANGED <<output, stacks>>
  <2>1. Head(input) \in LangValue /\ input' \in Seq(LangValue)
    BY <1>3 DEF Inv, TypeOK
  <2>2. Instr.dst \in RegisterRef /\ RegisterExists(Instr.dst, hardware_spec)
    BY <1>1, NamedRegisters DEF HasDst
  <2>3. ControlOK /\ error' = error
        /\ registers' \in [0 .. hardware_spec.num_registers - 1 -> LangValue]
    BY <1>1, <1>3, <2>1, <2>2, SetRegOK
  <2>4. DataOK
    BY <1>3, <2>1, <2>3 DEF Inv, TypeOK, StackCapacity, DataOK
  <2> QED
    BY <1>1, <2>3, <2>4, FetchCycles
<1> QED
  BY <1>2, <1>3 DEF ReadInstr

LEMMA WriteInstrOK ==
  ASSUME Inv, WriteInstr
  PROVE  ControlOK /\ DataOK /\ CyclesOK
<1>1. Begin /\ Ready /\ Instr.op = "Write" /\ ReadsFit
  BY DEF WriteInstr, Fetch, Begin
<1>2. GetVal(Instr.src) \in LangValue
  BY <1>1, OperandValue DEF Sources, ReadsSrc
<1>3. ControlOK /\ error' = error
  BY <1>1, NodeFacts, AdvanceOK DEF WriteInstr
<1>4. DataOK
  BY <1>2 DEF WriteInstr, Inv, TypeOK, StackCapacity, DataOK
<1> QED
  BY <1>1, <1>3, <1>4, FetchCycles

\* SET, the arithmetic and CMP: a register gets a value of the type.
LEMMA ComputedOK ==
  ASSUME Inv, Begin, HasDst(Instr.op), NEW value \in LangValue,
         SetReg(Instr.dst, value), UNCHANGED <<input, output, stacks>>
  PROVE  ControlOK /\ DataOK /\ CyclesOK
<1>1. Ready
  BY DEF Begin
<1>2. Instr.dst \in RegisterRef /\ RegisterExists(Instr.dst, hardware_spec)
  BY <1>1, NamedRegisters
<1>3. ControlOK /\ error' = error
      /\ registers' \in [0 .. hardware_spec.num_registers - 1 -> LangValue]
  BY <1>1, <1>2, SetRegOK
<1>4. DataOK
  BY <1>3 DEF Inv, TypeOK, StackCapacity, DataOK
<1> QED
  BY <1>3, <1>4, FetchCycles

LEMMA SetInstrOK ==
  ASSUME Inv, SetInstr
  PROVE  ControlOK /\ DataOK /\ CyclesOK
<1>1. Begin /\ Ready /\ Instr.op = "Set" /\ ReadsFit
  BY DEF SetInstr, Fetch, Begin
<1>2. GetVal(Instr.src) \in LangValue /\ HasDst(Instr.op)
  BY <1>1, OperandValue DEF Sources, ReadsSrc, HasDst
<1> QED
  BY <1>1, <1>2, ComputedOK DEF SetInstr

LEMMA ArithmeticInstrOK ==
  ASSUME Inv, ArithmeticInstr
  PROVE  ControlOK /\ DataOK /\ CyclesOK
<1>1. Begin /\ Ready /\ Instr.op \in {"Add", "Sub", "Mul"} /\ ReadsFit
  BY DEF ArithmeticInstr, Fetch, Begin
<1> DEFINE a == GetReg(Instr.dst)
           b == GetVal(Instr.src)
<1>2. a \in LangValue /\ b \in LangValue /\ HasDst(Instr.op)
  BY <1>1, OperandValue DEF Sources, ReadsSrc, HasDst, ArithmeticOps
<1>3. a + b \in Int /\ a - b \in Int /\ a * b \in Int
  BY <1>2, RangeFacts
<1>4. Wrap(a + b) \in LangValue /\ Wrap(a - b) \in LangValue /\ Wrap(a * b) \in LangValue
  BY <1>3, WrapInRange
<1>5. ArithmeticResult(Instr.op, a, b) \in LangValue
  BY <1>1, <1>4 DEF ArithmeticResult
<1> QED
  BY <1>1, <1>2, <1>5, ComputedOK DEF ArithmeticInstr

LEMMA DivInstrOK ==
  ASSUME Inv, DivInstr
  PROVE  ControlOK /\ DataOK /\ CyclesOK
<1>1. Begin /\ Ready /\ Instr.op = "Div" /\ ReadsFit
  BY DEF DivInstr, Fetch, Begin
<1> DEFINE divisor == GetVal(Instr.src)
           dividend == GetReg(Instr.dst)
<1>2. dividend \in LangValue /\ divisor \in LangValue /\ HasDst(Instr.op)
  BY <1>1, OperandValue DEF Sources, ReadsSrc, HasDst, ArithmeticOps
<1>3. CASE Fail("DivideByZero")
  <2>1. ControlOK /\ DataOK /\ error'.kind = "DivideByZero"
    BY <1>1, <1>3, FailOK DEF ErrorKind
  <2> QED
    BY <1>1, <2>1, FetchCycles
<1>4. CASE Panic("DivideOverflow") /\ UNCHANGED data
  <2>1. ControlOK /\ error' = error
    BY <1>4, PanicOK DEF PanicKind
  <2>2. DataOK
    BY <1>4, DataKept
  <2> QED
    BY <1>1, <2>1, <2>2, FetchCycles
<1>5. CASE /\ divisor # 0 /\ ~ (divisor = -1 /\ dividend = MinValue)
           /\ SetReg(Instr.dst, Quotient(dividend, divisor))
           /\ UNCHANGED <<input, output, stacks>>
  <2>1. Quotient(dividend, divisor) \in LangValue
    BY <1>2, <1>5, QuotientInRange
  <2> QED
    BY <1>1, <1>2, <1>5, <2>1, ComputedOK
<1> QED
  BY <1>3, <1>4, <1>5 DEF DivInstr

LEMMA CmpInstrOK ==
  ASSUME Inv, CmpInstr
  PROVE  ControlOK /\ DataOK /\ CyclesOK
<1>1. Begin /\ Ready /\ Instr.op = "Cmp" /\ ReadsFit
  BY DEF CmpInstr, Fetch, Begin
<1>2. GetVal(Instr.src) \in LangValue /\ GetVal(Instr.src_2) \in LangValue /\ HasDst(Instr.op)
  BY <1>1, OperandValue DEF Sources, ReadsSrc, HasDst
<1>3. Ordering(GetVal(Instr.src), GetVal(Instr.src_2)) \in LangValue
  BY <1>2, OrderingInRange
<1> QED
  BY <1>1, <1>2, <1>3, ComputedOK DEF CmpInstr

\* A stack the instruction names is one of the hardware's.
LEMMA NamedStack ==
  ASSUME Inv, Ready, Instr.op \in {"Push", "Pop"}
  PROVE  /\ Instr.stack \in 0 .. hardware_spec.num_stacks - 1
         /\ Instr.stack \in DOMAIN stacks
         /\ stacks[Instr.stack] \in Seq(LangValue)
         /\ Len(stacks[Instr.stack]) \in 0 .. hardware_spec.max_stack_length
<1>1. Instr.stack \in Nat /\ Instr.stack < hardware_spec.num_stacks
  BY NodeFacts, InstructionParts DEF OperandsExist, StacksNamed
<1>2. hardware_spec.num_stacks \in Nat /\ hardware_spec.max_stack_length \in Nat
  BY DEF Inv, TypeOK, HardwareSpec
<1>3. Instr.stack \in 0 .. hardware_spec.num_stacks - 1
  BY <1>1, <1>2
<1>4. stacks[Instr.stack] \in Seq(LangValue) /\ Instr.stack \in DOMAIN stacks
  BY <1>3 DEF Inv, TypeOK
<1> QED
  BY <1>2, <1>3, <1>4 DEF Inv, StackCapacity

LEMMA PushInstrOK ==
  ASSUME Inv, PushInstr
  PROVE  ControlOK /\ DataOK /\ CyclesOK
<1>1. Begin /\ Ready /\ Instr.op = "Push" /\ ReadsFit
  BY DEF PushInstr, Fetch, Begin
<1> DEFINE stack == stacks[Instr.stack]
<1>2. CASE Fail("StackOverflow")
  <2>1. ControlOK /\ DataOK /\ error'.kind = "StackOverflow"
    BY <1>1, <1>2, FailOK DEF ErrorKind
  <2> QED
    BY <1>1, <2>1, FetchCycles
<1>3. CASE /\ ~ Full(stack)
           /\ stacks' = [stacks EXCEPT ![Instr.stack] = Append(stack, GetVal(Instr.src))]
           /\ UNCHANGED <<input, output, registers>>
           /\ Advance(1)
  <2>1. GetVal(Instr.src) \in LangValue
    BY <1>1, OperandValue DEF Sources, ReadsSrc
  <2> DEFINE pushed == Append(stack, GetVal(Instr.src))
  <2>2. stack \in Seq(LangValue) /\ Len(stack) \in Nat /\ hardware_spec.max_stack_length \in Nat
    BY <1>1, NamedStack DEF Inv, TypeOK, HardwareSpec
  <2>3. pushed \in Seq(LangValue) /\ Len(pushed) <= hardware_spec.max_stack_length
    BY <1>3, <2>1, <2>2 DEF Full
  <2> HIDE DEF pushed
  <2>4. stacks' = [stacks EXCEPT ![Instr.stack] = pushed]
    BY <1>3 DEF pushed
  <2>5. DataOK
    BY <1>3, <2>3, <2>4 DEF Inv, TypeOK, StackCapacity, DataOK
  <2>6. ControlOK /\ error' = error
    BY <1>1, <1>3, NodeFacts, AdvanceOK
  <2> QED
    BY <1>1, <2>5, <2>6, FetchCycles
<1> QED
  BY <1>2, <1>3 DEF PushInstr

LEMMA PopInstrOK ==
  ASSUME Inv, PopInstr
  PROVE  ControlOK /\ DataOK /\ CyclesOK
<1>1. Begin /\ Ready /\ Instr.op = "Pop"
  BY DEF PopInstr, Fetch, Begin
<1> DEFINE stack == stacks[Instr.stack]
<1>2. CASE Fail("EmptyStack")
  <2>1. ControlOK /\ DataOK /\ error'.kind = "EmptyStack"
    BY <1>1, <1>2, FailOK DEF ErrorKind
  <2> QED
    BY <1>1, <2>1, FetchCycles
<1>3. CASE /\ stack # <<>>
           /\ stacks' = [stacks EXCEPT ![Instr.stack] = SubSeq(stack, 1, Len(stack) - 1)]
           /\ SetReg(Instr.dst, stack[Len(stack)])
           /\ UNCHANGED <<input, output>>
  <2> DEFINE rest == SubSeq(stack, 1, Len(stack) - 1)
  <2>1. stack \in Seq(LangValue) /\ Len(stack) \in 0 .. hardware_spec.max_stack_length
    BY <1>1, NamedStack
  <2>2. Len(stack) >= 1 /\ hardware_spec.max_stack_length \in Nat
    BY <1>3, <2>1 DEF Inv, TypeOK, HardwareSpec
  <2>3. stack[Len(stack)] \in LangValue
    BY <2>1, <2>2
  <2>4. rest \in Seq(LangValue) /\ Len(rest) <= hardware_spec.max_stack_length
    BY <2>1, <2>2
  <2> HIDE DEF rest
  <2>5. stacks' = [stacks EXCEPT ![Instr.stack] = rest]
    BY <1>3 DEF rest
  <2>6. Instr.dst \in RegisterRef /\ RegisterExists(Instr.dst, hardware_spec)
    BY <1>1, NamedRegisters DEF HasDst
  <2>7. ControlOK /\ error' = error
        /\ registers' \in [0 .. hardware_spec.num_registers - 1 -> LangValue]
    BY <1>1, <1>3, <2>3, <2>6, SetRegOK
  <2>8. DataOK
    BY <1>3, <2>4, <2>5, <2>7 DEF Inv, TypeOK, StackCapacity, DataOK
  <2> QED
    BY <1>1, <2>7, <2>8, FetchCycles
<1> QED
  BY <1>2, <1>3 DEF PopInstr

LEMMA JumpInstrOK ==
  ASSUME Inv, JumpInstr
  PROVE  ControlOK /\ DataOK /\ CyclesOK
<1>1. Begin /\ Ready /\ Instr.op \in JumpOps
  BY DEF JumpInstr, Fetch, Begin
<1>2. Instr.offset \in Int /\ program_counter + Instr.offset \in 0 .. Len(program)
      /\ program_counter + 1 \in 0 .. Len(program)
  BY <1>1, NodeFacts, InstructionParts DEF IsJump
<1>3. DataOK
  BY DataKept DEF JumpInstr
<1>4. ControlOK /\ error' = error
  BY <1>2, AdvanceOK DEF JumpInstr
<1> QED
  BY <1>1, <1>3, <1>4, FetchCycles

LEMMA LengthInstrOK ==
  ASSUME Inv, LengthInstr
  PROVE  ControlOK /\ DataOK /\ CyclesOK
<1>1. ControlOK /\ error' = error
  BY PanicOK DEF LengthInstr, PanicKind
<1>2. DataOK
  BY DataKept DEF LengthInstr
<1> QED
  BY <1>1, <1>2, FetchCycles DEF LengthInstr

LEMMA OutOfCyclesOK ==
  ASSUME Inv, OutOfCycles
  PROVE  ControlOK /\ DataOK /\ CyclesOK
<1>1. Ready /\ Fail("TooManyCycles")
  BY DEF OutOfCycles
<1>2. ControlOK /\ DataOK /\ program_counter' = program_counter
  BY <1>1, FailOK DEF ErrorKind
<1>3. cycle_count' = MAX_CYCLE_COUNT
  BY CycleAssumption DEF OutOfCycles, Inv, TypeOK, CycleBudget
<1> QED
  BY <1>1, <1>2, <1>3, CycleAssumption DEF CyclesOK, Ready

-------------------------------------------------------------------------------
(* The invariant *)

LEMMA ExecuteOK ==
  ASSUME Inv, Execute
  PROVE  ControlOK /\ DataOK /\ CyclesOK
BY ReadInstrOK, WriteInstrOK, SetInstrOK, ArithmeticInstrOK, DivInstrOK, CmpInstrOK,
   PushInstrOK, PopInstrOK, JumpInstrOK, LengthInstrOK, OutOfCyclesOK DEF Execute

\* A call that runs no instruction changes at most the caller's variables.
LEMMA QuietOK ==
  ASSUME Inv, UNCHANGED <<static, program_counter, data, cycle_count, error, panicked>>,
         looping' \in BOOLEAN, result' \in Returned \cup {NoResult}
  PROVE  Inv'
<1>1. DataOK
  BY DataKept
<1>2. ControlOK
  BY DEF Inv, TypeOK, PcInProgram, ControlOK
<1>3. CyclesOK
  BY CycleAssumption DEF Inv, TypeOK, CycleBudget, CyclesOK
<1> QED
  BY <1>1, <1>2, <1>3, InvFromParts

LEMMA NewInv ==
  ASSUME NEW hw \in HardwareSpec, NEW in \in Seq(LangValue), NEW expected \in Seq(LangValue),
         NEW prog \in Seq(InstructionNode), WellFormed(prog, hw), New(hw, prog, in, expected)
  PROVE  Inv
<1>1. 0 \in LangValue
  BY RangeFacts
<1>2. hw.num_registers \in Nat /\ hw.num_stacks \in Nat /\ hw.max_stack_length \in Nat
  BY DEF HardwareSpec
<1>3. registers \in [0 .. hw.num_registers - 1 -> LangValue]
  BY <1>1 DEF New
<1>4. stacks \in [0 .. hw.num_stacks - 1 -> Seq(LangValue)]
      /\ \A s \in DOMAIN stacks : Len(stacks[s]) = 0
  BY DEF New
<1>5. TypeOK
  <2>1. hardware_spec = hw /\ hw \in HardwareSpec
    BY DEF New
  <2>2. program \in Seq(InstructionNode) /\ expected_output \in Seq(LangValue)
        /\ input \in Seq(LangValue) /\ output \in Seq(LangValue)
    BY DEF New
  <2>3. program_counter \in Int /\ cycle_count \in Nat
    BY DEF New
  <2>4. /\ error \in RuntimeError \cup {NoError} /\ panicked \in PanicKind \cup {NoPanic}
        /\ looping \in BOOLEAN /\ result \in Returned \cup {NoResult}
    BY DEF New
  <2> QED
    BY <1>3, <1>4, <2>1, <2>2, <2>3, <2>4 DEF TypeOK
<1>6. PcInProgram /\ WellFormed(program, hardware_spec)
  BY DEF New, PcInProgram
<1>7. CycleBudget
  BY CycleAssumption DEF New, CycleBudget, NoError
<1>8. StackCapacity
  BY <1>2, <1>4 DEF New, StackCapacity
<1> QED
  BY <1>5, <1>6, <1>7, <1>8 DEF Inv

LEMMA NextInv ==
  ASSUME Inv, [MachineNext]_machineVars
  PROVE  Inv'
<1>1. CASE ExecuteNext
  <2>1. UNCHANGED static /\ looping' \in BOOLEAN
    BY <1>1 DEF ExecuteNext, Inv, TypeOK
  <2>2. CASE Execute
    BY <2>1, <2>2, ExecuteOK, InvFromParts
  <2>3. CASE ExecuteNothing
    <3>1. result' \in Returned \cup {NoResult}
      BY <2>3, ReturnTyped DEF ExecuteNothing
    <3> QED
      BY <2>1, <2>3, <3>1, QuietOK DEF ExecuteNothing
  <2> QED
    BY <1>1, <2>2, <2>3 DEF ExecuteNext
<1>2. CASE CallExecuteAll
  <2>1. looping' \in BOOLEAN /\ result' \in Returned \cup {NoResult}
    BY <1>2 DEF CallExecuteAll, ExecuteAll, Inv, TypeOK
  <2> QED
    BY <1>2, <2>1, QuietOK DEF CallExecuteAll, ExecuteAll
<1>3. CASE LoopReturns
  <2>1. looping' \in BOOLEAN /\ result' \in Returned \cup {NoResult}
    BY <1>3 DEF LoopReturns, ReturnAll, Returned
  <2> QED
    BY <1>3, <2>1, QuietOK DEF LoopReturns, ReturnAll
<1>4. CASE UNCHANGED machineVars
  <2>1. looping' \in BOOLEAN /\ result' \in Returned \cup {NoResult}
    BY <1>4 DEF machineVars, Inv, TypeOK
  <2> QED
    BY <1>4, <2>1, QuietOK DEF machineVars
<1> QED
  BY <1>1, <1>2, <1>3, <1>4 DEF MachineNext, Dead

\* The machine keeps its invariant on every well-formed program: values stay
\* i16s, the program counter stays in the program (so the cast of
\* machine.rs:313 never underflows), the cycle budget is kept and is only
\* blamed when it is spent, and no stack outgrows the hardware.
THEOREM MachineSafety ==
  MachineSpec => [](TypeOK /\ PcInProgram /\ CycleBudget /\ StackCapacity)
<1>1. MachineInit => Inv
  BY NewInv DEF MachineInit
<1>2. Inv /\ [MachineNext]_machineVars => Inv'
  BY NextInv
<1>3. Inv => TypeOK /\ PcInProgram /\ CycleBudget /\ StackCapacity
  BY DEF Inv
<1> QED
  BY <1>1, <1>2, <1>3, PTL DEF MachineSpec

\* Every value a program reads, computes or stores stays an i16, whatever it is
\* given: arithmetic wraps (machine.rs:234-291).
THEOREM ValuesStayInRange == MachineSpec => []TypeOK
  BY MachineSafety, PTL

\* No step leaves the program or the hardware: the program counter is at an
\* instruction or just past the last one, after any jump, and no stack is longer
\* than the hardware allows, after any push (machine.rs:150-166, 292-313).
THEOREM MachineStaysInside == MachineSpec => []StaysInside
<1>1. PcInProgram /\ StackCapacity => StaysInside
  BY DEF StaysInside
<1> QED
  BY MachineSafety, <1>1, PTL

-------------------------------------------------------------------------------
(* Termination is final *)

LEMMA TerminatedStep ==
  ASSUME Inv, Terminated, [MachineNext]_machineVars
  PROVE  UNCHANGED <<static, program_counter, data, cycle_count, error, panicked>>
<1>1. ~ Ready
  BY DEF Inv, TypeOK, PcInProgram, Terminated, Ready
<1>2. ~ Execute
  BY <1>1 DEF Execute, ReadInstr, WriteInstr, SetInstr, ArithmeticInstr, DivInstr, CmpInstr,
              PushInstr, PopInstr, JumpInstr, LengthInstr, OutOfCycles, Fetch, Begin
<1>3. CASE ExecuteNext
  BY <1>2, <1>3 DEF ExecuteNext, ExecuteNothing
<1>4. CASE CallExecuteAll
  BY <1>4 DEF CallExecuteAll, ExecuteAll
<1>5. CASE LoopReturns
  BY <1>5 DEF LoopReturns, ReturnAll
<1>6. CASE UNCHANGED machineVars
  BY <1>6 DEF machineVars
<1> QED
  BY <1>3, <1>4, <1>5, <1>6 DEF MachineNext, Dead

\* However a caller goes on stepping or executing a terminated machine, nothing
\* it can observe changes (machine.rs:190-199).
THEOREM TerminationIsFinal == MachineSpec => TerminatedIsFinal
<1>1. MachineInit => Inv
  BY NewInv DEF MachineInit
<1>2. Inv /\ [MachineNext]_machineVars => Inv'
  BY NextInv
<1>3. Inv /\ [MachineNext]_machineVars =>
        [Terminated =>
           UNCHANGED <<static, program_counter, data, cycle_count, error, panicked>>]_machineVars
  BY TerminatedStep
<1> QED
  BY <1>1, <1>2, <1>3, PTL DEF MachineSpec, TerminatedIsFinal

-------------------------------------------------------------------------------
(* A run that fails *)

\* The call fails with `kind` and does nothing else; `charged` is its cycle.
FailsWith(kind, charged) ==
  Ready /\ Fail(kind) /\ cycle_count' = cycle_count + charged

\* Why the instruction under the program counter fails with `kind`.
Reason(kind) ==
  \/ kind = "EmptyInput" /\ Instr.op = "Read" /\ input = <<>>
  \/ kind = "DivideByZero" /\ Instr.op = "Div" /\ GetVal(Instr.src) = 0
  \/ kind = "EmptyStack" /\ Instr.op = "Pop" /\ stacks[Instr.stack] = <<>>
  \/ /\ kind = "StackOverflow" /\ Instr.op = "Push"
     /\ Len(stacks[Instr.stack]) = hardware_spec.max_stack_length

LEMMA SetRegKeepsError ==
  ASSUME NEW reg, NEW value, SetReg(reg, value)
  PROVE  error' = error
BY DEF SetReg, Advance, Panic

\* An instruction that stores an error is one that failed, for a reason.
LEMMA ErrorStep ==
  ASSUME Inv, Execute
  PROVE  \/ error' = error
         \/ \E kind \in ErrorKind \ {"TooManyCycles"} : FailsWith(kind, 1) /\ Reason(kind)
         \/ FailsWith("TooManyCycles", 0)
<1>1. CASE ReadInstr
  BY <1>1, SetRegKeepsError DEF ReadInstr, Fetch, Begin, FailsWith, Reason, ErrorKind
<1>2. CASE WriteInstr \/ JumpInstr \/ LengthInstr
  BY <1>2 DEF WriteInstr, JumpInstr, LengthInstr, Advance, Panic
<1>3. CASE SetInstr \/ ArithmeticInstr \/ CmpInstr
  BY <1>3, SetRegKeepsError DEF SetInstr, ArithmeticInstr, CmpInstr
<1>4. CASE DivInstr
  BY <1>4, SetRegKeepsError
     DEF DivInstr, Fetch, Begin, Panic, FailsWith, Reason, ErrorKind
<1>5. CASE PushInstr
  <2>1. CASE Fail("StackOverflow") /\ Full(stacks[Instr.stack])
    <3>1. Ready /\ Instr.op = "Push" /\ cycle_count' = cycle_count + 1
      BY <1>5 DEF PushInstr, Fetch, Begin
    <3>2. Len(stacks[Instr.stack]) = hardware_spec.max_stack_length
      BY <2>1, <3>1, NamedStack DEF Full, Inv, TypeOK, HardwareSpec
    <3> QED
      BY <2>1, <3>1, <3>2 DEF FailsWith, Reason, ErrorKind
  <2>2. CASE Advance(1)
    BY <2>2 DEF Advance
  <2> QED
    BY <1>5, <2>1, <2>2 DEF PushInstr
<1>6. CASE PopInstr
  BY <1>6, SetRegKeepsError DEF PopInstr, Fetch, Begin, FailsWith, Reason, ErrorKind
<1>7. CASE OutOfCycles
  BY <1>7 DEF OutOfCycles, FailsWith, Inv, TypeOK
<1> QED
  BY <1>1, <1>2, <1>3, <1>4, <1>5, <1>6, <1>7 DEF Execute

\* Only an instruction stores an error.
LEMMA OnlyExecuteFails ==
  ASSUME [MachineNext]_machineVars, error' # error
  PROVE  Execute /\ UNCHANGED static
BY DEF MachineNext, ExecuteNext, ExecuteNothing, CallExecuteAll, ExecuteAll, LoopReturns,
       ReturnAll, Dead, machineVars

\* An instruction that fails has no partial effect, whatever the program: no value
\* is taken from the input or a stack, and it costs its one cycle, or none when the
\* budget is what it ran out of (machine.rs:205-222).
THEOREM FailuresAreClean == MachineSpec => FailureIsClean
<1> DEFINE Clean == error' # error =>
             /\ UNCHANGED <<program_counter, data>>
             /\ cycle_count' = cycle_count + (IF error'.kind = "TooManyCycles" THEN 0 ELSE 1)
<1>1. MachineInit => Inv
  BY NewInv DEF MachineInit
<1>2. Inv /\ [MachineNext]_machineVars => Inv'
  BY NextInv
<1>3. Inv /\ [MachineNext]_machineVars => Clean
  <2> SUFFICES ASSUME Inv, [MachineNext]_machineVars, error' # error
               PROVE  /\ UNCHANGED <<program_counter, data>>
                      /\ cycle_count' = cycle_count + (IF error'.kind = "TooManyCycles" THEN 0 ELSE 1)
    OBVIOUS
  <2>1. Execute
    BY OnlyExecuteFails
  <2>2. CASE \E kind \in ErrorKind \ {"TooManyCycles"} : FailsWith(kind, 1)
    BY <2>2 DEF FailsWith, Fail
  <2>3. CASE FailsWith("TooManyCycles", 0)
    BY <2>3 DEF FailsWith, Fail
  <2> QED
    BY <2>1, <2>2, <2>3, ErrorStep
<1>4. Inv /\ [MachineNext]_machineVars => [Clean]_machineVars
  BY <1>3
<1> QED
  BY <1>1, <1>2, <1>4, PTL DEF MachineSpec, FailureIsClean

-------------------------------------------------------------------------------
(* Errors and panics stay explained by the state they left *)

\* What an instruction under an unchanged counter reads, if nothing it reads changed.
LEMMA SameInstr ==
  ASSUME UNCHANGED <<static, program_counter>>
  PROVE  /\ Node' = Node /\ Instr' = Instr
         /\ UNCHANGED <<hardware_spec, program, expected_output>>
BY DEF static, Node, Instr

LEMMA SameReads ==
  ASSUME UNCHANGED <<static, program_counter, data>>
  PROVE  /\ Node' = Node /\ Instr' = Instr
         /\ GetReg(Instr.dst)' = GetReg(Instr.dst) /\ GetVal(Instr.src)' = GetVal(Instr.src)
         /\ UNCHANGED <<hardware_spec, program, expected_output, input, output, registers, stacks>>
<1>1. /\ Node' = Node /\ Instr' = Instr
      /\ UNCHANGED <<hardware_spec, program, expected_output, input, output, registers, stacks>>
  BY SameInstr DEF static, data
<1>2. \A reg : GetReg(reg)' = GetReg(reg)
  BY <1>1 DEF GetReg
<1> QED
  BY <1>1, <1>2 DEF GetVal, GetReg

LEMMA ErrorExplainedKept ==
  ASSUME Inv, ErrorExplained, UNCHANGED <<static, program_counter, data, error>>
  PROVE  ErrorExplained'
BY SameReads DEF ErrorExplained

LEMMA ErrorExplainedStep ==
  ASSUME Inv, ErrorExplained, [MachineNext]_machineVars
  PROVE  ErrorExplained'
<1>1. CASE error # NoError
  BY <1>1, TerminatedStep, ErrorExplainedKept DEF Terminated
<1>2. CASE error = NoError /\ error' = error
  BY <1>2 DEF ErrorExplained
<1>3. CASE error' # error
  <2>1. Execute /\ UNCHANGED static
    BY <1>3, OnlyExecuteFails
  <2>2. PICK kind \in ErrorKind :
          Ready /\ Fail(kind) /\ (kind = "TooManyCycles" \/ Reason(kind))
    BY <1>3, <2>1, ErrorStep DEF FailsWith, ErrorKind
  <2>3. program_counter \in 0 .. Len(program) - 1
    BY <2>2, NodeFacts
  <2>4. /\ UNCHANGED <<program_counter, data>>
        /\ error'.kind = kind /\ error'.span = Node.span
    BY <2>2 DEF Fail
  <2> QED
    BY <2>1, <2>2, <2>3, <2>4, SameReads DEF ErrorExplained, Reason
<1> QED
  BY <1>2, <1>3, <1>1

\* A stored error goes on describing the machine it stopped: the instruction under
\* the counter, which could not run on the state that is shown (machine.rs:205-222).
THEOREM ErrorsAreExplained == MachineSpec => []ErrorExplained
<1>1. MachineInit => Inv /\ ErrorExplained
  BY NewInv DEF MachineInit, New, ErrorExplained
<1>2. Inv /\ ErrorExplained /\ [MachineNext]_machineVars => Inv' /\ ErrorExplained'
  BY NextInv, ErrorExplainedStep
<1> QED
  BY <1>1, <1>2, PTL DEF MachineSpec

\* Validation leaves POP as the one instruction that meets a read-only register.
LEMMA SetRegPanics ==
  ASSUME Inv, Ready, HasDst(Instr.op), NEW value, SetReg(Instr.dst, value)
  PROVE  \/ UNCHANGED panicked
         \/ /\ panicked' = "UnwritableRegister" /\ program_counter' = program_counter
            /\ Instr.op = "Pop" /\ ~ Writable(Instr.dst)
<1>1. Instr.op # "Pop" => Writable(Instr.dst)
  BY NodeFacts DEF WritesChecked
<1> QED
  BY <1>1 DEF SetReg, Advance, Panic

\* A length register that does not fit belongs to a long input or a long stack.
LEMMA LongLength ==
  ASSUME Inv, Ready, ~ ReadsFit
  PROVE  Len(input) > MaxValue \/ \E s \in DOMAIN stacks : Len(stacks[s]) > MaxValue
<1>1. PICK reg \in RegistersRead(Instr) : GetReg(reg) \notin LangValue
  BY DEF ReadsFit
<1>2. reg \in RegisterRef /\ RegisterExists(reg, hardware_spec)
  BY NamedRegisters
<1> QED
  BY <1>1, <1>2, RegisterValue

\* An instruction that kills the thread, and what it leaves.
LEMMA PanicStep ==
  ASSUME Inv, Execute, panicked' # panicked
  PROVE  /\ Ready /\ program_counter' = program_counter
         /\ \/ /\ panicked' = "UnwritableRegister"
               /\ Instr.op = "Pop" /\ ~ Writable(Instr.dst)
            \/ /\ panicked' = "DivideOverflow" /\ UNCHANGED data /\ Instr.op = "Div"
               /\ GetReg(Instr.dst) = MinValue /\ GetVal(Instr.src) = -1
            \/ /\ panicked' = "LengthTooBig" /\ UNCHANGED data
               /\ \/ Len(input) > MaxValue
                  \/ \E s \in DOMAIN stacks : Len(stacks[s]) > MaxValue
<1>1. Ready
  BY DEF Execute, ReadInstr, WriteInstr, SetInstr, ArithmeticInstr, DivInstr, CmpInstr,
         PushInstr, PopInstr, JumpInstr, LengthInstr, OutOfCycles, Fetch, Begin
<1>2. CASE ReadInstr \/ SetInstr \/ ArithmeticInstr \/ CmpInstr
  <2>1. HasDst(Instr.op)
    BY <1>2 DEF ReadInstr, SetInstr, ArithmeticInstr, CmpInstr, Fetch, HasDst, ArithmeticOps
  <2> QED
    BY <1>1, <1>2, <2>1, SetRegPanics
       DEF ReadInstr, SetInstr, ArithmeticInstr, CmpInstr, Fail
<1>3. CASE PopInstr
  <2>1. HasDst(Instr.op)
    BY <1>3 DEF PopInstr, Fetch, HasDst
  <2> QED
    BY <1>1, <1>3, <2>1, SetRegPanics DEF PopInstr, Fail
<1>4. CASE DivInstr
  <2>1. HasDst(Instr.op) /\ Instr.op = "Div"
    BY <1>4 DEF DivInstr, Fetch, HasDst, ArithmeticOps
  <2> QED
    BY <1>1, <1>4, <2>1, SetRegPanics DEF DivInstr, Fail, Panic
<1>5. CASE WriteInstr \/ PushInstr \/ JumpInstr \/ OutOfCycles
  BY <1>5 DEF WriteInstr, PushInstr, JumpInstr, OutOfCycles, Advance, Fail
<1>6. CASE LengthInstr
  BY <1>1, <1>6, LongLength DEF LengthInstr, Panic
<1> QED
  BY <1>2, <1>3, <1>4, <1>5, <1>6 DEF Execute

LEMMA PanicExplainedStep ==
  ASSUME Inv, panicked = NoPanic \/ PanicExplained, [MachineNext]_machineVars
  PROVE  panicked' = NoPanic \/ PanicExplained'
<1>1. CASE panicked' # panicked
  <2>1. Execute /\ UNCHANGED static
    BY <1>1 DEF MachineNext, ExecuteNext, ExecuteNothing, CallExecuteAll, ExecuteAll,
               LoopReturns, ReturnAll, Dead, machineVars
  <2> QED
    BY <1>1, <2>1, PanicStep, SameInstr, SameReads DEF PanicExplained
<1>2. CASE panicked' = panicked /\ panicked # NoPanic
  <2>1. UNCHANGED machineVars
    BY <1>2 DEF MachineNext, ExecuteNext, CallExecuteAll, LoopReturns, Dead, Alive
  <2> QED
    BY <1>2, <2>1, SameReads DEF PanicExplained, machineVars, data
<1>3. CASE panicked' = panicked /\ panicked = NoPanic
  BY <1>3
<1> QED
  BY <1>1, <1>2, <1>3

\* The thread dies in three places only, on every well-formed program: POP into a
\* read-only register, MinValue / -1, and a length that has no i16; no other index
\* or unwrap of machine.rs fails (machine.rs:85-148, 258-267).
THEOREM PanicsAreExplained == MachineSpec => []PanicExplained
<1> DEFINE Explained == panicked = NoPanic \/ PanicExplained
<1>1. MachineInit => Inv /\ Explained
  BY NewInv DEF MachineInit, New
<1>2. Inv /\ Explained /\ [MachineNext]_machineVars => Inv' /\ Explained'
  BY NextInv, PanicExplainedStep
<1>3. Explained => PanicExplained
  BY DEF PanicExplained, NoPanic
<1> QED
  BY <1>1, <1>2, <1>3, PTL DEF MachineSpec

-------------------------------------------------------------------------------
(* Verdicts *)

\* A verdict of execute_all is given once, by the loop that returns, and no later
\* call finds a machine that would run on.
LEMMA VerdictStep ==
  ASSUME Inv, ExecuteAllVerdict, [MachineNext]_machineVars
  PROVE  ExecuteAllVerdict'
<1>1. SUFFICES ASSUME result'.call = "all"
               PROVE  ExecuteAllVerdict'
  BY DEF ExecuteAllVerdict
<1>2. CASE LoopReturns
  BY <1>2 DEF LoopReturns, ReturnAll, ExecuteAllVerdict, Terminated, Successful, static, data
<1>3. CASE ~ LoopReturns
  <2>1. result' = result
    <3>1. CASE Execute
      BY <1>1, <3>1, ErrorStep, PanicStep, SMTT(30)
         DEF Execute, ReadInstr, WriteInstr, SetInstr, ArithmeticInstr, DivInstr, CmpInstr,
             PushInstr, PopInstr, JumpInstr, LengthInstr, OutOfCycles, SetReg, Advance, Fail,
             Panic, Return
    <3>2. CASE ~ Execute
      BY <1>1, <1>3, <3>2
         DEF MachineNext, ExecuteNext, ExecuteNothing, CallExecuteAll, ExecuteAll, Dead,
             machineVars, Return
    <3> QED
      BY <3>1, <3>2
  <2>2. Terminated
    BY <1>1, <2>1 DEF ExecuteAllVerdict
  <2>3. UNCHANGED <<program, expected_output, program_counter, input, output, error>>
    BY <2>2, TerminatedStep DEF static, data
  <2> QED
    BY <2>1, <2>3 DEF ExecuteAllVerdict, Terminated
<1> QED
  BY <1>2, <1>3

\* What execute_all returned stays what the machine says of itself: the player is
\* graded by the machine's final state, whatever is called afterwards
\* (machine.rs:340-369).
THEOREM VerdictsHold == MachineSpec => []ExecuteAllVerdict
<1>1. MachineInit => Inv /\ ExecuteAllVerdict
  <2>1. MachineInit => Inv
    BY NewInv DEF MachineInit
  <2>2. MachineInit => ExecuteAllVerdict
    BY DEF MachineInit, New, ExecuteAllVerdict, NoResult
  <2> QED
    BY <2>1, <2>2
<1>2. Inv /\ ExecuteAllVerdict /\ [MachineNext]_machineVars => Inv' /\ ExecuteAllVerdict'
  BY NextInv, VerdictStep
<1> QED
  BY <1>1, <1>2, PTL DEF MachineSpec

-------------------------------------------------------------------------------
(* Arithmetic *)

\* The step that computes a register is the instruction's own, and wrote its result.
LEMMA ComputedValue ==
  ASSUME Inv, [MachineNext]_machineVars, Computes(ArithmeticOps)
  PROVE  /\ Left \in LangValue /\ Right \in LangValue
         /\ Instr.op \in {"Add", "Sub", "Mul"} =>
              registers'[Instr.dst.id] = ArithmeticResult(Instr.op, Left, Right)
         /\ Instr.op = "Div" =>
              Right # 0 /\ registers'[Instr.dst.id] = Quotient(Left, Right)
<1>0. /\ Ready /\ Instr.op \in ArithmeticOps /\ Instr.dst.kind = "User"
      /\ program_counter' # program_counter
  BY DEF Computes
<1>1. ArithmeticInstr \/ DivInstr
  <2>1. Execute
    BY <1>0 DEF MachineNext, ExecuteNext, ExecuteNothing, CallExecuteAll, ExecuteAll,
               LoopReturns, ReturnAll, Dead, machineVars
  <2>2. ~ LengthInstr /\ ~ OutOfCycles
    BY <1>0 DEF LengthInstr, OutOfCycles, Panic, Fail
  <2> QED
    BY <1>0, <2>1, <2>2
       DEF Execute, ReadInstr, WriteInstr, SetInstr, CmpInstr, PushInstr, PopInstr, JumpInstr,
           Fetch, ArithmeticOps, JumpOps, ConditionalJumps
<1>2. ReadsFit
  BY <1>1 DEF ArithmeticInstr, DivInstr
<1>3. GetReg(Instr.dst) = Left
  BY <1>0 DEF GetReg, Left
<1>4. Left \in LangValue /\ Right \in LangValue
  BY <1>0, <1>2, <1>3, OperandValue DEF Right, Sources, ReadsSrc
<1>5. Instr.dst.id \in DOMAIN registers
  BY <1>0, NamedRegisters, RegisterValue DEF HasDst
<1>6. ASSUME NEW value, SetReg(Instr.dst, value)
      PROVE  registers'[Instr.dst.id] = value
  BY <1>0, <1>5, <1>6 DEF SetReg, Writable
<1>7. CASE ArithmeticInstr
  BY <1>3, <1>4, <1>6, <1>7 DEF ArithmeticInstr, Fetch, Right
<1>8. CASE DivInstr
  BY <1>0, <1>3, <1>4, <1>6, <1>8 DEF DivInstr, Fetch, Right, Fail, Panic
<1> QED
  BY <1>1, <1>7, <1>8, <1>4

\* Every result is the exact one modulo the width, and a quotient loses a remainder
\* smaller than the divisor, for every width and every operand (machine.rs:234-267).
THEOREM ArithmeticWraps == MachineSpec => ArithmeticIsModular
<1> DEFINE Modular ==
      Computes(ArithmeticOps) =>
        LET c == registers'[Instr.dst.id]
            Same(exact) == (exact - c) % (2 * MaxValue + 2) = 0
            r == Left - Right * c
        IN  CASE Instr.op = "Add" -> Same(Left + Right)
              [] Instr.op = "Sub" -> Same(Left - Right)
              [] Instr.op = "Mul" -> Same(Left * Right)
              [] Instr.op = "Div" ->
                   Magnitude(r) < Magnitude(Right) /\ (r = 0 \/ (r < 0 <=> Left < 0))
<1>1. MachineInit => Inv
  BY NewInv DEF MachineInit
<1>2. Inv /\ [MachineNext]_machineVars => Inv'
  BY NextInv
<1>3. ASSUME Inv, [MachineNext]_machineVars
      PROVE  Modular
  <2> SUFFICES ASSUME Computes(ArithmeticOps)
               PROVE  Modular
    OBVIOUS
  <2> DEFINE c == registers'[Instr.dst.id]
  <2>1. Left \in Int /\ Right \in Int
    BY <1>3, ComputedValue, RangeFacts
  <2>2. Left + Right \in Int /\ Left - Right \in Int /\ Left * Right \in Int
    BY <2>1
  <2>3. CASE Instr.op = "Add"
    <3>1. c = Wrap(Left + Right)
      BY <1>3, <2>3, ComputedValue DEF ArithmeticResult
    <3> QED
      BY <2>2, <2>3, <3>1, WrapIsModular
  <2>4. CASE Instr.op = "Sub"
    <3>1. c = Wrap(Left - Right)
      BY <1>3, <2>4, ComputedValue DEF ArithmeticResult
    <3> QED
      BY <2>2, <2>4, <3>1, WrapIsModular
  <2>5. CASE Instr.op = "Mul"
    <3>1. c = Wrap(Left * Right)
      BY <1>3, <2>5, ComputedValue DEF ArithmeticResult
    <3> QED
      BY <2>2, <2>5, <3>1, WrapIsModular
  <2>6. CASE Instr.op = "Div"
    <3>1. Right # 0 /\ c = Quotient(Left, Right)
      BY <1>3, <2>6, ComputedValue
    <3> QED
      BY <2>1, <2>6, <3>1, QuotientIsTruncated
  <2>7. Instr.op \in {"Add", "Sub", "Mul", "Div"}
    BY DEF Computes, ArithmeticOps
  <2> QED
    BY <2>3, <2>4, <2>5, <2>6, <2>7
<1>4. Inv /\ [MachineNext]_machineVars => [Modular]_machineVars
  BY <1>3
<1> QED
  BY <1>1, <1>2, <1>4, PTL DEF MachineSpec, ArithmeticIsModular

-------------------------------------------------------------------------------
(* A machine for what compiles                                                  *)

\* The machine has its compiled program, or is still blank.
Handover ==
  /\ allocated \in BOOLEAN
  /\ allocated => stage = "compiled" /\ program = instructions
  /\ ~ allocated =>
       /\ program = <<>> /\ program_counter = 0
       /\ error = NoError /\ panicked = NoPanic /\ result = NoResult

GInv == CInv /\ FInv /\ DInv /\ Inv /\ Handover

-------------------------------------------------------------------------------
(* The program a machine is allocated for                                       *)

\* An instruction names the registers and stacks of the statement it comes from.
LEMMA SameOperands ==
  ASSUME NEW s \in Statement, ~ IsLabel(s), NEW k, NEW value, CompilesTo(k, s, value)
  PROVE  /\ RegistersNamed(value) = RegistersNamed(s)
         /\ StacksNamed(value) = StacksNamed(s)
         /\ WritesChecked(s) => WritesChecked(value)
<1>1. CASE ~ IsJump(s)
  BY <1>1 DEF CompilesTo
<1>2. CASE IsJump(s)
  <2>1. value.op = s.op /\ (s.op \in ConditionalJumps => value.src = s.src)
    BY <1>2 DEF CompilesTo, IsJump, JumpOps, ConditionalJumps
  <2>2. /\ ~ HasDst(s.op) /\ s.op \notin ArithmeticOps /\ s.op \notin {"Push", "Pop", "Cmp"}
        /\ ReadsSrc(s.op) => s.op \in ConditionalJumps
    BY <1>2 DEF IsJump, JumpOps, ConditionalJumps, HasDst, ArithmeticOps, ReadsSrc
  <2>3. Sources(value) = Sources(s)
    BY <2>1, <2>2 DEF Sources
  <2>4. RegistersRead(value) = RegistersRead(s)
    BY <2>1, <2>2, <2>3 DEF RegistersRead
  <2> QED
    BY <2>1, <2>2, <2>4 DEF RegistersNamed, StacksNamed, WritesChecked
<1> QED
  BY <1>1, <1>2

\* A statement without faults can run on the hardware it was validated for.
LEMMA FaultlessStatement ==
  ASSUME CompileTypeOK, NEW p \in DOMAIN body, Faults(p) = {}
  PROVE  OperandsExist(body[p], hardware_spec) /\ WritesChecked(body[p])
<1> DEFINE s == body[p]
<1>1. s \in Statement /\ hardware_spec.num_stacks \in Nat
  BY DEF CompileTypeOK, HardwareSpec
<1>2. "InvalidRegisterRef" \notin Faults(p) /\ "InvalidStackRef" \notin Faults(p)
      /\ "UnwritableRegister" \notin Faults(p)
  OBVIOUS
<1>3. \A reg \in RegistersNamed(s) : RegisterExists(reg, hardware_spec)
  BY <1>2 DEF Faults, MissingRegister, RegisterExists
<1>4. \A n \in StacksNamed(s) : ~ n >= hardware_spec.num_stacks
  BY <1>2 DEF Faults
<1>5. \A n \in StacksNamed(s) : n \in Nat
  BY <1>1, StatementParts, OperatorParts DEF StacksNamed, IsLabel, IsJump, JumpOps, ConditionalJumps
<1>6. WritesChecked(s)
  BY <1>2 DEF Faults, WritesChecked
<1> QED
  BY <1>1, <1>3, <1>4, <1>5, <1>6 DEF OperandsExist

LEMMA CompiledProgram ==
  ASSUME CInv, FInv, DInv, stage = "compiled"
  PROVE  WellFormed(instructions, hardware_spec)
<1>1. /\ CompileTypeOK /\ body \in Seq(Statement) /\ instructions \in Seq(InstructionNode)
      /\ Len(instructions) = Count(Len(body))
  BY DEF CInv, CompileTypeOK, DInv, InstructionsCount
<1>2. ASSUME NEW k \in DOMAIN instructions
      PROVE  /\ OperandsExist(instructions[k].value, hardware_spec)
             /\ WritesChecked(instructions[k].value)
  <2> DEFINE p == instructions[k].span
             value == instructions[k].value
  <2>1. p \in DOMAIN body /\ ~ IsLabel(body[p]) /\ CompilesTo(k, body[p], value)
    BY DEF DInv, InstructionsCount, InstructionPositions, LabelPositions
  <2>2. Faults(p) = {}
    BY <2>1, NoFaults DEF Validated
  <2>3. OperandsExist(body[p], hardware_spec) /\ WritesChecked(body[p])
    BY <1>1, <2>1, <2>2, FaultlessStatement
  <2>4. body[p] \in Statement
    BY <1>1, <2>1
  <2> HIDE DEF p, value
  <2>5. /\ RegistersNamed(value) = RegistersNamed(body[p])
        /\ StacksNamed(value) = StacksNamed(body[p]) /\ WritesChecked(value)
    BY <2>1, <2>3, <2>4, SameOperands
  <2>6. OperandsExist(value, hardware_spec) /\ WritesChecked(value)
    BY <2>3, <2>5 DEF OperandsExist
  <2> QED
    BY <2>6 DEF value
<1>3. ASSUME NEW k \in DOMAIN instructions, IsJump(instructions[k].value)
      PROVE  k - 1 + instructions[k].value.offset \in 0 .. Len(instructions)
  <2> DEFINE target == k + instructions[k].value.offset
  <2>1. PICK p \in LabelPositions :
          LET below == {q \in InstructionPositions : q > p}
          IN  IF below = {} THEN target = Len(instructions) + 1
              ELSE target \in DOMAIN instructions
    BY <1>3, JumpsOfInvariant DEF JumpsReachTheirLabels
  <2>2. target \in 1 .. Len(instructions) + 1
    BY <1>1, <2>1
  <2>3. k \in Int /\ instructions[k].value.offset \in Int
    <3>1. k \in Int /\ instructions[k] \in InstructionNode
      BY <1>1
    <3>2. instructions[k].value \in Instruction
      BY <3>1 DEF InstructionNode
    <3> QED
      BY <1>3, <3>1, <3>2, InstructionParts DEF IsJump
  <2> QED
    BY <1>1, <2>2, <2>3
<1> QED
  BY <1>1, <1>2, <1>3 DEF WellFormed, JumpsInside

-------------------------------------------------------------------------------
(* The invariant                                                                *)

LEMMA InitGInv ==
  ASSUME Init
  PROVE  GInv
<1>1. CInv /\ FInv /\ DInv
  BY InitUnstarted, InitCInv, InitFInv, InitDInv DEF Init
<1>2. Inv
  <2>1. hardware_spec \in HardwareSpec
    BY <1>1 DEF CInv, CompileTypeOK
  <2>2. program_spec.input \in Seq(LangValue) /\ program_spec.expected_output \in Seq(LangValue)
    BY ProgramSpecAssumption DEF Init, ProgramSpec
  <2>3. <<>> \in Seq(InstructionNode) /\ WellFormed(<<>>, hardware_spec)
    BY DEF WellFormed, JumpsInside
  <2>4. New(hardware_spec, <<>>, program_spec.input, program_spec.expected_output)
    BY DEF Init
  <2> QED
    BY <2>1, <2>2, <2>3, <2>4, NewInv
<1>3. Handover
  BY DEF Init, New, Handover
<1> QED
  BY <1>1, <1>2, <1>3 DEF GInv

\* Every step is one of the compiler, one of the machine, or the handover.
LEMMA StepKinds ==
  ASSUME [Next]_vars
  PROVE  \/ /\ CompileNext /\ UNCHANGED <<machineVars, program_spec, allocated>>
         \/ Allocate
         \/ allocated /\ MachineNext /\ UNCHANGED <<compileVars, program_spec, allocated>>
         \/ UNCHANGED vars
<1>1. ASSUME CompileNext PROVE UNCHANGED hardware_spec
  BY <1>1 DEF CompileNext, CollectLabel, LabelsCollected, ValidateStatement, Reject, Accept,
              MapLabel, LabelsMapped, MapStatement, StatementsMapped, Iterate, NextStage
<1>2. ASSUME MachineNext PROVE UNCHANGED hardware_spec
  BY <1>2 DEF MachineNext, ExecuteNext, CallExecuteAll, LoopReturns, Dead, machineVars, static
<1>3. CASE CompileStep
  BY <1>1, <1>3 DEF CompileStep, machineOnly, machineVars, static
<1>4. CASE MachineStep
  BY <1>2, <1>4 DEF MachineStep, compileOnly, compileVars
<1> QED
  BY <1>3, <1>4 DEF Next

LEMMA AllocateInv ==
  ASSUME GInv, Allocate
  PROVE  Inv'
<1>1. /\ program' = instructions /\ program_counter' = 0 /\ error = NoError
      /\ UNCHANGED <<hardware_spec, expected_output, input, output, registers, stacks,
                     program_counter, cycle_count, error, panicked, looping, result>>
  BY DEF Allocate, GInv, Handover, data
<1>2. WellFormed(instructions, hardware_spec)
  BY CompiledProgram DEF Allocate, GInv
<1>3. WellFormed(program, hardware_spec)' /\ program' \in Seq(InstructionNode)
  BY <1>1, <1>2 DEF WellFormed, JumpsInside, OperandsExist, RegisterExists
<1>4. TypeOK'
  BY <1>1, <1>3 DEF GInv, Inv, TypeOK
<1>5. PcInProgram' /\ StackCapacity'
  BY <1>1, <1>3 DEF GInv, Inv, PcInProgram, StackCapacity
<1>6. CycleBudget'
  BY <1>1 DEF GInv, Inv, CycleBudget, NoError
<1> QED
  BY <1>3, <1>4, <1>5, <1>6 DEF Inv

LEMMA NextGInv ==
  ASSUME GInv, [Next]_vars
  PROVE  GInv'
<1>1. CASE CompileNext /\ UNCHANGED <<machineVars, program_spec, allocated>>
  <2>1. CInv' /\ FInv' /\ DInv' /\ Inv'
    BY <1>1, NextCInv, NextFInv, NextDInv, NextInv DEF GInv
  <2>2. ~ allocated
    <3>1. stage # "compiled"
      BY <1>1 DEF CompileNext, CollectLabel, LabelsCollected, ValidateStatement, Reject, Accept,
                  MapLabel, LabelsMapped, MapStatement, StatementsMapped, Iterate, NextStage
    <3> QED
      BY <3>1 DEF GInv, Handover
  <2>3. Handover'
    BY <1>1, <2>2 DEF GInv, Handover, machineVars, static
  <2> QED
    BY <2>1, <2>3 DEF GInv
<1>2. CASE Allocate
  <2>1. UNCHANGED compileVars /\ Inv'
    BY <1>2, AllocateInv DEF Allocate, compileVars, compileOnly
  <2>2. CInv' /\ FInv' /\ DInv'
    BY <2>1, NextCInv, NextFInv, NextDInv DEF GInv
  <2>3. Handover'
    BY <1>2 DEF Allocate, Handover, compileOnly
  <2> QED
    BY <2>1, <2>2, <2>3 DEF GInv
<1>3. CASE allocated /\ MachineNext /\ UNCHANGED <<compileVars, program_spec, allocated>>
  <2>1. CInv' /\ FInv' /\ DInv' /\ Inv'
    BY <1>3, NextCInv, NextFInv, NextDInv, NextInv DEF GInv
  <2>2. UNCHANGED program
    BY <1>3 DEF MachineNext, ExecuteNext, CallExecuteAll, LoopReturns, Dead, machineVars, static
  <2>3. Handover'
    BY <1>3, <2>2 DEF GInv, Handover, compileVars
  <2> QED
    BY <2>1, <2>3 DEF GInv
<1>4. CASE UNCHANGED vars
  <2>1. UNCHANGED compileVars /\ UNCHANGED machineVars
    BY <1>4 DEF vars
  <2>2. CInv' /\ FInv' /\ DInv' /\ Inv'
    BY <2>1, NextCInv, NextFInv, NextDInv, NextInv DEF GInv
  <2>3. Handover'
    BY <1>4 DEF GInv, Handover, vars, compileVars, machineVars, static
  <2> QED
    BY <2>2, <2>3 DEF GInv
<1> QED
  BY <1>1, <1>2, <1>3, <1>4, StepKinds

\* Whatever source compiles, the machine gets a program that only names registers and
\* stacks of its hardware, writes writable ones but for POP's, and jumps inside itself
\* ("should be validated at build time", machine.rs:132-134); nothing replaces it.
THEOREM CompilingIsEnough == Spec => []CompiledIsWellFormed
<1>1. GInv => CompiledIsWellFormed
  BY DEF GInv, Handover, Inv, CompiledIsWellFormed
<1> QED
  BY InitGInv, NextGInv, <1>1, PTL DEF Spec

-------------------------------------------------------------------------------
(* The machine's safety, of every source                                        *)

\* The safety theorems of Machine hold with its assumption on the program discharged
\* by the compiler: for every source, hardware and program spec the counter and the
\* stacks stay in bounds, an error describes the machine it stopped, the thread dies
\* for one of three reasons only, and execute_all's verdict stands.
THEOREM EverySourceRunsSafely ==
  Spec => [](StaysInside /\ ErrorExplained /\ PanicExplained /\ ExecuteAllVerdict)
<1> DEFINE Explained == panicked = NoPanic \/ PanicExplained
           Safe == ErrorExplained /\ Explained /\ ExecuteAllVerdict
<1>1. Init => GInv /\ Safe
  <2>1. Init => error = NoError /\ panicked = NoPanic /\ result = NoResult
    BY DEF Init, New
  <2> QED
    BY <2>1, InitGInv DEF ErrorExplained, ExecuteAllVerdict, NoResult
<1>2. GInv /\ Safe /\ [Next]_vars => GInv' /\ Safe'
  <2> SUFFICES ASSUME GInv, Safe, [Next]_vars
               PROVE  Safe'
    BY NextGInv
  <2>1. CASE Allocate
    <3>1. UNCHANGED <<error, panicked, result>>
      BY <2>1 DEF Allocate
    <3>2. error = NoError /\ panicked = NoPanic /\ result = NoResult
      BY <2>1 DEF Allocate, GInv, Handover
    <3> QED
      BY <3>1, <3>2 DEF ErrorExplained, ExecuteAllVerdict, NoResult
  <2>2. CASE ~ Allocate
    <3>1. [MachineNext]_machineVars
      BY <2>2, StepKinds DEF vars
    <3> QED
      BY <3>1, ErrorExplainedStep, PanicExplainedStep, VerdictStep DEF GInv
  <2> QED
    BY <2>1, <2>2
<1>3. GInv /\ Safe => StaysInside /\ ErrorExplained /\ PanicExplained /\ ExecuteAllVerdict
  BY DEF GInv, Inv, StaysInside, PanicExplained, NoPanic
<1> QED
  BY <1>1, <1>2, <1>3, PTL DEF Spec

-------------------------------------------------------------------------------
(* Positions of the source and indices of the program                          *)

\* The position that index n of the compiled program stands for.
SpanOf(n) == IF n < Len(instructions) THEN instructions[n + 1].span ELSE Len(body) + 1

\* The next instruction is that of the first statement, from here on, that does
\* something: labels take no index.
LEMMA PositionIsNext ==
  ASSUME CInv, DInv, stage = "compiled", NEW q \in Nat, q <= Len(body)
  PROVE  SpanOf(Count(q)) = Source!StatementFrom(q + 1)
<1> DEFINE below == {r \in q + 1 .. Len(body) : ~ Source!IsLabel(body[r])}
           n == Count(q)
<1>1. /\ body \in Seq(Statement) /\ instructions \in Seq(InstructionNode)
      /\ Len(instructions) = Count(Len(body)) /\ Len(body) \in Nat
  BY DEF CInv, CompileTypeOK, DInv, InstructionsCount
<1>2. n \in Nat /\ n <= Len(instructions)
  BY <1>1, CountFacts, CountGrows
<1>3. below = {r \in InstructionPositions : r > q}
  BY <1>1 DEF InstructionPositions, LabelPositions, Source!IsLabel, IsLabel
<1>4. \A r \in below : r \in Nat /\ r \in InstructionPositions /\ Count(r) \in Nat /\ n < Count(r)
  <2> SUFFICES ASSUME NEW r \in below
               PROVE  r \in Nat /\ r \in InstructionPositions /\ Count(r) \in Nat /\ n < Count(r)
    OBVIOUS
  <2>1. r \in InstructionPositions /\ r > q
    BY <1>3
  <2>2. r \in Nat /\ q <= r /\ q < r
    BY <1>1, <2>1 DEF InstructionPositions
  <2> QED
    BY <1>1, <2>1, <2>2, CountFacts, CountGrows
<1> HIDE DEF below
<1>5. CASE n < Len(instructions)
  <2> DEFINE s == instructions[n + 1].span
  <2>1. s \in InstructionPositions /\ Count(s) = n + 1
    BY <1>1, <1>2, <1>5 DEF DInv, InstructionsCount
  <2>2. s \in Nat
    BY <1>1, <2>1 DEF InstructionPositions
  <2> HIDE DEF s
  <2>3. ~ s <= q
    BY <1>1, <1>2, <2>1, <2>2, CountGrows
  <2>4. s \in below
    BY <1>3, <2>1, <2>2, <2>3
  <2>5. ASSUME NEW r \in below, ~ s <= r PROVE FALSE
    <3>1. r \in Nat /\ r < s
      BY <1>4, <2>2, <2>5
    <3>2. Count(r) < Count(s)
      BY <1>1, <2>1, <2>2, <3>1, CountGrows
    <3> QED
      BY <1>2, <1>4, <2>1, <2>5, <3>2
  <2>6. Source!Least(below) = s
    <3>1. \A p \in below : (\A r \in below : p <= r) => p = s
      BY <1>4, <2>2, <2>4, <2>5
    <3> QED
      BY <2>4, <2>5, <3>1 DEF Source!Least
  <2>7. Source!StatementFrom(q + 1) = s
    BY <2>4, <2>6 DEF Source!StatementFrom, below
  <2> QED
    BY <1>5, <2>7 DEF SpanOf, s
<1>6. CASE n = Len(instructions)
  <2>1. below = {}
    <3> SUFFICES ASSUME NEW r \in below PROVE FALSE
      OBVIOUS
    <3>1. r <= Len(body)
      BY DEF below
    <3>2. Count(r) <= Count(Len(body))
      BY <1>1, <1>4, <3>1, CountGrows
    <3> QED
      BY <1>1, <1>2, <1>4, <1>6, <3>2
  <2>2. Source!StatementFrom(q + 1) = Len(body) + 1
    BY <2>1 DEF Source!StatementFrom, below
  <2> QED
    BY <1>2, <1>6, <2>2 DEF SpanOf
<1> QED
  BY <1>1, <1>2, <1>5, <1>6

\* What is known of the statement under the position, and of its instruction.
LEMMA CurrentStatement ==
  ASSUME GInv, allocated, Ready
  PROVE  LET s == Source!Current IN
         /\ Position \in InstructionPositions /\ Position \in DOMAIN body
         /\ Position = Node.span /\ Count(Position) = program_counter + 1
         /\ s = body[Position] /\ s \in Statement /\ ~ IsLabel(s)
         /\ CompilesTo(program_counter + 1, s, Instr)
         /\ s.op = Instr.op
         /\ ~ IsJump(s) => Instr = s
         /\ s.op \in ConditionalJumps => Instr.src = s.src
         /\ RegistersRead(s) = RegistersRead(Instr)
<1> DEFINE s == Source!Current
           k == program_counter + 1
<1>1. /\ program = instructions /\ program_counter \in 0 .. Len(program) - 1
      /\ k \in DOMAIN instructions /\ Len(instructions) \in Nat
      /\ body \in Seq(Statement) /\ stage = "compiled"
  BY NodeFacts DEF GInv, Handover, CInv, CompileTypeOK
<1>2. Position = Node.span
  BY <1>1 DEF Position, PositionOf, Node
<1>3. /\ Position \in InstructionPositions /\ Count(Position) = k
      /\ CompilesTo(k, body[Position], Instr)
  BY <1>1, <1>2 DEF GInv, DInv, InstructionsCount, Node, Instr
<1>4. Position \in DOMAIN body /\ s = body[Position] /\ s \in Statement /\ ~ IsLabel(s)
  BY <1>1, <1>3 DEF InstructionPositions, LabelPositions, Source!Current
<1>5. s.op = Instr.op /\ (s.op \in ConditionalJumps => Instr.src = s.src)
      /\ (~ IsJump(s) => Instr = s)
  BY <1>3, <1>4 DEF CompilesTo, IsJump, JumpOps, ConditionalJumps
<1>6. RegistersRead(s) = RegistersRead(Instr)
  <2>1. CASE ~ IsJump(s)
    BY <1>5, <2>1
  <2>2. CASE IsJump(s)
    <3>1. /\ s.op \notin ArithmeticOps /\ s.op # "Cmp"
          /\ ReadsSrc(s.op) => s.op \in ConditionalJumps
      BY <2>2 DEF IsJump, JumpOps, ConditionalJumps, ArithmeticOps, ReadsSrc
    <3>2. Sources(s) = Sources(Instr)
      BY <1>5, <3>1 DEF Sources
    <3> QED
      BY <1>5, <3>1, <3>2 DEF RegistersRead
  <2> QED
    BY <2>1, <2>2
<1> QED
  BY <1>2, <1>3, <1>4, <1>5, <1>6

-------------------------------------------------------------------------------
(* Values: the two machines read and compute the same                          *)

LEMMA SameValues ==
  /\ \A reg : Source!Contents(reg) = GetReg(reg)
  /\ \A src : Source!Operand(src) = GetVal(src)
<1>1. \A reg : Source!Contents(reg) = GetReg(reg)
  BY DEF Source!Contents, GetReg
<1> QED
  BY <1>1 DEF Source!Operand, GetVal

LEMMA SameVocabulary ==
  /\ Source!LangValue = LangValue /\ Source!MinValue = MinValue
  /\ \A n : Source!Magnitude(n) = Magnitude(n)
  /\ \A s : Source!IsLabel(s) = IsLabel(s) /\ Source!IsJump(s) = IsJump(s)
  /\ \A s : Source!RegistersRead(s) = RegistersRead(s)
  /\ \A reg : Source!Writable(reg) = Writable(reg)
  /\ Source!ArithmeticOps = ArithmeticOps /\ Source!NoError = NoError
<1>1. /\ Source!LangValue = LangValue /\ Source!MinValue = MinValue
      /\ Source!ArithmeticOps = ArithmeticOps /\ Source!NoError = NoError
      /\ Source!JumpOps = JumpOps /\ Source!ConditionalJumps = ConditionalJumps
  BY DEF Source!LangValue, Source!MinValue, LangValue, MinValue, Source!ArithmeticOps,
         ArithmeticOps, Source!NoError, NoError, Source!JumpOps, JumpOps,
         Source!ConditionalJumps, ConditionalJumps
<1>2. /\ \A n : Source!Magnitude(n) = Magnitude(n)
      /\ \A s : Source!IsLabel(s) = IsLabel(s) /\ Source!IsJump(s) = IsJump(s)
      /\ \A reg : Source!Writable(reg) = Writable(reg)
  BY <1>1 DEF Source!Magnitude, Magnitude, Source!IsLabel, IsLabel, Source!IsJump, IsJump,
              Source!Writable, Writable
<1>3. \A op : Source!ReadsSrc(op) = ReadsSrc(op)
  BY <1>1 DEF Source!ReadsSrc, ReadsSrc
<1>4. \A s : Source!Sources(s) = Sources(s)
  BY <1>3 DEF Source!Sources, Sources
<1>5. \A s : Source!RegistersRead(s) = RegistersRead(s)
  BY <1>1, <1>4 DEF Source!RegistersRead, RegistersRead
<1> QED
  BY <1>1, <1>2, <1>5

LEMMA SameSums ==
  ASSUME NEW n \in Int
  PROVE  Source!Modulo(n) = Wrap(n)
<1> DEFINE w == 2 * MaxValue + 2
<1>1. w \in Nat /\ w >= 1 /\ Wrap(n) \in LangValue /\ (Wrap(n) - n) % w = 0
  BY WrapInRange, WrapIsModular, RangeFacts
<1>2. ASSUME NEW v \in LangValue, (v - n) % w = 0
      PROVE  v = Wrap(n)
  <2>1. v \in Int /\ Wrap(n) \in Int /\ v - n \in Int /\ Wrap(n) - n \in Int
    BY <1>1, RangeFacts
  <2>2. -w < (v - n) - (Wrap(n) - n) /\ (v - n) - (Wrap(n) - n) < w
    BY <1>1, <2>1, RangeFacts
  <2>3. v - n = Wrap(n) - n
    BY ONLY <1>1, <1>2, <2>1, <2>2, ResidueIsUnique
  <2> QED
    BY <2>1, <2>3
<1> QED
  BY <1>1, <1>2, SameVocabulary DEF Source!Modulo

LEMMA SameQuotients ==
  ASSUME NEW a \in LangValue, NEW b \in LangValue, b # 0, ~ (b = -1 /\ a = MinValue)
  PROVE  Source!Divided(a, b) = Quotient(a, b)
<1> DEFINE Fits(q) == LET r == a - q * b
                      IN  Magnitude(r) < Magnitude(b) /\ (r = 0 \/ (r < 0 <=> a < 0))
<1>1. /\ a \in Int /\ b \in Int /\ Quotient(a, b) \in MinValue .. MaxValue + 1
      /\ MinValue \in Int /\ MaxValue \in Int
  BY QuotientInRange, RangeFacts
<1>2. \A q \in Int : q * b = b * q
  BY <1>1, SMT
<1>3. Fits(Quotient(a, b))
  <2>1. Quotient(a, b) * b = b * Quotient(a, b)
    BY <1>1, <1>2
  <2> QED
    BY <1>1, <2>1, QuotientIsTruncated
<1>4. ASSUME NEW q \in MinValue .. MaxValue + 1, Fits(q)
      PROVE  q = Quotient(a, b)
  <2>1. q \in Int /\ q * b = b * q
    BY <1>1, <1>2
  <2> QED
    BY <1>1, <1>4, <2>1, QuotientIsUnique
<1>5. Source!Divided(a, b) = CHOOSE q \in MinValue .. MaxValue + 1 : Fits(q)
  BY SameVocabulary DEF Source!Divided
<1> HIDE DEF Fits
<1> QED
  BY <1>1, <1>3, <1>4, <1>5

LEMMA SameOrder ==
  ASSUME NEW a \in LangValue, NEW b \in LangValue
  PROVE  Source!Compared(a, b) = Ordering(a, b)
<1> DEFINE Fits(s) == s * Magnitude(a - b) = a - b /\ (s = 0 <=> a = b)
<1>1. a \in Int /\ b \in Int /\ Ordering(a, b) \in {-1, 0, 1}
  BY RangeFacts DEF Ordering
<1>2. \A s \in {-1, 0, 1} : Fits(s) <=> s = Ordering(a, b)
  BY <1>1, SMT DEF Ordering, Magnitude
<1>3. Source!Compared(a, b) = CHOOSE s \in {-1, 0, 1} : Fits(s)
  BY SameVocabulary DEF Source!Compared
<1> HIDE DEF Fits
<1> QED
  BY <1>1, <1>2, <1>3

-------------------------------------------------------------------------------
(* Steps                                                                        *)

\* Where a step of the compiled program arrives.
LEMMA Arrival ==
  ASSUME allocated', program' = instructions, UNCHANGED body
  PROVE  Position' = SpanOf(program_counter')
BY DEF Position, PositionOf, SpanOf

LEMMA StartStep ==
  ASSUME GInv, Allocate
  PROVE  Source!Start
<1>1. /\ Position = 0 /\ allocated' /\ program' = instructions /\ program_counter' = 0
      /\ stage = "compiled" /\ body \in Seq(Statement)
      /\ UNCHANGED <<hardware_spec, body, input, output, registers, stacks, cycle_count,
                     error, panicked>>
  BY DEF Allocate, GInv, Handover, Position, CInv, CompileTypeOK, compileOnly, data
<1>2. Count(0) = 0 /\ 0 \in Nat /\ 0 <= Len(body)
  BY <1>1, CountFacts
<1>3. Position' = Source!StatementFrom(0 + 1)
  BY <1>1, <1>2, Arrival, PositionIsNext DEF GInv
<1> QED
  BY <1>1, <1>3 DEF Source!Start

\* The compiler's variables and the program, during a step of the machine.
Settled == allocated /\ UNCHANGED <<compileVars, static, allocated>>

LEMMA SettledFacts ==
  ASSUME GInv, Settled
  PROVE  /\ allocated' /\ program = instructions /\ program' = instructions
         /\ stage = "compiled" /\ UNCHANGED <<hardware_spec, body, program>>
         /\ Position' = SpanOf(program_counter')
<1>1. /\ allocated' /\ program = instructions /\ program' = instructions
      /\ stage = "compiled" /\ UNCHANGED <<hardware_spec, body, program>>
  BY DEF GInv, Handover, Settled, compileVars, static
<1> QED
  BY <1>1, Arrival

\* A step that leaves the counter alone leaves the position alone.
LEMMA SamePosition ==
  ASSUME GInv, Settled, UNCHANGED program_counter
  PROVE  UNCHANGED Position
<1>1. UNCHANGED <<allocated, program, body>>
  BY SettledFacts DEF Settled
<1> QED
  BY <1>1 DEF Position, PositionOf

LEMMA NextPosition ==
  ASSUME GInv, Settled, Ready, program_counter' = program_counter + 1
  PROVE  Position' = Source!StatementFrom(Position + 1)
<1>1. Position \in DOMAIN body /\ Count(Position) = program_counter + 1
  BY CurrentStatement DEF Settled
<1>2. Position \in Nat /\ Position <= Len(body)
  BY <1>1 DEF GInv, CInv, CompileTypeOK
<1> QED
  BY <1>1, <1>2, SettledFacts, PositionIsNext DEF GInv

\* A label is declared once, and a jump's offset leads to the first statement below it.
LEMMA JumpPosition ==
  ASSUME GInv, Settled, Ready, IsJump(Instr), program_counter' = program_counter + Instr.offset
  PROVE  Position' = Source!StatementFrom(Source!LabelPosition(Source!Current.label))
<1> DEFINE s == Source!Current
<1>1. /\ s = body[Position] /\ Position \in DOMAIN body /\ IsJump(s)
      /\ CompilesTo(program_counter + 1, s, Instr)
      /\ program_counter \in Nat /\ stage = "compiled" /\ body \in Seq(Statement)
  BY CurrentStatement, SettledFacts, NodeFacts DEF Settled, IsJump, GInv, CInv, CompileTypeOK
<1>2. s.label \in DOMAIN label_map
  <2>1. s.label \in DOMAIN labels
    BY <1>1 DEF GInv, CInv, JumpsKnown, Validated
  <2> QED
    BY <1>1, <2>1 DEF GInv, CInv, FirstDeclarations, MappedLabels
<1>3. PICK p \in LabelPositions : body[p].label = s.label /\ label_map[s.label] = Count(p)
  BY <1>2 DEF GInv, DInv, LabelsCount
<1>4. Source!LabelPosition(s.label) = p
  <2>1. \A q \in DOMAIN body : IsLabel(body[q]) /\ body[q].label = s.label => q = p
    <3> SUFFICES ASSUME NEW q \in LabelPositions, body[q].label = body[p].label, q # p
                 PROVE  FALSE
      BY <1>3 DEF LabelPositions
    <3>1. p \in DOMAIN body /\ q \in DOMAIN body /\ p \in Nat /\ q \in Nat
      BY <1>1 DEF LabelPositions
    <3>2. Faults(p) = {} /\ Faults(q) = {}
      BY <1>1, <3>1, NoFaults DEF GInv, Validated
    <3>3. "DuplicateLabel" \notin Faults(p) /\ "DuplicateLabel" \notin Faults(q)
      BY <3>2
    <3>4. p \notin Duplicates /\ q \notin Duplicates
      BY <3>3 DEF Faults
    <3> QED
      BY <3>1, <3>4 DEF Duplicates
  <2>2. p \in DOMAIN body /\ IsLabel(body[p])
    BY <1>3 DEF LabelPositions
  <2> QED
    BY <1>3, <2>1, <2>2, SameVocabulary DEF Source!LabelPosition
<1>5. /\ p - 1 \in Nat /\ p - 1 <= Len(body) /\ p \in Nat /\ (p - 1) + 1 = p
      /\ p \notin InstructionPositions
  BY <1>1 DEF LabelPositions, InstructionPositions
<1>6. Count(p) = Count(p - 1) /\ Count(p) \in Nat
  BY <1>1, <1>5, CountFacts
<1>7. program_counter' = Count(p - 1)
  <2>1. Instr.offset = Count(p) - program_counter
    BY <1>1, <1>3, <1>6 DEF CompilesTo, IsJump, JumpOps, ConditionalJumps
  <2> QED
    BY <1>1, <1>6, <2>1
<1>8. SpanOf(Count(p - 1)) = Source!StatementFrom((p - 1) + 1)
  BY <1>1, <1>5, PositionIsNext DEF GInv
<1> QED
  BY <1>4, <1>5, <1>7, <1>8, SettledFacts

\* The statement under the position is the one to run.
LEMMA ActiveFacts ==
  ASSUME GInv, allocated, Alive, Ready
  PROVE  /\ Source!Active
         /\ error = NoError /\ panicked = NoPanic /\ cycle_count \in Nat
BY CurrentStatement, SameVocabulary
   DEF Source!Active, Ready, Alive, GInv, Inv, TypeOK

LEMMA ExecuteKinds ==
  ASSUME Execute
  PROVE  Begin \/ OutOfCycles
BY DEF Execute, ReadInstr, WriteInstr, SetInstr, ArithmeticInstr, DivInstr, CmpInstr,
       PushInstr, PopInstr, JumpInstr, LengthInstr, Fetch

\* An instruction fails for the cause its statement has.
LEMMA FailStep ==
  ASSUME GInv, Settled, Alive, Execute, error' # error
  PROVE  Source!FailStatement \/ Source!OutOfBudget
<1> DEFINE s == Source!Current
<1>0. /\ UNCHANGED <<hardware_spec, body>>
      /\ allocated /\ Inv
  BY SettledFacts DEF Settled, GInv
<1>1. CASE FailsWith("TooManyCycles", 0)
  <2>1. Ready /\ Fail("TooManyCycles") /\ cycle_count' = cycle_count
    <3>1. cycle_count \in Nat
      BY <1>0 DEF Inv, TypeOK
    <3> QED
      BY <1>1, <3>1 DEF FailsWith
  <2>2. cycle_count = MAX_CYCLE_COUNT
    <3>1. ~ Begin
      BY <1>0, <2>1 DEF Begin, Inv, TypeOK
    <3> QED
      BY <1>0, <3>1, ExecuteKinds, CycleAssumption DEF OutOfCycles, Inv, TypeOK, CycleBudget
  <2>3. Source!Stop("TooManyCycles")
    BY <1>0, <2>1, CurrentStatement, SamePosition DEF Fail, Source!Stop, data
  <2>4. Source!Active
    BY <1>0, <2>1, ActiveFacts
  <2> QED
    BY <2>1, <2>2, <2>3, <2>4 DEF Source!OutOfBudget
<1>2. ASSUME NEW kind \in ErrorKind \ {"TooManyCycles"}, FailsWith(kind, 1), Reason(kind)
      PROVE  Source!FailStatement
  <2>1. Ready /\ Fail(kind) /\ cycle_count' = cycle_count + 1
    BY <1>2 DEF FailsWith
  <2>2. cycle_count < MAX_CYCLE_COUNT
    BY <1>0, <2>1, ExecuteKinds DEF Begin, OutOfCycles, Inv, TypeOK
  <2>3. s = Instr
    <3>1. ~ IsJump(Instr) /\ s.op = Instr.op
      BY <1>0, <1>2, <2>1, CurrentStatement DEF Reason, IsJump, JumpOps, ConditionalJumps
    <3> QED
      BY <1>0, <2>1, <3>1, CurrentStatement DEF IsJump
  <2>4. Source!Cause(s) = kind
    BY <1>2, <2>3, SameValues DEF Reason, Source!Cause
  <2>5. Source!Stop(kind)
    BY <1>0, <2>1, CurrentStatement, SamePosition DEF Fail, Source!Stop, data
  <2>6. Source!Active /\ kind # "None"
    BY <1>0, <2>1, ActiveFacts DEF ErrorKind
  <2> QED
    BY <2>1, <2>2, <2>4, <2>5, <2>6 DEF Source!FailStatement
<1> QED
  BY <1>0, <1>1, <1>2, ErrorStep

\* A thread that dies does so on a statement the language cannot survive.
LEMMA BreakStep ==
  ASSUME GInv, Settled, Alive, Execute, panicked' # panicked
  PROVE  Source!Break
<1> DEFINE s == Source!Current
<1>0. UNCHANGED <<hardware_spec, body>> /\ allocated /\ Inv /\ panicked = NoPanic
  BY SettledFacts DEF Settled, GInv, Alive
<1>1. Ready
  BY <1>0, PanicStep
<1>2. /\ s.op = Instr.op /\ (~ IsJump(s) => Instr = s)
      /\ RegistersRead(s) = RegistersRead(Instr)
  BY <1>0, <1>1, CurrentStatement
<1>3. CASE LengthInstr
  <2>1. PICK reg \in RegistersRead(Instr) : GetReg(reg) \notin LangValue
    BY <1>3 DEF LengthInstr, ReadsFit
  <2>2. GetReg(reg) > MaxValue
    BY <1>0, <1>1, <2>1, NamedRegisters, RegisterValue
  <2> QED
    BY <1>0, <1>1, <1>2, <2>1, <2>2, ActiveFacts, SameValues, SameVocabulary
       DEF Source!Break, Source!Breaks
<1>4. CASE ~ LengthInstr
  <2>1. \/ Instr.op = "Pop" /\ ~ Writable(Instr.dst)
        \/ Instr.op = "Div" /\ GetReg(Instr.dst) = MinValue /\ GetVal(Instr.src) = -1
    <3>1. CASE panicked' = "LengthTooBig"
      BY <1>0, <1>4, <3>1
         DEF Execute, ReadInstr, WriteInstr, SetInstr, ArithmeticInstr, DivInstr, CmpInstr,
             PushInstr, PopInstr, JumpInstr, OutOfCycles, SetReg, Advance, Fail, Panic
    <3> QED
      BY <1>0, <3>1, PanicStep
  <2>2. s = Instr
    BY <1>2, <2>1 DEF IsJump, JumpOps, ConditionalJumps
  <2>3. Source!Breaks(s)
    BY <2>1, <2>2, SameValues, SameVocabulary DEF Source!Breaks
  <2> QED
    BY <1>0, <1>1, <2>3, ActiveFacts DEF Source!Break
<1> QED
  BY <1>3, <1>4

-------------------------------------------------------------------------------
(* Instructions that run                                                        *)

\* An instruction of the machine that neither fails nor kills the thread.
Ran == Settled /\ Alive /\ Begin /\ UNCHANGED <<error, panicked>>

LEMMA RanFacts ==
  ASSUME GInv, Ran
  PROVE  /\ Ready /\ allocated /\ Inv /\ error = NoError /\ panicked = NoPanic
         /\ UNCHANGED <<hardware_spec, body, error, panicked>>
         /\ cycle_count < MAX_CYCLE_COUNT /\ cycle_count' = cycle_count + 1
         /\ \A kind \in ErrorKind : ~ Fail(kind)
         /\ \A kind \in PanicKind : ~ Panic(kind)
<1>1. /\ Ready /\ allocated /\ Inv /\ error = NoError /\ panicked = NoPanic
      /\ UNCHANGED <<hardware_spec, body, error, panicked>>
      /\ cycle_count < MAX_CYCLE_COUNT /\ cycle_count' = cycle_count + 1
  BY SettledFacts DEF Ran, Settled, Begin, Ready, Alive, GInv
<1>2. \A kind \in ErrorKind : ~ Fail(kind)
  BY <1>1 DEF Fail, ErrorKind, NoError
<1>3. \A kind \in PanicKind : ~ Panic(kind)
  BY <1>1 DEF Panic, PanicKind, NoPanic
<1> QED
  BY <1>1, <1>2, <1>3

LEMMA RunStep ==
  ASSUME GInv, Ran,
         ~ Source!Breaks(Source!Current), Source!Cause(Source!Current) = "None",
         [input |-> input', output |-> output', registers |-> registers', stacks |-> stacks']
           = Source!Effect(Source!Current),
         Position' = Source!Successor(Source!Current)
  PROVE  Source!Run
BY RanFacts, ActiveFacts DEF Ran, Source!Run

\* Everything but a jump goes on to the next statement, whose instruction is the next.
LEMMA PlainSuccessor ==
  ASSUME GInv, Ran, ~ IsJump(Instr), program_counter' = program_counter + 1
  PROVE  Source!Current = Instr /\ Position' = Source!Successor(Source!Current)
<1>1. Ready /\ allocated /\ Settled
  BY RanFacts DEF Ran
<1>2. Source!Current.op = Instr.op /\ (~ IsJump(Source!Current) => Instr = Source!Current)
  BY <1>1, CurrentStatement
<1>3. Source!Current = Instr
  BY <1>2 DEF IsJump
<1>4. Position' = Source!StatementFrom(Position + 1)
  BY <1>1, NextPosition
<1> QED
  BY <1>3, <1>4, SameVocabulary DEF Source!Successor

LEMMA Unbroken ==
  ASSUME GInv, Ran, ReadsFit \/ Instr.op \in {"Read", "Pop"},
         Instr.op = "Pop" => Writable(Instr.dst),
         Instr.op = "Div" => ~ (GetReg(Instr.dst) = MinValue /\ GetVal(Instr.src) = -1)
  PROVE  ~ Source!Breaks(Source!Current)
<1> DEFINE s == Source!Current
<1>1. /\ s.op = Instr.op /\ (~ IsJump(s) => Instr = s)
      /\ RegistersRead(s) = RegistersRead(Instr)
  BY RanFacts, CurrentStatement
<1>2. s.op \in {"Pop", "Div"} => s = Instr
  BY <1>1 DEF IsJump, JumpOps, ConditionalJumps
<1>3. \A reg \in RegistersRead(s) : ~ GetReg(reg) > MaxValue
  <2>1. CASE ReadsFit
    BY <1>1, <2>1, RangeFacts DEF ReadsFit
  <2>2. CASE Instr.op \in {"Read", "Pop"}
    <3>1. RegistersRead(Instr) = {}
      BY <2>2 DEF RegistersRead, Sources, ReadsSrc, ArithmeticOps, ConditionalJumps
    <3> QED
      BY <1>1, <3>1
  <2> QED
    BY <2>1, <2>2
<1> HIDE DEF s
<1>4. ~ Source!Breaks(s)
  BY <1>1, <1>2, <1>3, SameValues, SameVocabulary DEF Source!Breaks
<1> QED
  BY <1>4 DEF s

\* set_reg, when the thread survives it, is what the source stores.
LEMMA Stored ==
  ASSUME GInv, Ran, NEW value, SetReg(Instr.dst, value), NEW in, NEW out, NEW st
  PROVE  /\ Source!Store([input |-> in, output |-> out, registers |-> registers, stacks |-> st],
                          Instr.dst, value)
              = [input |-> in, output |-> out, registers |-> registers', stacks |-> st]
         /\ program_counter' = program_counter + 1
         /\ Writable(Instr.dst)
<1>1. CASE /\ Instr.dst.kind = "Null" /\ UNCHANGED registers /\ Advance(1)
  BY <1>1 DEF Source!Store, Advance, Writable
<1>2. CASE /\ Instr.dst.kind = "User" /\ Advance(1)
           /\ registers' = [registers EXCEPT ![Instr.dst.id] = value]
  BY <1>2 DEF Source!Store, Advance, Writable
<1>3. ~ Panic("UnwritableRegister")
  BY RanFacts DEF PanicKind
<1> QED
  BY <1>1, <1>2, <1>3 DEF SetReg

LEMMA ReadRuns ==
  ASSUME GInv, Ran, ReadInstr
  PROVE  Source!Run
<1>1. Instr.op = "Read" /\ ~ IsJump(Instr) /\ ~ Fail("EmptyInput")
  BY RanFacts DEF ReadInstr, Fetch, IsJump, JumpOps, ConditionalJumps, ErrorKind
<1>2. /\ input # <<>> /\ input' = Tail(input) /\ SetReg(Instr.dst, Head(input))
      /\ UNCHANGED <<output, stacks>>
  BY <1>1 DEF ReadInstr
<1>3. /\ Source!Store([input |-> Tail(input), output |-> output, registers |-> registers,
                       stacks |-> stacks], Instr.dst, Head(input))
           = [input |-> Tail(input), output |-> output, registers |-> registers',
              stacks |-> stacks]
      /\ program_counter' = program_counter + 1
  BY <1>2, Stored
<1>4. Source!Current = Instr /\ Position' = Source!Successor(Source!Current)
  BY <1>1, <1>3, PlainSuccessor
<1>5. ~ Source!Breaks(Source!Current)
  BY <1>1, Unbroken
<1>6. Source!Cause(Instr) = "None"
  BY <1>1, <1>2 DEF Source!Cause
<1>7. Source!Effect(Instr) = Source!Store([input |-> Tail(input), output |-> output,
                       registers |-> registers, stacks |-> stacks], Instr.dst, Head(input))
  <2>1. \A in : [Source!Data EXCEPT !.input = in] = [input |-> in, output |-> output,
                                             registers |-> registers, stacks |-> stacks]
    BY DEF Source!Data
  <2>2. Source!Data.input = input
    BY DEF Source!Data
  <2>3. [Source!Data EXCEPT !.input = Tail(@)] = [input |-> Tail(input), output |-> output,
                                             registers |-> registers, stacks |-> stacks]
    BY <2>1, <2>2
  <2> QED
    BY <1>1, <2>3 DEF Source!Effect, Source!ArithmeticOps
<1> QED
  BY <1>2, <1>3, <1>4, <1>5, <1>6, <1>7, RunStep

LEMMA WriteRuns ==
  ASSUME GInv, Ran, WriteInstr
  PROVE  Source!Run
<1>1. Instr.op = "Write" /\ ~ IsJump(Instr) /\ ReadsFit /\ Ready /\ Inv
  BY RanFacts DEF WriteInstr, Fetch, IsJump, JumpOps, ConditionalJumps
<1>2. /\ output' = output \o <<GetVal(Instr.src)>>
      /\ UNCHANGED <<input, registers, stacks>> /\ program_counter' = program_counter + 1
  <2>1. GetVal(Instr.src) \in LangValue /\ output \in Seq(LangValue)
    BY <1>1, OperandValue DEF Sources, ReadsSrc, Inv, TypeOK
  <2> QED
    BY <2>1, AppendIsConcat DEF WriteInstr, Advance
<1>3. Source!Current = Instr /\ Position' = Source!Successor(Source!Current)
  BY <1>1, <1>2, PlainSuccessor
<1>4. ~ Source!Breaks(Source!Current)
  BY <1>1, Unbroken
<1>5. Source!Cause(Instr) = "None"
  BY <1>1 DEF Source!Cause
<1>6. Source!Effect(Instr) = [input |-> input, output |-> output \o <<GetVal(Instr.src)>>,
                              registers |-> registers, stacks |-> stacks]
  BY <1>1, SameValues DEF Source!Effect, Source!Data, Source!ArithmeticOps
<1> QED
  BY <1>2, <1>3, <1>4, <1>5, <1>6, RunStep

\* SET, the arithmetic and CMP: a value of the operands goes to a register.
LEMMA ComputingRuns ==
  ASSUME GInv, Ran, ReadsFit, Instr.op \in {"Set", "Cmp"} \cup ArithmeticOps, NEW value,
         SetReg(Instr.dst, value), UNCHANGED <<input, output, stacks>>,
         Source!Effect(Instr) = Source!Store(Source!Data, Instr.dst, value),
         Instr.op = "Div" =>
           /\ GetVal(Instr.src) # 0
           /\ ~ (GetReg(Instr.dst) = MinValue /\ GetVal(Instr.src) = -1)
  PROVE  Source!Run
<1>1. ~ IsJump(Instr) /\ Instr.op \notin {"Read", "Push", "Pop"}
  BY DEF IsJump, JumpOps, ConditionalJumps, ArithmeticOps
<1>2. /\ Source!Store(Source!Data, Instr.dst, value)
           = [input |-> input, output |-> output, registers |-> registers', stacks |-> stacks]
      /\ program_counter' = program_counter + 1
  BY Stored DEF Source!Data
<1>3. Source!Current = Instr /\ Position' = Source!Successor(Source!Current)
  BY <1>1, <1>2, PlainSuccessor
<1>4. ~ Source!Breaks(Source!Current)
  BY <1>1, Unbroken
<1>5. Source!Cause(Instr) = "None"
  BY <1>1, SameValues DEF Source!Cause
<1> QED
  BY <1>2, <1>3, <1>4, <1>5, RunStep

LEMMA SetRuns ==
  ASSUME GInv, Ran, SetInstr
  PROVE  Source!Run
<1>1. Instr.op = "Set" /\ ReadsFit
  BY DEF SetInstr, Fetch
<1>2. Source!Effect(Instr) = Source!Store(Source!Data, Instr.dst, GetVal(Instr.src))
  BY <1>1, SameValues DEF Source!Effect, Source!ArithmeticOps
<1> QED
  BY <1>1, <1>2, ComputingRuns DEF SetInstr, ArithmeticOps

LEMMA ArithmeticRuns ==
  ASSUME GInv, Ran, ArithmeticInstr
  PROVE  Source!Run
<1> DEFINE a == GetReg(Instr.dst)
           b == GetVal(Instr.src)
<1>1. Instr.op \in {"Add", "Sub", "Mul"} /\ ReadsFit /\ Ready /\ Inv
  BY RanFacts DEF ArithmeticInstr, Fetch
<1>2. a \in Int /\ b \in Int
  BY <1>1, OperandValue, RangeFacts DEF Sources, ReadsSrc, ArithmeticOps
<1>3. a + b \in Int /\ a - b \in Int /\ a * b \in Int
  BY <1>2
<1>4. Source!Arithmetic(Instr.op, a, b) = ArithmeticResult(Instr.op, a, b)
  <2>1. /\ Source!Modulo(a + b) = Wrap(a + b) /\ Source!Modulo(a - b) = Wrap(a - b)
        /\ Source!Modulo(a * b) = Wrap(a * b)
    BY <1>3, SameSums
  <2> HIDE DEF a, b
  <2> QED
    BY <1>1, <2>1 DEF Source!Arithmetic, ArithmeticResult
<1>5. Source!Effect(Instr)
        = Source!Store(Source!Data, Instr.dst, Source!Arithmetic(Instr.op, a, b))
  BY <1>1, SameValues DEF Source!Effect, Source!ArithmeticOps
<1> QED
  BY <1>1, <1>4, <1>5, ComputingRuns DEF ArithmeticInstr, ArithmeticOps

LEMMA DivRuns ==
  ASSUME GInv, Ran, DivInstr
  PROVE  Source!Run
<1> DEFINE a == GetReg(Instr.dst)
           b == GetVal(Instr.src)
<1>1. /\ Instr.op = "Div" /\ ReadsFit /\ Ready /\ Inv
      /\ ~ Fail("DivideByZero") /\ ~ Panic("DivideOverflow")
  BY RanFacts DEF DivInstr, Fetch, ErrorKind, PanicKind
<1>2. a \in LangValue /\ b \in LangValue
  BY <1>1, OperandValue DEF Sources, ReadsSrc, ArithmeticOps
<1>3. /\ b # 0 /\ ~ (b = -1 /\ a = MinValue) /\ SetReg(Instr.dst, Quotient(a, b))
      /\ UNCHANGED <<input, output, stacks>>
  BY <1>1 DEF DivInstr
<1>4. Source!Arithmetic(Instr.op, a, b) = Quotient(a, b)
  BY <1>1, <1>2, <1>3, SameQuotients DEF Source!Arithmetic
<1>5. Source!Effect(Instr)
        = Source!Store(Source!Data, Instr.dst, Source!Arithmetic(Instr.op, a, b))
  BY <1>1, SameValues DEF Source!Effect, Source!ArithmeticOps
<1> QED
  BY <1>1, <1>3, <1>4, <1>5, ComputingRuns DEF ArithmeticOps

LEMMA CmpRuns ==
  ASSUME GInv, Ran, CmpInstr
  PROVE  Source!Run
<1> DEFINE a == GetVal(Instr.src)
           b == GetVal(Instr.src_2)
<1>1. Instr.op = "Cmp" /\ ReadsFit /\ Ready /\ Inv
  BY RanFacts DEF CmpInstr, Fetch
<1>2. a \in LangValue /\ b \in LangValue
  BY <1>1, OperandValue DEF Sources, ReadsSrc
<1>3. Source!Effect(Instr) = Source!Store(Source!Data, Instr.dst, Source!Compared(a, b))
  BY <1>1, SameValues DEF Source!Effect, Source!ArithmeticOps
<1>4. Source!Compared(a, b) = Ordering(a, b)
  BY <1>2, SameOrder
<1> QED
  BY <1>1, <1>3, <1>4, ComputingRuns DEF CmpInstr

LEMMA PushRuns ==
  ASSUME GInv, Ran, PushInstr
  PROVE  Source!Run
<1> DEFINE stack == stacks[Instr.stack]
           value == GetVal(Instr.src)
<1>1. /\ Instr.op = "Push" /\ ~ IsJump(Instr) /\ ReadsFit /\ Ready /\ Inv
      /\ ~ Fail("StackOverflow")
  BY RanFacts DEF PushInstr, Fetch, IsJump, JumpOps, ConditionalJumps, ErrorKind
<1>2. /\ ~ Full(stack) /\ stacks' = [stacks EXCEPT ![Instr.stack] = Append(stack, value)]
      /\ UNCHANGED <<input, output, registers>> /\ program_counter' = program_counter + 1
  BY <1>1 DEF PushInstr, Advance
<1>3. Append(stack, value) = stack \o <<value>>
  <2>1. value \in LangValue
    BY <1>1, OperandValue DEF Sources, ReadsSrc
  <2>2. stack \in Seq(LangValue)
    BY <1>1, NamedStack
  <2> QED
    BY <2>1, <2>2, AppendIsConcat
<1>4. Source!Current = Instr /\ Position' = Source!Successor(Source!Current)
  BY <1>1, <1>2, PlainSuccessor
<1>5. ~ Source!Breaks(Source!Current)
  BY <1>1, Unbroken
<1>6. Source!Cause(Instr) = "None"
  <2>1. Len(stack) # hardware_spec.max_stack_length
    BY <1>1, <1>2 DEF Full, Inv, TypeOK, HardwareSpec
  <2> QED
    BY <1>1, <2>1 DEF Source!Cause
<1>7. Source!Effect(Instr) = [input |-> input, output |-> output, registers |-> registers,
        stacks |-> [stacks EXCEPT ![Instr.stack] = stack \o <<value>>]]
  BY <1>1, SameValues DEF Source!Effect, Source!Data, Source!ArithmeticOps
<1> QED
  BY <1>2, <1>3, <1>4, <1>5, <1>6, <1>7, RunStep

LEMMA PopRuns ==
  ASSUME GInv, Ran, PopInstr
  PROVE  Source!Run
<1> DEFINE stack == stacks[Instr.stack]
           value == stack[Len(stack)]
           rest == [stacks EXCEPT ![Instr.stack] = SubSeq(stack, 1, Len(stack) - 1)]
<1>1. Instr.op = "Pop" /\ ~ IsJump(Instr) /\ ~ Fail("EmptyStack")
  BY RanFacts DEF PopInstr, Fetch, IsJump, JumpOps, ConditionalJumps, ErrorKind
<1>2. /\ stack # <<>> /\ stacks' = rest /\ SetReg(Instr.dst, value)
      /\ UNCHANGED <<input, output>>
  BY <1>1 DEF PopInstr
<1>3. /\ Source!Store([input |-> input, output |-> output, registers |-> registers,
                       stacks |-> rest], Instr.dst, value)
           = [input |-> input, output |-> output, registers |-> registers', stacks |-> rest]
      /\ program_counter' = program_counter + 1 /\ Writable(Instr.dst)
  BY <1>2, Stored, SMTT(30)
<1>4. Source!Current = Instr /\ Position' = Source!Successor(Source!Current)
  BY <1>1, <1>3, PlainSuccessor
<1>5. ~ Source!Breaks(Source!Current)
  BY <1>1, <1>3, Unbroken
<1>6. Source!Cause(Instr) = "None"
  BY <1>1, <1>2 DEF Source!Cause
<1>7. Source!Effect(Instr) = Source!Store([input |-> input, output |-> output,
                       registers |-> registers, stacks |-> rest], Instr.dst, value)
  BY <1>1 DEF Source!Effect, Source!Data, Source!ArithmeticOps
<1> HIDE DEF rest, value
<1> QED
  BY <1>2, <1>3, <1>4, <1>5, <1>6, <1>7, RunStep

LEMMA JumpRuns ==
  ASSUME GInv, Ran, JumpInstr
  PROVE  Source!Run
<1> DEFINE s == Source!Current
<1>1. Instr.op \in JumpOps /\ IsJump(Instr) /\ ReadsFit /\ Ready /\ Settled /\ UNCHANGED data
  BY RanFacts DEF JumpInstr, Fetch, IsJump, Ran
<1>2. s.op = Instr.op /\ (s.op \in ConditionalJumps => Instr.src = s.src) /\ IsJump(s)
  BY <1>1, CurrentStatement DEF Settled, IsJump
<1>3. Source!Taken(s) <=> ShouldJump(Instr)
  BY <1>1, <1>2, SameValues DEF Source!Taken, ShouldJump, JumpOps, ConditionalJumps
<1>4. Position' = Source!Successor(s)
  <2>1. CASE ShouldJump(Instr) /\ Advance(Instr.offset)
    <3>1. Position' = Source!StatementFrom(Source!LabelPosition(s.label))
      BY <1>1, <2>1, JumpPosition DEF Advance
    <3> QED
      BY <1>2, <1>3, <2>1, <3>1, SameVocabulary DEF Source!Successor
  <2>2. CASE ~ ShouldJump(Instr) /\ Advance(1)
    <3>1. Position' = Source!StatementFrom(Position + 1)
      BY <1>1, <2>2, NextPosition DEF Advance
    <3> QED
      BY <1>3, <2>2, <3>1 DEF Source!Successor
  <2> QED
    BY <2>1, <2>2 DEF JumpInstr
<1>5. ~ Source!Breaks(s)
  BY <1>1, Unbroken DEF JumpOps, ConditionalJumps
<1>6. s.op \notin {"Read", "Write", "Set", "Div", "Push", "Pop", "Cmp"} \cup ArithmeticOps
  BY <1>2 DEF IsJump, JumpOps, ConditionalJumps, ArithmeticOps
<1> HIDE DEF s
<1>7. Source!Cause(s) = "None"
  BY <1>6 DEF Source!Cause
<1>8. Source!Effect(s) = [input |-> input, output |-> output, registers |-> registers,
                          stacks |-> stacks]
  BY <1>6, SameVocabulary DEF Source!Effect, Source!Data
<1> QED
  BY <1>1, <1>4, <1>5, <1>7, <1>8, RunStep DEF data, s

\* An instruction of the machine is a statement of the source that runs, fails or breaks.
LEMMA ExecuteStep ==
  ASSUME GInv, Settled, Alive, Execute
  PROVE  Source!SourceNext
<1>1. CASE error' # error
  BY <1>1, FailStep DEF Source!SourceNext
<1>2. CASE panicked' # panicked
  BY <1>2, BreakStep DEF Source!SourceNext
<1>3. CASE UNCHANGED <<error, panicked>>
  <2>1. Ran
    <3>1. ~ OutOfCycles
      BY <1>3 DEF OutOfCycles, Ready, Fail, NoError
    <3> QED
      BY <1>3, <3>1, ExecuteKinds DEF Ran
  <2>2. ~ LengthInstr /\ ~ OutOfCycles
    BY <2>1, RanFacts DEF LengthInstr, OutOfCycles, PanicKind, ErrorKind
  <2>3. Source!Run
    BY <2>1, <2>2, ReadRuns, WriteRuns, SetRuns, ArithmeticRuns, DivRuns, CmpRuns, PushRuns,
       PopRuns, JumpRuns DEF Execute
  <2> QED
    BY <2>3 DEF Source!SourceNext
<1> QED
  BY <1>1, <1>2, <1>3

-------------------------------------------------------------------------------
(* The refinement                                                               *)

LEMMA SourceStarts ==
  ASSUME Init
  PROVE  Source!SourceInit
<1>1. body \in Seq(Statement) /\ hardware_spec \in HardwareSpec
  BY InitGInv DEF GInv, CInv, CompileTypeOK
<1>2. input \in Seq(LangValue)
  BY ProgramSpecAssumption DEF Init, New, ProgramSpec
<1>3. Source!Statement = Statement /\ Source!HardwareSpec = HardwareSpec
  BY SameVocabulary DEF Source!Statement, Statement, Source!HardwareSpec, HardwareSpec,
     Source!Operator, Operator, Source!ValueSource, ValueSource, Source!RegisterRef, RegisterRef,
     Source!ArithmeticOps, ArithmeticOps, Source!ConditionalJumps, ConditionalJumps
<1>4. Position = 0 /\ ~ (panicked # NoPanic)
  BY DEF Init, New, Position
<1>5. /\ output = <<>> /\ cycle_count = 0 /\ error = Source!NoError
      /\ registers = [r \in 0 .. hardware_spec.num_registers - 1 |-> 0]
      /\ stacks = [s \in 0 .. hardware_spec.num_stacks - 1 |-> <<>>]
  BY SameVocabulary DEF Init, New
<1> QED
  BY <1>1, <1>2, <1>3, <1>4, <1>5, SameVocabulary DEF Source!SourceInit

LEMMA SourceSteps ==
  ASSUME GInv, [Next]_vars
  PROVE  [Source!SourceNext]_(Source!sourceVars)
<1>1. ASSUME UNCHANGED <<hardware_spec, body, Position, input, output, registers, stacks,
                         cycle_count, error, panicked>>
      PROVE  UNCHANGED Source!sourceVars
  BY <1>1 DEF Source!sourceVars
<1>2. CASE CompileNext /\ UNCHANGED <<machineVars, program_spec, allocated>>
  <2>1. stage # "compiled" /\ UNCHANGED body
    BY <1>2 DEF CompileNext, CollectLabel, LabelsCollected, ValidateStatement, Reject, Accept,
                MapLabel, LabelsMapped, MapStatement, StatementsMapped, Iterate, NextStage
  <2>2. UNCHANGED Position
    BY <1>2, <2>1 DEF GInv, Handover, Position
  <2> QED
    BY <1>1, <1>2, <2>1, <2>2 DEF machineVars, static, data
<1>3. CASE Allocate
  BY <1>3, StartStep DEF Source!SourceNext
<1>4. CASE allocated /\ MachineNext /\ UNCHANGED <<compileVars, program_spec, allocated>>
  <2>1. Settled
    BY <1>4 DEF Settled, MachineNext, ExecuteNext, CallExecuteAll, LoopReturns, Dead, machineVars
  <2>2. CASE Alive /\ Execute
    BY <2>1, <2>2, ExecuteStep
  <2>3. CASE ~ (Alive /\ Execute)
    <3>1. UNCHANGED <<program_counter, data, cycle_count, error, panicked>>
      BY <1>4, <2>3 DEF MachineNext, ExecuteNext, ExecuteNothing, CallExecuteAll, ExecuteAll,
                        LoopReturns, ReturnAll, Dead, machineVars
    <3>2. UNCHANGED Position
      BY <2>1, <3>1, SamePosition
    <3> QED
      BY <1>1, <2>1, <3>1, <3>2, SettledFacts DEF data
  <2> QED
    BY <2>2, <2>3
<1>5. CASE UNCHANGED vars
  BY <1>1, <1>5 DEF vars, compileVars, machineVars, static, data, Position, PositionOf
<1> QED
  BY <1>2, <1>3, <1>4, <1>5, StepKinds

\* Running the compiled program is running the source the player wrote, for every
\* source, hardware, input and width: compiling the labels away and driving the machine
\* in any mix of single steps and runs changes nothing of what the source computes, the
\* cycles it costs or the statement an error is reported at (delabel.rs:26-96,
\* machine.rs:190-369).
THEOREM TheSourceIsRun == Spec => RunsTheSource
<1>1. Init => GInv /\ Source!SourceInit
  BY InitGInv, SourceStarts
<1>2. GInv /\ [Next]_vars => GInv' /\ [Source!SourceNext]_(Source!sourceVars)
  BY NextGInv, SourceSteps
<1> QED
  BY <1>1, <1>2, PTL DEF Spec, RunsTheSource, Source!SourceSpec
===================================================================================
