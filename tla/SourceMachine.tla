----------------------------- MODULE SourceMachine -----------------------------
(* What running a GDLK program means, in terms of the source the player wrote: *)
(* the statement to run next is a position in the labelled source, a jump goes *)
(* to a label, labels cost nothing, and arithmetic is what it is modulo the    *)
(* width. There is no compiler, no program counter and no caller here. Gdlk is *)
(* shown to implement this specification.                                      *)
EXTENDS Lang

CONSTANTS MAX_CYCLE_COUNT

VARIABLES
  body,
  position,      \* of the next statement to run; 0 before the start,
                 \* Len(body) + 1 when done
  input, output, registers, stacks,
  cycle_count,
  error,         \* with the position of the statement that failed
  dead           \* the interpreter itself broke down

sourceVars == <<hardware_spec, body, position, input, output, registers, stacks,
                cycle_count, error, dead>>

NoError == [kind |-> "None", span |-> 0]

-------------------------------------------------------------------------------
(* Control *)

Least(S) == CHOOSE p \in S : \A q \in S : p <= q

\* The first statement at or below p that does something.
StatementFrom(p) ==
  LET below == {q \in p .. Len(body) : ~ IsLabel(body[q])}
  IN  IF below = {} THEN Len(body) + 1 ELSE Least(below)

LabelPosition(label) == CHOOSE p \in DOMAIN body : IsLabel(body[p]) /\ body[p].label = label

Current == body[position]

-------------------------------------------------------------------------------
(* Operands and arithmetic *)

Contents(reg) ==
  CASE reg.kind = "Null" -> 0
    [] reg.kind = "InputLength" -> Len(input)
    [] reg.kind = "StackLength" -> Len(stacks[reg.id])
    [] reg.kind = "User" -> registers[reg.id]

Operand(src) == IF src.kind = "Const" THEN src.value ELSE Contents(src.reg)

\* The value of the type that equals n modulo 2^width.
Modulo(n) == CHOOSE v \in LangValue : (v - n) % (2 * MaxValue + 2) = 0

\* The quotient whose remainder is smaller than the divisor and has the sign
\* of the dividend.
Divided(a, b) ==
  CHOOSE q \in MinValue .. MaxValue + 1 :
    LET r == a - q * b
    IN  Magnitude(r) < Magnitude(b) /\ (r = 0 \/ (r < 0 <=> a < 0))

Arithmetic(op, a, b) ==
  CASE op = "Add" -> Modulo(a + b)
    [] op = "Sub" -> Modulo(a - b)
    [] op = "Mul" -> Modulo(a * b)
    [] op = "Div" -> Divided(a, b)

\* The sign of a - b.
Compared(a, b) ==
  CHOOSE s \in {-1, 0, 1} : s * Magnitude(a - b) = a - b /\ (s = 0 <=> a = b)

Taken(jump) ==
  \/ jump.op = "Jmp"
  \/ LET v == Operand(jump.src)
     IN  \/ jump.op = "Jez" /\ v = 0
         \/ jump.op = "Jnz" /\ v # 0
         \/ jump.op = "Jlz" /\ v < 0
         \/ jump.op = "Jgz" /\ v > 0

-------------------------------------------------------------------------------
(* One statement *)

\* Why the statement cannot run, if it cannot.
Cause(stmt) ==
  CASE stmt.op = "Read" /\ input = <<>> -> "EmptyInput"
    [] stmt.op = "Div" /\ Operand(stmt.src) = 0 -> "DivideByZero"
    [] stmt.op = "Push" /\ Len(stacks[stmt.stack]) = hardware_spec.max_stack_length -> "StackOverflow"
    [] stmt.op = "Pop" /\ stacks[stmt.stack] = <<>> -> "EmptyStack"
    [] OTHER -> "None"

\* What the interpreter was not built to survive.
Breaks(stmt) ==
  \/ stmt.op = "Pop" /\ ~ Writable(stmt.dst)
  \/ stmt.op = "Div" /\ Contents(stmt.dst) = MinValue /\ Operand(stmt.src) = -1
  \/ \E reg \in RegistersRead(stmt) : Contents(reg) > MaxValue

Data == [input |-> input, output |-> output, registers |-> registers, stacks |-> stacks]

Store(data, reg, value) ==
  IF reg.kind = "User" THEN [data EXCEPT !.registers[reg.id] = value] ELSE data

Effect(stmt) ==
  CASE stmt.op = "Read" -> Store([Data EXCEPT !.input = Tail(@)], stmt.dst, Head(input))
    [] stmt.op = "Write" -> [Data EXCEPT !.output = @ \o <<Operand(stmt.src)>>]
    [] stmt.op = "Set" -> Store(Data, stmt.dst, Operand(stmt.src))
    [] stmt.op \in ArithmeticOps ->
         Store(Data, stmt.dst, Arithmetic(stmt.op, Contents(stmt.dst), Operand(stmt.src)))
    [] stmt.op = "Cmp" -> Store(Data, stmt.dst, Compared(Operand(stmt.src), Operand(stmt.src_2)))
    [] stmt.op = "Push" -> [Data EXCEPT !.stacks[stmt.stack] = @ \o <<Operand(stmt.src)>>]
    [] stmt.op = "Pop" ->
         LET stack == stacks[stmt.stack]
         IN  Store([Data EXCEPT !.stacks[stmt.stack] = SubSeq(@, 1, Len(@) - 1)],
                   stmt.dst, stack[Len(stack)])
    [] OTHER -> Data

Successor(stmt) ==
  IF IsJump(stmt) /\ Taken(stmt)
  THEN StatementFrom(LabelPosition(stmt.label))
  ELSE StatementFrom(position + 1)

-------------------------------------------------------------------------------
SourceInit ==
  /\ body \in Seq(Statement)
  /\ hardware_spec \in HardwareSpec
  /\ position = 0
  /\ input \in Seq(LangValue)
  /\ output = <<>>
  /\ registers = [r \in 0 .. hardware_spec.num_registers - 1 |-> 0]
  /\ stacks = [s \in 0 .. hardware_spec.num_stacks - 1 |-> <<>>]
  /\ cycle_count = 0
  /\ error = NoError
  /\ dead = FALSE

\* A source that breaks the language's rules never starts.
Start ==
  /\ position = 0
  /\ position' = StatementFrom(1)
  /\ UNCHANGED <<hardware_spec, body, input, output, registers, stacks, cycle_count, error, dead>>

Active == ~ dead /\ error = NoError /\ position \in DOMAIN body

Run ==
  /\ Active /\ cycle_count < MAX_CYCLE_COUNT
  /\ ~ Breaks(Current) /\ Cause(Current) = "None"
  /\ [input |-> input', output |-> output', registers |-> registers', stacks |-> stacks']
       = Effect(Current)
  /\ position' = Successor(Current)
  /\ cycle_count' = cycle_count + 1
  /\ UNCHANGED <<hardware_spec, body, error, dead>>

Stop(kind) ==
  /\ error' = [kind |-> kind, span |-> position]
  /\ UNCHANGED <<hardware_spec, body, position, input, output, registers, stacks, dead>>

FailStatement ==
  /\ Active /\ cycle_count < MAX_CYCLE_COUNT
  /\ Cause(Current) # "None"
  /\ Stop(Cause(Current))
  /\ cycle_count' = cycle_count + 1

OutOfBudget ==
  /\ Active /\ cycle_count = MAX_CYCLE_COUNT
  /\ Stop("TooManyCycles")
  /\ UNCHANGED cycle_count

\* Nothing is promised of the data of an interpreter that broke down.
Break ==
  /\ Active /\ Breaks(Current)
  /\ dead' = TRUE
  /\ UNCHANGED <<hardware_spec, body>>

SourceNext == Start \/ Run \/ FailStatement \/ OutOfBudget \/ Break

SourceSpec == SourceInit /\ [][SourceNext]_sourceVars
===============================================================================
