-------------------------------- MODULE Machine --------------------------------
(* The virtual machine of src/core/src/machine.rs. A caller allocates it for a *)
(* compiled program and drives it with execute_next (one instruction) and      *)
(* execute_all (a loop of execute_next until termination or error).            *)
(*                                                                             *)
(* A runtime error is stored and ends the run; a Rust panic (an index or an    *)
(* unwrap that validation was meant to rule out) kills the caller's thread.    *)
EXTENDS Lang

CONSTANT MAX_CYCLE_COUNT   \* 1_000_000 in src/core/src/consts.rs

ASSUME CycleAssumption == MAX_CYCLE_COUNT \in Nat

VARIABLES
  program,          \* the compiled instructions, in order, with their spans
  expected_output,
  program_counter,  \* 0-based index of the next instruction
  input, output,
  registers,        \* user registers
  stacks,
  cycle_count,
  error,            \* NoError, or the runtime error that ended the run
  panicked,         \* NoPanic, or the reason the thread died
  looping,          \* execute_all is running
  result            \* what the last call returned

data == <<input, output, registers, stacks>>
static == <<hardware_spec, program, expected_output>>
machineVars == <<static, program_counter, data, cycle_count, error, panicked,
                 looping, result>>

ErrorKind == {"TooManyCycles", "EmptyInput", "StackOverflow", "EmptyStack", "DivideByZero"}
NoError == [kind |-> "None", span |-> 0]
RuntimeError == [kind : ErrorKind, span : Nat \ {0}]

NoPanic == "None"
PanicKind == {"UnwritableRegister", "DivideOverflow", "LengthTooBig"}

NoResult == [call |-> "none", ok |-> "none"]
Returned == [call : {"next", "all"}, ok : {"true", "false", "error"}]

-------------------------------------------------------------------------------
(* Programs a machine may be allocated for: what Compiler::validate and       *)
(* Compiler::delabel leave. A jump may land one past the last instruction.    *)

RegisterExists(reg, hw) ==
  /\ reg.kind = "User" => reg.id < hw.num_registers
  /\ reg.kind = "StackLength" => reg.id < hw.num_stacks

OperandsExist(stmt, hw) ==
  /\ \A reg \in RegistersNamed(stmt) : RegisterExists(reg, hw)
  /\ \A s \in StacksNamed(stmt) : s < hw.num_stacks

\* The registers instructions write, but for POP's (see validate.rs:127-130).
WritesChecked(stmt) == HasDst(stmt.op) /\ stmt.op # "Pop" => Writable(stmt.dst)

JumpsInside(prog) ==
  \A k \in DOMAIN prog :
    IsJump(prog[k].value) => k - 1 + prog[k].value.offset \in 0 .. Len(prog)

WellFormed(prog, hw) ==
  /\ prog \in Seq(InstructionNode)
  /\ \A k \in DOMAIN prog : OperandsExist(prog[k].value, hw) /\ WritesChecked(prog[k].value)
  /\ JumpsInside(prog)

-------------------------------------------------------------------------------
(* Machine::new *)

New(hw, prog, in, expected) ==
  /\ hardware_spec = hw
  /\ program = prog
  /\ expected_output = expected
  /\ program_counter = 0
  /\ input = in
  /\ output = <<>>
  /\ registers = [r \in 0 .. hw.num_registers - 1 |-> 0]
  /\ stacks = [s \in 0 .. hw.num_stacks - 1 |-> <<>>]
  /\ cycle_count = 0
  /\ error = NoError
  /\ panicked = NoPanic
  /\ looping = FALSE
  /\ result = NoResult

MachineInit ==
  \E hw \in HardwareSpec, in, expected \in Seq(LangValue), prog \in Seq(InstructionNode) :
    WellFormed(prog, hw) /\ New(hw, prog, in, expected)

-------------------------------------------------------------------------------
(* Reading state *)

Terminated == program_counter >= Len(program) \/ error # NoError

\* Mutant: input may be left over.
SuccessfulOnOutput == Terminated /\ error = NoError /\ output = expected_output

Successful ==
  /\ Terminated
  /\ error = NoError
  /\ input = <<>>
  /\ output = expected_output

Node == program[program_counter + 1]
Instr == Node.value

GetReg(reg) ==
  CASE reg.kind = "Null" -> 0
    [] reg.kind = "InputLength" -> Len(input)
    [] reg.kind = "StackLength" -> Len(stacks[reg.id])
    [] reg.kind = "User" -> registers[reg.id]

GetVal(src) == IF src.kind = "Const" THEN src.value ELSE GetReg(src.reg)

\* Mutant: off by one at the largest value.
ReadsFitBelowMax == \A reg \in RegistersRead(Instr) : GetReg(reg) \in MinValue .. MaxValue - 1

\* try_into().unwrap() of a length that has no LangValue panics.
ReadsFit == \A reg \in RegistersRead(Instr) : GetReg(reg) \in LangValue

-------------------------------------------------------------------------------
(* execute_next: the ways one instruction ends *)

Return(call, ok) ==
  result' = IF looping THEN result ELSE [call |-> call, ok |-> ok]

\* The instruction consumed n instructions; the data it changed is the caller's.
Advance(n) ==
  /\ program_counter' = program_counter + n
  /\ UNCHANGED <<error, panicked>>
  /\ Return("next", "true")

\* Mutant: the counter moves on past the instruction that failed.
FailAndAdvance(kind) ==
  /\ error' = [kind |-> kind, span |-> Node.span]
  /\ program_counter' = program_counter + 1
  /\ UNCHANGED <<data, panicked>>
  /\ Return("next", "error")

Fail(kind) ==
  /\ error' = [kind |-> kind, span |-> Node.span]
  /\ UNCHANGED <<program_counter, data, panicked>>
  /\ Return("next", "error")

Panic(kind) ==
  /\ panicked' = kind
  /\ UNCHANGED <<program_counter, error, result>>

\* set_reg, which every operator with a destination ends with.
SetReg(reg, value) ==
  \/ /\ reg.kind = "Null"
     /\ UNCHANGED registers
     /\ Advance(1)
  \/ /\ reg.kind = "User"
     /\ registers' = [registers EXCEPT ![reg.id] = value]
     /\ Advance(1)
  \/ /\ ~ Writable(reg)
     /\ UNCHANGED registers
     /\ Panic("UnwritableRegister")

\* Mutant: the check for an earlier error is missing.
ReadyAfterError == program_counter < Len(program)

\* The part of execute_next_inner every instruction goes through first.
Ready ==
  /\ error = NoError
  /\ program_counter < Len(program)

\* Mutant: one cycle too many.
BeginPastLimit ==
  /\ Ready
  /\ cycle_count <= MAX_CYCLE_COUNT
  /\ cycle_count' = cycle_count + 1

\* Mutant: jumps are free.
BeginFreeJumps ==
  /\ Ready
  /\ cycle_count < MAX_CYCLE_COUNT
  /\ cycle_count' = IF IsJump(Instr) THEN cycle_count ELSE cycle_count + 1

\* The cycle is counted before the instruction runs, so a failing one counts.
Begin ==
  /\ Ready
  /\ cycle_count < MAX_CYCLE_COUNT
  /\ cycle_count' = cycle_count + 1

Fetch(ops) == Begin /\ Instr.op \in ops

-------------------------------------------------------------------------------
(* execute_next: one action per instruction *)

ReadInstr ==
  /\ Fetch({"Read"})
  /\ \/ input = <<>> /\ Fail("EmptyInput")
     \/ /\ input # <<>>
        /\ input' = Tail(input)
        /\ SetReg(Instr.dst, Head(input))
        /\ UNCHANGED <<output, stacks>>

WriteInstr ==
  /\ Fetch({"Write"}) /\ ReadsFit
  /\ output' = Append(output, GetVal(Instr.src))
  /\ UNCHANGED <<input, registers, stacks>>
  /\ Advance(1)

SetInstr ==
  /\ Fetch({"Set"}) /\ ReadsFit
  /\ SetReg(Instr.dst, GetVal(Instr.src))
  /\ UNCHANGED <<input, output, stacks>>

ArithmeticResult(op, a, b) ==
  CASE op = "Add" -> Wrap(a + b)
    [] op = "Sub" -> Wrap(a - b)
    [] op = "Mul" -> Wrap(a * b)

ArithmeticInstr ==
  /\ Fetch({"Add", "Sub", "Mul"}) /\ ReadsFit
  /\ SetReg(Instr.dst, ArithmeticResult(Instr.op, GetReg(Instr.dst), GetVal(Instr.src)))
  /\ UNCHANGED <<input, output, stacks>>

\* i16 division is not Wrapping: MinValue / -1 panics in every build.
DivInstr ==
  /\ Fetch({"Div"}) /\ ReadsFit
  /\ LET divisor == GetVal(Instr.src)
         dividend == GetReg(Instr.dst)
     IN  \/ divisor = 0 /\ Fail("DivideByZero")
         \/ /\ divisor = -1 /\ dividend = MinValue
            /\ Panic("DivideOverflow")
            /\ UNCHANGED data
         \/ /\ divisor # 0 /\ ~ (divisor = -1 /\ dividend = MinValue)
            /\ SetReg(Instr.dst, Quotient(dividend, divisor))
            /\ UNCHANGED <<input, output, stacks>>

CmpInstr ==
  /\ Fetch({"Cmp"}) /\ ReadsFit
  /\ SetReg(Instr.dst, Ordering(GetVal(Instr.src), GetVal(Instr.src_2)))
  /\ UNCHANGED <<input, output, stacks>>

Full(stack) == Len(stack) >= hardware_spec.max_stack_length

PushInstr ==
  /\ Fetch({"Push"}) /\ ReadsFit
  /\ LET stack == stacks[Instr.stack]
     IN  \/ Full(stack) /\ Fail("StackOverflow")
         \/ /\ ~ Full(stack)
            /\ stacks' = [stacks EXCEPT ![Instr.stack] = Append(stack, GetVal(Instr.src))]
            /\ UNCHANGED <<input, output, registers>>
            /\ Advance(1)

\* The value leaves the stack before set_reg looks at the register.
PopInstr ==
  /\ Fetch({"Pop"})
  /\ LET stack == stacks[Instr.stack]
     IN  \/ stack = <<>> /\ Fail("EmptyStack")
         \/ /\ stack # <<>>
            /\ stacks' = [stacks EXCEPT ![Instr.stack] = SubSeq(stack, 1, Len(stack) - 1)]
            /\ SetReg(Instr.dst, stack[Len(stack)])
            /\ UNCHANGED <<input, output>>

\* Mutant: the comparisons of the documentation (ast.rs:165-168).
ShouldJumpAsDocumented(jump) ==
  \/ jump.op = "Jmp"
  \/ jump.op = "Jez" /\ GetVal(jump.src) = 0
  \/ jump.op = "Jnz" /\ GetVal(jump.src) # 0
  \/ jump.op = "Jlz" /\ GetVal(jump.src) > 0
  \/ jump.op = "Jgz" /\ GetVal(jump.src) < 0

ShouldJump(jump) ==
  \/ jump.op = "Jmp"
  \/ jump.op = "Jez" /\ GetVal(jump.src) = 0
  \/ jump.op = "Jnz" /\ GetVal(jump.src) # 0
  \/ jump.op = "Jlz" /\ GetVal(jump.src) < 0
  \/ jump.op = "Jgz" /\ GetVal(jump.src) > 0

\* Mutant: the offset counts from the next instruction.
JumpInstrFromNext ==
  /\ Fetch(JumpOps) /\ ReadsFit
  /\ \/ ShouldJump(Instr) /\ Advance(Instr.offset + 1)
     \/ ~ ShouldJump(Instr) /\ Advance(1)
  /\ UNCHANGED data

JumpInstr ==
  /\ Fetch(JumpOps) /\ ReadsFit
  /\ \/ ShouldJump(Instr) /\ Advance(Instr.offset)
     \/ ~ ShouldJump(Instr) /\ Advance(1)
  /\ UNCHANGED data

\* An instruction reads a length register whose length has no LangValue.
LengthInstr ==
  /\ Begin /\ ~ ReadsFit
  /\ Panic("LengthTooBig")
  /\ UNCHANGED data

\* Mutant: the cycle is counted before the limit is looked at.
OutOfCyclesCharged ==
  /\ Ready
  /\ cycle_count >= MAX_CYCLE_COUNT
  /\ Fail("TooManyCycles")
  /\ cycle_count' = cycle_count + 1

OutOfCycles ==
  /\ Ready
  /\ cycle_count >= MAX_CYCLE_COUNT
  /\ Fail("TooManyCycles")
  /\ UNCHANGED cycle_count

Execute ==
  \/ ReadInstr \/ WriteInstr \/ SetInstr \/ ArithmeticInstr \/ DivInstr \/ CmpInstr
  \/ PushInstr \/ PopInstr \/ JumpInstr \/ LengthInstr \/ OutOfCycles

\* execute_next on a machine that has terminated does nothing but say so.
ExecuteNothing ==
  /\ Terminated /\ ~ looping
  /\ Return("next", "false")
  /\ UNCHANGED <<program_counter, data, cycle_count, error, panicked>>

-------------------------------------------------------------------------------
(* execute_all *)

ExecuteAll ==
  /\ ~ looping
  /\ looping' = TRUE
  /\ UNCHANGED <<program_counter, data, cycle_count, error, panicked, result>>

ReturnAll ==
  /\ looping /\ Terminated
  /\ looping' = FALSE
  /\ result' = [call |-> "all",
                ok |-> IF error # NoError THEN "error"
                       ELSE IF Successful THEN "true" ELSE "false"]
  /\ UNCHANGED <<program_counter, data, cycle_count, error, panicked>>

-------------------------------------------------------------------------------
Alive == panicked = NoPanic

ExecuteNext == Alive /\ (Execute \/ ExecuteNothing) /\ UNCHANGED <<static, looping>>
CallExecuteAll == Alive /\ ExecuteAll /\ UNCHANGED static
LoopReturns == Alive /\ ReturnAll /\ UNCHANGED static

\* The thread is gone; nothing of the machine can be used any more.
Dead == ~ Alive /\ UNCHANGED machineVars

MachineNext == ExecuteNext \/ CallExecuteAll \/ LoopReturns \/ Dead

\* execute_all is a plain loop on the caller's thread: nothing can suspend it.
\* A caller that steps by hand may stop at any time.
LoopFairness == WF_machineVars(looping /\ (ExecuteNext \/ LoopReturns))

MachineSpec == MachineInit /\ [][MachineNext]_machineVars /\ LoopFairness

-------------------------------------------------------------------------------
(* Properties *)

\* The state has its declared shape: the registers and stacks are those of the
\* hardware and hold i16 values, whatever the program computed.
TypeOK ==
  /\ hardware_spec \in HardwareSpec
  /\ program \in Seq(InstructionNode)
  /\ expected_output \in Seq(LangValue)
  /\ program_counter \in Int
  /\ input \in Seq(LangValue)
  /\ output \in Seq(LangValue)
  /\ registers \in [0 .. hardware_spec.num_registers - 1 -> LangValue]
  /\ stacks \in [0 .. hardware_spec.num_stacks - 1 -> Seq(LangValue)]
  /\ cycle_count \in Nat
  /\ error \in RuntimeError \cup {NoError}
  /\ panicked \in PanicKind \cup {NoPanic}
  /\ looping \in BOOLEAN
  /\ result \in Returned \cup {NoResult}

\* The counter never leaves the program but for the position after its end.
PcInProgram == program_counter \in 0 .. Len(program)

\* A run never spends more cycles than allowed, and is only stopped for it with
\* the whole budget spent and an instruction left: a program that takes exactly
\* MAX_CYCLE_COUNT cycles still ends normally.
CycleBudget ==
  /\ cycle_count <= MAX_CYCLE_COUNT
  /\ error.kind = "TooManyCycles" =>
       cycle_count = MAX_CYCLE_COUNT /\ program_counter < Len(program)

\* No stack holds more than the hardware allows.
StackCapacity ==
  \A s \in DOMAIN stacks : Len(stacks[s]) <= hardware_spec.max_stack_length

\* The machine stays inside what it was built for, whatever its caller asks in
\* whatever order: machine.rs:313 casts a signed sum back to usize, which
\* "_shouldn't_" underflow, and machine.rs:161 refuses a value before it is pushed.
StaysInside == PcInProgram /\ StackCapacity

\* The stored error still describes the machine it stopped: it points at the
\* instruction under the program counter, and the state in which that
\* instruction could not run is the state the user is shown.
ErrorExplained ==
  error # NoError =>
    /\ program_counter \in 0 .. Len(program) - 1
    /\ error.span = Node.span
    /\ error.kind = "EmptyInput" => Instr.op = "Read" /\ input = <<>>
    /\ error.kind = "DivideByZero" => Instr.op = "Div" /\ GetVal(Instr.src) = 0
    /\ error.kind = "EmptyStack" => Instr.op = "Pop" /\ stacks[Instr.stack] = <<>>
    /\ error.kind = "StackOverflow" =>
         /\ Instr.op = "Push"
         /\ Len(stacks[Instr.stack]) = hardware_spec.max_stack_length

\* The thread dies in three places only: POP into a read-only register, the
\* one overflowing division, and a length register too long for an i16. No
\* other index or unwrap of machine.rs can fail on a compiled program.
PanicExplained ==
  /\ panicked = "UnwritableRegister" => Instr.op = "Pop" /\ ~ Writable(Instr.dst)
  /\ panicked = "DivideOverflow" =>
       Instr.op = "Div" /\ GetReg(Instr.dst) = MinValue /\ GetVal(Instr.src) = -1
  /\ panicked = "LengthTooBig" =>
       \/ Len(input) > MaxValue
       \/ \E s \in DOMAIN stacks : Len(stacks[s]) > MaxValue

\* What execute_all returned is still what the machine says of itself: it
\* returned because the machine had terminated, with the error it stores, or
\* with the verdict the player is graded by: all input read, output as expected.
ExecuteAllVerdict ==
  result.call = "all" =>
    /\ Terminated
    /\ result.ok = "error" <=> error # NoError
    /\ result.ok = "true" <=>
         error = NoError /\ input = <<>> /\ output = expected_output

\* A machine that has terminated is frozen: whatever is called on it later,
\* nothing a caller can observe changes, so neither does its verdict.
TerminatedIsFinal ==
  [][Terminated => UNCHANGED <<static, program_counter, data, cycle_count, error, panicked>>]_machineVars

\* An instruction that fails has no partial effect: it is charged its cycle
\* (unless the budget is what it ran out of) and nothing else.
FailureIsClean ==
  [][error' # error =>
       /\ UNCHANGED <<program_counter, data>>
       /\ cycle_count' = cycle_count + (IF error'.kind = "TooManyCycles" THEN 0 ELSE 1)]_machineVars

\* The step under way computes a user register from its value and an operand.
Computes(ops) ==
  /\ Ready /\ Instr.op \in ops /\ Instr.dst.kind = "User"
  /\ program_counter' # program_counter

Left == registers[Instr.dst.id]
Right == GetVal(Instr.src)

\* "All arithmetic operations are wrapping": a result is the exact one modulo
\* the width; and dividing then multiplying back loses a remainder smaller
\* than the divisor, on the dividend's side of zero.
ArithmeticIsModular ==
  [][Computes(ArithmeticOps) =>
       LET c == registers'[Instr.dst.id]
           Same(exact) == (exact - c) % (2 * MaxValue + 2) = 0
           r == Left - Right * c
       IN  CASE Instr.op = "Add" -> Same(Left + Right)
             [] Instr.op = "Sub" -> Same(Left - Right)
             [] Instr.op = "Mul" -> Same(Left * Right)
             [] Instr.op = "Div" ->
                  Magnitude(r) < Magnitude(Right) /\ (r = 0 \/ (r < 0 <=> Left < 0))]_machineVars

-------------------------------------------------------------------------------
(* What a comment says of the machine and its code does not do *)

\* machine.rs:132-134: a write to a read-only register is stopped at build time.
WritesAreValidated == panicked # "UnwritableRegister"
===============================================================================
