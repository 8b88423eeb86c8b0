--------------------------------- MODULE Lang ---------------------------------
(* The vocabulary of GDLK: its values, its two syntax trees and the hardware  *)
(* a program is compiled for (src/core/src/ast.rs, src/core/src/models.rs).   *)
(* The source tree has labels; the compiled tree has relative jump offsets.   *)
(* Everything the two trees share (operators, jumps, operands) is here once.  *)
EXTENDS Integers, Sequences, FiniteSets

CONSTANTS
  MaxValue,   \* i16::MAX in the code; the width is a parameter here
  Label       \* the label names a source may use

\* The range must hold the results -1, 0 and 1 of CMP.
ASSUME ValueAssumption == MaxValue \in Nat \ {0}

\* The hardware is Copy: the compiler hands the very same value to the machine.
VARIABLE hardware_spec

-------------------------------------------------------------------------------
(* Values *)

MinValue == -MaxValue - 1   \* two's complement
LangValue == MinValue .. MaxValue

\* Mutant: plain arithmetic on a wider type.
WrapNothing(n) == n

\* What std::num::Wrapping keeps of an exact result.
Wrap(n) == ((n - MinValue) % (MaxValue - MinValue + 1)) + MinValue

Magnitude(n) == IF n < 0 THEN -n ELSE n

\* Mutant: the flooring the comments speak of.
QuotientFloored(a, b) == IF b > 0 THEN a \div b ELSE (-a) \div (-b)

\* `/` on a primitive integer of Rust drops the fraction: it rounds to zero.
Quotient(a, b) ==
  LET q == Magnitude(a) \div Magnitude(b)
  IN  IF (a < 0) <=> (b < 0) THEN q ELSE -q

Ordering(a, b) == IF a < b THEN -1 ELSE IF a = b THEN 0 ELSE 1

-------------------------------------------------------------------------------
(* Operands *)

HardwareSpec == [num_registers : Nat, num_stacks : Nat, max_stack_length : Nat]

RegisterRef == [kind : {"Null", "InputLength"}]
          \cup [kind : {"StackLength", "User"}, id : Nat]

Writable(reg) == reg.kind \in {"Null", "User"}

ValueSource == [kind : {"Const"}, value : LangValue]
          \cup [kind : {"Register"}, reg : RegisterRef]

-------------------------------------------------------------------------------
(* Operators, jumps, statements and instructions *)

ArithmeticOps == {"Add", "Sub", "Mul", "Div"}
ConditionalJumps == {"Jez", "Jnz", "Jlz", "Jgz"}
JumpOps == {"Jmp"} \cup ConditionalJumps

Operator == [op : {"Read"}, dst : RegisterRef]
       \cup [op : {"Write"}, src : ValueSource]
       \cup [op : {"Set"} \cup ArithmeticOps, dst : RegisterRef, src : ValueSource]
       \cup [op : {"Cmp"}, dst : RegisterRef, src : ValueSource, src_2 : ValueSource]
       \cup [op : {"Push"}, src : ValueSource, stack : Nat]
       \cup [op : {"Pop"}, stack : Nat, dst : RegisterRef]

Statement == [op : {"Label"}, label : Label]
        \cup Operator
        \cup [op : {"Jmp"}, label : Label]
        \cup [op : ConditionalJumps, src : ValueSource, label : Label]

Instruction == Operator
          \cup [op : {"Jmp"}, offset : Int]
          \cup [op : ConditionalJumps, src : ValueSource, offset : Int]

\* Node(value, span). A span is the position in the source body of the
\* statement it covers; an operand's span is that of its statement.
InstructionNode == [value : Instruction, span : Nat \ {0}]

IsLabel(stmt) == stmt.op = "Label"
IsJump(stmt) == stmt.op \in JumpOps

ReadsSrc(op) == op \in {"Write", "Set", "Cmp", "Push"} \cup ArithmeticOps \cup ConditionalJumps
HasDst(op) == op \in {"Read", "Set", "Cmp", "Pop"} \cup ArithmeticOps

\* The registers a statement or an instruction reads.
Sources(stmt) == (IF ReadsSrc(stmt.op) THEN {stmt.src} ELSE {})
            \cup (IF stmt.op = "Cmp" THEN {stmt.src_2} ELSE {})

RegistersRead(stmt) ==
  {s.reg : s \in {t \in Sources(stmt) : t.kind = "Register"}}
  \cup (IF stmt.op \in ArithmeticOps THEN {stmt.dst} ELSE {})

\* The other registers it mentions, and the stacks.
RegistersNamed(stmt) ==
  RegistersRead(stmt) \cup (IF HasDst(stmt.op) THEN {stmt.dst} ELSE {})

StacksNamed(stmt) == IF stmt.op \in {"Push", "Pop"} THEN {stmt.stack} ELSE {}
===============================================================================
