--------------------------------- MODULE MCGdlk ---------------------------------
(* Gdlk for TLC: every body of at most four statements over labels, jumps and a  *)
(* counted loop, and every body of at most three over the other operators.       *)
EXTENDS Gdlk, SequencesExt

Null == [kind |-> "Null"]
RLI == [kind |-> "InputLength"]
RS(n) == [kind |-> "StackLength", id |-> n]
RX(n) == [kind |-> "User", id |-> n]
Const(v) == [kind |-> "Const", value |-> v]
Reg(r) == [kind |-> "Register", reg |-> r]

Decl(l) == [op |-> "Label", label |-> l]
Goto(l) == [op |-> "Jmp", label |-> l]
GotoIf(cond, src, l) == [op |-> cond, src |-> src, label |-> l]

LoopMenu == {
  Decl("A"), Decl("B"), Goto("A"), GotoIf("Jgz", Reg(RX(0)), "A"), GotoIf("Jez", Reg(RLI), "B"),
  [op |-> "Read", dst |-> RX(0)],
  [op |-> "Write", src |-> Reg(RX(0))],
  [op |-> "Sub", dst |-> RX(0), src |-> Const(1)] }

OperatorMenu == {
  Decl("A"), GotoIf("Jlz", Reg(RX(0)), "A"), GotoIf("Jnz", Reg(RS(0)), "A"),
  [op |-> "Read", dst |-> RX(0)],
  [op |-> "Read", dst |-> Null],
  [op |-> "Set", dst |-> RX(0), src |-> Const(MinValue)],
  [op |-> "Set", dst |-> RX(1), src |-> Const(0)],
  [op |-> "Mul", dst |-> RX(0), src |-> Reg(RX(0))],
  [op |-> "Div", dst |-> RX(0), src |-> Const(-1)],
  [op |-> "Div", dst |-> RX(0), src |-> Reg(RLI)],
  [op |-> "Add", dst |-> RX(0), src |-> Reg(RX(0))],
  [op |-> "Cmp", dst |-> RX(0), src |-> Reg(RX(0)), src_2 |-> Reg(RS(0))],
  [op |-> "Push", src |-> Reg(RX(0)), stack |-> 0],
  [op |-> "Pop", stack |-> 0, dst |-> RX(0)],
  [op |-> "Pop", stack |-> 0, dst |-> RLI] }

MCBodies == (BoundedSeq(LoopMenu, 4) \cup BoundedSeq(OperatorMenu, 3)) \ {<<>>}

MCHardwareSpecs == {[num_registers |-> 1, num_stacks |-> 1, max_stack_length |-> 1]}

MCProgramSpecs == {
  [input |-> <<2>>, expected_output |-> <<2>>],
  [input |-> <<-2, 1>>, expected_output |-> <<>>] }
===============================================================================
