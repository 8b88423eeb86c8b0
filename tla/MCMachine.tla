------------------------------- MODULE MCMachine -------------------------------
(* Machine for TLC: every well-formed program of at most MaxLength instructions *)
(* over a menu in which each opcode appears with the operands that make it      *)
(* succeed, fail or panic.                                                      *)
EXTENDS Machine, SequencesExt

CONSTANTS
  MaxLength,
  Setups      \* menus of instructions, each with the hardware and the specs it runs on

Null == [kind |-> "Null"]
RLI == [kind |-> "InputLength"]
RS(i) == [kind |-> "StackLength", id |-> i]
RX(i) == [kind |-> "User", id |-> i]
Const(v) == [kind |-> "Const", value |-> v]
Reg(r) == [kind |-> "Register", reg |-> r]

Arith(op, dst, src) == [op |-> op, dst |-> dst, src |-> src]
Jump(cond, src, offset) == [op |-> cond, src |-> src, offset |-> offset]

\* Tapes, stacks and jumps.
ControlMenu == {
  [op |-> "Read", dst |-> RX(0)],
  [op |-> "Read", dst |-> Null],
  [op |-> "Write", src |-> Reg(RX(0))],
  Arith("Sub", RX(0), Const(1)),
  [op |-> "Push", src |-> Reg(RX(0)), stack |-> 0],
  [op |-> "Push", src |-> Reg(RLI), stack |-> 0],
  [op |-> "Pop", stack |-> 0, dst |-> RX(0)],
  [op |-> "Pop", stack |-> 0, dst |-> RS(0)],
  [op |-> "Jmp", offset |-> -1],
  [op |-> "Jmp", offset |-> 0],
  [op |-> "Jmp", offset |-> 2],
  Jump("Jez", Reg(RLI), 2),
  Jump("Jnz", Reg(RS(0)), -1),
  Jump("Jgz", Reg(RX(0)), -2),
  Jump("Jlz", Reg(RX(0)), 1) }

\* Arithmetic at the edges of the width.
ValueMenu == {
  [op |-> "Read", dst |-> RX(0)],
  [op |-> "Write", src |-> Reg(RX(0))],
  Arith("Set", RX(1), Const(MinValue)),
  Arith("Set", RX(1), Reg(RX(0))),
  Arith("Set", RX(1), Reg(RLI)),
  Arith("Set", Null, Const(1)),
  Arith("Add", RX(1), Reg(RX(0))),
  Arith("Add", Null, Reg(RX(1))),
  Arith("Sub", RX(1), Reg(RX(0))),
  Arith("Mul", RX(1), Reg(RX(0))),
  Arith("Mul", RX(1), Reg(RX(1))),
  Arith("Div", RX(1), Reg(RX(0))),
  Arith("Div", Null, Const(2)),
  [op |-> "Cmp", dst |-> RX(0), src |-> Reg(RX(1)), src_2 |-> Const(MaxValue)] }

\* Spans as the compiler leaves them when the source has no labels.
Spanned(instrs) == [k \in DOMAIN instrs |-> [value |-> instrs[k], span |-> k]]

Programs(menu, hw) ==
  {prog \in {Spanned(s) : s \in BoundedSeq(menu, MaxLength)} : WellFormed(prog, hw)}

MCInit ==
  \E setup \in Setups :
    \E hw \in setup.hardware, in \in setup.inputs, expected \in setup.expected :
      \E prog \in Programs(setup.menu, hw) : New(hw, prog, in, expected)

MCSpec == MCInit /\ [][MachineNext]_machineVars /\ LoopFairness

-------------------------------------------------------------------------------
(* Values for the configuration *)

MCSetups == {
  [menu |-> ControlMenu,
   hardware |-> {[num_registers |-> 1, num_stacks |-> 1, max_stack_length |-> n] : n \in {0, 1}},
   inputs |-> {<<>>, <<1>>, <<1, -1>>},
   expected |-> {<<1>>}],
  [menu |-> ValueMenu,
   hardware |-> {[num_registers |-> 2, num_stacks |-> 0, max_stack_length |-> 0]},
   inputs |-> {<<v>> : v \in LangValue} \cup {<<-1, 1, 1, 1>>},
   expected |-> {<<>>}] }
===============================================================================
