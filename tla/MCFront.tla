-------------------------------- MODULE MCFront --------------------------------
(* Front for TLC. The texts that parse are every body of at most three          *)
(* statements over a menu with each operator and each fault, and every body of  *)
(* at most five over labels and jumps, the shorter ones in several layouts. The *)
(* texts that may not parse are the short lines over a menu of items, and the   *)
(* lines of the first menu with an item removed, replaced or put in, alone and  *)
(* below another line.                                                          *)
EXTENDS Front, SequencesExt

Null == [kind |-> "Null"]
RLI == [kind |-> "InputLength"]
RS(n) == [kind |-> "StackLength", id |-> n]
RX(n) == [kind |-> "User", id |-> n]
Const(v) == [kind |-> "Const", value |-> v]
Reg(r) == [kind |-> "Register", reg |-> r]

Decl(l) == [op |-> "Label", label |-> l]
Goto(l) == [op |-> "Jmp", label |-> l]
GotoIf(cond, src, l) == [op |-> cond, src |-> src, label |-> l]

\* On the small hardware (one register, no stack) most of these are faulty.
FaultMenu == {
  Decl("A"), Decl("B"), Goto("B"),
  GotoIf("Jez", Reg(RX(1)), "A"),
  [op |-> "Read", dst |-> RLI],
  [op |-> "Read", dst |-> RX(0)],
  [op |-> "Write", src |-> Reg(RS(0))],
  [op |-> "Set", dst |-> RS(1), src |-> Reg(RX(1))],
  [op |-> "Add", dst |-> Null, src |-> Const(1)],
  [op |-> "Cmp", dst |-> RX(1), src |-> Const(-2), src_2 |-> Reg(RS(1))],
  [op |-> "Push", src |-> Reg(RX(1)), stack |-> 1],
  [op |-> "Pop", stack |-> 1, dst |-> RX(1)],
  [op |-> "Pop", stack |-> 0, dst |-> RLI] }

JumpMenu == {
  Decl("A"), Decl("B"), Goto("A"), GotoIf("Jgz", Reg(RX(0)), "B"),
  [op |-> "Write", src |-> Reg(RX(0))] }

MCHardwareSpecs == {
  [num_registers |-> 1, num_stacks |-> 0, max_stack_length |-> 0],
  [num_registers |-> 2, num_stacks |-> 2, max_stack_length |-> 1] }

-------------------------------------------------------------------------------
(* Writing a statement down *)

Plain(tag) == [kind |-> "word", tag |-> tag, rest |-> "none", number |-> 0,
               zeros |-> FALSE, spelling |-> "other"]
Numbered(tag, n) == [Plain(tag) EXCEPT !.rest = "digits", !.number = n]
Name(l) == [Plain("letters") EXCEPT !.spelling = l]

RegWord(reg) ==
  CASE reg.kind = "Null" -> Plain("RZR")
    [] reg.kind = "InputLength" -> Plain("RLI")
    [] reg.kind = "StackLength" -> Numbered("RS", reg.id)
    [] reg.kind = "User" -> Numbered("RX", reg.id)

\* Constants may have leading zeros.
SrcWord(src) ==
  IF src.kind = "Register" THEN RegWord(src.reg)
  ELSE [Numbered(IF src.value < 0 THEN "-" ELSE "", Magnitude(src.value)) EXCEPT !.zeros = TRUE]

Words(stmt) ==
  IF stmt.op = "Pop" THEN <<Plain("Pop"), Numbered("S", stmt.stack), RegWord(stmt.dst)>>
  ELSE <<Plain(stmt.op)>>
       \o (IF HasDst(stmt.op) THEN <<RegWord(stmt.dst)>> ELSE <<>>)
       \o (IF ReadsSrc(stmt.op) THEN <<SrcWord(stmt.src)>> ELSE <<>>)
       \o (IF stmt.op = "Cmp" THEN <<SrcWord(stmt.src_2)>> ELSE <<>>)
       \o (IF stmt.op = "Push" THEN <<Numbered("S", stmt.stack)>> ELSE <<>>)
       \o (IF IsJump(stmt) THEN <<Name(stmt.label)>> ELSE <<>>)

Written(stmt) ==
  LET w == Words(stmt)
  IN  IF IsLabel(stmt) THEN <<Name(stmt.label), Colon>>
      ELSE [k \in 1 .. 2 * Len(w) - 1 |-> IF k % 2 = 1 THEN w[(k + 1) \div 2] ELSE Space]

\* A line as typed, indented and with a comment, and with a space at its end.
Layout(line, n) ==
  CASE n = 0 -> line
    [] n = 1 -> <<Space>> \o line \o <<Space, Comment>>
    [] n = 2 -> line \o (IF Last(line) = Colon THEN <<Comment>> ELSE <<Space>>)

Pad(text_, n) == IF n = 1 THEN <<<<>>>> \o text_ \o <<<<Space, Comment>>>> ELSE text_

Writings(bodies, layouts) ==
  {Pad([k \in DOMAIN b |-> Layout(Written(b[k]), n)], n) : b \in bodies, n \in layouts}

-------------------------------------------------------------------------------
(* Lines that may be broken *)

ShortMenu == {Space, Colon, Comment, Plain("Read"), Plain("Jmp"),
              [Plain("Jmp") EXCEPT !.rest = "letters", !.spelling = "A"],
              Name("A"), Numbered("RX", 0)}

ReplaceMenu == {Space, Colon, Comment, Plain("Write"), Plain("RZR"), Name("B"),
                Plain("symbols"), Plain("RX"), Numbered("RS", 0), Numbered("S", 0),
                [Numbered("RX", 1) EXCEPT !.zeros = TRUE],
                [Numbered("S", 0) EXCEPT !.zeros = TRUE],
                Numbered("RS", 3), Numbered("", 1), Numbered("", 2), Numbered("-", 3),
                [Numbered("", 0) EXCEPT !.rest = "alphanumeric"],
                [Numbered("RX", 0) EXCEPT !.rest = "alphanumeric"],
                [Numbered("RX", 0) EXCEPT !.rest = "punctuated"],
                [Plain("RZR") EXCEPT !.rest = "digits"],
                [Plain("letters") EXCEPT !.rest = "symbols"]}

Lines == {Written(stmt) : stmt \in FaultMenu}

Broken == {line \in BoundedSeq(ShortMenu, 4)
             \cup UNION {{RemoveAt(l, k) : k \in DOMAIN l} : l \in Lines}
             \cup UNION {{ReplaceAt(l, k, x) : k \in DOMAIN l, x \in ReplaceMenu} : l \in Lines}
             \cup UNION {{InsertAt(l, k, x) : k \in DOMAIN l, x \in {Space, Colon}} : l \in Lines}
           : Lexed(line)}

MCTexts ==
  Writings(BoundedSeq(FaultMenu, 2) \cup BoundedSeq(JumpMenu, 3), 0 .. 2)
  \cup Writings(BoundedSeq(FaultMenu, 3) \cup BoundedSeq(JumpMenu, 5), {0})
  \cup {<<line>> : line \in Broken} \cup {<<Written(Decl("A")), line>> : line \in Broken}
===============================================================================
