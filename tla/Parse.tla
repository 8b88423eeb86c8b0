--------------------------------- MODULE Parse ---------------------------------
(* The parser of src/core/src/parse.rs. It reads a text line by line; a line    *)
(* holds at most one statement, and the first line that holds something else    *)
(* ends the parse with what was expected there.                                 *)
(*                                                                              *)
(* A line is a sequence of items: words, runs of spaces, colons and a comment.  *)
(* A word is what its readings depend on: the tag it starts with, in any case,  *)
(* what follows the tag, and its spelling, which is what a label keeps. Columns  *)
(* are counted in items.                                                        *)
EXTENDS Lang, Selection

CONSTANTS
  Texts,      \* the texts that are parsed
  MaxIndex    \* usize::MAX

VARIABLES
  text,
  parsed,     \* the statements so far, each with its span
  read,       \* number of lines read
  syntax,     \* "none", "parsed", or what was expected
  fault       \* where it was expected

parseVars == <<text, parsed, read, syntax, fault>>

-------------------------------------------------------------------------------
(* Items *)

Space == [kind |-> "space"]
Colon == [kind |-> "colon"]
Comment == [kind |-> "comment"]   \* a semicolon and the rest of the line

Keyword == {"Read", "Write", "Set", "Cmp", "Push", "Pop"} \cup ArithmeticOps \cup JumpOps
Tag == Keyword \cup {"RZR", "RLI", "RS", "RX", "S", "", "-", "letters", "symbols"}
\* What follows the tag: alphanumeric and punctuated are digits first, and then letters,
\* or symbols.
Rest == {"none", "digits", "alphanumeric", "punctuated", "letters", "symbols"}
Word == [kind : {"word"}, tag : Tag, rest : Rest,
         number : Nat, zeros : BOOLEAN, spelling : Label]

Item == {Space, Colon, Comment} \cup Word

\* What a text is cut into: neither words nor spaces touch, a comment comes last.
Lexed(line) ==
  /\ line \in Seq(Item)
  /\ \A k \in 1 .. Len(line) - 1 :
       /\ line[k] # Comment
       /\ line[k] \in Word => line[k + 1] \notin Word
       /\ line[k] = Space => line[k + 1] # Space

ASSUME ParseAssumption ==
  /\ MaxIndex \in Nat
  /\ \A t \in Texts : t \in Seq(Seq(Item)) /\ \A n \in DOMAIN t : Lexed(t[n])

-------------------------------------------------------------------------------
(* Readings of a word: the set of the values it stands for, empty if it does   *)
(* not parse. Whatever follows a reading must be a terminator, so that a word   *)
(* counts as a whole.                                                          *)

\* usize: no unnecessary leading zeros.
Index(tag, w) ==
  {n \in {w.number} : w.tag = tag /\ w.rest = "digits" /\ ~ w.zeros /\ n <= MaxIndex}

AsConst(w) ==
  {n \in {IF w.tag = "-" THEN -w.number ELSE w.number} :
    w.tag \in {"", "-"} /\ w.rest = "digits" /\ n \in LangValue}

AsRegister(w) ==
  {r \in {[kind |-> "Null"]} : w.tag = "RZR" /\ w.rest = "none"}
  \cup {r \in {[kind |-> "InputLength"]} : w.tag = "RLI" /\ w.rest = "none"}
  \cup {[kind |-> "StackLength", id |-> n] : n \in Index("RS", w)}
  \cup {[kind |-> "User", id |-> n] : n \in Index("RX", w)}

\* A label is letters, digits and underscores; keywords and registers are labels.
AsLabel(w) ==
  {l \in {w.spelling} : w.tag \notin {"-", "symbols"} /\ w.rest \notin {"symbols", "punctuated"}}

Readings(kind, w) ==
  CASE kind = "register reference" -> AsRegister(w)
    [] kind = "value" -> {[kind |-> "Const", value |-> n] : n \in AsConst(w)}
                         \cup {[kind |-> "Register", reg |-> r] : r \in AsRegister(w)}
    [] kind = "stack reference" -> Index("S", w)
    [] kind = "label" -> AsLabel(w)

\* The parser reads a beginning of the word, whatever it does with the rest.
ReadsBeginning(kind, w) ==
  \E rest \in {"none"} \cup (IF w.rest \in {"alphanumeric", "punctuated"} THEN {"digits"} ELSE {w.rest}) :
    rest # "symbols" /\ Readings(kind, [w EXCEPT !.rest = rest]) # {}

-------------------------------------------------------------------------------
(* Statements *)

\* The arguments of each keyword, in order.
Args(op) ==
  CASE op = "Read" -> <<"register reference">>
    [] op = "Write" -> <<"value">>
    [] op \in {"Set"} \cup ArithmeticOps -> <<"register reference", "value">>
    [] op = "Cmp" -> <<"register reference", "value", "value">>
    [] op = "Push" -> <<"value", "stack reference">>
    [] op = "Pop" -> <<"stack reference", "register reference">>
    [] op = "Jmp" -> <<"label">>
    [] op \in ConditionalJumps -> <<"value", "label">>

\* Mutant: CMP compares its first source with itself.
NodeOfCmpTwice(op, a) ==
  CASE op = "Read" -> [op |-> op, dst |-> a[1]]
    [] op = "Write" -> [op |-> op, src |-> a[1]]
    [] op \in {"Set"} \cup ArithmeticOps -> [op |-> op, dst |-> a[1], src |-> a[2]]
    [] op = "Cmp" -> [op |-> op, dst |-> a[1], src |-> a[2], src_2 |-> a[2]]
    [] op = "Push" -> [op |-> op, src |-> a[1], stack |-> a[2]]
    [] op = "Pop" -> [op |-> op, stack |-> a[1], dst |-> a[2]]
    [] op = "Jmp" -> [op |-> op, label |-> a[1]]
    [] op \in ConditionalJumps -> [op |-> op, src |-> a[1], label |-> a[2]]

NodeOf(op, a) ==
  CASE op = "Read" -> [op |-> op, dst |-> a[1]]
    [] op = "Write" -> [op |-> op, src |-> a[1]]
    [] op \in {"Set"} \cup ArithmeticOps -> [op |-> op, dst |-> a[1], src |-> a[2]]
    [] op = "Cmp" -> [op |-> op, dst |-> a[1], src |-> a[2], src_2 |-> a[3]]
    [] op = "Push" -> [op |-> op, src |-> a[1], stack |-> a[2]]
    [] op = "Pop" -> [op |-> op, stack |-> a[1], dst |-> a[2]]
    [] op = "Jmp" -> [op |-> op, label |-> a[1]]
    [] op \in ConditionalJumps -> [op |-> op, src |-> a[1], label |-> a[2]]

\* Mutant: the end of the line does not end a token.
TerminatorBySpace(line, k) == k < Len(line) /\ line[k + 1] = Space

\* stmt_token_terminator: a comment right after a token is not one.
StmtTokenTerminator(line, k) == k = Len(line) \/ line[k + 1] = Space

\* space0
Skip(line, k) == IF k <= Len(line) /\ line[k] = Space THEN k + 1 ELSE k

IsWord(line, k) == k <= Len(line) /\ line[k] \in Word

\* end_of_statement, from item k on
Ends(line, k) ==
  LET c == Skip(line, k)
  IN  c = Len(line) + 1 \/ (c = Len(line) /\ line[c] = Comment)

Blank(line) == Ends(line, 1)

\* The readings of argument j of the keyword at k: a space, a word, a terminator.
Argument(line, k, kind, j) ==
  LET at == k + 2 * j
  IN  IF IsWord(line, at) /\ line[at - 1] = Space /\ StmtTokenTerminator(line, at)
      THEN Readings(kind, line[at]) ELSE {}

IsDeclaration(line, k) ==
  IsWord(line, k) /\ AsLabel(line[k]) # {} /\ k < Len(line) /\ line[k + 1] = Colon

\* JMP has no argument inside tag_with_args: nothing looks at what follows it,
\* until its label is parsed.
IsInstruction(line, k) ==
  /\ IsWord(line, k) /\ line[k].tag \in Keyword
  /\ line[k].tag # "Jmp" => line[k].rest = "none" /\ StmtTokenTerminator(line, k)

\* The arguments that do not parse, of the instruction at k.
Unread(line, k) ==
  LET args == Args(line[k].tag)
  IN  {j \in DOMAIN args : line[k].rest # "none" \/ Argument(line, k, args[j], j) = {}}

Least(S) == CHOOSE n \in S : \A m \in S : n <= m

Before(k) == [item |-> k, past_tag |-> FALSE]
PastTag(k) == [item |-> k, past_tag |-> TRUE]

\* Mutant: one context, around all the arguments.
SharedContext(line, k, kind, j) == Before(k + 1)

\* The innermost context that failed: that of the argument's parser, behind the
\* space, or that around it when what it read is not terminated or there is no space.
ArgumentContext(line, k, kind, j) ==
  LET at == k + 2 * j IN
  IF line[k].rest # "none" THEN PastTag(k)
  ELSE IF at - 1 <= Len(line) /\ line[at - 1] = Space
          /\ ~ (IsWord(line, at) /\ ReadsBeginning(kind, line[at]))
       THEN Before(at) ELSE Before(at - 1)

\* The statement of a line that is not blank: what was expected and is missing,
\* and where, or "none", the node, and the items it takes.
Parsed(line) ==
  LET k == Skip(line, 1)
      Failed(what, where) == [expected |-> what, at |-> where]
      Until(end, node) ==
        IF Ends(line, end) THEN [expected |-> "none", node |-> node, from |-> k, to |-> end]
        ELSE Failed("end of statement", Before(Skip(line, end)))
  IN
  IF IsDeclaration(line, k)
  THEN Until(k + 2, [op |-> "Label", label |-> line[k].spelling])
  ELSE IF ~ IsInstruction(line, k) THEN Failed("statement", Before(k))
  ELSE LET op == line[k].tag
           args == Args(op)
           Value(n) == CHOOSE v \in Argument(line, k, args[n], n) : TRUE
           j == Least(Unread(line, k))
       IN  IF Unread(line, k) # {} THEN Failed(args[j], ArgumentContext(line, k, args[j], j))
           ELSE Until(k + 2 * Len(args) + 1, NodeOf(op, [n \in DOMAIN args |-> Value(n)]))

-------------------------------------------------------------------------------
(* many1(line), then the filter of blank lines *)

ParseInit ==
  /\ text \in Texts
  /\ parsed = <<>> /\ read = 0 /\ syntax = "none"
  /\ fault = [line |-> 1, at |-> Before(1)]

Line == text[read + 1]

\* parse_node's span: the items of line n from `from` up to `to`.
FromRawSpan(n, from, to) == [line |-> n, from |-> from, to |-> to]

SkipLine ==
  /\ syntax = "none" /\ read < Len(text) /\ Blank(Line)
  /\ read' = read + 1
  /\ UNCHANGED <<text, parsed, syntax, fault>>

ParseLine ==
  /\ syntax = "none" /\ read < Len(text) /\ ~ Blank(Line)
  /\ LET p == Parsed(Line) IN
     \/ /\ p.expected = "none"
        /\ parsed' = Append(parsed, [value |-> p.node,
                                     span |-> FromRawSpan(read + 1, p.from, p.to)])
        /\ read' = read + 1
        /\ UNCHANGED <<syntax, fault>>
     \/ /\ p.expected # "none"
        /\ syntax' = p.expected
        /\ fault' = [line |-> read + 1, at |-> p.at]
        /\ UNCHANGED <<parsed, read>>
  /\ UNCHANGED text

\* A text with no statement is an error of the program as a whole, at its start.
EndOfText ==
  /\ syntax = "none" /\ read = Len(text)
  /\ syntax' = IF parsed = <<>> THEN "program" ELSE "parsed"
  /\ UNCHANGED <<text, parsed, read, fault>>

ParseNext == SkipLine \/ ParseLine \/ EndOfText

ParseSpec == ParseInit /\ [][ParseNext]_parseVars

-------------------------------------------------------------------------------
(* fmt_src_highlights: the lines around an error, with a row of carets below    *)
(* each line that the error's span includes. No span has more than one line.    *)

\* The dummy line that makes indexes line numbers is the one before the first.
LinesShown(line) ==
  LET first == IF line > 1 THEN line - 1 ELSE 1
      last == IF line < Len(text) THEN line + 1 ELSE Len(text)
  IN  first .. last

-------------------------------------------------------------------------------
(* The language, said without the parser: how a statement may be written.      *)

SpellsIndex(w, tag, n) ==
  w.tag = tag /\ w.rest = "digits" /\ w.number = n /\ n <= MaxIndex /\ ~ w.zeros

SpellsRegister(w, reg) ==
  \/ reg.kind = "Null" /\ w.tag = "RZR" /\ w.rest = "none"
  \/ reg.kind = "InputLength" /\ w.tag = "RLI" /\ w.rest = "none"
  \/ reg.kind = "StackLength" /\ SpellsIndex(w, "RS", reg.id)
  \/ reg.kind = "User" /\ SpellsIndex(w, "RX", reg.id)

SpellsValue(w, src) ==
  \/ src.kind = "Register" /\ SpellsRegister(w, src.reg)
  \/ /\ src.kind = "Const" /\ src.value \in LangValue /\ w.rest = "digits"
     /\ \/ w.tag = "" /\ src.value = w.number
        \/ w.tag = "-" /\ src.value = -w.number

SpellsLabel(w, label) ==
  w.spelling = label /\ w.tag \notin {"-", "symbols"} /\ w.rest \notin {"symbols", "punctuated"}

\* The words of a statement, keyword first, and the colon of a declaration.
Spells(core, stmt) ==
  LET Is(k, op) == core[k].tag = op /\ core[k].rest = "none" IN
  IF IsLabel(stmt)
  THEN Len(core) = 2 /\ core[1] # Colon /\ SpellsLabel(core[1], stmt.label) /\ core[2] = Colon
  ELSE
  /\ \A k \in DOMAIN core : core[k] # Colon
  /\ Is(1, stmt.op)
  /\ \/ stmt.op = "Read" /\ Len(core) = 2 /\ SpellsRegister(core[2], stmt.dst)
     \/ stmt.op = "Write" /\ Len(core) = 2 /\ SpellsValue(core[2], stmt.src)
     \/ /\ stmt.op \in {"Set", "Cmp"} \cup ArithmeticOps
        /\ Len(core) = (IF stmt.op = "Cmp" THEN 4 ELSE 3)
        /\ SpellsRegister(core[2], stmt.dst) /\ SpellsValue(core[3], stmt.src)
        /\ stmt.op = "Cmp" => SpellsValue(core[4], stmt.src_2)
     \/ /\ stmt.op = "Push" /\ Len(core) = 3
        /\ SpellsValue(core[2], stmt.src) /\ SpellsIndex(core[3], "S", stmt.stack)
     \/ /\ stmt.op = "Pop" /\ Len(core) = 3
        /\ SpellsIndex(core[2], "S", stmt.stack) /\ SpellsRegister(core[3], stmt.dst)
     \/ stmt.op = "Jmp" /\ Len(core) = 2 /\ SpellsLabel(core[2], stmt.label)
     \/ /\ stmt.op \in ConditionalJumps /\ Len(core) = 3
        /\ SpellsValue(core[2], stmt.src) /\ SpellsLabel(core[3], stmt.label)

Core(line) == Where(line, Item \ {Space, Comment})

WrittenLines == {n \in DOMAIN text : Core(text[n]) # <<>>}

\* The words may be set apart in any way, but a comment must not touch an operand,
\* nor a space the colon of a label.
Spaced(line) ==
  \A k \in 2 .. Len(line) :
    /\ line[k] = Colon => line[k - 1] # Space
    /\ line[k] = Comment => line[k - 1] \in {Space, Colon}

\* The statements that could be meant, over the numbers and names in a line.
Candidates(core) ==
  LET words == {core[k] : k \in {m \in DOMAIN core : core[m] \in Word}}
      ops == {w.tag : w \in words} \cap Keyword
      ids == {w.number : w \in words}
      names == {w.spelling : w \in words}
      regs == [kind : {"Null", "InputLength"}] \cup [kind : {"StackLength", "User"}, id : ids]
      srcs == [kind : {"Const"}, value : (ids \cup {-n : n \in ids}) \cap LangValue]
              \cup [kind : {"Register"}, reg : regs]
  IN  [op : {"Label", "Jmp"}, label : names]
      \cup [op : ops \cap {"Read"}, dst : regs] \cup [op : ops \cap {"Write"}, src : srcs]
      \cup [op : ops \cap ({"Set"} \cup ArithmeticOps), dst : regs, src : srcs]
      \cup [op : ops \cap {"Cmp"}, dst : regs, src : srcs, src_2 : srcs]
      \cup [op : ops \cap {"Push"}, src : srcs, stack : ids]
      \cup [op : ops \cap {"Pop"}, stack : ids, dst : regs]
      \cup [op : ops \cap ConditionalJumps, src : srcs, label : names]

Grammatical(line) ==
  Spaced(line) /\ \E stmt \in Candidates(Core(line)) : Spells(Core(line), stmt)

-------------------------------------------------------------------------------
(* Properties *)

\* The syntax tree is the text: one node per line with anything but blanks and
\* comments on it, in order, spelled by the items its span covers, which are all of
\* that line but blanks and a comment (parse.rs:36-50, 225-260, and the order of
\* the arguments in 144-209).
ParsesWhatIsWritten ==
  /\ \A k \in DOMAIN parsed :
       LET span == parsed[k].span
           covered == SubSeq(text[span.line], span.from, span.to - 1)
       IN  /\ Spells(Core(covered), parsed[k].value)
           /\ Core(covered) = Core(text[span.line])
           /\ {covered[1], covered[Len(covered)]} \cap {Space, Comment} = {}
           /\ k > 1 => parsed[k - 1].span.line < span.line
  /\ {parsed[k].span.line : k \in DOMAIN parsed} = {n \in WrittenLines : n <= read}

\* A text is refused at its first line that is not a statement of the language,
\* and only for such a line: how words are spaced, cased and commented does not
\* matter, and no construct hides another (parse.rs:262-389). With no such line,
\* it is refused exactly if it has no statement at all.
RefusesTheFirstFault ==
  /\ \A n \in WrittenLines : n <= read => Grammatical(text[n])
  /\ syntax = "program" <=> read = Len(text) /\ WrittenLines = {} /\ syntax # "none"
  /\ syntax \notin {"none", "parsed", "program"} =>
       read + 1 \in WrittenLines /\ ~ Grammatical(text[read + 1])

\* A word of each kind of argument.
Sample(kind) ==
  LET word == [kind |-> "word", tag |-> "RZR", rest |-> "none", number |-> 0, zeros |-> FALSE,
               spelling |-> CHOOSE l \in Label : TRUE]
  IN  CASE kind \in {"register reference", "value"} -> word
        [] kind = "stack reference" -> [word EXCEPT !.tag = "S", !.rest = "digits"]
        [] kind = "label" -> [word EXCEPT !.tag = "letters"]

\* The line can go on with these arguments and make a statement.
GoesOnWith(start, kinds) ==
  Grammatical(start \o [n \in 1 .. 2 * Len(kinds) |->
                          IF n % 2 = 1 THEN Space ELSE Sample(kinds[n \div 2])])

Kinds == {"register reference", "stack reference", "label"}
FurtherArguments == {<<>>} \cup {<<a>> : a \in Kinds} \cup {<<a, b>> : a, b \in Kinds}

Unspaced(start) ==
  IF start # <<>> /\ start[Len(start)] = Space THEN SubSeq(start, 1, Len(start) - 1) ELSE start

\* "Expected x at n:m" is true and useful: what is before that position is right, it
\* can be made a statement by putting an x there, but not by putting anything behind
\* the word that is there. The lines shown with it are lines of the text, with that
\* line among them (parse.rs:252-270, 388-420; util.rs:54-67, 118-134).
FaultIsPlaced ==
  /\ syntax \notin {"none", "parsed", "program"} =>
     LET line == text[fault.line]
         at == fault.at
         start == Unspaced(SubSeq(line, 1, at.item - 1))
                  \o (IF at.past_tag THEN <<[line[at.item] EXCEPT !.rest = "none"]>> ELSE <<>>)
         later == Unspaced(SubSeq(line, 1, at.item + 2))
     IN  /\ syntax = "statement" => Core(start) = <<>>
         /\ syntax = "end of statement" => Grammatical(start)
         /\ syntax \notin {"statement", "end of statement"} =>
              /\ \E more \in FurtherArguments : GoesOnWith(start, <<syntax>> \o more)
              /\ at.item + 2 < Len(line) =>
                   \A more \in FurtherArguments : ~ GoesOnWith(later, more)
  /\ syntax \notin {"none", "parsed"} /\ text # <<>> =>
       fault.line \in LinesShown(fault.line) /\ LinesShown(fault.line) \subseteq DOMAIN text
================================================================================
