--------------------------- MODULE Catalog_proofs ---------------------------
(* What the API keeps of hardware and program specs, and how its connections are  *)
(* read: the tables after any sequence of creations and updates, of whatever      *)
(* names, numbers and buffers users send, and the pages of a connection whose     *)
(* rows change while a client walks it.                                           *)
EXTENDS Specs, Pagination, Selection_proofs, FiniteSetTheorems, TLAPS
-------------------------------------------------------------------------------
(* Hardware and program specs                                                    *)

\* The provers do not know that a literal is a string.
Word == STRING \cup {"absent"}
NameText == [text : Word, slug : Word]

Hardware == [id : Id, name : NameText, slug : Word,
             num_registers : 1 .. 16, num_stacks : 0 .. 16, max_stack_length : 0 .. 256]
Program == [id : Id, hw : Id \cup {NoId}, name : NameText, slug : Word,
            input : Seq(Int), expected_output : Seq(Int)]

\* What the schema's UNIQUE constraints and its CHECK of the slug leave.
HardwareIsUnique ==
  \A h, o \in hardware_specs : (h.id = o.id \/ h.slug = o.slug => h = o) /\ h.slug # ""
ProgramsAreUnique ==
  \A p, q \in program_specs : p.id = q.id \/ (p.hw = q.hw /\ p.slug = q.slug) => p = q

SpecsInv ==
  /\ hardware_specs \subseteq Hardware /\ program_specs \subseteq Program
  /\ \A p \in program_specs :
       Len(p.input) <= MAX_BUFFER /\ Len(p.expected_output) <= MAX_BUFFER
  /\ HardwareIsUnique /\ ProgramsAreUnique

-------------------------------------------------------------------------------
LEMMA Sent ==
  /\ MAX_BUFFER \in Nat /\ Absent \notin Int
  /\ Name \subseteq NameText /\ NameAbsent \in NameText
  /\ \A n \in Numbers : n[1] \in Int /\ n[2] \in Int /\ n[3] \in Int
  /\ \A n \in NumbersChange :
       n[1] \in Int \cup {Absent} /\ n[2] \in Int \cup {Absent} /\ n[3] \in Int \cup {Absent}
  /\ \A b \in Buffers : b[1] \in Seq(Int) /\ b[2] \in Seq(Int)
  /\ \A b \in BuffersChange :
       b[1] \in Seq(Int) \cup {<<Absent>>} /\ b[2] \in Seq(Int) \cup {<<Absent>>}
<1>1. /\ MAX_BUFFER \in Nat /\ Absent \notin Int
      /\ Name \subseteq NameText /\ NameAbsent \in NameText
  <2>1. MAX_BUFFER \in Nat
    BY SpecsAssumption
  <2>2. Absent \notin Int
    BY SpecsAssumption, Zenon
  <2>3. Name \subseteq NameText
    <3>1. \A n \in [text : STRING, slug : STRING] : n \in [text : Word, slug : Word]
      BY DEF Word
    <3> QED
      BY <3>1, SpecsAssumption, Zenon DEF NameText
  <2>4. NameAbsent \in NameText
    BY DEF Word, NameText, NameAbsent
  <2> QED
    BY <2>1, <2>2, <2>3, <2>4
<1>2. \A n \in Numbers : n[1] \in Int /\ n[2] \in Int /\ n[3] \in Int
  <2>1. Numbers \subseteq Int \X Int \X Int
    BY SpecsAssumption
  <2> QED
    BY <2>1
<1>3. \A n \in NumbersChange :
        n[1] \in Int \cup {Absent} /\ n[2] \in Int \cup {Absent} /\ n[3] \in Int \cup {Absent}
  <2> DEFINE Field == Int \cup {Absent}
  <2>1. NumbersChange \subseteq Field \X Field \X Field
    BY SpecsAssumption
  <2> HIDE DEF Field
  <2>2. \A n \in NumbersChange : n[1] \in Field /\ n[2] \in Field /\ n[3] \in Field
    BY <2>1
  <2> QED
    BY <2>2 DEF Field
<1>4. \A b \in Buffers : b[1] \in Seq(Int) /\ b[2] \in Seq(Int)
  <2>1. Buffers \subseteq Seq(Int) \X Seq(Int)
    BY SpecsAssumption
  <2> QED
    BY <2>1
<1>5. \A b \in BuffersChange :
        b[1] \in Seq(Int) \cup {<<Absent>>} /\ b[2] \in Seq(Int) \cup {<<Absent>>}
  <2> DEFINE Field == Seq(Int) \cup {<<Absent>>}
  <2>1. BuffersChange \subseteq Field \X Field
    BY SpecsAssumption
  <2> HIDE DEF Field
  <2>2. \A b \in BuffersChange : b[1] \in Field /\ b[2] \in Field
    BY <2>1
  <2> QED
    BY <2>2 DEF Field
<1> QED
  BY <1>1, <1>2, <1>3, <1>4, <1>5

\* No buffer of integers is the one that stands for a field left out.
LEMMA GivenBuffers ==
  ASSUME NEW b \in Seq(Int)
  PROVE  b # <<Absent>> /\ (Short(b) => Len(b) <= MAX_BUFFER)
<1>1. b # <<Absent>>
  <2> SUFFICES ASSUME b = <<Absent>> PROVE FALSE
    OBVIOUS
  <2>1. Len(b) = 1 /\ b[1] = Absent
    OBVIOUS
  <2>2. b[1] \in Int
    BY <2>1
  <2> QED
    BY <2>1, <2>2, Sent
<1> QED
  BY <1>1 DEF Short

\* A row that reaches the table takes the place of the one with its id.
LEMMA HardwareIsWritten ==
  ASSUME SpecsInv, NEW h \in Hardware, NEW flags, WriteHardware(h, flags)
  PROVE  SpecsInv'
<1>1. CASE UNCHANGED <<hardware_specs, program_specs>>
  BY <1>1 DEF SpecsInv, HardwareIsUnique, ProgramsAreUnique
<1>2. CASE /\ HardwareChecked(h) /\ ~ HardwareTaken(h)
           /\ hardware_specs' = (hardware_specs \ HwWithId(h.id)) \cup {h}
           /\ program_specs' = program_specs
  <2>1. h.slug # ""
    BY <1>2 DEF HardwareChecked
  <2>2. \A o \in hardware_specs \ HwWithId(h.id) : o.id # h.id /\ o.slug # h.slug
    BY <1>2 DEF HwWithId, HardwareTaken
  <2>3. HardwareIsUnique'
    BY <1>2, <2>1, <2>2 DEF SpecsInv, HardwareIsUnique
  <2> QED
    BY <1>2, <2>3 DEF SpecsInv, ProgramsAreUnique
<1> QED
  BY <1>1, <1>2 DEF WriteHardware, Refuse, Store

LEMMA ProgramIsWritten ==
  ASSUME SpecsInv, NEW p \in Program, NEW flags, WriteProgram(p, flags),
         Len(p.input) <= MAX_BUFFER, Len(p.expected_output) <= MAX_BUFFER
  PROVE  SpecsInv'
<1>1. CASE UNCHANGED <<hardware_specs, program_specs>>
  BY <1>1 DEF SpecsInv, HardwareIsUnique, ProgramsAreUnique
<1>2. CASE /\ ~ ProgramTaken(p)
           /\ program_specs' = (program_specs \ PsWithId(p.id)) \cup {p}
           /\ hardware_specs' = hardware_specs
  <2>1. \A q \in program_specs \ PsWithId(p.id) : q.id # p.id /\ ~ (q.hw = p.hw /\ q.slug = p.slug)
    BY <1>2 DEF PsWithId, ProgramTaken
  <2>2. ProgramsAreUnique'
    BY <1>2, <2>1 DEF SpecsInv, ProgramsAreUnique
  <2> QED
    BY <1>2, <2>2 DEF SpecsInv, HardwareIsUnique
<1> QED
  BY <1>1, <1>2 DEF WriteProgram, Refuse, Store

LEMMA Refused == ASSUME SpecsInv, NEW reply, Refuse(reply) PROVE SpecsInv'
BY DEF SpecsInv, HardwareIsUnique, ProgramsAreUnique, Refuse

LEMMA HardwareIsCreated ==
  ASSUME SpecsInv, NEW id \in Id, NEW name \in Name, NEW regs \in Int, NEW stacks \in Int,
         NEW len \in Int, CreateHardware(id, name, regs, stacks, len)
  PROVE  SpecsInv'
<1>1. CASE NewHardwareValid(name, regs, stacks, len)
           /\ WriteHardware(NewHardware(id, name, regs, stacks, len), {UniqueToExists})
  <2>1. regs \in 1 .. 16 /\ stacks \in 0 .. 16 /\ len \in 0 .. 256
    BY <1>1, Sent DEF NewHardwareValid, InRange
  <2>2. name \in NameText /\ name.slug \in Word
    BY Sent DEF NameText
  <2>3. NewHardware(id, name, regs, stacks, len) \in Hardware
    BY <2>1, <2>2 DEF NewHardware, Hardware, Slugify
  <2> QED
    BY <1>1, <2>3, HardwareIsWritten
<1> QED
  BY <1>1, Refused DEF CreateHardware

LEMMA HardwareIsUpdated ==
  ASSUME SpecsInv, NEW id \in Id, NEW name \in Name \cup {NameAbsent},
         NEW regs \in Int \cup {Absent}, NEW stacks \in Int \cup {Absent},
         NEW len \in Int \cup {Absent}, UpdateHardware(id, name, regs, stacks, len)
  PROVE  SpecsInv'
<1>1. ASSUME ModifiedHardwareValid(name, regs, stacks, len), NEW h \in HwWithId(id),
             WriteHardware(ChangedHardware(h, name, regs, stacks, len), UpdateConverter)
      PROVE  SpecsInv'
  <2>1. h \in Hardware
    BY DEF HwWithId, SpecsInv
  <2>2. /\ Or(regs, h.num_registers) \in 1 .. 16 /\ Or(stacks, h.num_stacks) \in 0 .. 16
        /\ Or(len, h.max_stack_length) \in 0 .. 256
    BY <1>1, <2>1 DEF ModifiedHardwareValid, InRange, Or, Hardware
  <2>3. name \in NameText
    BY Sent
  <2>4. ChangedHardware(h, name, regs, stacks, len) \in Hardware
    BY <2>1, <2>2, <2>3, ZenonT(40) DEF ChangedHardware, Hardware
  <2> QED
    BY <1>1, <2>4, HardwareIsWritten
<1> QED
  BY <1>1, Refused DEF UpdateHardware

LEMMA ProgramIsCreated ==
  ASSUME SpecsInv, NEW id \in Id, NEW hw \in Id \cup {NoId}, NEW name \in Name,
         NEW input \in Seq(Int), NEW expected \in Seq(Int),
         CreateProgram(id, hw, name, input, expected)
  PROVE  SpecsInv'
<1> DEFINE p == [id |-> id, hw |-> hw, name |-> name, slug |-> Slugify(name),
                 input |-> input, expected_output |-> expected]
<1>1. CASE NewProgramValid(name, input, expected)
           /\ WriteProgram(p, {FkToNotFound, UniqueToExists})
  <2>1. name \in NameText /\ name.slug \in Word
    BY Sent DEF NameText
  <2>2. p \in Program /\ p.input = input /\ p.expected_output = expected
    BY <2>1 DEF Program, Slugify
  <2>3. Len(input) <= MAX_BUFFER /\ Len(expected) <= MAX_BUFFER
    BY <1>1, GivenBuffers DEF NewProgramValid
  <2> HIDE DEF p
  <2> QED
    BY <1>1, <2>2, <2>3, ProgramIsWritten
<1> QED
  BY <1>1, Refused DEF CreateProgram

LEMMA ProgramIsUpdated ==
  ASSUME SpecsInv, NEW id \in Id, NEW name \in Name \cup {NameAbsent}, NEW described \in BOOLEAN,
         NEW input \in Seq(Int) \cup {<<Absent>>}, NEW expected \in Seq(Int) \cup {<<Absent>>},
         UpdateProgram(id, name, described, input, expected)
  PROVE  SpecsInv'
<1>1. ASSUME ModifiedProgramValid(name, input, expected), NEW p \in PsWithId(id),
             WriteProgram(ChangedProgram(p, name, input, expected), UpdateConverter)
      PROVE  SpecsInv'
  <2> DEFINE i == IF input = <<Absent>> THEN p.input ELSE input
             e == IF expected = <<Absent>> THEN p.expected_output ELSE expected
             n == IF name = NameAbsent THEN p.name ELSE name
  <2>1. /\ p \in Program
        /\ Len(p.input) <= MAX_BUFFER /\ Len(p.expected_output) <= MAX_BUFFER
    BY DEF PsWithId, SpecsInv
  <2>2. i \in Seq(Int) /\ e \in Seq(Int) /\ n \in NameText
    BY <2>1, Sent DEF Program
  <2>3. Len(i) <= MAX_BUFFER /\ Len(e) <= MAX_BUFFER
    BY <1>1, <2>1, GivenBuffers DEF ModifiedProgramValid
  <2>4. ChangedProgram(p, name, input, expected)
          = [p EXCEPT !.name = n, !.input = i, !.expected_output = e]
    BY <2>1 DEF ChangedProgram, Program
  <2> HIDE DEF i, e, n
  <2>5. /\ ChangedProgram(p, name, input, expected) \in Program
        /\ ChangedProgram(p, name, input, expected).input = i
        /\ ChangedProgram(p, name, input, expected).expected_output = e
    BY <2>1, <2>2, <2>4 DEF Program
  <2> QED
    BY <1>1, <2>3, <2>5, ProgramIsWritten
<1> QED
  BY <1>1, Refused DEF UpdateProgram

LEMMA InvariantOfSpecs == Spec => []SpecsInv
<1>1. Init => SpecsInv
  BY DEF Init, SpecsInv, HardwareIsUnique, ProgramsAreUnique
<1>2. ASSUME SpecsInv, [Next]_vars PROVE SpecsInv'
  <2>1. ASSUME NEW id \in Id, NEW name \in Name, NEW n \in Numbers,
               CreateHardware(id, name, n[1], n[2], n[3])
        PROVE  SpecsInv'
    BY <1>2, <2>1, Sent, HardwareIsCreated
  <2>2. ASSUME NEW id \in Id, NEW name \in Name \cup {NameAbsent}, NEW n \in NumbersChange,
               UpdateHardware(id, name, n[1], n[2], n[3])
        PROVE  SpecsInv'
    BY <1>2, <2>2, Sent, HardwareIsUpdated
  <2>3. ASSUME NEW id \in Id, NEW hw \in Id \cup {NoId}, NEW name \in Name, NEW b \in Buffers,
               CreateProgram(id, hw, name, b[1], b[2])
        PROVE  SpecsInv'
    BY <1>2, <2>3, Sent, ProgramIsCreated
  <2>4. ASSUME NEW id \in Id, NEW name \in Name \cup {NameAbsent}, NEW described \in BOOLEAN,
               NEW b \in BuffersChange, UpdateProgram(id, name, described, b[1], b[2])
        PROVE  SpecsInv'
    BY <1>2, <2>4, Sent, ProgramIsUpdated
  <2>5. CASE UNCHANGED vars
    BY <1>2, <2>5 DEF vars, SpecsInv, HardwareIsUnique, ProgramsAreUnique
  <2> QED
    BY <1>2, <2>1, <2>2, <2>3, <2>4, <2>5 DEF Next
<1> QED
  BY <1>1, <1>2, PTL DEF Spec

-------------------------------------------------------------------------------
\* No sequence of creations and updates stores a spec outside the bounds the core crate
\* is given (models/hardware_spec.rs:38-48, 93-100; models/program_spec.rs:66-72,
\* 108-112).
THEOREM StoredSpecsFit == Spec => []SpecsFit
<1>1. SpecsInv => SpecsFit
  BY DEF SpecsInv, SpecsFit, Hardware
<1> QED
  BY <1>1, InvariantOfSpecs, PTL

\* Every spec has a slug, and it finds that spec alone, after any sequence of creations
\* and renamings (gql/mod.rs:80-91, schema.graphql).
THEOREM SlugsAreAddresses == Spec => []SlugsFindTheirSpec
<1>1. SpecsInv => SlugsFindTheirSpec
  BY DEF SpecsInv, HardwareIsUnique, ProgramsAreUnique, SlugsFindTheirSpec, HardwareBySlug
<1> QED
  BY <1>1, InvariantOfSpecs, PTL

-------------------------------------------------------------------------------
(* The invariant of a walk                                                      *)

Edge == [node : Row, cursor : Int]
Places == 0 .. Cardinality(Row) - 1 \cup {NoCursor}

\* Where the next page starts, without overflow.
Past == IF after = NoCursor THEN 0 ELSE after + 1

WalkTypes ==
  /\ table \in Seq(Row) /\ IsInjective(table) /\ filter \in SUBSET Row
  /\ loaded \in Seq(Row) /\ start \in Seq(Row)
  /\ after \in Places /\ more \in BOOLEAN
  /\ phase \in {"idle", "edges", "count"}
  /\ page \in [first : PageSize \cup {NoLimit}, after : Places, edges : Seq(Edge)]
  /\ phase # "idle" => more /\ page.first \in PageSize /\ page.after = after

\* The rows of the start that the client does not have yet.
Missing == Range(start) \ Range(loaded)

\* The connection has the row behind its first n.
Ahead(r, n) == \E i \in 1 .. Len(Selected) : i > n /\ Selected[i] = r

\* What is missing is on the page that is being read or on those that are still to be
\* asked for, wherever other rows were put meanwhile.
MissingIsAhead == ~ disturbed => \A r \in Missing :
  /\ more
  /\ phase # "count" => Ahead(r, Past)
  /\ phase = "count" => \/ \E i \in 1 .. Len(page.edges) : page.edges[i].node = r
                        \/ Ahead(r, Past + page.first)

WalkInv == WalkTypes /\ MissingIsAhead

-------------------------------------------------------------------------------
(* Indices do not wrap                                                          *)

LEMMA Sizes ==
  /\ MaxIndex \in Nat \ {0} /\ IsFiniteSet(Row) /\ Cardinality(Row) \in 0 .. MaxIndex
  /\ PageSize \subseteq 1 .. MaxIndex /\ NoCursor \notin Int /\ NoLimit \notin Int
  /\ \A first \in PageSize : Cardinality(Row) + first <= MaxIndex
  /\ Filter \subseteq SUBSET Row
<1>1. IsFiniteSet(Row) => Cardinality(Row) \in Nat
  BY FS_CardinalityType
<1>2. NoCursor \notin Int /\ NoLimit \notin Int
  BY PaginationAssumption, Zenon
<1>3. Filter \subseteq SUBSET Row
  BY PaginationAssumption, Zenon
<1> QED
  BY <1>1, <1>2, <1>3, PaginationAssumption

LEMMA NoWrap == ASSUME NEW v \in -1 .. MaxIndex PROVE WrapIndex(v) = v
<1>1. MaxIndex \in Nat \ {0}
  BY Sizes
<1> DEFINE u == v + MaxIndex + 1
           w == 2 * (MaxIndex + 1)
<1>2. u \in Nat /\ w \in Nat \ {0} /\ u < w
  BY <1>1
<1>3. u % w = u
  <2> HIDE DEF u, w
  <2> QED
    BY <1>2
<1>4. WrapIndex(v) = u - (MaxIndex + 1)
  BY <1>3 DEF WrapIndex
<1> QED
  BY <1>1, <1>4

\* There are no more rows in a sequence without repetition than there are rows.
LEMMA FewRows ==
  ASSUME NEW q \in Seq(Row), \A a, b \in 1 .. Len(q) : q[a] = q[b] => a = b
  PROVE  Len(q) \in 0 .. Cardinality(Row)
<1>1. q \in [1 .. Len(q) -> Row] /\ Len(q) \in Nat
  BY LenProperties
<1>2. q \in Injection(1 .. Len(q), Row)
  BY <1>1 DEF Injection, IsInjective
<1>3. Cardinality(1 .. Len(q)) <= Cardinality(Row)
  BY <1>2, Sizes, FS_Injection
<1>4. Cardinality(1 .. Len(q)) = Len(q)
  <2>1. PICK n \in Nat : n = Len(q)
    BY <1>1
  <2>2. Cardinality(1 .. n) = IF 1 > n THEN 0 ELSE n - 1 + 1
    BY FS_Interval
  <2> QED
    BY <2>1, <2>2
<1> QED
  BY <1>1, <1>3, <1>4, Sizes

\* What a connection selects.
LEMMA SelectedRows ==
  ASSUME table \in Seq(Row), IsInjective(table), filter \in SUBSET Row
  PROVE  /\ Selected \in Seq(Row) /\ Selected \in Seq(filter)
         /\ Len(Selected) \in 0 .. Cardinality(Row)
         /\ \A a, b \in 1 .. Len(Selected) : Selected[a] = Selected[b] => a = b
<1>1. PICK t \in Seq(Row) : t = table
  OBVIOUS
<1>2. PICK f \in SUBSET Row : f = filter
  OBVIOUS
<1>3. DOMAIN t = 1 .. Len(t)
  BY LenProperties
<1>4. \A a, b \in 1 .. Len(t) : t[a] = t[b] => a = b
  BY <1>1, <1>3 DEF IsInjective
<1>5. Where(t, f) \in Seq(Row) /\ Where(t, f) \in Seq(f)
  BY WhereType
<1>6. \A a, b \in 1 .. Len(Where(t, f)) : Where(t, f)[a] = Where(t, f)[b] => a = b
  BY <1>4, WhereOnce
<1>7. Len(Where(t, f)) \in 0 .. Cardinality(Row)
  BY <1>5, <1>6, FewRows
<1> QED
  BY <1>1, <1>2, <1>5, <1>6, <1>7 DEF Selected

\* The page from an offset on that fits, whose last row is before top.
LEMMA PageOf ==
  ASSUME NEW p, NEW o, NEW top, NEW rows \in Seq(Row), Len(rows) <= MaxIndex,
         Offset(p) = o, o \in 0 .. MaxIndex, top \in 0 .. Len(rows),
         top = IF p.first = NoLimit THEN Len(rows) ELSE Least(o + p.first, Len(rows))
  PROVE  LET k == IF o < top THEN top - o ELSE 0 IN
         /\ EdgesOf(rows, p) \in Seq(Edge) /\ Len(EdgesOf(rows, p)) = k
         /\ \A i \in 1 .. k : EdgesOf(rows, p)[i] = [node |-> rows[o + i], cursor |-> o + i - 1]
<1> DEFINE k == IF o < top THEN top - o ELSE 0
<1>1. MaxIndex \in Nat \ {0}
  BY Sizes
<1>2. Rows(rows, p) = SubSeq(rows, o + 1, top)
  BY DEF Rows
<1>3. PICK q : q = SubSeq(rows, o + 1, top)
  OBVIOUS
<1>4. \A i \in o + 1 .. top : rows[i] \in Row
  BY <1>1
<1>5. q \in Seq(Row) /\ Len(q) = k /\ \A i \in 1 .. k : q[i] = rows[o + i]
  <2>1. /\ q \in Seq(Row) /\ Len(q) = IF o + 1 <= top THEN top - (o + 1) + 1 ELSE 0
        /\ \A i \in 1 .. top - (o + 1) + 1 : q[i] = rows[o + 1 + i - 1]
    BY <1>3, <1>4, SubSeqProperties
  <2> QED
    BY <2>1
<1>6. EdgesOf(rows, p) = [i \in 1 .. k |-> [node |-> q[i], cursor |-> WrapIndex(o + i - 1)]]
  BY <1>2, <1>3, <1>5 DEF EdgesOf
<1>7. ASSUME NEW i \in 1 .. k
      PROVE  /\ q[i] \in Row /\ q[i] = rows[o + i] /\ o + i - 1 \in 0 .. MaxIndex
             /\ WrapIndex(o + i - 1) = o + i - 1
  <2>1. o + i - 1 \in -1 .. MaxIndex
    BY <1>1
  <2> QED
    BY <2>1, <1>5, NoWrap
<1>8. EdgesOf(rows, p) = [i \in 1 .. k |-> [node |-> rows[o + i], cursor |-> o + i - 1]]
  <2> HIDE DEF k
  <2> QED
    BY <1>6, <1>7
<1>9. k \in Nat
  BY <1>1
<1>10. \A i \in 1 .. k : [node |-> rows[o + i], cursor |-> o + i - 1] \in Edge
  <2>1. \A i \in 1 .. k : rows[o + i] \in Row /\ o + i - 1 \in Int
    BY <1>5, <1>7
  <2> QED
    BY <2>1 DEF Edge
<1> QED
  BY <1>8, <1>9, <1>10

LEMMA OffsetOf ==
  ASSUME NEW p, p.after \in 0 .. MaxIndex - 1 \cup {NoCursor}
  PROVE  Offset(p) = (IF p.after = NoCursor THEN 0 ELSE p.after + 1) /\ Offset(p) \in 0 .. MaxIndex
<1>1. MaxIndex \in Nat \ {0}
  BY Sizes
<1>2. p.after # NoCursor => p.after + 1 \in -1 .. MaxIndex
  BY <1>1
<1> QED
  BY <1>1, <1>2, NoWrap DEF Offset

\* What the page metadata say of it.
LEMMA InfoOf ==
  ASSUME NEW p, NEW o, NEW top, NEW total \in 0 .. MaxIndex,
         Offset(p) = o, o \in 0 .. MaxIndex, top \in 0 .. total,
         p.first # NoLimit => p.first \in 0 .. MaxIndex /\ o + p.first <= MaxIndex,
         top = IF p.first = NoLimit THEN total ELSE Least(o + p.first, total)
  PROVE  /\ PageInfo(p, total).start_cursor = IF o < top THEN o ELSE NoCursor
         /\ PageInfo(p, total).end_cursor = IF o < top THEN top - 1 ELSE NoCursor
         /\ PageInfo(p, total).has_next_page = (top < total)
<1>1. MaxIndex \in Nat \ {0} /\ NoLimit \notin Int
  BY Sizes
<1>2. EndIndex(p, total) = top - 1
  <2>1. CASE p.first = NoLimit
    BY <2>1 DEF EndIndex
  <2>2. CASE p.first # NoLimit
    <3>1. WrapIndex(o + p.first) = o + p.first
      <4>1. o + p.first \in -1 .. MaxIndex
        BY <1>1, <2>2
      <4> QED
        BY <4>1, NoWrap
    <3>2. top - 1 \in -1 .. MaxIndex
      BY <1>1
    <3> QED
      BY <2>2, <3>1, <3>2, NoWrap DEF EndIndex
  <2> QED
    BY <2>1, <2>2
<1>3. top - 1 + 1 \in -1 .. MaxIndex /\ top - 1 + 1 = top /\ (top - 1 < o <=> ~ (o < top))
  BY <1>1
<1>4. WrapIndex(top - 1 + 1) = top
  BY <1>3, NoWrap
<1> QED
  BY <1>2, <1>3, <1>4 DEF PageInfo

-------------------------------------------------------------------------------
(* Both properties follow from the invariant                                    *)

LEMMA TypesGiveAccuracy == WalkTypes => PageInfoIsAccurate
<1> SUFFICES ASSUME WalkTypes, NEW p \in Request, Fits(p) PROVE Accurate(p)
  BY DEF PageInfoIsAccurate
<1>1. MaxIndex \in Nat \ {0} /\ NoLimit \notin Int /\ Cardinality(Row) <= MaxIndex
  BY Sizes
<1>2. PICK rows : rows = Selected
  OBVIOUS
<1>3. rows \in Seq(Row) /\ Len(rows) \in 0 .. MaxIndex
  BY <1>1, <1>2, Sizes, SelectedRows DEF WalkTypes
<1>4. p.after \in 0 .. MaxIndex - 1 \cup {NoCursor}
  BY <1>1 DEF Request, Fits
<1>5. PICK o \in 0 .. MaxIndex : o = Offset(p)
  BY <1>4, OffsetOf
<1>6. p.first # NoLimit => p.first \in 0 .. MaxIndex /\ o + p.first <= MaxIndex
  BY <1>5 DEF Request, Fits
<1>7. PICK top : top = IF p.first = NoLimit THEN Len(rows) ELSE Least(o + p.first, Len(rows))
  OBVIOUS
<1>8. top \in 0 .. Len(rows)
  BY <1>3, <1>6, <1>7 DEF Least
<1>9. PICK total \in 0 .. MaxIndex : total = Len(rows)
  BY <1>3
<1>10. PICK info : info = PageInfo(p, total)
  OBVIOUS
<1>11. /\ info.start_cursor = IF o < top THEN o ELSE NoCursor
       /\ info.end_cursor = IF o < top THEN top - 1 ELSE NoCursor
       /\ info.has_next_page = (top < total)
  BY <1>5, <1>6, <1>7, <1>8, <1>9, <1>10, InfoOf
<1>12. PICK edges : edges = EdgesOf(rows, p)
  OBVIOUS
<1>13. PICK k : k = IF o < top THEN top - o ELSE 0
  OBVIOUS
<1>14. /\ edges \in Seq(Edge) /\ Len(edges) = k
       /\ \A i \in 1 .. k : edges[i] = [node |-> rows[o + i], cursor |-> o + i - 1]
  <2>1. Len(rows) <= MaxIndex
    BY <1>3
  <2> QED
    BY <1>3, <1>5, <1>7, <1>8, <1>12, <1>13, <2>1, PageOf
<1>15. edges = get_edges(p) /\ info = PageInfo(p, get_total_count) /\ Len(Selected) = total
  BY <1>2, <1>9, <1>10, <1>12 DEF get_edges, get_total_count
<1>16. edges = <<>> => info.start_cursor = NoCursor /\ info.end_cursor = NoCursor
  <2>1. edges = <<>> => ~ (o < top)
    BY <1>3, <1>8, <1>13, <1>14
  <2> QED
    BY <1>11, <2>1
<1>17. edges # <<>> => info.start_cursor = edges[1].cursor /\ info.end_cursor = edges[Len(edges)].cursor
  <2> SUFFICES ASSUME edges # <<>>
               PROVE  info.start_cursor = edges[1].cursor /\ info.end_cursor = edges[Len(edges)].cursor
    OBVIOUS
  <2>1. o < top
    BY <1>3, <1>8, <1>13, <1>14
  <2>2. k = top - o /\ 1 \in 1 .. k /\ k \in 1 .. k
    BY <2>1, <1>3, <1>8, <1>13
  <2>3. edges[1].cursor = o + 1 - 1 /\ edges[k].cursor = o + k - 1
    BY <2>2, <1>14
  <2> QED
    BY <2>1, <2>2, <2>3, <1>3, <1>8, <1>11, <1>14
<1>18. info.has_next_page = (o + Len(edges) < total)
  <2>1. CASE o < top
    BY <2>1, <1>3, <1>8, <1>11, <1>13, <1>14
  <2>2. CASE ~ (o < top)
    <3>1. k = 0 /\ top <= o
      BY <2>2, <1>3, <1>8, <1>13
    <3>2. top < total <=> o < total
      BY <2>2, <3>1, <1>3, <1>6, <1>7, <1>8, <1>9 DEF Least
    <3> QED
      BY <2>2, <3>1, <3>2, <1>11, <1>14
  <2> QED
    BY <2>1, <2>2
<1> QED
  BY <1>5, <1>15, <1>16, <1>17, <1>18, Zenon DEF Accurate

LEMMA InvGivesWalk == WalkInv => WalkSeesEveryRow
BY DEF WalkInv, MissingIsAhead, Missing, WalkSeesEveryRow

-------------------------------------------------------------------------------
(* The invariant is kept                                                        *)

\* A row that is put somewhere moves the others up, at most.
LEMMA RowsMoveUp ==
  ASSUME NEW t \in Seq(Row), NEW r \in Row, NEW k \in 1 .. Len(t) + 1, NEW f,
         NEW i \in 1 .. Len(Where(t, f))
  PROVE  \E j \in 1 .. Len(Where(InsertAt(t, k, r), f)) :
           j >= i /\ Where(InsertAt(t, k, r), f)[j] = Where(t, f)[i]
<1>1. PICK n \in Nat : n = Len(t)
  BY LenProperties
<1>2. k - 1 \in 0 .. n /\ k - 1 + 1 = k
  BY <1>1
<1>3. PICK a \in Seq(Row), b \in Seq(Row) : /\ a = SubSeq(t, 1, k - 1) /\ b = SubSeq(t, k, n)
                                            /\ a \o b = t
  <2>1. SubSeq(t, 1, k - 1) \in Seq(Row) /\ SubSeq(t, k, n) \in Seq(Row)
    BY <1>1, <1>2, SubSeqProperties
  <2>2. SubSeq(t, 1, k - 1) \o SubSeq(t, k - 1 + 1, n) = SubSeq(t, 1, n)
    <3>1. /\ 1 \in 1 .. Len(t) + 1 /\ k - 1 \in 1 - 1 .. Len(t) /\ n \in k - 1 .. Len(t)
          /\ t \in Seq(Row)
      BY <1>1, <1>2
    <3> QED
      BY ONLY <3>1, ConcatAdjacentSubSeq
  <2>3. SubSeq(t, 1, n) = t
    BY <1>1, SubSeqFull
  <2> QED
    BY <1>2, <2>1, <2>2, <2>3
<1>4. PICK c \in Seq(Row) : c = <<r>>
  <2>1. <<r>> \in Seq(Row)
    OBVIOUS
  <2> QED
    BY <2>1
<1>5. InsertAt(t, k, r) = (a \o c) \o b /\ a \o c \in Seq(Row)
  BY <1>1, <1>3, <1>4, ConcatProperties DEF InsertAt
<1>6. PICK x \in Seq(Row), y \in Seq(Row), z \in Seq(Row) :
        x = Where(a, f) /\ y = Where(b, f) /\ z = Where(c, f)
  BY WhereType
<1>7. Where(t, f) = x \o y /\ Where(InsertAt(t, k, r), f) = (x \o z) \o y
  <2>1. t = a \o b
    BY <1>3
  <2>2. PICK d \in Seq(Row) : d = a \o c
    BY <1>5
  <2>3. PICK w \in Seq(Row) : w = Where(d, f)
    BY WhereType
  <2>4. x = Where(a, f) /\ y = Where(b, f) /\ z = Where(c, f)
    BY <1>6
  <2>5. PICK e \in Seq(Row) : e = InsertAt(t, k, r)
    BY <1>5, ConcatProperties
  <2>6. e = d \o b
    BY <1>5, <2>2, <2>5
  <2>7. Joined(t, a, b) /\ Joined(d, a, c) /\ Joined(e, d, b)
    BY <2>1, <2>2, <2>6, Zenon DEF Joined
  <2>8. Joined(Where(t, f), x, y) /\ Joined(w, x, z) /\ Joined(Where(e, f), w, y)
    BY <2>3, <2>4, <2>7, WhereConcat
  <2> QED
    BY <2>5, <2>8, Zenon DEF Joined
<1>8. PICK u \in Seq(Row), v \in Seq(Row) : u = x \o y /\ v = (x \o z) \o y
  <2>1. x \o y \in Seq(Row) /\ (x \o z) \o y \in Seq(Row)
    OBVIOUS
  <2> QED
    BY <2>1
<1>9. i \in 1 .. Len(u)
  BY <1>7, <1>8
<1> SUFFICES \E j \in 1 .. Len(v) : j >= i /\ v[j] = u[i]
  BY <1>7, <1>8
<1>10. PICK l \in Nat, m \in Nat, h \in Nat : l = Len(x) /\ m = Len(y) /\ h = Len(z)
  BY LenProperties
<1>11. PICK w \in Seq(Row) : w = x \o z /\ Len(w) = l + h /\ \A j \in 1 .. l : w[j] = x[j]
  <2>1. x \o z \in Seq(Row) /\ Len(x \o z) = l + h /\ \A j \in 1 .. l : (x \o z)[j] = x[j]
    BY <1>10
  <2> QED
    BY <2>1
<1>12. /\ Len(u) = l + m /\ Len(v) = l + h + m
       /\ \A j \in 1 .. l : u[j] = x[j] /\ v[j] = w[j]
  BY <1>8, <1>10, <1>11
<1>13. \A j \in 1 .. m : u[l + j] = y[j]
  BY <1>8, <1>10
<1>14. \A j \in 1 .. m : v[l + h + j] = y[j]
  BY <1>8, <1>10, <1>11
<1>15. CASE i <= l
  <2>1. i \in 1 .. l /\ i \in 1 .. Len(v) /\ v[i] = u[i]
    <3>1. i \in 1 .. l /\ i \in 1 .. l + h + m
      BY <1>9, <1>10, <1>12, <1>15
    <3> QED
      BY <3>1, <1>11, <1>12
  <2>2. i >= i
    BY <1>9, <1>12
  <2> QED
    BY <2>1, <2>2
<1>16. CASE i > l
  <2>1. i - l \in 1 .. m /\ l + (i - l) = i /\ i + h = l + h + (i - l)
    BY <1>9, <1>12, <1>16
  <2>2. u[i] = y[i - l] /\ v[i + h] = y[i - l]
    BY <1>13, <1>14, <2>1
  <2>3. i + h \in 1 .. Len(v) /\ i + h >= i
    BY <1>9, <1>12, <1>16
  <2> QED
    BY <2>2, <2>3
<1> QED
  <2>1. i \in Int
    BY <1>9
  <2>2. i <= l \/ i > l
    BY <2>1
  <2> QED
    BY <2>2, <1>15, <1>16, Zenon

\* A table in which a row is put that it does not have is a table.
LEMMA RowIsPut ==
  ASSUME NEW t \in Seq(Row), \A a, b \in 1 .. Len(t) : t[a] = t[b] => a = b,
         NEW r \in Row, \A i \in 1 .. Len(t) : t[i] # r, NEW k \in 1 .. Len(t) + 1
  PROVE  InsertAt(t, k, r) \in Seq(Row) /\ IsInjective(InsertAt(t, k, r))
<1>1. PICK n \in Nat : n = Len(t)
  BY LenProperties
<1>2. /\ SubSeq(t, 1, k - 1) \in Seq(Row) /\ Len(SubSeq(t, 1, k - 1)) = k - 1
      /\ \A j \in 1 .. k - 1 : SubSeq(t, 1, k - 1)[j] = t[j]
      /\ SubSeq(t, k, n) \in Seq(Row) /\ Len(SubSeq(t, k, n)) = n - k + 1
      /\ \A j \in 1 .. n - k + 1 : SubSeq(t, k, n)[j] = t[k + j - 1]
  <2>1. \A j \in 1 .. n : t[j] \in Row
    BY <1>1
  <2>2. /\ SubSeq(t, 1, k - 1) \in Seq(Row)
        /\ Len(SubSeq(t, 1, k - 1)) = IF 1 <= k - 1 THEN k - 1 - 1 + 1 ELSE 0
        /\ \A j \in 1 .. k - 1 - 1 + 1 : SubSeq(t, 1, k - 1)[j] = t[1 + j - 1]
    BY <1>1, <2>1, SubSeqProperties
  <2>3. /\ SubSeq(t, k, n) \in Seq(Row)
        /\ Len(SubSeq(t, k, n)) = IF k <= n THEN n - k + 1 ELSE 0
        /\ \A j \in 1 .. n - k + 1 : SubSeq(t, k, n)[j] = t[k + j - 1]
    BY <1>1, <2>1, SubSeqProperties
  <2> QED
    BY <1>1, <2>2, <2>3
<1>3. PICK u : u = InsertAt(t, k, r)
  OBVIOUS
<1>4. /\ u \in Seq(Row) /\ Len(u) = n + 1
      /\ \A j \in 1 .. n + 1 : u[j] = IF j < k THEN t[j] ELSE IF j = k THEN r ELSE t[j - 1]
  <2>1. PICK a \in Seq(Row), b \in Seq(Row) : a = SubSeq(t, 1, k - 1) /\ b = SubSeq(t, k, n)
    BY <1>2
  <2>2. u = (a \o <<r>>) \o b
    BY <1>1, <1>3, <2>1 DEF InsertAt
  <2>3. /\ Len(a) = k - 1 /\ \A j \in 1 .. k - 1 : a[j] = t[j]
        /\ Len(b) = n - k + 1 /\ \A j \in 1 .. n - k + 1 : b[j] = t[k + j - 1]
    BY <1>2, <2>1
  <2>4. u \in Seq(Row) /\ Len(u) = n + 1
    BY <1>1, <2>2, <2>3
  <2>5. ASSUME NEW j \in 1 .. n + 1
        PROVE  u[j] = IF j < k THEN t[j] ELSE IF j = k THEN r ELSE t[j - 1]
    <3>1. CASE j < k
      BY <1>1, <2>2, <2>3, <3>1
    <3>2. CASE j = k
      BY <1>1, <2>2, <2>3, <3>2
    <3>3. CASE j > k
      <4>1. j - k \in 1 .. n - k + 1 /\ k + (j - k) - 1 = j - 1
        BY <1>1, <3>3
      <4>2. a \o <<r>> \in Seq(Row) /\ Len(a \o <<r>>) = k
        BY <2>3
      <4>3. u[j] = b[j - k]
        <5>1. PICK v \in Seq(Row) : v = a \o <<r>>
          BY <4>2
        <5>2. Len(v) = k /\ u = v \o b /\ j > Len(v) /\ j \in 1 .. Len(v) + Len(b)
          BY <1>1, <2>2, <2>3, <3>3, <4>2, <5>1
        <5> QED
          BY <5>2
      <4> QED
        BY <2>3, <3>3, <4>1, <4>3
    <3> QED
      BY <3>1, <3>2, <3>3
  <2> QED
    BY <2>4, <2>5
<1>5. ASSUME NEW a \in 1 .. n + 1, NEW b \in 1 .. n + 1, u[a] = u[b] PROVE a = b
  BY <1>1, <1>4, <1>5
<1> QED
  BY <1>3, <1>4, <1>5, LenProperties DEF IsInjective

LEMMA WalkInitKeeps == WalkInit => WalkInv
<1> SUFFICES ASSUME WalkInit PROVE WalkInv
  OBVIOUS
<1> USE DEF WalkInit
<1>1. table \in Seq(Row) /\ IsInjective(table)
  <2>1. PICK n \in 0 .. RowsAtFirst : table \in [1 .. n -> Row]
    OBVIOUS
  <2> QED
    BY <2>1
<1>2. filter \in SUBSET Row
  BY Sizes
<1>3. start \in Seq(Row) /\ loaded \in Seq(Row) /\ page.edges \in Seq(Edge)
  <2>1. Selected \in Seq(Row)
    BY <1>1, <1>2, SelectedRows
  <2> QED
    BY <2>1, EmptySeq DEF NoPage
<1>4. page \in [first : PageSize \cup {NoLimit}, after : Places, edges : Seq(Edge)]
  BY <1>3 DEF NoPage, Places
<1>5. WalkTypes
  BY <1>1, <1>2, <1>3, <1>4 DEF WalkTypes, Places
<1>6. MissingIsAhead
  <2> SUFFICES ASSUME NEW r \in Missing PROVE Ahead(r, Past)
    BY DEF MissingIsAhead
  <2>1. Past = 0
    BY DEF Past
  <2>2. PICK s \in Seq(Row) : s = start
    BY <1>3
  <2>3. PICK i \in 1 .. Len(s) : s[i] = r
    BY <2>2, LenProperties DEF Missing, Range
  <2>4. i \in 1 .. Len(Selected) /\ i > 0 /\ Selected[i] = r
    BY <2>2, <2>3
  <2> QED
    BY <2>1, <2>4 DEF Ahead
<1> QED
  BY <1>5, <1>6 DEF WalkInv

LEMMA AskKeeps == WalkInv /\ Ask => WalkInv'
<1> SUFFICES ASSUME WalkInv, Ask PROVE WalkInv'
  OBVIOUS
<1> USE DEF WalkInv, Ask
<1>1. PICK first \in PageSize : page' = [first |-> first, after |-> after, edges |-> <<>>]
  OBVIOUS
<1>2. after \in Places /\ <<>> \in Seq(Edge)
  BY EmptySeq DEF WalkTypes
<1>3. page' \in [first : PageSize \cup {NoLimit}, after : Places, edges : Seq(Edge)]
  BY <1>1, <1>2
<1>4. WalkTypes'
  BY <1>1, <1>3 DEF WalkTypes
<1>5. Past' = Past /\ Selected' = Selected
  BY DEF Past, Selected
<1>6. Missing' = Missing /\ \A r, n : Ahead(r, n)' <=> Ahead(r, n)
  BY <1>5 DEF Missing, Ahead
<1>7. MissingIsAhead'
  BY <1>5, <1>6 DEF MissingIsAhead
<1> QED
  BY <1>4, <1>7

\* The page in progress, in constants.
LEMMA PageInProgress ==
  ASSUME WalkTypes, phase # "idle"
  PROVE  /\ Offset(page) = Past /\ page.first \in PageSize /\ page.first \in Nat \ {0}
         /\ Past \in 0 .. Cardinality(Row) /\ Past + page.first <= MaxIndex
         /\ page.first # NoLimit
<1>1. page.after = after /\ after \in Places /\ page.first \in PageSize
  BY DEF WalkTypes
<1>2. page.after \in 0 .. MaxIndex - 1 \cup {NoCursor}
  BY <1>1, Sizes DEF Places
<1>3. Offset(page) = Past
  <2>1. PICK p : p = page
    OBVIOUS
  <2>2. Offset(p) = (IF p.after = NoCursor THEN 0 ELSE p.after + 1)
    BY <1>2, <2>1, OffsetOf
  <2> QED
    BY <1>1, <2>1, <2>2 DEF Past
<1>4. Past \in 0 .. Cardinality(Row)
  BY <1>1, Sizes DEF Past, Places
<1>5. page.first \in 1 .. MaxIndex /\ Cardinality(Row) + page.first <= MaxIndex
  BY <1>1, Sizes
<1> QED
  BY <1>1, <1>3, <1>4, <1>5, Sizes

LEMMA ReadEdgesKeeps == WalkInv /\ ReadEdges => WalkInv'
<1> SUFFICES ASSUME WalkInv, ReadEdges PROVE WalkInv'
  OBVIOUS
<1> USE DEF WalkInv, ReadEdges
<1>1. PICK p : p = page
  OBVIOUS
<1>2. PICK rows : rows = Selected
  OBVIOUS
<1>3. /\ p.first \in Nat \ {0} /\ Offset(p) \in 0 .. MaxIndex /\ Offset(p) = Past
      /\ p.first # NoLimit
  BY <1>1, PageInProgress, Sizes
<1>4. PICK o \in 0 .. MaxIndex : o = Offset(p)
  BY <1>3
<1>5. rows \in Seq(Row) /\ Len(rows) \in 0 .. MaxIndex
  BY <1>2, SelectedRows, Sizes DEF WalkTypes
<1>6. PICK top : top = Least(o + p.first, Len(rows))
  OBVIOUS
<1>7. top \in 0 .. Len(rows)
  BY <1>3, <1>5, <1>6 DEF Least
<1>8. PICK edges : edges = EdgesOf(rows, p)
  OBVIOUS
<1>9. PICK k : k = IF o < top THEN top - o ELSE 0
  OBVIOUS
<1>10. /\ edges \in Seq(Edge) /\ Len(edges) = k
       /\ \A i \in 1 .. k : edges[i] = [node |-> rows[o + i], cursor |-> o + i - 1]
  <2>1. Len(rows) <= MaxIndex /\ top = IF p.first = NoLimit THEN Len(rows) ELSE Least(o + p.first, Len(rows))
    BY <1>3, <1>5, <1>6
  <2> QED
    BY <1>4, <1>5, <1>7, <1>8, <1>9, <2>1, PageOf
<1>11. page' = [page EXCEPT !.edges = edges]
  BY <1>1, <1>2, <1>8 DEF get_edges
<1>12. WalkTypes'
  <2>1. page' \in [first : PageSize \cup {NoLimit}, after : Places, edges : Seq(Edge)]
    BY <1>10, <1>11 DEF WalkTypes
  <2>2. page'.first = page.first /\ page'.after = page.after
    BY <1>11 DEF WalkTypes
  <2> QED
    BY <2>1, <2>2 DEF WalkTypes
<1>13. Past' = Past /\ Selected' = Selected
  BY DEF Past, Selected
<1>14. MissingIsAhead'
  <2> SUFFICES ASSUME ~ disturbed, NEW r \in Missing
               PROVE  \/ \E i \in 1 .. Len(edges) : edges[i].node = r
                      \/ Ahead(r, o + p.first)
    <3>1. page'.edges = edges /\ page'.first = p.first /\ Past' = o /\ phase' = "count"
      BY <1>1, <1>3, <1>4, <1>11, <1>13 DEF WalkTypes
    <3>2. Missing' = Missing /\ more' = more /\ (~ disturbed' <=> ~ disturbed)
      BY DEF Missing
    <3>3. \A r : Ahead(r, o + p.first)' <=> Ahead(r, o + p.first)
      BY <1>13 DEF Ahead
    <3>4. \A r \in Missing : ~ disturbed => more
      BY DEF MissingIsAhead
    <3> QED
      BY <3>1, <3>2, <3>3, <3>4 DEF MissingIsAhead
  <2>1. PICK i \in 1 .. Len(rows) : i > o /\ rows[i] = r
    BY <1>2, <1>3, <1>4 DEF MissingIsAhead, Ahead
  <2>2. CASE i > o + p.first
    BY <1>2, <2>1, <2>2 DEF Ahead
  <2>3. CASE i <= o + p.first
    <3>1. i - o \in 1 .. k /\ o + (i - o) = i
      BY <1>3, <1>5, <1>6, <1>9, <2>1, <2>3 DEF Least
    <3>2. edges[i - o].node = r
      BY <1>10, <2>1, <3>1
    <3> QED
      BY <1>10, <3>1, <3>2
  <2> QED
    BY <1>3, <2>1, <2>2, <2>3
<1> QED
  BY <1>12, <1>14

LEMMA InsertKeeps == ASSUME WalkInv, NEW r \in Row, Insert(r) PROVE WalkInv'
<1> USE DEF WalkInv, Insert
<1>1. PICK t \in Seq(Row) : t = table
  BY DEF WalkTypes
<1>2. PICK f \in SUBSET Row : f = filter
  BY DEF WalkTypes
<1>3. PICK k \in 1 .. Len(t) + 1 : table' = InsertAt(t, k, r)
  BY <1>1
<1>4. /\ \A i \in 1 .. Len(t) : t[i] # r
      /\ \A a, b \in 1 .. Len(t) : t[a] = t[b] => a = b
  BY <1>1, LenProperties DEF WalkTypes, IsInjective, Range
<1>5. InsertAt(t, k, r) \in Seq(Row) /\ IsInjective(InsertAt(t, k, r))
  BY <1>4, RowIsPut
<1>6. WalkTypes'
  BY <1>3, <1>5 DEF WalkTypes
<1>7. Past' = Past /\ Missing' = Missing
  BY DEF Past, Missing
<1>8. ASSUME NEW q, NEW n, n \in Int, Ahead(q, n) PROVE Ahead(q, n)'
  <2>1. Selected = Where(t, f) /\ Selected' = Where(InsertAt(t, k, r), f)
    BY <1>1, <1>2, <1>3 DEF Selected
  <2>2. PICK i \in 1 .. Len(Where(t, f)) : i > n /\ Where(t, f)[i] = q
    BY <1>8, <2>1 DEF Ahead
  <2>3. PICK j \in 1 .. Len(Where(InsertAt(t, k, r), f)) :
          j >= i /\ Where(InsertAt(t, k, r), f)[j] = Where(t, f)[i]
    BY RowsMoveUp
  <2>4. j > n
    BY <1>8, <2>2, <2>3
  <2> QED
    BY <2>1, <2>2, <2>3, <2>4 DEF Ahead
<1>9. Past \in Int /\ (phase = "count" => Past + page.first \in Int)
  <2>1. Past \in Int
    BY Sizes DEF WalkTypes, Places, Past
  <2>2. phase = "count" => page.first \in Int
    BY PageInProgress
  <2> QED
    BY <2>1, <2>2
<1>10. MissingIsAhead'
  BY <1>7, <1>8, <1>9 DEF MissingIsAhead
<1> QED
  BY <1>6, <1>10

LEMMA DisturbanceKeeps ==
  ASSUME WalkInv, NEW r \in Row, Modify(r) \/ Delete(r) PROVE WalkInv'
<1> USE DEF WalkInv, Modify, Delete
<1>1. PICK t \in Seq(Row) : t = table
  BY DEF WalkTypes
<1>2. PICK q : q = Where(t, Row \ {r})
  OBVIOUS
<1>3. /\ q \in Seq(Row) /\ q \in Seq(Row \ {r})
      /\ \A a, b \in 1 .. Len(q) : q[a] = q[b] => a = b
  <2>1. \A a, b \in 1 .. Len(t) : t[a] = t[b] => a = b
    BY <1>1, LenProperties DEF WalkTypes, IsInjective
  <2>2. PICK S : S = Row \ {r}
    OBVIOUS
  <2>3. Where(t, S) \in Seq(Row) /\ Where(t, S) \in Seq(S)
    BY WhereType
  <2>4. \A a, b \in 1 .. Len(Where(t, S)) : Where(t, S)[a] = Where(t, S)[b] => a = b
    BY <2>1, WhereOnce
  <2> QED
    BY <2>2, <2>3, <2>4, <1>2
<1>4. table' = q \/ \E k \in 1 .. Len(q) + 1 : table' = InsertAt(q, k, r)
  BY <1>1, <1>2 DEF Others
<1>5. IsInjective(q)
  BY <1>3, LenProperties DEF IsInjective
<1>6. \A i \in 1 .. Len(q) : q[i] # r
  BY <1>3
<1>7. \A k \in 1 .. Len(q) + 1 : InsertAt(q, k, r) \in Seq(Row) /\ IsInjective(InsertAt(q, k, r))
  BY <1>3, <1>6, RowIsPut
<1>8. WalkTypes'
  BY <1>3, <1>4, <1>5, <1>7 DEF WalkTypes
<1>9. disturbed'
  OBVIOUS
<1> QED
  BY <1>8, <1>9 DEF MissingIsAhead

LEMMA ReadCountKeeps == WalkInv /\ ReadCount => WalkInv'
<1> SUFFICES ASSUME WalkInv, ReadCount PROVE WalkInv'
  OBVIOUS
<1> USE DEF WalkInv
<1>1. PICK p : p = page
  OBVIOUS
<1>2. PICK rows : rows = Selected
  OBVIOUS
<1>3. phase = "count" /\ phase' = "idle" /\ more
      /\ UNCHANGED <<table, filter, start, disturbed>> /\ page' = NoPage
  BY DEF ReadCount, WalkTypes
<1>4. /\ rows \in Seq(Row) /\ Len(rows) \in 0 .. Cardinality(Row)
      /\ \A a, b \in 1 .. Len(rows) : rows[a] = rows[b] => a = b
  BY <1>2, SelectedRows DEF WalkTypes
<1>5. Cardinality(Row) \in 0 .. MaxIndex /\ MaxIndex \in Nat \ {0}
  BY Sizes
<1>6. PICK o \in 0 .. Cardinality(Row) : o = Past
  BY <1>3, PageInProgress
<1>7. /\ o = Offset(p) /\ p.first \in Nat \ {0} /\ o + p.first <= MaxIndex
      /\ p.first # NoLimit /\ p.first \in 0 .. MaxIndex /\ o \in 0 .. MaxIndex
  <2>1. /\ o = Offset(p) /\ p.first \in Nat \ {0} /\ o + p.first <= MaxIndex /\ p.first # NoLimit
    BY <1>1, <1>3, <1>6, PageInProgress
  <2> QED
    BY <2>1, <1>5
<1>8. PICK total \in 0 .. MaxIndex : total = Len(rows)
  BY <1>4, <1>5
<1>9. PICK top : top = Least(o + p.first, total)
  OBVIOUS
<1>10. top \in 0 .. total
  BY <1>7, <1>8, <1>9 DEF Least
<1>11. PICK info : info = PageInfo(p, total)
  OBVIOUS
<1>12. /\ info.end_cursor = IF o < top THEN top - 1 ELSE NoCursor
       /\ info.has_next_page = (top < total)
  <2>1. top = IF p.first = NoLimit THEN total ELSE Least(o + p.first, total)
    BY <1>7, <1>9
  <2> QED
    BY <1>7, <1>8, <1>10, <1>11, <2>1, InfoOf
<1>13. PICK edges \in Seq(Edge) : edges = page.edges
  BY DEF WalkTypes
<1>14. PICK nodes : nodes = [i \in DOMAIN edges |-> edges[i].node]
  OBVIOUS
<1>15. /\ nodes \in Seq(Row) /\ Len(nodes) = Len(edges)
       /\ \A i \in 1 .. Len(edges) : nodes[i] = edges[i].node
  <2>1. DOMAIN edges = 1 .. Len(edges) /\ Len(edges) \in Nat
    BY LenProperties
  <2>2. ASSUME NEW i \in 1 .. Len(edges) PROVE edges[i].node \in Row
    <3>1. edges[i] \in Edge
      BY ElementOfSeq
    <3> QED
      BY <3>1 DEF Edge
  <2> QED
    BY <1>14, <2>1, <2>2
<1>16. PICK before \in Seq(Row) : before = loaded
  BY DEF WalkTypes
<1>17. PICK fresh : fresh = Where(nodes, Row \ Range(before))
  OBVIOUS
<1>18. fresh \in Seq(Row)
  BY <1>15, <1>17, WhereType
<1>19. loaded' = before \o fresh /\ after' = info.end_cursor
       /\ more' = (info.has_next_page /\ info.end_cursor # NoCursor)
  <2>1. get_total_count = total
    BY <1>2, <1>8 DEF get_total_count
  <2> QED
    BY <2>1, <1>1, <1>11, <1>13, <1>14, <1>16, <1>17 DEF ReadCount
<1>20. after' \in Places
  BY <1>4, <1>5, <1>8, <1>10, <1>12, <1>19 DEF Places
<1>21. loaded' \in Seq(Row)
  BY <1>18, <1>19, ConcatProperties
<1>22. page' \in [first : PageSize \cup {NoLimit}, after : Places, edges : Seq(Edge)]
  BY <1>3, EmptySeq DEF NoPage, Places
<1>23. WalkTypes'
  BY <1>3, <1>12, <1>19, <1>20, <1>21, <1>22 DEF WalkTypes
<1>24. Selected' = Selected
  BY <1>3 DEF Selected
<1>25. MissingIsAhead'
  <2> SUFFICES ASSUME ~ disturbed, NEW r \in Missing' PROVE more' /\ Ahead(r, Past')
    <3>1. (~ disturbed' <=> ~ disturbed) /\ phase' = "idle"
      BY <1>3
    <3>2. \A r, n : Ahead(r, n)' <=> Ahead(r, n)
      BY <1>24 DEF Ahead
    <3> QED
      BY <3>1, <3>2 DEF MissingIsAhead
  <2>1. PICK now \in Seq(Row) : now = before \o fresh
    BY <1>18, ConcatProperties
  <2>2. Range(before) \subseteq Range(now) /\ Range(fresh) \subseteq Range(now)
    <3>1. /\ Len(now) = Len(before) + Len(fresh) /\ DOMAIN now = 1 .. Len(now)
          /\ DOMAIN before = 1 .. Len(before) /\ DOMAIN fresh = 1 .. Len(fresh)
          /\ \A i \in 1 .. Len(before) : now[i] = before[i]
          /\ \A i \in 1 .. Len(fresh) : now[Len(before) + i] = fresh[i]
      BY <1>18, <2>1
    <3>2. ASSUME NEW i \in 1 .. Len(before) PROVE i \in 1 .. Len(now)
      BY <1>18, <3>1
    <3>3. ASSUME NEW i \in 1 .. Len(fresh) PROVE Len(before) + i \in 1 .. Len(now)
      BY <1>18, <3>1
    <3> QED
      BY <3>1, <3>2, <3>3 DEF Range
  <2>3. r \in Missing /\ r \notin Range(before) /\ r \notin Range(fresh)
    BY <1>3, <1>16, <1>19, <2>1, <2>2 DEF Missing
  <2>4. \A i \in 1 .. Len(edges) : edges[i].node # r
    <3> SUFFICES ASSUME NEW i \in 1 .. Len(edges), nodes[i] = r PROVE FALSE
      BY <1>15
    <3>1. PICK S : S = Row \ Range(before)
      OBVIOUS
    <3>2. nodes[i] \in S /\ i \in 1 .. Len(nodes)
      BY <1>15, <2>3, <3>1
    <3>3. PICK m \in 1 .. Len(nodes) : m = i
      BY <3>2
    <3>4. nodes \in Seq(Row) /\ nodes[m] \in S
      BY <1>15, <3>2, <3>3
    <3>5. \E n \in 1 .. Len(Where(nodes, S)) : Where(nodes, S)[n] = nodes[m]
      BY ONLY <3>4, m \in 1 .. Len(nodes), WhereHas
    <3> QED
      BY <1>17, <1>18, <2>3, <3>1, <3>3, <3>5, LenProperties DEF Range
  <2>5. Ahead(r, o + p.first)
    BY <1>1, <1>3, <1>6, <1>13, <2>3, <2>4 DEF MissingIsAhead
  <2>6. top = o + p.first /\ o < top /\ top < total
    <3>1. PICK i \in 1 .. Len(rows) : i > o + p.first
      BY <1>2, <2>5 DEF Ahead
    <3>2. p.first \in Nat \ {0} /\ i \in 1 .. total /\ total \in Nat /\ o \in Nat
      BY <1>5, <1>7, <1>8, <3>1
    <3> QED
      BY <1>9, <3>1, <3>2 DEF Least
  <2>7. after' = top - 1 /\ after' # NoCursor /\ more' /\ Past' = o + p.first
    <3>1. top - 1 \in Int /\ NoCursor \notin Int
      BY <1>10, Sizes
    <3>2. info.end_cursor = top - 1 /\ info.has_next_page
      BY <1>12, <2>6
    <3>3. after' = top - 1 /\ more'
      BY <1>19, <3>1, <3>2
    <3>4. after' # NoCursor
      BY <3>1, <3>3
    <3>5. Past' = after' + 1
      BY <3>4 DEF Past
    <3>6. top - 1 + 1 = o + p.first
      BY <1>7, <2>6
    <3> QED
      BY <3>3, <3>4, <3>5, <3>6
  <2> QED
    BY <2>5, <2>7
<1> QED
  BY <1>23, <1>25

LEMMA WalkKept == WalkSpec => []WalkInv
<1>1. WalkInit => WalkInv
  BY WalkInitKeeps
<1>2. WalkInv /\ [WalkNext]_walkVars => WalkInv'
  <2> SUFFICES ASSUME WalkInv, [WalkNext]_walkVars PROVE WalkInv'
    OBVIOUS
  <2>1. CASE Ask
    BY <2>1, AskKeeps
  <2>2. CASE ReadEdges
    BY <2>2, ReadEdgesKeeps
  <2>3. CASE ReadCount
    BY <2>3, ReadCountKeeps
  <2>4. ASSUME NEW r \in Row, Insert(r) PROVE WalkInv'
    BY <2>4, InsertKeeps
  <2>5. ASSUME NEW r \in Row, Modify(r) \/ Delete(r) PROVE WalkInv'
    BY <2>5, DisturbanceKeeps
  <2>6. CASE UNCHANGED walkVars
    BY <2>6 DEF walkVars, WalkInv, WalkTypes, MissingIsAhead, Missing, Ahead, Past, Selected
  <2> QED
    BY <2>1, <2>2, <2>3, <2>4, <2>5, <2>6 DEF WalkNext
<1> QED
  BY <1>1, <1>2, PTL DEF WalkSpec

\* A walk that has ended shows every selected row there was when it began, for tables and
\* pages of any size, as long as rows were only added meanwhile: wherever they were put,
\* also between the two queries of a page (internal.rs:74-86, mod.rs:163-184).
THEOREM WalksSeeEveryRow == WalkSpec => []WalkSeesEveryRow
<1>1. WalkSpec => []WalkInv
  BY WalkKept
<1>2. WalkInv => WalkSeesEveryRow
  BY InvGivesWalk
<1> QED
  BY <1>1, <1>2, PTL

\* Whatever page is asked for, up to the largest index, its metadata and its edges, which are
\* computed apart, tell one story (mod.rs:196-232).
THEOREM PageInfoStaysAccurate == WalkSpec => []PageInfoIsAccurate
<1>1. WalkSpec => []WalkInv
  BY WalkKept
<1>2. WalkInv => PageInfoIsAccurate
  BY TypesGiveAccuracy DEF WalkInv
<1> QED
  BY <1>1, <1>2, PTL
=================================
