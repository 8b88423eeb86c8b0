--------------------------------- MODULE Specs ---------------------------------
(* Hardware specs and program specs: the create and update mutations of         *)
(* src/api/src/views/hardware_spec.rs and program_spec.rs, the validators of    *)
(* src/api/src/models/, and what the schema itself checks. Each mutation is one *)
(* SQL statement. What can go wrong is a sequence of them: creating and         *)
(* updating are validated by separate code, and the slug is derived once.       *)
(*                                                                              *)
(* A name is a record of its text and of what slugify makes of it: names may    *)
(* share a slug, and a name of punctuation has an empty one.                    *)
EXTENDS Integers, Sequences, ApiErrors

CONSTANTS
  Id, NoId,      \* row ids, and an id that names no row
  Absent,        \* an optional field of an update that is not given
  Name, LongName,\* names, and those that do not fit VARCHAR(50)
  Numbers, NumbersChange,  \* <<registers, stacks, stack length>> users send
  Buffers, BuffersChange,  \* <<input, expected output>> users send, sequences of i32
  MAX_BUFFER     \* 256

\* What GraphQL lets a client send: a creation gives every field, an update may
\* leave each of them out.
ASSUME SpecsAssumption ==
  /\ MAX_BUFFER \in Nat /\ Absent \notin Int
  /\ Name \subseteq [text : STRING, slug : STRING]
  /\ Numbers \subseteq Int \X Int \X Int
  /\ LET Field == Int \cup {Absent} IN NumbersChange \subseteq Field \X Field \X Field
  /\ Buffers \subseteq Seq(Int) \X Seq(Int)
  /\ LET Field == Seq(Int) \cup {<<Absent>>} IN BuffersChange \subseteq Field \X Field

VARIABLES hardware_specs, program_specs, answer

vars == <<hardware_specs, program_specs, answer>>

NameAbsent == [text |-> "absent", slug |-> "absent"]

\* slugify(name), by the trigger set_slug_from_name
Slugify(name) == name.slug

HwWithId(id) == {h \in hardware_specs : h.id = id}
PsWithId(id) == {p \in program_specs : p.id = id}
Or(new, old) == IF new = Absent THEN old ELSE new

Refuse(reply) == answer' = reply /\ UNCHANGED <<hardware_specs, program_specs>>
Store(hw, ps) == hardware_specs' = hw /\ program_specs' = ps /\ answer' = "Ok"

-------------------------------------------------------------------------------
(* The validators, and the schema's checks.                                    *)

InRange(v, least, most) == v = Absent \/ v \in least .. most

\* NewHardwareSpec and ModifiedHardwareSpec carry the same rules, written twice.
NewHardwareValid(name, regs, stacks, len) ==
  name.text # "" /\ InRange(regs, 1, 16) /\ InRange(stacks, 0, 16) /\ InRange(len, 0, 256)
\* Mutant: the bound of max_stack_length is missing in the copy.
ModifiedHardwareValidNoLength(name, regs, stacks, len) ==
  name.text # "" /\ InRange(regs, 1, 16) /\ InRange(stacks, 0, 16)

ModifiedHardwareValid(name, regs, stacks, len) ==
  name.text # "" /\ InRange(regs, 1, 16) /\ InRange(stacks, 0, 16) /\ InRange(len, 0, 256)

Short(buffer) == buffer = <<Absent>> \/ Len(buffer) <= MAX_BUFFER
NewProgramValid(name, input, expected) == name.text # "" /\ Short(input) /\ Short(expected)
\* Mutant: expected_output lost its bound.
ModifiedProgramValidInput(name, input, expected) == name.text # "" /\ Short(input)

ModifiedProgramValid(name, input, expected) == name.text # "" /\ Short(input) /\ Short(expected)

\* VARCHAR(50) and the CHECKs: num_stacks is tested twice, and max_stack_length never.
HardwareChecked(h) ==
  /\ h.name \notin LongName /\ h.slug # "" /\ h.name.text # ""
  /\ h.num_registers >= 1 /\ h.num_stacks >= 0
\* ... and input twice, expected_output never.
ProgramChecked(p) ==
  /\ p.name \notin LongName /\ p.slug # "" /\ p.name.text # ""
  /\ Len(p.input) <= MAX_BUFFER

\* Mutant: names are unique instead of slugs.
HardwareNameTaken(h) == \E o \in hardware_specs : o.id # h.id /\ o.name.text = h.name.text

\* UNIQUE on slug and on name
HardwareTaken(h) ==
  \E o \in hardware_specs : o.id # h.id /\ (o.slug = h.slug \/ o.name.text = h.name.text)
ProgramTaken(p) ==
  \E o \in program_specs :
    o.id # p.id /\ o.hw = p.hw /\ (o.slug = p.slug \/ o.name.text = p.name.text)

-------------------------------------------------------------------------------
Init == hardware_specs = {} /\ program_specs = {} /\ answer = "none"

\* The converter of both updates.
UpdateConverter == {UniqueToExists, NoChangesToUpdate}

NewHardware(id, name, regs, stacks, len) ==
  [id |-> id, name |-> name, slug |-> Slugify(name), num_registers |-> regs,
   num_stacks |-> stacks, max_stack_length |-> len]

\* The row reaches the table, or what the view's converter makes of its refusal.
WriteHardware(h, flags) ==
  \/ ~ HardwareChecked(h) /\ Refuse(Convert(flags, "CheckViolation"))
  \/ HardwareChecked(h) /\ HardwareTaken(h) /\ Refuse(Convert(flags, "UniqueViolation"))
  \/ /\ HardwareChecked(h) /\ ~ HardwareTaken(h)
     /\ Store((hardware_specs \ HwWithId(h.id)) \cup {h}, program_specs)

\* CreateHardwareSpecView::execute
CreateHardware(id, name, regs, stacks, len) ==
  /\ HwWithId(id) = {}
  /\ \/ ~ NewHardwareValid(name, regs, stacks, len) /\ Refuse("ValidationErrors")
     \/ /\ NewHardwareValid(name, regs, stacks, len)
        /\ WriteHardware(NewHardware(id, name, regs, stacks, len), {UniqueToExists})

ChangedHardware(h, name, regs, stacks, len) ==
  [h EXCEPT !.name = IF name = NameAbsent THEN @ ELSE name, !.num_registers = Or(regs, @),
            !.num_stacks = Or(stacks, @), !.max_stack_length = Or(len, @)]

\* UpdateHardwareSpecView::execute. The slug trigger is BEFORE INSERT only.
UpdateHardware(id, name, regs, stacks, len) ==
  LET valid == ModifiedHardwareValid(name, regs, stacks, len)
      empty == name = NameAbsent /\ {regs, stacks, len} = {Absent}
  IN
  \/ ~ valid /\ Refuse("ValidationErrors")
  \/ valid /\ empty /\ Refuse(Convert(UpdateConverter, "NoChangesToSave"))
  \/ valid /\ ~ empty /\ HwWithId(id) = {} /\ Refuse("None")
  \/ /\ valid /\ ~ empty
     /\ \E h \in HwWithId(id) :
          WriteHardware(ChangedHardware(h, name, regs, stacks, len), UpdateConverter)

WriteProgram(p, flags) ==
  \/ ~ ProgramChecked(p) /\ Refuse(Convert(flags, "CheckViolation"))
  \/ ProgramChecked(p) /\ ProgramTaken(p) /\ Refuse(Convert(flags, "UniqueViolation"))
  \/ /\ ProgramChecked(p) /\ ~ ProgramTaken(p) /\ HwWithId(p.hw) = {}
     /\ Refuse(Convert(flags, "ForeignKeyViolation"))
  \/ /\ ProgramChecked(p) /\ ~ ProgramTaken(p) /\ HwWithId(p.hw) # {}
     /\ Store(hardware_specs, (program_specs \ PsWithId(p.id)) \cup {p})

\* CreateProgramSpecView::execute
CreateProgram(id, hw, name, input, expected) ==
  /\ PsWithId(id) = {}
  /\ \/ ~ NewProgramValid(name, input, expected) /\ Refuse("ValidationErrors")
     \/ /\ NewProgramValid(name, input, expected)
        /\ WriteProgram([id |-> id, hw |-> hw, name |-> name, slug |-> Slugify(name),
                         input |-> input, expected_output |-> expected],
                        {FkToNotFound, UniqueToExists})

ChangedProgram(p, name, input, expected) ==
  [p EXCEPT !.name = IF name = NameAbsent THEN @ ELSE name,
            !.input = IF input = <<Absent>> THEN @ ELSE input,
            !.expected_output = IF expected = <<Absent>> THEN @ ELSE expected]

\* UpdateProgramSpecView::execute. A description, if given, is a change as well.
UpdateProgram(id, name, described, input, expected) ==
  LET valid == ModifiedProgramValid(name, input, expected)
      empty == /\ name = NameAbsent /\ ~ described
               /\ input = <<Absent>> /\ expected = <<Absent>>
  IN
  \/ ~ valid /\ Refuse("ValidationErrors")
  \/ valid /\ empty /\ Refuse(Convert(UpdateConverter, "NoChangesToSave"))
  \/ valid /\ ~ empty /\ PsWithId(id) = {} /\ Refuse("None")
  \/ /\ valid /\ ~ empty
     /\ \E p \in PsWithId(id) :
          WriteProgram(ChangedProgram(p, name, input, expected), UpdateConverter)

Next ==
  \/ \E id \in Id, name \in Name, n \in Numbers : CreateHardware(id, name, n[1], n[2], n[3])
  \/ \E id \in Id, name \in Name \cup {NameAbsent}, n \in NumbersChange :
       UpdateHardware(id, name, n[1], n[2], n[3])
  \/ \E id \in Id, hw \in Id \cup {NoId}, name \in Name, b \in Buffers :
       CreateProgram(id, hw, name, b[1], b[2])
  \/ \E id \in Id, name \in Name \cup {NameAbsent}, described \in BOOLEAN, b \in BuffersChange :
       UpdateProgram(id, name, described, b[1], b[2])

Spec == Init /\ [][Next]_vars

\* The page of a hardware spec is looked up by the slug in its URL.
HardwareBySlug(slug) == {h \in hardware_specs : h.slug = slug}

-------------------------------------------------------------------------------
TypeOK ==
  /\ \A h \in hardware_specs : h.id \in Id /\ h.name \in Name
  /\ \A p \in program_specs : p.id \in Id /\ p.name \in Name /\ p.hw \in Id
  /\ answer \in ErrorAnswer \cup {"none", "Ok", "None", "ValidationErrors"}

\* No sequence of creations and updates stores a spec outside the bounds the core
\* crate is given: of the hardware (models/hardware_spec.rs:38-48, 93-100; the
\* schema does not bound max_stack_length), and 256 values of input and of expected
\* output, which the machine's length registers rely on (models/program_spec.rs:
\* 66-72, 108-112; the schema checks the input twice, the expected output never).
SpecsFit ==
  /\ \A h \in hardware_specs :
       /\ h.num_registers \in 1 .. 16 /\ h.num_stacks \in 0 .. 16
       /\ h.max_stack_length \in 0 .. 256
  /\ \A p \in program_specs : Len(p.input) <= MAX_BUFFER /\ Len(p.expected_output) <= MAX_BUFFER

\* A page's URL is a slug: every spec has one, and it finds that spec alone, after
\* any sequence of creations and renamings (gql/mod.rs:80-91, schema.graphql).
SlugsFindTheirSpec ==
  /\ \A h \in hardware_specs : h.slug # "" /\ HardwareBySlug(h.slug) = {h}
  /\ \A p, q \in program_specs : p.hw = q.hw /\ p.slug = q.slug => p = q
================================================================================
