---------------------------------- MODULE Gdlk ----------------------------------
(* The whole core crate as its callers use it (src/core/src/lib.rs): compile a   *)
(* source for some hardware, allocate a machine for a program spec, drive it.    *)
(* Composes Compile and Machine, and implements SourceMachine.                   *)
EXTENDS Compile, Machine

CONSTANT ProgramSpecs

ProgramSpec == [input : Seq(LangValue), expected_output : Seq(LangValue)]

ASSUME ProgramSpecAssumption == ProgramSpecs \subseteq ProgramSpec

VARIABLES
  program_spec,
  allocated      \* the machine exists; until then its variables are blank

vars == <<compileVars, machineVars, program_spec, allocated>>

machineOnly == <<program, expected_output, program_counter, data, cycle_count, error,
                 panicked, looping, result>>
compileOnly == <<body, stage, i, labels, errors, label_map, instructions>>

Init ==
  /\ CompileInit
  /\ program_spec \in ProgramSpecs
  /\ New(hardware_spec, <<>>, program_spec.input, program_spec.expected_output)
  /\ allocated = FALSE

CompileStep == CompileNext /\ UNCHANGED <<machineOnly, program_spec, allocated>>

\* Compiler::allocate. Machine::new resets the rest to what it already is.
Allocate ==
  /\ stage = "compiled" /\ ~ allocated
  /\ allocated' = TRUE
  /\ program' = instructions
  /\ UNCHANGED <<hardware_spec, compileOnly, program_spec, expected_output, program_counter,
                 data, cycle_count, error, panicked, looping, result>>

MachineStep == allocated /\ MachineNext /\ UNCHANGED <<compileOnly, program_spec, allocated>>

Next == CompileStep \/ Allocate \/ MachineStep

Fairness ==
  /\ WF_vars(CompileStep)
  /\ WF_vars(Allocate)
  /\ WF_vars(allocated /\ looping /\ (ExecuteNext \/ LoopReturns)
             /\ UNCHANGED <<compileOnly, program_spec, allocated>>)

Spec == Init /\ [][Next]_vars /\ Fairness

-------------------------------------------------------------------------------
(* Gdlk implements SourceMachine: the program counter stands for the source     *)
(* position its instruction's span records.                                    *)

PositionOf(n) == IF n < Len(program) THEN program[n + 1].span ELSE Len(body) + 1
Position == IF allocated THEN PositionOf(program_counter) ELSE 0

Source == INSTANCE SourceMachine WITH position <- Position, dead <- panicked # NoPanic

-------------------------------------------------------------------------------
(* Properties *)

\* The source runs as the player wrote it: compiling away the labels, and any
\* mix of stepping and executing to the end, changes nothing of what the source
\* does, the cycles it costs or the statement an error is reported at.
RunsTheSource == Source!SourceSpec

\* The machine only ever gets a program it was written for: validation and
\* delabelling together give what machine.rs assumes ("should be validated at
\* build time"), and the program is never replaced.
CompiledIsWellFormed ==
  allocated => program = instructions /\ WellFormed(program, hardware_spec)

\* A source either fails to compile or its machine can be run to a verdict:
\* once execute_all is called, it comes back with the machine terminated.
EverySourceGetsItsVerdict ==
  /\ <>(stage = "rejected" \/ allocated)
  /\ (allocated /\ looping) ~> (Terminated /\ ~ looping) \/ ~ Alive
===============================================================================
