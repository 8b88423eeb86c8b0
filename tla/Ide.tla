---------------------------------- MODULE Ide ----------------------------------
(* The IDE page in the browser: the editor's text, the debounce, the compiled   *)
(* program behind a ref, and the stepper's interval (ProgramIde.tsx,            *)
(* IdeControls.tsx, useDebouncedValue.ts and compile.ts under src/frontend/src).*)
(*                                                                              *)
(* An event, the render it causes and the effects of that render are one step.  *)
(* What runs later, on its own, is a timer: the debounce and the interval.      *)
(* A machine is the number of instructions it has executed; Length says when it *)
(* terminates. The speed of the stepper only changes how often it ticks.        *)
EXTENDS Integers

CONSTANTS
  Source,         \* the texts the editor can hold
  Broken,         \* those that do not compile
  Length,         \* the number of instructions each of the others executes
  None,
  MaxEdits        \* bound: how often the user changes the text

ASSUME IdeAssumption ==
  /\ Broken \subseteq Source /\ None \notin Source
  /\ Length \in [Source \ Broken -> Nat] /\ MaxEdits \in Nat

VARIABLES
  mounted,
  sourceCode, debounced,
  timer,          \* the text the debounced setter will store, or None
  stored,         \* the text in local storage
  compiled,       \* compileResult.current and compiledState, which are kept alike
  stepping, interval,
  misfired,       \* history: execute was called with nothing compiled
  edits

vars == <<mounted, sourceCode, debounced, timer, stored, compiled, stepping,
          interval, misfired, edits>>
editor == <<sourceCode, debounced, timer, stored, edits>>

NotCompiled == [type |-> "undefined", source |-> None, cycleCount |-> 0]

\* CompilerWrapper.compile
Compiled(s) ==
  [type |-> IF s \in Broken THEN "error" ELSE "compiled", source |-> s, cycleCount |-> 0]

IsCompiled(c) == c.type = "compiled"
Terminated(c) == IsCompiled(c) /\ c.cycleCount = Length[c.source]

\* Mutant: nothing stops the stepper.
StepNoStop(running, c) == stepping' = running /\ interval' = running

\* The effect on [terminated] stops the stepper when it becomes true; nothing else
\* about the machine does. The effect on [stepping] keeps the interval alike.
Step(running, c) ==
  LET stops == Terminated(c) /\ ~ Terminated(compiled)
  IN stepping' = (running /\ ~ stops) /\ interval' = (running /\ ~ stops)

SetCompiled(c) == compiled' = c /\ Step(stepping, c)

-------------------------------------------------------------------------------
Init ==
  /\ mounted = TRUE
  /\ sourceCode \in Source /\ debounced = sourceCode /\ timer = sourceCode
  /\ stored = sourceCode /\ compiled = Compiled(sourceCode)
  /\ stepping = FALSE /\ interval = FALSE /\ misfired = FALSE /\ edits = 0

\* Mutant: an edit leaves the compiled program.
EditKeepsProgram(s) ==
  /\ mounted /\ edits < MaxEdits /\ s # sourceCode
  /\ sourceCode' = s /\ timer' = s /\ edits' = edits + 1
  /\ UNCHANGED <<mounted, debounced, stored, misfired, compiled, stepping, interval>>

\* Mutant: a pending timer keeps its text.
EditFirstTimerWins(s) ==
  /\ mounted /\ edits < MaxEdits /\ s # sourceCode
  /\ sourceCode' = s /\ timer' = IF timer = None THEN s ELSE timer
  /\ edits' = edits + 1
  /\ SetCompiled(NotCompiled)
  /\ UNCHANGED <<mounted, debounced, stored, misfired>>

\* The cleanup of the effect on [sourceCode] drops the program; the debounced
\* setter starts over with the new text.
Edit(s) ==
  /\ mounted /\ edits < MaxEdits /\ s # sourceCode
  /\ sourceCode' = s /\ timer' = s /\ edits' = edits + 1
  /\ SetCompiled(NotCompiled)
  /\ UNCHANGED <<mounted, debounced, stored, misfired>>

\* Mutant: the value the state already has counts as a change.
DebounceAlwaysCompiles ==
  /\ timer # None /\ timer' = None /\ debounced' = timer /\ stored' = timer
  /\ SetCompiled(Compiled(timer))
  /\ UNCHANGED <<mounted, sourceCode, misfired, edits>>

\* setDebouncedValue. React does nothing if the value is the one it has; else the
\* effect on [debouncedSourceCode] stores and compiles it.
Debounce ==
  /\ timer # None /\ timer' = None
  /\ \/ /\ mounted /\ timer # debounced
        /\ debounced' = timer /\ stored' = timer
        /\ SetCompiled(Compiled(timer))
     \/ /\ ~ mounted \/ timer = debounced
        /\ UNCHANGED <<debounced, stored, compiled, stepping, interval>>
  /\ UNCHANGED <<mounted, sourceCode, misfired, edits>>

-------------------------------------------------------------------------------
(* The controls.                                                               *)

\* machine.execute: a terminated machine stays as it is.
Executed(c, all) ==
  IF Terminated(c) THEN c
  ELSE [c EXCEPT !.cycleCount = IF all THEN Length[c.source] ELSE @ + 1]

\* execute: it runs the machine of the ref, or throws.
Execute(all) ==
  \/ /\ IsCompiled(compiled) /\ SetCompiled(Executed(compiled, all))
     /\ UNCHANGED misfired
  \/ /\ ~ IsCompiled(compiled) /\ misfired' = TRUE
     /\ UNCHANGED <<compiled, stepping, interval>>

Enabled == mounted /\ IsCompiled(compiled) /\ ~ Terminated(compiled)

ExecuteNextButton ==
  Enabled /\ ~ stepping /\ Execute(FALSE) /\ UNCHANGED <<mounted, editor>>
ExecuteToEndButton ==
  Enabled /\ ~ stepping /\ Execute(TRUE) /\ UNCHANGED <<mounted, editor>>

PlayPauseButton ==
  /\ Enabled /\ Step(~ stepping, compiled)
  /\ UNCHANGED <<mounted, editor, compiled, misfired>>

\* reset() and setStepping(false)
ResetButton ==
  /\ mounted /\ IsCompiled(compiled) /\ compiled.cycleCount # 0
  /\ compiled' = Compiled(sourceCode) /\ Step(FALSE, compiled')
  /\ UNCHANGED <<mounted, editor, misfired>>

\* The interval calls executeNext, whatever has become of the page.
Tick == interval /\ Execute(FALSE) /\ UNCHANGED <<mounted, editor>>

\* Unmounting runs the cleanups: one drops the program, none clears the timers.
Leave ==
  /\ mounted /\ mounted' = FALSE /\ compiled' = NotCompiled
  /\ UNCHANGED <<editor, stepping, interval, misfired>>

Next ==
  \/ \E s \in Source : Edit(s)
  \/ Debounce \/ ExecuteNextButton \/ ExecuteToEndButton \/ PlayPauseButton
  \/ ResetButton \/ Tick \/ Leave

Spec == Init /\ [][Next]_vars

\* Timers fire.
FairSpec == Spec /\ WF_vars(Debounce) /\ WF_vars(Tick)

-------------------------------------------------------------------------------
IdeTypeOK ==
  /\ mounted \in BOOLEAN /\ stepping \in BOOLEAN /\ interval \in BOOLEAN
  /\ misfired \in BOOLEAN /\ edits \in 0 .. MaxEdits
  /\ {sourceCode, debounced, stored} \subseteq Source /\ timer \in Source \cup {None}
  /\ compiled \in [type : {"undefined", "error", "compiled"},
                   source : Source \cup {None}, cycleCount : Nat]
  /\ IsCompiled(compiled) =>
       compiled.source \notin Broken /\ compiled.cycleCount <= Length[compiled.source]

\* The program that is shown and stepped is always that of the text in the editor:
\* an old one is dropped before anyone can run it (ProgramIde.tsx:205-218).
CompiledIsCurrent ==
  compiled.type # "undefined" => mounted /\ compiled.source = sourceCode

\* Whatever happens to the text while the stepper runs, the buttons tell the truth:
\* the interval runs exactly if the page says so, and never on a machine that has
\* terminated (IdeControls.tsx:85-103).
StepperIsShown ==
  interval = stepping /\ ~ (stepping /\ Terminated(compiled))

\* A run is never thrown away under the user's hands: while the text stays, only
\* Reset takes a machine back to its start (useDebouncedValue.ts:23-25 fires 250 ms
\* after the page opens, with the text that is compiled already).
RunIsNotDisturbed ==
  [][mounted' /\ sourceCode' = sourceCode /\ ~ ResetButton /\ IsCompiled(compiled)
       => compiled'.cycleCount >= compiled.cycleCount /\ IsCompiled(compiled')]_vars

\* A text that stays in the editor ends up in local storage (ProgramIde.tsx:205-211).
TextIsStored ==
  \A s \in Source : sourceCode = s ~> (stored = s \/ sourceCode # s \/ ~ mounted)

\* What ProgramIde.tsx:176 says, "This indicates an FE bug, where we tried to step
\* when not allowed": the stepper goes on while the text is edited, does not
\* compile, or is no longer on the page.
NeverStepsWhenNotAllowed == ~ misfired
================================================================================
