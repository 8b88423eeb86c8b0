------------------------------- MODULE Ide_proofs -------------------------------
(* The IDE page shows and runs the text in its editor, for all texts and any      *)
(* number of edits.                                                              *)
EXTENDS Ide, TLAPS

\* A timer that is still to fire holds the text of the last edit, so that what it
\* will compile is the editor's.
TimerIsCurrent == timer # None => timer = sourceCode

IdeInv == IdeTypeOK /\ TimerIsCurrent /\ CompiledIsCurrent /\ StepperIsShown

States == [type : {"undefined", "error", "compiled"}, source : Source \cup {None},
           cycleCount : Nat]

\* A compiled state as IdeTypeOK has it.
Sound(c) ==
  /\ c \in States
  /\ IsCompiled(c) => c.source \in Source \ Broken /\ c.cycleCount <= Length[c.source]

-------------------------------------------------------------------------------
LEMMA CompiledSound ==
  ASSUME NEW s \in Source
  PROVE  Sound(Compiled(s)) /\ Compiled(s).source = s
BY IdeAssumption DEF Compiled, Sound, States, IsCompiled

LEMMA NotCompiledSound == Sound(NotCompiled) /\ NotCompiled.type = "undefined"
BY DEF NotCompiled, Sound, States, IsCompiled

LEMMA ExecutedSound ==
  ASSUME NEW c, Sound(c), IsCompiled(c), NEW all \in BOOLEAN
  PROVE  /\ Sound(Executed(c, all)) /\ IsCompiled(Executed(c, all))
         /\ Executed(c, all).source = c.source
<1>1. c.source \in Source \ Broken /\ c.cycleCount \in Nat /\ Length[c.source] \in Nat
  BY IdeAssumption DEF Sound, States
<1>2. CASE Terminated(c)
  BY <1>2 DEF Executed
<1>3. CASE ~ Terminated(c)
  <2>1. c.cycleCount + 1 <= Length[c.source]
    BY <1>1, <1>3 DEF Terminated, Sound
  <2>2. CASE all = TRUE
    BY <1>1, <1>3, <2>2 DEF Executed, Sound, States, IsCompiled
  <2>3. CASE all = FALSE
    BY <1>1, <1>3, <2>1, <2>3 DEF Executed, Sound, States, IsCompiled
  <2> QED
    BY <2>2, <2>3
<1> QED
  BY <1>2, <1>3

\* The effect on [terminated] is enough: a step that leaves the stepper running
\* leaves it on a machine that can go on.
LEMMA StepShown ==
  ASSUME NEW running \in BOOLEAN, Step(running, compiled'),
         running => ~ Terminated(compiled) \/ ~ Terminated(compiled')
  PROVE  StepperIsShown' /\ stepping' \in BOOLEAN /\ interval' \in BOOLEAN
BY DEF Step, StepperIsShown, Terminated, IsCompiled

\* Actions that write `compiled` keep the invariant if they write a sound state of
\* the text in the editor.
LEMMA InvFromParts ==
  ASSUME IdeInv, mounted' \in BOOLEAN, misfired' \in BOOLEAN, edits' \in 0 .. MaxEdits,
         sourceCode' \in Source, debounced' \in Source, stored' \in Source,
         timer' \in Source \cup {None}, TimerIsCurrent',
         Sound(compiled'), CompiledIsCurrent',
         StepperIsShown', stepping' \in BOOLEAN, interval' \in BOOLEAN
  PROVE  IdeInv'
BY DEF IdeInv, IdeTypeOK, Sound, States

LEMMA Unfold ==
  ASSUME IdeInv
  PROVE  /\ Sound(compiled) /\ mounted \in BOOLEAN /\ misfired \in BOOLEAN
         /\ edits \in 0 .. MaxEdits /\ sourceCode \in Source /\ debounced \in Source
         /\ stored \in Source /\ timer \in Source \cup {None} /\ stepping \in BOOLEAN
         /\ interval \in BOOLEAN
<1>1. IsCompiled(compiled) => compiled.source \in Source
  BY DEF IdeInv, CompiledIsCurrent, IdeTypeOK, IsCompiled
<1> QED
  BY <1>1 DEF IdeInv, IdeTypeOK, Sound, States

\* Neither the stepper nor a button makes it run on a terminated machine.
LEMMA SetCompiledShown ==
  ASSUME IdeInv, NEW c, SetCompiled(c)
  PROVE  compiled' = c /\ StepperIsShown' /\ stepping' \in BOOLEAN /\ interval' \in BOOLEAN
<1>1. compiled' = c /\ Step(stepping, compiled') /\ stepping \in BOOLEAN
  BY Unfold DEF SetCompiled
<1>2. stepping => ~ Terminated(compiled)
  BY DEF IdeInv, StepperIsShown
<1> QED
  BY <1>1, <1>2, StepShown

-------------------------------------------------------------------------------
LEMMA InitIdeInv ==
  ASSUME Init
  PROVE  IdeInv
<1>1. sourceCode \in Source /\ compiled = Compiled(sourceCode) /\ Sound(compiled)
  BY CompiledSound DEF Init
<1>2. CompiledIsCurrent /\ TimerIsCurrent
  BY <1>1, CompiledSound DEF Init, CompiledIsCurrent, TimerIsCurrent
<1>3. StepperIsShown
  BY DEF Init, StepperIsShown
<1>4. /\ mounted \in BOOLEAN /\ stepping \in BOOLEAN /\ interval \in BOOLEAN
      /\ misfired \in BOOLEAN
  BY DEF Init
<1>5. edits \in 0 .. MaxEdits
  BY IdeAssumption DEF Init
<1>6. debounced \in Source /\ stored \in Source /\ timer \in Source \cup {None}
  BY DEF Init
<1>7. IdeTypeOK
  BY <1>1, <1>4, <1>5, <1>6 DEF IdeTypeOK, Sound, States
<1> QED
  BY <1>2, <1>3, <1>7 DEF IdeInv

LEMMA EditOK ==
  ASSUME IdeInv, NEW s \in Source, Edit(s)
  PROVE  IdeInv'
<1>1. SetCompiled(NotCompiled) /\ sourceCode' = s /\ timer' = s /\ edits' = edits + 1
  BY DEF Edit
<1>2. edits' \in 0 .. MaxEdits
  BY <1>1, Unfold, IdeAssumption DEF Edit
<1>3. compiled' = NotCompiled /\ CompiledIsCurrent' /\ TimerIsCurrent'
  BY <1>1, SetCompiledShown, NotCompiledSound DEF CompiledIsCurrent, TimerIsCurrent
<1> QED
  BY <1>1, <1>2, <1>3, Unfold, SetCompiledShown, NotCompiledSound, InvFromParts DEF Edit

LEMMA DebounceOK ==
  ASSUME IdeInv, Debounce
  PROVE  IdeInv'
<1>0. /\ timer = sourceCode /\ timer \in Source /\ timer' = None
      /\ UNCHANGED <<mounted, sourceCode, misfired, edits>>
  BY Unfold DEF Debounce, IdeInv, TimerIsCurrent
<1>1. TimerIsCurrent'
  BY <1>0 DEF TimerIsCurrent
<1>2. CASE /\ mounted /\ debounced' = timer /\ stored' = timer
           /\ SetCompiled(Compiled(timer))
  <2>1. compiled' = Compiled(timer) /\ Sound(compiled') /\ compiled'.source = sourceCode
    BY <1>0, <1>2, SetCompiledShown, CompiledSound
  <2>2. CompiledIsCurrent'
    BY <1>0, <1>2, <2>1 DEF CompiledIsCurrent
  <2> QED
    BY <1>0, <1>1, <1>2, <2>1, <2>2, Unfold, SetCompiledShown, InvFromParts
<1>3. CASE UNCHANGED <<debounced, stored, compiled, stepping, interval>>
  <2>1. CompiledIsCurrent' /\ StepperIsShown'
    BY <1>0, <1>3 DEF IdeInv, CompiledIsCurrent, StepperIsShown
  <2> QED
    BY <1>0, <1>1, <1>3, <2>1, Unfold, InvFromParts
<1> QED
  BY <1>2, <1>3 DEF Debounce

LEMMA ExecuteOK ==
  ASSUME IdeInv, NEW all \in BOOLEAN, Execute(all), UNCHANGED <<mounted, editor>>
  PROVE  IdeInv'
<1>0. UNCHANGED <<mounted, sourceCode, debounced, timer, stored, edits>> /\ TimerIsCurrent'
  BY DEF editor, IdeInv, TimerIsCurrent
<1>1. CASE IsCompiled(compiled) /\ SetCompiled(Executed(compiled, all)) /\ UNCHANGED misfired
  <2>0. compiled' = Executed(compiled, all)
    BY <1>1, SetCompiledShown
  <2>1. /\ compiled' = Executed(compiled, all) /\ Sound(compiled')
        /\ compiled'.source = compiled.source
    BY <1>1, <2>0, Unfold, ExecutedSound
  <2>2. mounted /\ compiled.source = sourceCode
    BY <1>1 DEF IdeInv, CompiledIsCurrent, IsCompiled
  <2>3. CompiledIsCurrent'
    BY <1>0, <2>1, <2>2 DEF CompiledIsCurrent
  <2> QED
    BY <1>0, <1>1, <2>1, <2>3, Unfold, SetCompiledShown, InvFromParts
<1>2. CASE misfired' = TRUE /\ UNCHANGED <<compiled, stepping, interval>>
  <2>1. CompiledIsCurrent' /\ StepperIsShown'
    BY <1>0, <1>2 DEF IdeInv, CompiledIsCurrent, StepperIsShown
  <2> QED
    BY <1>0, <1>2, <2>1, Unfold, InvFromParts
<1> QED
  BY <1>1, <1>2 DEF Execute

LEMMA PlayPauseOK ==
  ASSUME IdeInv, PlayPauseButton
  PROVE  IdeInv'
<1>0. /\ UNCHANGED <<mounted, sourceCode, debounced, timer, stored, edits, compiled, misfired>>
      /\ TimerIsCurrent'
  BY DEF PlayPauseButton, editor, IdeInv, TimerIsCurrent
<1>1. Step(~ stepping, compiled') /\ ~ Terminated(compiled) /\ (~ stepping) \in BOOLEAN
  BY <1>0 DEF PlayPauseButton, Enabled
<1>2. StepperIsShown' /\ stepping' \in BOOLEAN /\ interval' \in BOOLEAN
  BY <1>1, StepShown
<1>3. CompiledIsCurrent'
  BY <1>0 DEF IdeInv, CompiledIsCurrent
<1> QED
  BY <1>0, <1>2, <1>3, Unfold, InvFromParts

LEMMA ResetOK ==
  ASSUME IdeInv, ResetButton
  PROVE  IdeInv'
<1>0. /\ UNCHANGED <<mounted, sourceCode, debounced, timer, stored, edits, misfired>>
      /\ mounted /\ TimerIsCurrent'
  BY DEF ResetButton, editor, IdeInv, TimerIsCurrent
<1>1. compiled' = Compiled(sourceCode) /\ Step(FALSE, compiled')
  BY DEF ResetButton
<1>2. StepperIsShown' /\ stepping' \in BOOLEAN /\ interval' \in BOOLEAN
  BY <1>1, StepShown
<1>3. Sound(compiled') /\ CompiledIsCurrent'
  BY <1>0, <1>1, Unfold, CompiledSound DEF CompiledIsCurrent
<1> QED
  BY <1>0, <1>2, <1>3, Unfold, InvFromParts

LEMMA LeaveOK ==
  ASSUME IdeInv, Leave
  PROVE  IdeInv'
<1>0. /\ UNCHANGED <<sourceCode, debounced, timer, stored, edits, stepping, interval, misfired>>
      /\ mounted' = FALSE /\ compiled' = NotCompiled /\ TimerIsCurrent'
  BY DEF Leave, editor, IdeInv, TimerIsCurrent
<1>1. CompiledIsCurrent' /\ StepperIsShown'
  BY <1>0, NotCompiledSound DEF IdeInv, CompiledIsCurrent, StepperIsShown, Terminated, IsCompiled
<1> QED
  BY <1>0, <1>1, Unfold, NotCompiledSound, InvFromParts

LEMMA NextIdeInv ==
  ASSUME IdeInv, [Next]_vars
  PROVE  IdeInv'
<1>1. CASE ExecuteNextButton \/ ExecuteToEndButton \/ Tick
  BY <1>1, ExecuteOK DEF ExecuteNextButton, ExecuteToEndButton, Tick
<1>2. CASE UNCHANGED vars
  BY <1>2 DEF vars, IdeInv, IdeTypeOK, TimerIsCurrent, CompiledIsCurrent, StepperIsShown,
              Terminated, IsCompiled
<1> QED
  BY <1>1, <1>2, EditOK, DebounceOK, PlayPauseOK, ResetOK, LeaveOK DEF Next

\* Whatever the user does and whenever the timers fire, the program that is shown
\* and stepped is that of the text in the editor, and the stepper runs exactly when
\* the page says so and never on a terminated machine (ProgramIde.tsx:205-218,
\* IdeControls.tsx:85-103).
THEOREM PageIsTruthful == Spec => [](IdeTypeOK /\ CompiledIsCurrent /\ StepperIsShown)
<1>1. IdeInv => IdeTypeOK /\ CompiledIsCurrent /\ StepperIsShown
  BY DEF IdeInv
<1> QED
  BY InitIdeInv, NextIdeInv, <1>1, PTL DEF Spec

\* What the play button shows is what the interval does: it is set exactly while
\* `stepping` is, and on no terminated machine (IdeControls.tsx:82-103, 135-141).
THEOREM StepperShown == Spec => []StepperIsShown
  BY PageIsTruthful, PTL

-------------------------------------------------------------------------------
(* Runs *)

\* What is compiled has gone through the debounce: a timer that is still to fire
\* finds the value it would set.
CompiledIsDebounced == compiled.type # "undefined" => debounced = sourceCode

LEMMA DebouncedStep ==
  ASSUME IdeInv, CompiledIsDebounced, [Next]_vars
  PROVE  CompiledIsDebounced'
<1>1. CASE \E s \in Source : Edit(s)
  BY <1>1, NotCompiledSound DEF Edit, SetCompiled, CompiledIsDebounced
<1>2. CASE Debounce
  <2>1. timer = sourceCode /\ UNCHANGED sourceCode
    BY <1>2 DEF Debounce, IdeInv, TimerIsCurrent
  <2> QED
    BY <1>2, <2>1 DEF Debounce, CompiledIsDebounced
<1>3. CASE ExecuteNextButton \/ ExecuteToEndButton \/ Tick
  <2>1. UNCHANGED <<sourceCode, debounced>>
    BY <1>3 DEF ExecuteNextButton, ExecuteToEndButton, Tick, editor
  <2>2. compiled' = compiled \/ IsCompiled(compiled)
    BY <1>3 DEF ExecuteNextButton, ExecuteToEndButton, Tick, Execute
  <2> QED
    BY <2>1, <2>2 DEF CompiledIsDebounced, IsCompiled
<1>4. CASE PlayPauseButton \/ ResetButton
  BY <1>4 DEF PlayPauseButton, ResetButton, editor, CompiledIsDebounced, IsCompiled
<1>5. CASE Leave
  BY <1>5, NotCompiledSound DEF Leave, CompiledIsDebounced
<1>6. CASE UNCHANGED vars
  BY <1>6 DEF vars, CompiledIsDebounced
<1> QED
  BY <1>1, <1>2, <1>3, <1>4, <1>5, <1>6 DEF Next

LEMMA ExecutedGoesOn ==
  ASSUME IdeInv, IsCompiled(compiled), NEW all \in BOOLEAN, Execute(all)
  PROVE  compiled'.cycleCount >= compiled.cycleCount /\ IsCompiled(compiled')
<1>1. compiled' = Executed(compiled, all)
  BY SetCompiledShown DEF Execute
<1>2. /\ Sound(compiled) /\ compiled.cycleCount \in Nat
      /\ compiled.source \in Source \ Broken /\ Length[compiled.source] \in Nat
      /\ compiled.cycleCount <= Length[compiled.source]
  BY Unfold, IdeAssumption DEF Sound, States
<1>3. IsCompiled(compiled')
  BY <1>1, <1>2, ExecutedSound
<1>4. CASE Terminated(compiled)
  BY <1>1, <1>2, <1>3, <1>4 DEF Executed
<1>5. CASE ~ Terminated(compiled) /\ all = TRUE
  BY <1>1, <1>2, <1>3, <1>5 DEF Executed, Sound, States
<1>6. CASE ~ Terminated(compiled) /\ all = FALSE
  BY <1>1, <1>2, <1>3, <1>6 DEF Executed, Sound, States
<1> QED
  BY <1>4, <1>5, <1>6

LEMMA RunGoesOn ==
  ASSUME IdeInv, CompiledIsDebounced, [Next]_vars,
         mounted', sourceCode' = sourceCode, ~ ResetButton, IsCompiled(compiled)
  PROVE  compiled'.cycleCount >= compiled.cycleCount /\ IsCompiled(compiled')
<1>1. compiled.cycleCount \in Nat
  BY Unfold DEF Sound, States
<1>2. CASE ExecuteNextButton \/ ExecuteToEndButton \/ Tick
  BY <1>2, ExecutedGoesOn DEF ExecuteNextButton, ExecuteToEndButton, Tick
<1>3. CASE Debounce
  <2>1. timer = debounced
    BY <1>3 DEF Debounce, IdeInv, TimerIsCurrent, CompiledIsDebounced, IsCompiled
  <2> QED
    BY <1>1, <1>3, <2>1 DEF Debounce
<1>4. CASE PlayPauseButton \/ UNCHANGED vars
  <2>1. compiled' = compiled
    BY <1>4 DEF PlayPauseButton, vars
  <2> QED
    BY <1>1, <2>1 DEF IsCompiled
<1>5. ~ (\E s \in Source : Edit(s)) /\ ~ Leave
  BY DEF Edit, Leave
<1> QED
  BY <1>2, <1>3, <1>4, <1>5 DEF Next

\* Only Reset takes a machine back while its text stays: the debounced setter that
\* fires after the page opened, or after a text was typed and taken back, finds the
\* value it has (useDebouncedValue.ts:23-25, ProgramIde.tsx:205-211).
THEOREM RunsAreKept == Spec => RunIsNotDisturbed
<1> DEFINE Kept == mounted' /\ sourceCode' = sourceCode /\ ~ ResetButton /\ IsCompiled(compiled)
             => compiled'.cycleCount >= compiled.cycleCount /\ IsCompiled(compiled')
<1>1. Init => IdeInv /\ CompiledIsDebounced
  BY InitIdeInv DEF Init, CompiledIsDebounced
<1>2. IdeInv /\ CompiledIsDebounced /\ [Next]_vars => IdeInv' /\ CompiledIsDebounced'
  BY NextIdeInv, DebouncedStep
<1>3. IdeInv /\ CompiledIsDebounced /\ [Next]_vars => [Kept]_vars
  BY RunGoesOn
<1> QED
  BY <1>1, <1>2, <1>3, PTL DEF Spec, RunIsNotDisturbed
===============================================================================
