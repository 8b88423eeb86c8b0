# GDLK in TLA+

Specifications, model-checking runs and machine-checked proofs for GDLK: a small assembly-like language with its
compiler and virtual machine (Rust, also built to WebAssembly), the API behind the puzzle game (actix, juniper, diesel,
PostgreSQL) and the web page in which programs are written, run and saved (React, Relay).

`PROJECT.json` is the index: components, runs, the mutants that show each property can fail, the source lines behind
each definition, findings, hazards and theorems. This file says how to read it all. Paths below are under `src/`.

    tlc -workers 2 -config MCMachine.cfg MCMachine      # one run
    tlapm Gdlk_proofs.tla                               # one module of proofs

## 1. Inventory: the system and what makes it hard

**Language** (`core/src/ast.rs`, `models.rs`). No state. Syntax trees before and after compilation, 16-bit wrapping
values, the hardware (registers, stacks, stack length) a program is compiled for. *Correct* if arithmetic is modular
and division rounds to zero.

**Parser** (`core/src/parse.rs`). State: the rest of the text. nom parsers tried in order, some cut. Hard: one construct
hiding another (keywords and registers are legal label names; `JMP` is recognised without looking at what follows it),
numbers at the edge of their type; where an error points depends on which of nom's nested contexts fails first. *Correct*
if a text parses to what it says, each node's span is its text, and a text is refused at its first line that is not a
statement, at the place where it could go on.

**Compiler** (`lib.rs`, `validate.rs`, `delabel.rs`). State: the body, the labels with their first declaration, the
errors found, the label positions, the instructions. Passes run in order and are pure. Hard: forward jumps, several
labels in a row or at the end, all errors at once; what it lets through is what the machine assumes. *Correct* if exactly
the faults are reported, jumps reach their labels, and the machine's assumptions hold.

**Virtual machine** (`machine.rs`, `consts.rs`). State: program counter, tapes, registers, stacks, cycle count, stored
error. `execute_next` and `execute_all` may be called in any mixture, also after termination. Hard: the cycle budget at
its limit, a failing instruction half done, calls after the end, arithmetic at the edge, indexes and unwraps that rest on
the compiler. *Correct* if it stays in the program and its limits, an error is clean and explained, and the verdict is
final.

**IDE page** (`frontend/src/components/ide`, `hooks`, `util/compile.ts`; the machine arrives through `wasm/src/lib.rs`).
State: text, debounced text, a pending timer, the compiled machine behind a ref, the stepper's interval. Operations are
user events and timers. Hard: timers that fire on a page that has changed or gone. *Correct* if what runs is the text
that is shown and the controls tell the truth.

**Saving** (`ProgramIde.tsx`, `IdeControls.tsx`, `util/storage.ts`). State: the row in the database, a copy in local
storage, the editor, Relay's copy of the row, a save on its way. Hard: lost requests and answers, saves that outlive
their page, text that changes meanwhile, the choice between two copies by time. *Correct* if work is not lost and the
Save button is right.

**List of solutions** (`frontend/src/components/userPrograms`). State: the edges in Relay's store and the mutations in
flight. The list is never fetched again; each answer edits it. Hard: overlapping and refused mutations. *Correct* if it
ends equal to the table.

**Login and user initialization** (`api/src/server/auth.rs`, `views/context.rs`, `views/user.rs`). State: tables
`user_providers` and `users`, the identity cookie. Statements of concurrent requests interleave at READ COMMITTED. Hard:
two logins of one identity, two tabs naming one login, refusals between two INSERTs, a lost COMMIT. *Correct* if the
tables change as if every operation were atomic and answers are true.

**User programs** (`views/user_program.rs`). State: table `user_programs`. Create, update, delete: one statement each.
Copy: a SELECT and an INSERT without a transaction. *Correct* if rows hold what their owner wrote, updates merge,
deletions stay, and answers tell what happened.

**Hardware and program specs** (`views/hardware_spec.rs`, `program_spec.rs`, `models/`, the migrations). State: two
tables. Bounds are written twice in Rust and a third time in SQL; the slug is derived once. *Correct* if no sequence of
creations and updates leaves the bounds or a spec nobody can find.

**Connections** (`api/src/server/gql`). No state of their own; edges and total count are two queries over the rows that
a filter leaves. Hard: rows that move between pages, i32 index arithmetic. *Correct* if no added row hides another, a walk
ends, and the page information fits the edges.

**HTTP server and pool** (`api/src/server/mod.rs`, `util.rs`). State: which worker runs a request, which requests hold a
connection or a blocking thread. Both routes call `pool.get()`, which blocks the worker; a login then awaits its provider
with the connection in its hands, on a worker that another request may block meanwhile. Hard: exhaustion, and waits that
close a cycle. *Correct* if every request that does not wait for the provider is answered, if by a timeout.

**API errors** (`api/src/error.rs`). No state. *Correct* if a refusal of the database becomes the answer that says why.

**Displays, forms and navigation**, **schema, containers, deployment**: see section 8.

Interactions: `cli` and `wasm` call `core` directly; the page calls `wasm` synchronously and the API by GraphQL; the API
calls PostgreSQL statement by statement on a pooled connection. Shared state is in the database, and in the page's ref
between its effects, buttons and timers. The hazards of this list are in PROJECT.json, each at its line with the
properties that catch it.

## 2. Modules

| Module | Models | Composition |
| --- | --- | --- |
| `Lang` | values, operands, statements, instructions | extended by all of the core |
| `Selection` | what a WHERE clause or a filter leaves of a sequence | extended by `Parse`, `Pagination` |
| `Parse` | the parser, line by line | |
| `Compile` | label collection, validation, delabelling, one statement per step | |
| `Front` | `Compiler::compile`: parse, hand over, compile | extends `Parse`, `Compile` |
| `Machine` | the virtual machine, one action per operator | |
| `Gdlk` | compile, allocate, drive, as a caller does | extends `Compile`, `Machine` |
| `SourceMachine` | abstract: what the labelled source means | `Gdlk` implements it |
| `Accounts` | login, logout, user initialization, statement by statement | |
| `AccountBook` | abstract: the account tables with atomic operations | `Accounts` implements it |
| `UserPrograms` | mutations of user programs | |
| `SolutionList` | the card of solutions in the browser | extends `UserPrograms` |
| `Specs` | hardware and program specs | |
| `ApiErrors` | what a view's converter makes of a refused statement | extended by `Accounts`, `UserPrograms`, `Specs` |
| `Server` | workers, blocking threads and the connection pool | extends `Accounts`, whose handlers it schedules |
| `Pagination` | connections and a client that walks them | |
| `Ide` | the page: editor, debounce, machine, stepper | |
| `SourceSync` | row, local copy, editor and saves of one program | |
| `Selection_proofs` | the laws of `Where`, by induction over sequences | extends `Selection` |
| `Gdlk_proofs` | theorems about `Compile`, about `Machine`, about both together, and the refinement of `SourceMachine`; also the facts about the values of `Lang` | extends `Gdlk` |
| `Front_proofs` | theorems about the parser, and the compiler's for every text | extends `Front`, `Gdlk_proofs`, `Selection_proofs` |
| `Catalog_proofs` | theorems about `Specs` and about `Pagination` | extends both and `Selection_proofs` |
| `Ide_proofs`, `SourceSync_proofs` | theorems about the module they are named after | extend it |
| `Accounts_proofs` | theorems about `Accounts`, the refinement of `AccountBook`, and that they hold in `Server` | extends `Server` |
| `SolutionList_proofs` | theorems about `UserPrograms`, alone and under the list of the page | extends `SolutionList` |

`MC*` modules and configurations instantiate these for TLC. Operators marked *Mutant* in a comment are not part of any
specification: each is a plausible mistake in the definition that follows it, and replacing that definition by it
makes the property named in PROJECT.json fail.

### How state and actions correspond to the code

*Core.* The variables of `Machine` are the fields of `struct Machine`, with the same names; `panicked` says that the
thread has died and why, `looping` that `execute_all` is on the stack, `result` what the last call returned.
`Execute` is one `execute_next`: fetch, charge a cycle, run one operator, then `Advance`, `Fail` or `Panic`.
`execute_all` is `ExecuteAll`, any number of `ExecuteNext`, and `ReturnAll`. `Compile` keeps the compiler's hash maps and
error vector; `stage` is the pass and `i` its loop index. `Parse` reads a text already cut into words, spaces, colons and
comments, the items; a word is the tag it starts with, what follows the tag, and its spelling, which is all a reading
depends on. A statement's span and a syntax error's position count items instead of characters. `ArgumentContext` is the
first context of nom's error chain, which is the one the player sees; `LinesShown` is the excerpt printed with it.

*API.* In `Accounts`, `pc[r]` is the SQL statement request `r` is about to run, `task[r]` its arguments and what it has
read; uncommitted writes are seen only by the statements that must wait for them. In `UserPrograms`, `Create`, `Update`
and `Delete` are one statement and one step, `CopyRead` and `CopyInsert` two. A refusal goes through `Convert` with the
flags its view sets. `Server` adds to each request its worker, whether it holds a connection, and its blocking thread;
`Handle` is a step of `Accounts` by a request that has what it needs. A login passes `UnknownProvider` before it asks for a
connection and `ParseState` after it has one, as in the code. `LoadContext`'s later refusals are answered on the
worker, where the code raises them one step later on the blocking thread. In `Pagination` a connection is a table and
the rows its filter selects, which no update changes. In `Specs` a mutation validates, meets the
schema's checks in their order and stores.

*Browser.* In `Ide` and `SourceSync`, an event, the render it causes and the effects of that render are one step, as
JavaScript runs them to their end; timers, requests and answers are steps of their own. `compiled` is the ref together
with the state that mirrors it, which the code assigns alike.

*History variables*, which only properties read: `misfired`, `work`, `settled`, `quiet`, `unheard`, `late`, `blind`,
`start`, `disturbed`.

## 3. Runs: what each one asks and shows

| Run | Distinct states | Question and answer |
| --- | --- | --- |
| `machine` | 568,475 | For every program of up to three instructions: is the program counter in the program, the budget and the stacks kept, is every error explained by the state it stopped in, every panic one of the three known, the verdict that of the tapes, termination final, a failing instruction without effect, arithmetic modular? Yes. |
| `compile` | 282,472 | Does parsing read what is written, refuse the first faulty line only and point at the place in it where one can go on; does validation report exactly the faults, each extra declaration once, in order, against the first declaration; do jumps reach their labels? Yes. |
| `gdlk` | 320,613 | Does a compiled program, driven by any mixture of stepping and running, do what its labelled source means, and does every source get a verdict? Yes: refinement of `SourceMachine` and a liveness property. |
| `pop_writes_readonly` | violation | "should be validated at build time" (`machine.rs:132-134`): is every write? No: `POP S0 RLI` compiles and panics. |
| `accounts` | 623,706 | Do interleaved logins and namings change the tables as if atomic, with true answers? Yes: refinement of `AccountBook` and two invariants. |
| `server` | 190,140 | Can anything but logins that await their provider exhaust the pool, and is every other request answered? No; yes, if by the pool's timeout. |
| `user_programs` | 382,002 | Are rows their owners', do updates merge, do deletions last, are answers true, and does the list match the table without refetching? Yes. |
| `specs` | 4,914 | Can a sequence of creations and updates leave the bounds, or break slugs? No. |
| `pagination` | 143,206 | While rows are only added, wherever the table puts them, does a walk see every selected row there was at its start; does it end, whatever else happens to the rows; and is page information right up to the largest index? Yes. |
| `ide` | 520 | Is the compiled program always the editor's, the stepper as shown, a run never thrown away, a lasting text stored? Yes. |
| `steps_when_not_allowed` | violation | "This indicates an FE bug, where we tried to step when not allowed" (`ProgramIde.tsx:176`): does it happen? Yes: edit, or leave, while the stepper runs. |
| `source_sync` | 1,166,561 | Does a page opened later show the work, is the Save button right, and can anything but an older save that comes late make "Solution saved" untrue of a program that exists, whatever saves got lost? Yes, yes and no, within the premises stated with the properties. |

### Bounds and why they are enough

- `machine`: every well-formed program of at most 3 instructions over two menus (15 and 14 instructions) in which each
  opcode appears with operands that make it succeed, fail or panic; 3 instructions hold a loop, a jump over an
  instruction and two instructions that depend on each other. `MaxValue = 3` (a 3-bit type, -4 .. 3) has each effect of
  16 bits: wrap in both directions, the one overflowing division, lengths that do not fit. `MAX_CYCLE_COUNT = 4` is one
  more than the longest program and less than any loop, so a program ends with the budget just spent, and just not.
  Stacks hold 0 or 1 value: empty, full, and full at once. Nothing is cut off: the model is finite because the budget is.
- `compile`: bodies of up to 3 statements over a menu of 13 with each kind of fault, up to 5 over two labels, two jumps
  and a write (two labels, two jumps and an instruction between them); shorter ones in three layouts (plain, indented
  with comment and blank lines, trailing space). Broken lines: all lines of up to 4 items over 8, and each statement with
  any item removed, replaced by one of 17, or a space or colon put in, alone and below a good line. Two hardware specs,
  one on which most operands are faulty. `MaxValue = 1`, `MaxIndex = 2` put numbers on both sides of each limit.
- `gdlk`: bodies of up to 4 statements over labels, jumps and a counted loop, up to 3 over the other operators; two
  program specs; budget 5.
- `accounts`: 4 requests, 2 browsers, 1 subject known to 2 providers, 2 valid names and an empty one, 1 removed row, 1
  lost connection (`MaxRemovals`, `MaxFailures`). Conflicts are between two requests of a kind; two more log them in.
  Requests and browsers are symmetric.
- `server`: 3 requests on 2 workers with 2 connections and 2 blocking threads, so that each of the three runs out while
  requests still want it; 1 browser, 1 subject, 1 provider, 1 valid name and an empty one, 1 removed row, 1 lost
  connection. No symmetry, as liveness requires. The two connections stand for r2d2's default of ten: what matters is
  that fewer are left than requests want.
- `user_programs`: 3 requests, 2 users, 1 program spec and an id of none, 2 sources, 3 names (one is what a copy of
  another would be called, one is empty). Three requests are a row, a copy or save of it, and what runs in between.
- `specs`: 2 ids per kind, names with one slug each, without a slug, empty and too long, and each number and buffer at a
  legal value and beyond each bound, in creations and in updates. Buffers are bounded by 1 instead of 256.
- `pagination`: at most 2 rows at first (`RowsAtFirst`) and 4 in all, of which the connection
  selects 3 or 1, so that rows of both kinds are added, moved and deleted; page sizes 1 and 2, and for the page
  information every `first` and `after` up to `MaxIndex = 7`, the largest index.
- `ide`: 4 texts (broken, empty, one and two instructions), 3 edits (`MaxEdits`): change, change again, change back.
- `source_sync`: 1 device, 2 texts, 6 ticks (`MaxTime`), 4 edits (`MaxEdits`), one stray save at a time. Two sessions
  with an edit, a save and a late arrival each need five ticks.

`CHECK_DEADLOCK FALSE` is said where the system really stops: a compiled or rejected source (`MCFront`, `MCGdlk`), all
requests used up (`MCUserPrograms`), a walk that has ended over a table with no row left to change (`MCPagination`), a
page that was left (`MCIde`), the end of the clock (`MCSourceSync`). In `Accounts` and `Server` the user may always log
out, and in `Machine` a caller may always call, so these are checked.

### Fairness

- `Machine`, `Gdlk`: weak fairness of the steps of `execute_all`'s loop, of the compiler's passes and of the allocation
  after them. All are plain sequential code on one thread. A caller who steps by hand is under no obligation.
- `Server`: weak fairness of what the pool does for a request that waits (it hands out a connection or times out after
  r2d2's 30 s), of a blocking thread that takes the next closure, and of each handler that has what it needs: actix polls
  it to its end and PostgreSQL grants a lock when its holder ends. Nothing is fair about a login's step from "token": no
  timeout in the code makes a provider answer. Waiting is in the guards, so a cycle of waits would be found.
- `Ide`: weak fairness of the debounce and of the interval: browser timers fire. None of the user.
- `Pagination`: the client keeps pressing "Load more" and the server answers. Other users are under no obligation.

## 4. Proofs

All for every value of the constants that satisfies the assumptions below; `tlapm` checks every leaf.

| Theorem | Says |
| --- | --- |
| `Gdlk_proofs!MachineSafety` | type correctness, `PcInProgram`, `CycleBudget`, `StackCapacity` for every well-formed program, input, hardware, budget and width |
| `Gdlk_proofs!ValuesStayInRange`, `MachineStaysInside` | its parts that the runs check: `TypeOK`, `StaysInside` |
| `Gdlk_proofs!TerminationIsFinal` | no call on a terminated machine changes anything a caller can observe |
| `Gdlk_proofs!FailuresAreClean` | a failing instruction changes nothing but the cycle it is charged |
| `Gdlk_proofs!ErrorsAreExplained`, `PanicsAreExplained` | the state explains the stored error for good; the panics are the three known ones |
| `Gdlk_proofs!VerdictsHold` | what `execute_all` returned stays what the machine says of itself |
| `Gdlk_proofs!ArithmeticWraps` | sums, differences and products are exact modulo the width, quotients round to zero |
| `Gdlk_proofs!RedefinitionsNameTheFirst` | "label redefined" always names the first declaration |
| `Gdlk_proofs!CompilerDoesNotPanic` | the unwrap in `delabel.rs` finds every label and no index underflows |
| `Gdlk_proofs!ValidationIsExact` | an error of a kind is reported at a statement exactly if the statement has that fault, in source order, and one for each extra declaration of a label |
| `Gdlk_proofs!JumpsArrive` | a compiled jump leads to the first instruction below its label |
| `Gdlk_proofs!CompilingIsEnough` | what the compiler lets through is what the machine assumes |
| `Gdlk_proofs!EverySourceRunsSafely` | so the machine's four invariants hold of every source, with no premise about the program left |
| `Gdlk_proofs!TheSourceIsRun` | compiler and machine implement `SourceMachine` |
| `Front_proofs!FrontParses` | the compiler as a whole implements the parser |
| `Front_proofs!TreesAreTheirTexts` | each node of a tree is the statement of its line, spelled by the items of its span |
| `Front_proofs!FirstFaultsAreRefused` | a text is refused at its first line that the grammar does not have, and for nothing else |
| `Front_proofs!FaultsAreWhereTheyAreSaid` | "expected x at n:m" is true: an x there can go on to a statement, what is there cannot |
| `Front_proofs!TextsAreValidated`, `TextsNameTheFirst`, `TextsJumpToTheirLabels` | the compiler's properties, of texts: no premise about the tree is left |
| `Front_proofs!TextsCompileToPrograms` | what a text compiles to is what the machine assumes |
| `Accounts_proofs!AnswersStayTrue`, `LoginsAreTheirOwn` | answers are true of the tables and stay so; a login gets a row of its own identity |
| `Accounts_proofs!AccountsImplementTheBook` | interleaved statements change the tables as `AccountBook`'s atomic operations do |
| `Accounts_proofs!ServerKeepsTheAccounts` | all three behind any number of workers, threads and connections |
| `SolutionList_proofs!SourcesStayOwn`, `UpdatesAreMerged`, `DeletedIsForGood`, `AnswersTell` | the four properties of `UserPrograms`, for the API alone and under the list of the page |
| `SolutionList_proofs!TheListIsTheTable` | once all answers are there, the list that they edited equals the table |
| `Catalog_proofs!StoredSpecsFit`, `SlugsAreAddresses` | specs stay in the bounds, and each is found by its slug alone |
| `Catalog_proofs!WalksSeeEveryRow` | a walk that has ended shows every selected row there was when it began, for tables and pages of any size that an i32 counts |
| `Catalog_proofs!PageInfoStaysAccurate` | cursors and next page, which come from a count, are those of the edges |
| `Ide_proofs!PageIsTruthful`, `StepperShown` | type correctness, `CompiledIsCurrent`, `StepperIsShown` for all texts and any number of edits |
| `Ide_proofs!RunsAreKept` | no timer throws away a run of the text that is shown |
| `SourceSync_proofs!ReopeningShowsTheWork`, `NothingToSaveIsTrue`, `SavesLastUntilOvertaken` | the three properties of `SourceSync`, for one device |

Each rests on an inductive invariant, which TLC checked on the component's run before it was proved.

*Machine.* `Inv` adds to the four invariants that the program is well formed. Without it nothing is inductive: an
operand that exists is what keeps registers and stacks in their domains, and a jump inside the program is what keeps the
counter there. There is a lemma per operator under three that all share: what `GetReg` returns (`RegisterValue`, with
the lengths that do not fit an i16 as the exception), what `Advance` does to the counter, and what `Fail` may store.
The section on `Lang` proves that wrapping and quotients stay in the type for every width. `TerminationIsFinal` needs
`Inv` for one thing: that a counter which is not at the end is at an instruction, so that no operator's action is enabled
on a terminated machine. Errors, panics and verdicts then need nothing but that: the step that stores one makes
it true, and no later step changes what it is about.

*Compiler.* `CInv` says of the passes how far they have come. `FirstDeclarations`: a label's entry is its least position
among those seen. `SeenLabels`: every position passed has its label in the table. `JumpsKnown`: as long as validation
has found nothing, every jump it has passed names a label; this is what carries from an empty error vector at the end of
`validate` to the unwrap in `delabel`, where no error is looked at any more. `MapFits`: each label in the map took an
iteration, so that `i - label_map.len()` does not underflow; it is an argument about cardinalities. An error's fields
enter by `errors \in Seq(CompileError)`. `FInv` relates errors and faults, in both directions, up to the position each
pass has reached, and keeps the verdict after the errors have been looked at. `DInv` says what the two passes of
`delabel` count: a label's entry is the number of instructions above it, and the instruction in progress has as many
below it as its index. `JumpsArrive` is then that two counts of one set of positions are equal exactly if no instruction
lies between.

*Parser.* Two descriptions of a line meet: the parser's, which goes from place to place, and the grammar's, which speaks
of the items that are written on it, spaces and comments taken out (`Where`). `Declares` and `Instructs` say of which
shape a line is if the parser accepts it: words with one space between them, each a reading of its kind, and nothing but
a space and a comment behind. That the items kept are those of the shape, and stand at its places, is a matter of
counting (`WherePositions`: the kept items have increasing places and all else is not kept), so that both descriptions
accept the same lines and read them alike. For the place of a fault, the beginning of the line up to it is followed by
samples: one of each kind of operand that is still to come makes it a statement, which is where the four cases of an
unreadable operand, a missing one, a keyword that no space follows and a superfluous item differ. Conversely any line
with the same beginning and the same item at the fault is refused at it. `ParseInv` lifts this to texts: each node is
that of a line read, each line read is blank or has its node, and the verdict is that of the next line.
In `Front`, `Waiting` (the passes are blank) or `Passing` (their three invariants) holds; between them lies the step that
hands the tree over, where `ParseInv` is what makes it a sequence of statements with at least one element.

*Core.* `GInv` joins the compiler's invariants, the machine's and `Handover`: until the machine is allocated its
variables are blank, from then on they are the compiler's output. The refinement maps the counter to the position of the
statement that is to run next (`Position`: the span of the instruction, or the end of the source), so that a jump of the
machine becomes "go to the label and on to the first instruction below it", which is `JumpsArrive`; each operator has a
lemma that its step is the source's step. All passes of the compiler stutter.

*Accounts.* `AInv` ties together what the requests are doing. `RowsAreOwn` and `HeldRowsAreSettled`: every row, also one
in a cookie or in the hands of a request, is the one that a login of that identity has inserted; ids are not used again.
`InsertsAreAlone`, `NamesAreAlone`, `LinksAreAlone`: the effect of the waits in the guards, that an uncommitted row
conflicts with no committed row and with no other uncommitted one. They are what makes a COMMIT an atomic step of
`AccountBook`, since the statements before it have been checked against a table that others have changed since.
`ConflictsStay`: without removals, the row that made the INSERT do nothing is there at the SELECT. A step of
`Server` is a step of `Accounts`, the pool's timeout being one of its refusals, or leaves the tables alone.

*User programs and their list.* `TInv` says of the API that every row was inserted by the request it has its id from,
with what that request asked for or later updates wrote, and that what a copy has read and not yet inserted was its
owner's. `PInv` adds what the page has asked for. `LInv` is about a list that is not blind, that is, without requests
from other tabs or lost answers, for which nothing keeps it: an edge comes from an answer that was heard; a row without an
edge has an unheard create or copy; an edge without its row, or with another name, has an unheard deletion or renaming.
The buttons matter here: each row has at most one renaming and one deletion under way, so that answers in any order leave
the last name. With nothing pending nothing is unheard, and list and table agree.

*Specs.* `SpecsInv`: the tables are typed with the bounds in the type, and unique as the schema says. The bounds hold of
an update because its own copy of the validator bounds every field it changes, for `MAX_BUFFER` of any size; the CHECKs
would not do it (`up.sql:7, 21`). Slugs rest on UNIQUE alone, since a renaming leaves the slug as it was.

*Connections.* `WalkInv` is the types and `MissingIsAhead`: until a row is moved or deleted, each row of the beginning that
the client does not have is selected, and lies behind the first row of the page that is asked for next; or, between the two
queries of a page, is among the edges just read or behind the end of the page. A row that is put anywhere only moves others
up (`RowsMoveUp`, by cutting the table where the row goes: `WhereConcat`), so that what lies ahead stays ahead, while the
client may be sent a row it has already. The count is at least the place of what is missing (`WhereHas`), so that the walk
goes on. `PageInfoIsAccurate` needs only the types, and that a table has no more rows than there are (`WhereOnce`, a
cardinality), so that no index wraps.

*Selection.* `Where` is a recursive function over a prefix of its sequence. That it exists, is the only one, and whatever
follows about a longer sequence from a shorter one is proved by the least counterexample, from the well-foundedness of
the naturals; the induction theorems of the library, which take an operator, are not needed.

*Page.* `IdeInv` adds `TimerIsCurrent`: a timer that is still to fire holds the text of the last edit. It is what
`useDebouncedValue`'s clearing of the old timer is for, and why what the debounce compiles is the editor's text. For
`RunsAreKept`, `CompiledIsDebounced`: what is compiled has gone through the debounce, so that the timer of the first
rendering finds the value it would set, and React renders nothing.

*Saving.* `SyncInv` says who knows what. `RemoteIsRow`: a page that has heard of every save knows the row, through each
state of a save. `SavesAreChanges`: a save is of a text the page does not know the row to hold. `SettledIsStored` and
`QuietIsAlone`: a settled text is in the local copy, and neither the row nor a save on its way has a newer other one; the
second says the same of a text that still waits for its debounce, and needs that it was typed while no save was on its way.
`SavedIsStored`: from the moment a save is made until the page says something else, the row holds it or the text of the
older save in `late`. `OneDevice` is a hypothesis of the theorems, as it is a premise of the properties: section 6 tells what two devices do.

*Assumptions* on constants, all evaluated by TLC: `ValueAssumption` (the largest value is at least 1),
`CycleAssumption`, `CompileAssumption` (bodies are non-empty sequences of statements, which `parse.rs` guarantees),
`ProgramSpecAssumption` (a program spec's values are of the type, its lengths naturals), `PoolAssumption`,
`IdeAssumption`, `ParseAssumption` (a line is cut into words and spaces that do not touch, a comment comes last, which is
what "item" means), `PaginationAssumption` (an i32 counts the rows and one page more: on a larger count the code panics
already, `hardware_spec.rs:157-158`). `SentinelAssumption`, `NameAssumption`, `SolutionAssumption`, `SyncAssumption` and `SpecsAssumption` say
only that the values that stand for "none" and "absent" are no others, and of which type names, numbers and buffers are.
The bounds `MaxRemovals`, `MaxFailures`, `MaxEdits`, `MaxTime` and `RowsAtFirst` are constants too, so that the theorems hold of any
number of failures and edits.

## 5. What is only model-checked

- Liveness (`EverySourceGetsItsVerdict`, `EveryRequestIsAnswered`, `WalkEnds`, `TextIsStored`) is out of the prover's
  reach, and so is `OnlyLoginsExhaustThePool`, which speaks of `ENABLED`.

All other properties of the passing runs are stated by a theorem.

`Pagination` states a type invariant to document its variables, and so do `UserPrograms`, `SolutionList`, `Specs` and
`SourceSync`; they are not among the runs' properties, since what could break them breaks a deeper one first.

## 6. Where code and words disagree

Two are shown by runs and recorded as findings (`pop_writes_readonly`, `steps_when_not_allowed`). The others were met while
modelling; the specifications follow the code.

- `machine.rs:263`: division is not wrapping, the least value divided by -1 panics; `ast.rs:117` says that all
  arithmetic is. `PanicExplained` names it.
- `machine.rs:121-124`: a length that does not fit an i16 panics. Only the command line's JSON files can reach it: the
  API bounds buffers and stacks by 256.
- `machine.rs:262`, `ast.rs:134-136` say that division floors; it rounds to zero. `ast.rs:165-168`: the comments of
  `Jlz` and `Jgz` are swapped.
- `parse.rs`: `JMP` takes no terminator, so `JMPX` fails at its missing label and not as an unknown statement; a comment
  directly after an operand is refused, directly after a label's colon it is not.
- `auth.rs:170-172, 198`: the row that made the INSERT do nothing may be gone at the SELECT; the login then ends in an
  internal error.
- `user_program.rs:124`: a copy whose name is taken ends as a database error, not as `AlreadyExists`
  (`api/src/error.rs:30-32`).
- `up.sql:10`: the slug is not set again when a spec is renamed ("Derived from the name",
  `models/hardware_spec.rs:16`), so a free name may have a taken slug. `up.sql:7, 21`: one column is checked twice and its neighbour never, which leaves the
  bound to the validators (`SpecsFit`).
- `ProgramIde.tsx:102`: values of 32 bits become 16 bits wide in the page. `gql/mod.rs:213`: the last index of a page may
  overflow an i32, so that the page information is not accurate (lines 198-200 say that it is): after the first row with the
  largest `first` the end cursor is the largest index, also of an empty page. A build without overflow checks wraps, as the model does; one with them panics. `PageInfoIsAccurate`
  states the range in which it does not.
- `ProgramIde.tsx:205, 217`: a text changed and changed back within 250 ms stays uncompiled until the next edit.
- `IdeControls.tsx:110-111`: after a lost answer, what the page holds as the saved text is not the row's. Line 119: the
  save of a deleted program is reported as saved; `SavedUntilOvertaken` is about programs that exist. Lines 117-121: a save
  that was given up, with its page or with "Error saving program", may be made all the same, also after a newer one: the
  row then goes back to the older text while "Solution saved" is shown, and an error message may belong to a save that was
  made. `ProgramIde.tsx:197-198`: the copy of a page that was merely opened may be newer than the row another device wrote,
  or than the row that a late save of this device writes afterwards; and a text typed while a save is on its way may be
  stored before that save is, in which case the next page shows the saved text and not the newer one. Lines 243-245: a text
  changed back to the saved one and left within the debounce raises no prompt, and the local copy still holds the other
  text. What the premises of `ReopenShowsTheWork` and `SaveButtonTellsTheTruth` leave out (`settled`, `unheard`, the saves
  still on their way, one device, the row exists) are these cases: lost answers, late saves, texts typed during a save,
  pages opened before an older save is made, other devices, deleted programs, and texts left before the debounce.
- `gql/user_program.rs:163`, `hardware_spec.rs:167`, `program_spec.rs:201`: a row that is deleted, or moved by an update, on
  a page that was read already makes OFFSET skip a row that stayed. `WalkSeesEveryRow` leaves these walks out
  (`disturbed`); `WalkEnds` does not.

## 7. Abstractions

- A word of the source is its tag, rest and spelling; a span or a position is a line and its items, not its characters.
  The errors of validation and of the machine point at statements, not at the operand in them. A carriage return that
  ends no line is left out.
- In `Server` the OpenID provider's three calls are one wait. A client that hangs up, which drops the handler and frees
  its connection, and a provider whose answer has no subject, on which `auth.rs:168` panics, are left out.
- A file name is a base and a number of " copy"; a text, a source, a subject are model values. Lost atomicity inside one
  SQL statement is not modelled: PostgreSQL does not lose it.
- In `Pagination` the order in which an unordered query returns the rows changes only with a write: rows come anywhere, but
  those that nobody touches keep their order between two pages.
- One request context reads its user once, as the code does; the session is a row id in a cookie.
- `SourceSync` has one clock for device and database; skew would add to the case of two devices. The compiled machine
  is `Ide`'s business and not repeated there.
- In `Ide` a machine is the number of instructions it has executed; `Length` says when it has terminated. What the
  instructions do is `Machine`'s business.
- In `SolutionList`, leaving the page and coming back with a mutation in flight is not modelled. The copy button stays
  enabled while its mutation loads (`IconButton` only shows a spinner), so two copies in flight are.
- Removing login rows is an operator's act; no code does it.

## 8. Not modelled

- Configuration, routes and start-up: wiring.
- Displays of registers, stacks and tapes, syntax colouring, forms, documentation pages and navigation: rendering of
  state the other modules own. How a list asks for its next page is in `Pagination`.
- Error messages; the GraphQL objects made of validation errors; conversions of Rust structures to JavaScript objects; HTTP status codes.
- The OpenID protocol is one step that succeeds or fails in one of the two ways the code tells apart. PostgreSQL, Relay and React are modelled only by what the
  code relies on.
- Generated schema, containers, proxy configuration, deployment.

## 9. Plan

The order was: `Lang`, `Machine` (the core everything rests on), `Compile`, `Parse`, `Gdlk` over `SourceMachine`; then
`Accounts` over `AccountBook`, and `Server` under it; then the other API modules and the browser; proofs from the machine
outwards. Left:

1. *Model.* `Session`: the page's own view of who is logged in (`LoginMenu`,
   `InitializeUserDialog`, `state/user.ts`) against `Accounts`. Navigation while mutations are in flight, for
   `SolutionList`.
2. *Prove.* The command line from text to verdict, with `Front` in front of `Gdlk`: both halves are there, and
   `TextsCompileToPrograms` is where they meet.
