------------------------------- MODULE SourceSync -------------------------------
(* Where the text of one user program lives: the row in the database, the copy  *)
(* each device keeps in local storage, and the editor of an open IDE page       *)
(* (storage.ts, ProgramIde.tsx, IdeControls.tsx, ProgramIdeView.tsx under       *)
(* src/frontend/src, and the update of src/api/src/views/user_program.rs).      *)
(*                                                                              *)
(* Every clock is one clock here, `now`: skew between a device and the database *)
(* is left out. The debounce of 250 ms is one tick or more.                     *)
EXTENDS Integers

CONSTANTS
  Device, Source, None,
  MaxTime,        \* bound: ticks of the clock
  MaxEdits        \* bound: changes of a text, over all devices

ASSUME SyncAssumption ==
  /\ MaxTime \in Nat /\ MaxEdits \in Nat
  /\ None \notin Source /\ None \notin 0 .. MaxTime + 1
  /\ None \notin [source : Source, last_modified : 0 .. MaxTime]
  /\ None \notin [value : Source, lastModified : 0 .. MaxTime]

VARIABLES
  now, edits,
  row,            \* the user program: source and last_modified, or None once deleted
  local,          \* device -> the stored value and its lastModified, or None
  page,           \* device -> its page
  stray,          \* device -> the text of a save that its page has given up and that
                  \* still reaches the database, or None (bound: one at a time)
  work,           \* device -> history: the text last seen in its editor
  settled,        \* device -> history: that text is the stored one, and no save
                  \* was on its way while it was entered
  unheard,        \* history: the page has not heard of a save that was made
  late            \* device -> history: the text of a stray save that was made after
                  \* the last save of the page, or None

vars == <<now, edits, row, local, page, stray, work, settled, unheard, late>>

\* A page is closed, loading (the query has answered, the wasm module has not come)
\* or open. `remote` is the program in Relay's store; the debounce is due at `due`.
\* `saving` is the text of the last save, `saveState` what the page says of it.
\* `quiet` is history: the text was entered with no save on its way.
Page == [state : {"closed", "loading", "open"}, sourceCode : Source \cup {None},
         debounced : Source \cup {None}, due : 0 .. MaxTime + 1 \cup {None},
         remote : Source \cup {None}, modified : 0 .. MaxTime,
         save : {"idle", "sent", "done", "missed"}, saving : Source \cup {None},
         saveState : {"none", "success", "error"}, quiet : BOOLEAN]
Copy == [value : Source, lastModified : 0 .. MaxTime]

Closed == [state |-> "closed", sourceCode |-> None, debounced |-> None, due |-> None,
           remote |-> None, modified |-> 0, save |-> "idle", saving |-> None,
           saveState |-> "none", quiet |-> TRUE]

Open(d) == page[d].state = "open"

\* Mutant: the comparison the other way round.
ChosenIfOlder(copy, source, modified) ==
  IF copy # None /\ copy.lastModified < modified THEN copy.value ELSE source

\* What a page shows that opens with this local copy and this program.
Chosen(copy, source, modified) ==
  IF copy # None /\ copy.lastModified > modified THEN copy.value ELSE source

\* StorageHandler.set
Store(d, text) == local' = [local EXCEPT ![d] = [value |-> text, lastModified |-> now]]

\* No save of d is still to reach the database.
NothingSent(d) == page[d].save # "sent" /\ stray[d] = None

-------------------------------------------------------------------------------
Init ==
  /\ now = 0 /\ edits = 0
  /\ \E s \in Source : row = [source |-> s, last_modified |-> 0]
  /\ local = [d \in Device |-> None]
  /\ page = [d \in Device |-> Closed]
  /\ stray = [d \in Device |-> None]
  /\ work = [d \in Device |-> None]
  /\ settled = [d \in Device |-> TRUE]
  /\ unheard = FALSE /\ late = [d \in Device |-> None]

Tick ==
  /\ now < MaxTime /\ now' = now + 1
  /\ UNCHANGED <<edits, row, local, page, stray, work, settled, unheard, late>>

\* ProgramIdeViewQuery is answered.
Fetch(d) ==
  /\ page[d].state = "closed" /\ row # None
  /\ page' = [page EXCEPT ![d].state = "loading", ![d].remote = row.source,
                          ![d].modified = row.last_modified]
  /\ unheard' = FALSE
  /\ UNCHANGED <<now, edits, row, local, stray, work, settled, late>>

\* ProgramIde is mounted, and its first effects run: it stores what it starts with.
Mount(d) ==
  LET start == Chosen(local[d], page[d].remote, page[d].modified)
  IN
  /\ page[d].state = "loading"
  /\ page' = [page EXCEPT ![d].state = "open", ![d].sourceCode = start,
                          ![d].debounced = start]
  /\ Store(d, start)
  /\ work' = [work EXCEPT ![d] = start]
  /\ settled' = [settled EXCEPT ![d] = NothingSent(d) /\ ~ unheard]
  /\ UNCHANGED <<now, edits, row, stray, unheard, late>>

Edit(d, s) ==
  /\ Open(d) /\ s # page[d].sourceCode /\ edits < MaxEdits /\ now < MaxTime
  /\ edits' = edits + 1
  /\ page' = [page EXCEPT ![d].sourceCode = s, ![d].due = now + 1,
                          ![d].quiet = NothingSent(d)]
  /\ work' = [work EXCEPT ![d] = s] /\ settled' = [settled EXCEPT ![d] = FALSE]
  /\ UNCHANGED <<now, row, local, stray, unheard, late>>

\* The debounced effect stores the text, if it is another one than it stored last.
Debounce(d) ==
  LET text == page[d].sourceCode
  IN
  /\ Open(d) /\ page[d].due # None /\ page[d].due <= now
  /\ page' = [page EXCEPT ![d].due = None, ![d].debounced = text]
  /\ IF text = page[d].debounced THEN UNCHANGED local
     ELSE Store(d, text)
  /\ settled' = [settled EXCEPT ![d] = NothingSent(d) /\ page[d].quiet /\ text # page[d].debounced]
  /\ UNCHANGED <<now, edits, row, stray, work, unheard, late>>

-------------------------------------------------------------------------------
(* Saving.                                                                     *)

NoChanges(d) == page[d].remote = page[d].sourceCode

\* The Save button, while it is enabled
Save(d) ==
  /\ Open(d) /\ ~ NoChanges(d) /\ page[d].save = "idle"
  /\ page' = [page EXCEPT ![d].save = "sent", ![d].saving = page[d].sourceCode,
                          ![d].saveState = "none"]
  /\ UNCHANGED <<now, edits, row, local, stray, work, settled, unheard, late>>

\* UPDATE user_programs SET source_code, and the trigger update_last_modified
Written(text) ==
  IF row = None THEN row ELSE [source |-> text, last_modified |-> now]

\* The save reaches the database; the payload says whether there was a row.
Update(d) ==
  /\ page[d].save = "sent"
  /\ row' = Written(page[d].saving)
  /\ page' = [page EXCEPT ![d].save = IF row = None THEN "missed" ELSE "done"]
  /\ late' = [late EXCEPT ![d] = None]
  /\ UNCHANGED <<now, edits, local, stray, work, settled, unheard>>

\* Mutant: the text at the answer counts as saved.
CompleteUnread(d) ==
  /\ page[d].save \in {"done", "missed"}
  /\ page' = [page EXCEPT ![d].save = "idle", ![d].saveState = "success",
                          ![d].remote = IF page[d].save = "done" THEN page[d].sourceCode ELSE @]
  /\ UNCHANGED <<now, edits, row, local, stray, work, settled, unheard, late>>

\* onCompleted: Relay puts the node it was sent into its store, if there is one; the
\* page says "Solution saved" either way.
Complete(d) ==
  /\ page[d].save \in {"done", "missed"}
  /\ page' = [page EXCEPT ![d].save = "idle", ![d].saveState = "success",
                          ![d].remote = IF page[d].save = "done" THEN page[d].saving ELSE @]
  /\ UNCHANGED <<now, edits, row, local, stray, work, settled, unheard, late>>

\* A request that is cut off is lost for good, or reaches the database later.
CutOff(d) ==
  \/ UNCHANGED stray
  \/ /\ page[d].save = "sent" /\ stray[d] = None
     /\ stray' = [stray EXCEPT ![d] = page[d].saving]

\* Mutant: the end of the save counts as its success.
FailSettled(d) ==
  /\ page[d].save # "idle" /\ CutOff(d)
  /\ page' = [page EXCEPT ![d].save = "idle", ![d].saveState = "success"]
  /\ unheard' = (unheard \/ page[d].save = "done")
  /\ UNCHANGED <<now, edits, row, local, work, settled, late>>

\* onError: the request or its answer is lost.
Fail(d) ==
  /\ page[d].save # "idle" /\ CutOff(d)
  /\ page' = [page EXCEPT ![d].save = "idle", ![d].saveState = "error"]
  /\ unheard' = (unheard \/ page[d].save = "done")
  /\ UNCHANGED <<now, edits, row, local, work, settled, late>>

\* The message is closed, or has been shown long enough.
Dismiss(d) ==
  /\ Open(d) /\ page[d].saveState # "none"
  /\ page' = [page EXCEPT ![d].saveState = "none"]
  /\ UNCHANGED <<now, edits, row, local, stray, work, settled, unheard, late>>

-------------------------------------------------------------------------------
\* The page is left. A save that has not reached the database goes on without it.
Leave(d) ==
  /\ Open(d) /\ (page[d].save = "sent" => stray[d] = None)
  /\ page' = [page EXCEPT ![d] = Closed]
  /\ stray' = [stray EXCEPT ![d] = IF page[d].save = "sent" THEN page[d].saving ELSE @]
  /\ UNCHANGED <<now, edits, row, local, work, settled, unheard, late>>

UpdateStray(d) ==
  /\ stray[d] # None
  /\ row' = Written(stray[d]) /\ stray' = [stray EXCEPT ![d] = None]
  /\ settled' = [settled EXCEPT ![d] = @ /\ local[d].value = stray[d]]
  /\ unheard' = (page[d].state # "closed") /\ late' = [late EXCEPT ![d] = stray[d]]
  /\ UNCHANGED <<now, edits, local, page, work>>

\* deleteUserProgram, from the list of programs in another tab
Delete ==
  /\ row # None /\ row' = None
  /\ UNCHANGED <<now, edits, local, page, stray, work, settled, unheard, late>>

Next ==
  \/ Tick \/ Delete
  \/ \E d \in Device :
       \/ Fetch(d) \/ Mount(d) \/ (\E s \in Source : Edit(d, s)) \/ Debounce(d)
       \/ Save(d) \/ Update(d) \/ Complete(d) \/ Fail(d)
       \/ Dismiss(d) \/ Leave(d) \/ UpdateStray(d)

Spec == Init /\ [][Next]_vars

-------------------------------------------------------------------------------
SyncTypeOK ==
  /\ now \in 0 .. MaxTime /\ edits \in 0 .. MaxEdits
  /\ row = None \/ row \in [source : Source, last_modified : 0 .. MaxTime]
  /\ \A d \in Device :
       /\ local[d] = None \/ local[d] \in Copy
       /\ page[d] \in Page /\ (page[d].saving = None => page[d].save = "idle")
       /\ {stray[d], late[d]} \subseteq Source \cup {None}

\* What a page opened now would show.
WouldShow(d) == Chosen(local[d], row.source, row.last_modified)

\* With one device: a text that was left long enough to be stored, and that was not
\* typed while a save was on its way, is what the page opens with next time, whether
\* the saves before and after it arrived or not (ProgramIde.tsx:192-211).
ReopenShowsTheWork ==
  \A d \in Device :
    page[d].state = "closed" /\ work[d] # None /\ settled[d] /\ stray[d] = None /\ row # None
      => WouldShow(d) = work[d]

\* With one device: as long as no answer was lost and the program was not deleted, a
\* page that says there is nothing to save is right (IdeControls.tsx:110-111).
SaveButtonTellsTheTruth ==
  \A d \in Device :
    Open(d) /\ NoChanges(d) /\ NothingSent(d) /\ page[d].save = "idle" /\ ~ unheard /\ row # None
      => row.source = page[d].sourceCode

\* With one device, as long as the program exists: while the page says "Solution saved",
\* the row holds the text of that save, whatever is typed; but a save from before that
\* the page had given up may still come, and then the row holds that one's, although
\* the message stays. After "Error saving program" nothing is promised: the save may
\* have been made, or may be made yet (IdeControls.tsx:112-121, 187-201).
SavedUntilOvertaken ==
  \A d \in Device :
    Open(d) /\ page[d].saveState = "success" /\ row # None =>
      row.source = IF late[d] = None THEN page[d].saving ELSE late[d]
================================================================================
