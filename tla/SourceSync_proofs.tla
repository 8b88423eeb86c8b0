---------------------------- MODULE SourceSync_proofs ----------------------------
(* The text of a program on its way between one device and the database, for any  *)
(* number of texts, edits and ticks of the clock.                                 *)
EXTENDS SourceSync, TLAPS

\* The properties are about a user who has one device.
OneDevice == \A c, d \in Device : c = d

Row == [source : Source, last_modified : 0 .. MaxTime]

\* Nothing was written later than now.
NothingIsLater ==
  /\ row # None => row.last_modified <= now
  /\ \A d \in Device : local[d] # None => local[d].lastModified <= now

\* Only an open page has an editor and saves.
PagesStartClean(d) ==
  /\ page[d].state = "closed" => page[d] = Closed
  /\ page[d].state = "loading" =>
       /\ page[d].save = "idle" /\ page[d].saveState = "none" /\ page[d].due = None
       /\ page[d].remote \in Source /\ page[d].sourceCode = None
  /\ Open(d) => page[d].sourceCode = work[d] /\ work[d] \in Source

\* A page that has heard of every save knows what is in the row.
RemoteIsRow(d) ==
  page[d].state # "closed" /\ ~ unheard /\ row # None =>
    /\ page[d].save \in {"idle", "sent"} => row.source = page[d].remote
    /\ page[d].save = "done" => row.source = page[d].saving
    /\ page[d].state = "loading" => page[d].modified = row.last_modified

\* A save is of another text than the page knows of.
SavesAreChanges(d) ==
  /\ page[d].save # "idle" => page[d].saving # page[d].remote
  /\ page[d].save = "missed" => row = None

\* From the moment a save is made until the page says something else, the row holds it
\* or what came late.
SavedIsStored(d) ==
  (page[d].save = "done" \/ page[d].saveState = "success") /\ row # None =>
    row.source = IF late[d] = None THEN page[d].saving ELSE late[d]

\* A settled text is in the local copy, and the row has no other that is newer, nor
\* will a save bring one.
SettledIsStored(d) ==
  settled[d] /\ work[d] # None =>
    /\ local[d] # None /\ local[d].value = work[d]
    /\ page[d].save = "sent" => page[d].saving = work[d]
    /\ row # None => local[d].lastModified > row.last_modified \/ row.source = work[d]

\* A text that was entered in quiet and waits for its debounce: what has been written
\* since, or is still on its way, is that text.
QuietIsAlone(d) ==
  Open(d) /\ page[d].due # None /\ page[d].quiet =>
    /\ stray[d] # None => stray[d] = page[d].sourceCode
    /\ page[d].save = "sent" => page[d].saving = page[d].sourceCode
    /\ row # None /\ row.last_modified >= page[d].due => row.source = page[d].sourceCode

SyncTypes ==
  /\ now \in 0 .. MaxTime
  /\ row \in Row \cup {None}
  /\ local \in [Device -> Copy \cup {None}]
  /\ page \in [Device -> Page]
  /\ stray \in [Device -> Source \cup {None}]
  /\ work \in [Device -> Source \cup {None}]
  /\ settled \in [Device -> BOOLEAN]
  /\ unheard \in BOOLEAN
  /\ late \in [Device -> Source \cup {None}]
  /\ \A d \in Device : page[d].save # "idle" => page[d].saving \in Source

SyncInv ==
  /\ SyncTypes /\ NothingIsLater
  /\ \A d \in Device : /\ PagesStartClean(d) /\ RemoteIsRow(d) /\ SavesAreChanges(d)
                       /\ SavedIsStored(d) /\ SettledIsStored(d) /\ QuietIsAlone(d)

-------------------------------------------------------------------------------
LEMMA Nones ==
  /\ MaxTime \in Nat /\ MaxEdits \in Nat
  /\ None \notin Source /\ None \notin 0 .. MaxTime + 1
  /\ None \notin Row /\ None \notin Copy
BY SyncAssumption DEF Row, Copy

\* With one device, what holds of it is what holds.
LEMMA OfOne ==
  ASSUME OneDevice, NEW d \in Device, SyncTypes', NothingIsLater',
         PagesStartClean(d)', RemoteIsRow(d)', SavesAreChanges(d)', SavedIsStored(d)',
         SettledIsStored(d)', QuietIsAlone(d)'
  PROVE  SyncInv'
<1>1. \A c \in Device : c = d
  BY DEF OneDevice
<1> QED
  BY <1>1 DEF SyncInv

LEMMA InitSync == Init => SyncInv
<1> SUFFICES ASSUME Init PROVE SyncInv
  OBVIOUS
<1>1. Closed \in Page
  BY Nones DEF Closed, Page
<1>2. SyncTypes
  <2>1. row \in Row /\ now \in 0 .. MaxTime
    BY Nones DEF Init, Row
  <2>2. page \in [Device -> Page] /\ \A d \in Device : page[d].save = "idle"
    BY <1>1 DEF Init, Closed
  <2> QED
    BY <2>1, <2>2 DEF Init, SyncTypes
<1>3. NothingIsLater
  BY DEF Init, NothingIsLater
<1>4. \A d \in Device : /\ PagesStartClean(d) /\ RemoteIsRow(d) /\ SavesAreChanges(d)
                        /\ SavedIsStored(d) /\ SettledIsStored(d) /\ QuietIsAlone(d)
  BY DEF Init, PagesStartClean, RemoteIsRow, SavesAreChanges, SavedIsStored, SettledIsStored,
         QuietIsAlone, Closed, Open
<1> QED
  BY <1>2, <1>3, <1>4 DEF SyncInv

LEMMA TickKeeps == ASSUME SyncInv, Tick PROVE SyncInv'
<1>1. /\ now' = now + 1 /\ now' \in 0 .. MaxTime
      /\ UNCHANGED <<row, local, page, stray, work, settled, unheard, late>>
  BY Nones DEF Tick, SyncInv, SyncTypes
<1>2. SyncTypes'
  BY <1>1 DEF SyncInv, SyncTypes
<1>3. NothingIsLater'
  BY <1>1, Nones DEF SyncInv, SyncTypes, NothingIsLater, Row, Copy
<1>4. \A d \in Device : /\ PagesStartClean(d)' /\ RemoteIsRow(d)' /\ SavesAreChanges(d)'
                        /\ SavedIsStored(d)' /\ SettledIsStored(d)' /\ QuietIsAlone(d)'
  BY <1>1 DEF SyncInv, PagesStartClean, RemoteIsRow, SavesAreChanges, SavedIsStored, SettledIsStored,
         QuietIsAlone, Open
<1> QED
  BY <1>2, <1>3, <1>4 DEF SyncInv

LEMMA DeleteKeeps == ASSUME SyncInv, Delete PROVE SyncInv'
<1>1. /\ row' = None
      /\ UNCHANGED <<now, local, page, stray, work, settled, unheard, late>>
  BY DEF Delete
<1>2. SyncTypes'
  BY <1>1 DEF SyncInv, SyncTypes
<1>3. NothingIsLater'
  BY <1>1 DEF SyncInv, NothingIsLater
<1>4. \A d \in Device : /\ PagesStartClean(d)' /\ RemoteIsRow(d)' /\ SavesAreChanges(d)'
                        /\ SavedIsStored(d)' /\ SettledIsStored(d)' /\ QuietIsAlone(d)'
  BY <1>1 DEF SyncInv, PagesStartClean, RemoteIsRow, SavesAreChanges, SavedIsStored, SettledIsStored,
         QuietIsAlone, Open
<1> QED
  BY <1>2, <1>3, <1>4 DEF SyncInv

LEMMA FetchKeeps == ASSUME OneDevice, SyncInv, NEW d \in Device, Fetch(d) PROVE SyncInv'
<1>1. row \in Row /\ page[d] = Closed
  BY DEF Fetch, SyncInv, SyncTypes, PagesStartClean
<1>2. /\ UNCHANGED <<now, row, local, stray, work, settled, late>> /\ unheard' = FALSE
      /\ page' = [page EXCEPT ![d] = page'[d]]
      /\ page'[d] = [Closed EXCEPT !.state = "loading", !.remote = row.source,
                                   !.modified = row.last_modified]
  BY <1>1 DEF Fetch, SyncInv, SyncTypes
<1>3. /\ page'[d] \in Page /\ page'[d].state = "loading" /\ page'[d].save = "idle"
      /\ page'[d].saveState = "none" /\ page'[d].due = None /\ page'[d].sourceCode = None
      /\ page'[d].remote = row.source /\ page'[d].modified = row.last_modified
  <2>1. row.source \in Source /\ row.last_modified \in 0 .. MaxTime
    BY <1>1 DEF Row
  <2> QED
    BY <1>2, <2>1 DEF Closed, Page
<1>4. SyncTypes'
  <2>1. page' \in [Device -> Page] /\ \A c \in Device : c # d => page'[c] = page[c]
    BY <1>2, <1>3 DEF SyncInv, SyncTypes
  <2> QED
    BY <1>2, <1>3, <2>1 DEF SyncInv, SyncTypes
<1>5. NothingIsLater'
  BY <1>2 DEF SyncInv, NothingIsLater
<1>6. PagesStartClean(d)'
  BY <1>1, <1>3 DEF PagesStartClean, Open, Row
<1>7. RemoteIsRow(d)'
  BY <1>2, <1>3 DEF RemoteIsRow
<1>8. SavedIsStored(d)'
  BY <1>2, <1>3 DEF SavedIsStored
<1>9. SavesAreChanges(d)'
  BY <1>3 DEF SavesAreChanges
<1>10. SettledIsStored(d)'
  BY <1>2, <1>3 DEF SyncInv, SettledIsStored
<1>11. QuietIsAlone(d)'
  BY <1>3 DEF QuietIsAlone, Open
<1> QED
  BY <1>4, <1>5, <1>6, <1>7, <1>9, <1>10, <1>11, <1>8, OfOne

\* A step that leaves the pages and stays with one of them.
LEMMA PagesAreTyped ==
  ASSUME SyncInv, NEW d \in Device, NEW p \in Page, page' = [page EXCEPT ![d] = p],
         p.save # "idle" => p.saving \in Source
  PROVE  /\ page' \in [Device -> Page] /\ page'[d] = p
         /\ \A c \in Device : page'[c].save # "idle" => page'[c].saving \in Source
BY DEF SyncInv, SyncTypes

LEMMA PageTypes ==
  ASSUME SyncInv, NEW d \in Device
  PROVE  /\ page[d] \in Page
         /\ page[d].state \in {"closed", "loading", "open"}
         /\ page[d].sourceCode \in Source \cup {None} /\ page[d].debounced \in Source \cup {None}
         /\ page[d].due \in 0 .. MaxTime + 1 \cup {None}
         /\ page[d].remote \in Source \cup {None} /\ page[d].modified \in 0 .. MaxTime
         /\ page[d].save \in {"idle", "sent", "done", "missed"}
         /\ page[d].saving \in Source \cup {None}
         /\ page[d].saveState \in {"none", "success", "error"} /\ page[d].quiet \in BOOLEAN
         /\ page[d].save # "idle" => page[d].saving \in Source
BY DEF SyncInv, SyncTypes, Page

LEMMA SaversAreOpen ==
  ASSUME SyncInv, NEW d \in Device, page[d].save # "idle"
  PROVE  Open(d) /\ page[d].saving \in Source
<1>1. Closed.save = "idle"
  BY DEF Closed
<1>2. page[d].state # "closed" /\ page[d].state # "loading"
  BY <1>1 DEF SyncInv, PagesStartClean
<1> QED
  BY <1>2, PageTypes DEF Open

\* Storing a text.
LEMMA Stored ==
  ASSUME SyncInv, NEW d \in Device, NEW text \in Source, Store(d, text)
  PROVE  /\ local' \in [Device -> Copy \cup {None}]
         /\ local'[d] # None /\ local'[d].value = text /\ local'[d].lastModified = now
         /\ \A c \in Device : c # d => local'[c] = local[c]
<1>1. [value |-> text, lastModified |-> now] \in Copy
  BY DEF SyncInv, SyncTypes, Copy
<1> QED
  BY <1>1, Nones DEF SyncInv, SyncTypes, Store

LEMMA MountKeeps == ASSUME OneDevice, SyncInv, NEW d \in Device, Mount(d) PROVE SyncInv'
<1> DEFINE start == Chosen(local[d], page[d].remote, page[d].modified)
           p == [page[d] EXCEPT !.state = "open", !.sourceCode = start, !.debounced = start]
<1>1. /\ page[d].state = "loading" /\ page[d].save = "idle" /\ page[d].saveState = "none"
      /\ page[d].due = None /\ page[d].remote \in Source
  BY DEF Mount, SyncInv, PagesStartClean
<1>2. /\ start \in Source
      /\ \/ start = page[d].remote
         \/ local[d] # None /\ local[d].lastModified > page[d].modified
  BY <1>1 DEF Chosen, SyncInv, SyncTypes, Copy
<1>3. /\ UNCHANGED <<now, row, stray, unheard, late>> /\ Store(d, start)
      /\ page' = [page EXCEPT ![d] = p]
      /\ work' = [work EXCEPT ![d] = start]
      /\ settled' = [settled EXCEPT ![d] = NothingSent(d) /\ ~ unheard]
  BY DEF Mount, SyncInv, SyncTypes
<1> HIDE DEF start
<1>4. /\ p \in Page /\ p.state = "open" /\ p.sourceCode = start /\ p.save = "idle"
      /\ p.saveState = "none" /\ p.due = None /\ p.remote = page[d].remote
  <2>1. start \in Source \cup {None}
    BY <1>2
  <2>2. p \in Page
    BY <2>1, PageTypes DEF Page
  <2>3. /\ p.state = "open" /\ p.sourceCode = start /\ p.save = page[d].save
        /\ p.saveState = page[d].saveState /\ p.due = page[d].due /\ p.remote = page[d].remote
    BY PageTypes DEF Page
  <2> QED
    BY <1>1, <2>2, <2>3
<1> HIDE DEF p
<1>5. /\ page' \in [Device -> Page] /\ page'[d] = p
      /\ \A c \in Device : page'[c].save # "idle" => page'[c].saving \in Source
  BY <1>3, <1>4, PagesAreTyped
<1>6. /\ local' \in [Device -> Copy \cup {None}]
      /\ local'[d] # None /\ local'[d].value = start /\ local'[d].lastModified = now
      /\ \A c \in Device : c # d => local'[c] = local[c]
  BY <1>2, <1>3, Stored
<1>7. /\ work' \in [Device -> Source \cup {None}] /\ work'[d] = start
      /\ settled' \in [Device -> BOOLEAN] /\ settled'[d] = (NothingSent(d) /\ ~ unheard)
  <2>1. (NothingSent(d) /\ ~ unheard) \in BOOLEAN
    BY DEF NothingSent
  <2> QED
    BY <1>2, <1>3, <2>1 DEF SyncInv, SyncTypes
<1>8. SyncTypes'
  BY <1>3, <1>5, <1>6, <1>7 DEF SyncInv, SyncTypes
<1>9. NothingIsLater'
  <2>1. now \in Nat
    BY Nones DEF SyncInv, SyncTypes
  <2> QED
    BY <1>3, <1>6, <2>1 DEF SyncInv, NothingIsLater
<1>10. PagesStartClean(d)'
  BY <1>2, <1>4, <1>5, <1>7 DEF PagesStartClean, Open
<1>11. RemoteIsRow(d)'
  BY <1>1, <1>3, <1>4, <1>5 DEF SyncInv, RemoteIsRow
<1>12. SavedIsStored(d)'
  BY <1>1, <1>3, <1>4, <1>5 DEF SavedIsStored
<1>13. SavesAreChanges(d)'
  BY <1>4, <1>5 DEF SavesAreChanges
<1>14. SettledIsStored(d)'
  <2>1. SUFFICES ASSUME NothingSent(d), ~ unheard, row # None, ~ (now > row.last_modified)
                 PROVE  row.source = start
    BY <1>3, <1>4, <1>5, <1>6, <1>7 DEF SettledIsStored
  <2>2. row.source = page[d].remote /\ page[d].modified = row.last_modified
    BY <1>1, <2>1 DEF SyncInv, RemoteIsRow
  <2>3. row.last_modified \in Int /\ now \in Int
    BY <2>1, Nones DEF SyncInv, SyncTypes, Row
  <2>4. local[d] # None => local[d].lastModified \in Int /\ local[d].lastModified <= now
    BY Nones DEF SyncInv, SyncTypes, NothingIsLater, Copy
  <2> QED
    BY <1>2, <2>1, <2>2, <2>3, <2>4
<1>15. QuietIsAlone(d)'
  BY <1>4, <1>5 DEF QuietIsAlone
<1> QED
  BY <1>8, <1>9, <1>10, <1>11, <1>13, <1>14, <1>15, <1>12, OfOne

LEMMA EditKeeps ==
  ASSUME OneDevice, SyncInv, NEW d \in Device, NEW s \in Source, Edit(d, s)
  PROVE  SyncInv'
<1> DEFINE p == [page[d] EXCEPT !.sourceCode = s, !.due = now + 1, !.quiet = NothingSent(d)]
<1>1. /\ UNCHANGED <<now, row, local, stray, unheard, late>> /\ Open(d) /\ now < MaxTime
      /\ page' = [page EXCEPT ![d] = p]
      /\ work' = [work EXCEPT ![d] = s]
      /\ settled' = [settled EXCEPT ![d] = FALSE]
  BY DEF Edit, SyncInv, SyncTypes
<1>2. NothingSent(d) \in BOOLEAN /\ now + 1 \in 0 .. MaxTime + 1
  BY <1>1, Nones DEF NothingSent, SyncInv, SyncTypes
<1>3. /\ p \in Page /\ p.state = page[d].state /\ p.sourceCode = s /\ p.due = now + 1
      /\ p.quiet = NothingSent(d) /\ p.save = page[d].save /\ p.saving = page[d].saving
      /\ p.saveState = page[d].saveState /\ p.remote = page[d].remote
  BY <1>2, PageTypes DEF Page
<1> HIDE DEF p
<1>4. /\ page' \in [Device -> Page] /\ page'[d] = p
      /\ \A c \in Device : page'[c].save # "idle" => page'[c].saving \in Source
  BY <1>1, <1>3, PageTypes, PagesAreTyped
<1>5. /\ work' \in [Device -> Source \cup {None}] /\ work'[d] = s
      /\ settled' \in [Device -> BOOLEAN] /\ settled'[d] = FALSE
  BY <1>1 DEF SyncInv, SyncTypes
<1>6. SyncTypes'
  BY <1>1, <1>4, <1>5 DEF SyncInv, SyncTypes
<1>7. NothingIsLater'
  BY <1>1 DEF SyncInv, NothingIsLater
<1>8. PagesStartClean(d)'
  BY <1>1, <1>3, <1>4, <1>5 DEF PagesStartClean, Open
<1>9. RemoteIsRow(d)'
  BY <1>1, <1>3, <1>4 DEF SyncInv, RemoteIsRow, Open
<1>10. SavedIsStored(d)'
  BY <1>1, <1>3, <1>4 DEF SyncInv, SavedIsStored
<1>11. SavesAreChanges(d)'
  BY <1>1, <1>3, <1>4 DEF SyncInv, SavesAreChanges
<1>12. SettledIsStored(d)'
  BY <1>5 DEF SettledIsStored
<1>13. QuietIsAlone(d)'
  <2>1. SUFFICES ASSUME NothingSent(d) PROVE row # None => ~ (row.last_modified >= now + 1)
    BY <1>1, <1>3, <1>4 DEF QuietIsAlone, NothingSent
  <2>2. now \in Int /\ (row # None => row.last_modified \in Int /\ row.last_modified <= now)
    BY Nones DEF SyncInv, SyncTypes, NothingIsLater, Row
  <2> QED
    BY <2>2
<1> QED
  BY <1>6, <1>7, <1>8, <1>9, <1>11, <1>12, <1>13, <1>10, OfOne

LEMMA DebounceKeeps == ASSUME OneDevice, SyncInv, NEW d \in Device, Debounce(d) PROVE SyncInv'
<1> DEFINE text == page[d].sourceCode
           p == [page[d] EXCEPT !.due = None, !.debounced = text]
           after == NothingSent(d) /\ page[d].quiet /\ text # page[d].debounced
<1>1. /\ UNCHANGED <<now, row, stray, work, unheard, late>> /\ Open(d)
      /\ page[d].due # None /\ page[d].due <= now
      /\ page' = [page EXCEPT ![d] = p]
      /\ text = page[d].debounced => local' = local
      /\ text # page[d].debounced => Store(d, text)
      /\ settled' = [settled EXCEPT ![d] = after]
  BY DEF Debounce, SyncInv, SyncTypes
<1>2. text = work[d] /\ text \in Source
  BY <1>1 DEF SyncInv, PagesStartClean
<1>3. /\ p \in Page /\ p.state = "open" /\ p.sourceCode = text /\ p.due = None
      /\ p.save = page[d].save /\ p.saving = page[d].saving
      /\ p.saveState = page[d].saveState /\ p.remote = page[d].remote
  BY <1>1, <1>2, PageTypes DEF Page, Open
<1>4. after \in BOOLEAN
  BY PageTypes DEF NothingSent
<1> HIDE DEF text, p
<1>5. /\ page' \in [Device -> Page] /\ page'[d] = p
      /\ \A c \in Device : page'[c].save # "idle" => page'[c].saving \in Source
  BY <1>1, <1>3, PageTypes, PagesAreTyped
<1>6. text # page[d].debounced =>
      /\ local' \in [Device -> Copy \cup {None}]
      /\ local'[d] # None /\ local'[d].value = text /\ local'[d].lastModified = now
      /\ \A c \in Device : c # d => local'[c] = local[c]
  BY <1>1, <1>2, Stored
<1>7. settled' \in [Device -> BOOLEAN] /\ settled'[d] = after
  BY <1>1, <1>4 DEF SyncInv, SyncTypes
<1>8. SyncTypes'
  BY <1>1, <1>5, <1>6, <1>7 DEF SyncInv, SyncTypes
<1>9. NothingIsLater'
  <2>1. now \in Nat
    BY Nones DEF SyncInv, SyncTypes
  <2> QED
    BY <1>1, <1>6, <2>1 DEF SyncInv, NothingIsLater
<1>10. PagesStartClean(d)'
  BY <1>1, <1>2, <1>3, <1>5 DEF PagesStartClean, Open
<1>11. RemoteIsRow(d)'
  BY <1>1, <1>3, <1>5 DEF SyncInv, RemoteIsRow, Open
<1>12. SavedIsStored(d)'
  BY <1>1, <1>3, <1>5 DEF SyncInv, SavedIsStored
<1>13. SavesAreChanges(d)'
  BY <1>1, <1>3, <1>5 DEF SyncInv, SavesAreChanges
<1>14. SettledIsStored(d)'
  <2>1. SUFFICES ASSUME after, row # None, ~ (now > row.last_modified)
                 PROVE  row.source = text
    BY <1>1, <1>2, <1>3, <1>5, <1>6, <1>7 DEF SettledIsStored, NothingSent
  <2>2. row.last_modified \in Int /\ now \in Int /\ page[d].due \in Int
    BY <1>1, <2>1, Nones, PageTypes DEF SyncInv, SyncTypes, Row
  <2>3. row.last_modified >= page[d].due
    BY <1>1, <2>1, <2>2
  <2> QED
    BY <1>1, <2>1, <2>3 DEF SyncInv, QuietIsAlone, text
<1>15. QuietIsAlone(d)'
  BY <1>3, <1>5 DEF QuietIsAlone
<1> QED
  BY <1>8, <1>9, <1>10, <1>11, <1>13, <1>14, <1>15, <1>12, OfOne

LEMMA SaveKeeps == ASSUME OneDevice, SyncInv, NEW d \in Device, Save(d) PROVE SyncInv'
<1> DEFINE p == [page[d] EXCEPT !.save = "sent", !.saving = page[d].sourceCode,
                                !.saveState = "none"]
<1>1. /\ UNCHANGED <<now, row, local, stray, work, settled, unheard, late>> /\ Open(d)
      /\ page[d].remote # page[d].sourceCode /\ page[d].save = "idle"
      /\ page' = [page EXCEPT ![d] = p]
  BY DEF Save, NoChanges, SyncInv, SyncTypes
<1>2. page[d].sourceCode = work[d] /\ work[d] \in Source
  BY <1>1 DEF SyncInv, PagesStartClean
<1>3. /\ p \in Page /\ p.state = "open" /\ p.sourceCode = page[d].sourceCode
      /\ p.due = page[d].due /\ p.quiet = page[d].quiet /\ p.remote = page[d].remote
      /\ p.save = "sent" /\ p.saving = page[d].sourceCode /\ p.saveState = "none"
  BY <1>1, PageTypes DEF Page, Open
<1> HIDE DEF p
<1>4. /\ page' \in [Device -> Page] /\ page'[d] = p
      /\ \A c \in Device : page'[c].save # "idle" => page'[c].saving \in Source
  BY <1>1, <1>2, <1>3, PagesAreTyped
<1>5. SyncTypes'
  BY <1>1, <1>4 DEF SyncInv, SyncTypes
<1>6. NothingIsLater'
  BY <1>1 DEF SyncInv, NothingIsLater
<1>7. PagesStartClean(d)'
  BY <1>1, <1>2, <1>3, <1>4 DEF PagesStartClean, Open
<1>8. RemoteIsRow(d)'
  BY <1>1, <1>3, <1>4 DEF SyncInv, RemoteIsRow, Open
<1>9. SavedIsStored(d)'
  BY <1>1, <1>3, <1>4 DEF SavedIsStored
<1>10. SavesAreChanges(d)'
  BY <1>1, <1>3, <1>4 DEF SavesAreChanges
<1>11. SettledIsStored(d)'
  BY <1>1, <1>2, <1>3, <1>4 DEF SyncInv, SettledIsStored
<1>12. QuietIsAlone(d)'
  BY <1>1, <1>3, <1>4 DEF SyncInv, QuietIsAlone, Open
<1> QED
  BY <1>5, <1>6, <1>7, <1>8, <1>10, <1>11, <1>12, <1>9, OfOne

\* What a save, on its way from the page or from a page that was left, does to the row.
LEMMA WrittenRow ==
  ASSUME SyncInv, NEW text \in Source
  PROVE  /\ Written(text) \in Row \cup {None}
         /\ Written(text) = None <=> row = None
         /\ Written(text) # None =>
              Written(text).source = text /\ Written(text).last_modified = now
<1>1. [source |-> text, last_modified |-> now] \in Row
  BY DEF SyncInv, SyncTypes, Row
<1> QED
  BY <1>1, Nones DEF Written

LEMMA UpdateKeeps == ASSUME OneDevice, SyncInv, NEW d \in Device, Update(d) PROVE SyncInv'
<1> DEFINE p == [page[d] EXCEPT !.save = IF row = None THEN "missed" ELSE "done"]
<1>1. /\ UNCHANGED <<now, local, stray, work, settled, unheard>>
      /\ late' = [late EXCEPT ![d] = None]
      /\ page[d].save = "sent" /\ row' = Written(page[d].saving)
      /\ page' = [page EXCEPT ![d] = p]
  BY DEF Update, SyncInv, SyncTypes
<1>2. page[d].saving \in Source /\ Open(d)
  BY <1>1, SaversAreOpen
<1>3. /\ p \in Page /\ p.state = "open" /\ p.sourceCode = page[d].sourceCode
      /\ p.due = page[d].due /\ p.quiet = page[d].quiet /\ p.remote = page[d].remote
      /\ p.save = (IF row = None THEN "missed" ELSE "done") /\ p.saving = page[d].saving
  BY <1>2, PageTypes DEF Page, Open
<1> HIDE DEF p
<1>4. /\ page' \in [Device -> Page] /\ page'[d] = p
      /\ \A c \in Device : page'[c].save # "idle" => page'[c].saving \in Source
  BY <1>1, <1>2, <1>3, PagesAreTyped
<1>5. /\ row' \in Row \cup {None} /\ (row' = None <=> row = None)
      /\ row' # None => row'.source = page[d].saving /\ row'.last_modified = now
  BY <1>1, <1>2, WrittenRow
<1>6. late' \in [Device -> Source \cup {None}] /\ late'[d] = None
  BY <1>1 DEF SyncInv, SyncTypes
<1>7. SyncTypes'
  BY <1>1, <1>4, <1>5, <1>6 DEF SyncInv, SyncTypes
<1>8. NothingIsLater'
  <2>1. now \in Nat
    BY Nones DEF SyncInv, SyncTypes
  <2> QED
    BY <1>1, <1>5, <2>1 DEF SyncInv, NothingIsLater
<1>9. PagesStartClean(d)'
  BY <1>1, <1>2, <1>3, <1>4 DEF SyncInv, PagesStartClean, Open
<1>10. RemoteIsRow(d)'
  BY <1>3, <1>4, <1>5 DEF RemoteIsRow
<1>11. SavedIsStored(d)'
  BY <1>1, <1>3, <1>4, <1>5, <1>6 DEF SavedIsStored
<1>12. SavesAreChanges(d)'
  BY <1>1, <1>3, <1>4, <1>5 DEF SyncInv, SavesAreChanges
<1>13. SettledIsStored(d)'
  BY <1>1, <1>3, <1>4, <1>5 DEF SyncInv, SettledIsStored
<1>14. QuietIsAlone(d)'
  BY <1>1, <1>2, <1>3, <1>4, <1>5 DEF SyncInv, QuietIsAlone, Open
<1> QED
  BY <1>7, <1>8, <1>9, <1>10, <1>12, <1>13, <1>14, <1>11, OfOne

LEMMA CompleteKeeps == ASSUME OneDevice, SyncInv, NEW d \in Device, Complete(d) PROVE SyncInv'
<1> DEFINE known == IF page[d].save = "done" THEN page[d].saving ELSE page[d].remote
           p == [page[d] EXCEPT !.save = "idle", !.saveState = "success", !.remote = known]
<1>1. /\ UNCHANGED <<now, row, local, stray, work, settled, unheard, late>>
      /\ page[d].save \in {"done", "missed"}
      /\ page' = [page EXCEPT ![d] = p]
  BY DEF Complete, SyncInv, SyncTypes
<1>2. page[d].saving \in Source /\ Open(d)
  BY <1>1, SaversAreOpen
<1>3. known \in Source \cup {None}
  BY PageTypes
<1> HIDE DEF known
<1>4. /\ p \in Page /\ p.state = "open" /\ p.sourceCode = page[d].sourceCode
      /\ p.due = page[d].due /\ p.quiet = page[d].quiet /\ p.remote = known
      /\ p.save = "idle" /\ p.saving = page[d].saving /\ p.saveState = "success"
  BY <1>2, <1>3, PageTypes DEF Page, Open
<1> HIDE DEF p
<1>5. /\ page' \in [Device -> Page] /\ page'[d] = p
      /\ \A c \in Device : page'[c].save # "idle" => page'[c].saving \in Source
  BY <1>1, <1>4, PagesAreTyped
<1>6. SyncTypes'
  BY <1>1, <1>5 DEF SyncInv, SyncTypes
<1>7. NothingIsLater'
  BY <1>1 DEF SyncInv, NothingIsLater
<1>8. PagesStartClean(d)'
  BY <1>1, <1>2, <1>4, <1>5 DEF SyncInv, PagesStartClean, Open
<1>9. row # None => page[d].save = "done" /\ known = page[d].saving
  BY <1>1 DEF SyncInv, SavesAreChanges, known
<1>10. RemoteIsRow(d)'
  BY <1>1, <1>2, <1>4, <1>5, <1>9 DEF SyncInv, RemoteIsRow, Open
<1>11. SavedIsStored(d)'
  BY <1>1, <1>4, <1>5 DEF SyncInv, SavesAreChanges, SavedIsStored
<1>12. SavesAreChanges(d)'
  BY <1>1, <1>4, <1>5, <1>9 DEF SavesAreChanges
<1>13. SettledIsStored(d)'
  BY <1>1, <1>4, <1>5 DEF SyncInv, SettledIsStored
<1>14. QuietIsAlone(d)'
  BY <1>1, <1>2, <1>4, <1>5 DEF SyncInv, QuietIsAlone, Open
<1> QED
  BY <1>6, <1>7, <1>8, <1>10, <1>12, <1>13, <1>14, <1>11, OfOne

LEMMA FailKeeps == ASSUME OneDevice, SyncInv, NEW d \in Device, Fail(d) PROVE SyncInv'
<1> DEFINE p == [page[d] EXCEPT !.save = "idle", !.saveState = "error"]
<1>1. /\ UNCHANGED <<now, row, local, work, settled, late>> /\ CutOff(d)
      /\ page[d].save # "idle" /\ unheard' = (unheard \/ page[d].save = "done")
      /\ page' = [page EXCEPT ![d] = p]
  BY DEF Fail, SyncInv, SyncTypes
<1>2. Open(d)
  BY <1>1, SaversAreOpen
<1>3. /\ p \in Page /\ p.state = "open" /\ p.sourceCode = page[d].sourceCode
      /\ p.due = page[d].due /\ p.quiet = page[d].quiet /\ p.remote = page[d].remote
      /\ p.save = "idle" /\ p.saving = page[d].saving /\ p.saveState = "error"
  BY <1>2, PageTypes DEF Page, Open
<1> HIDE DEF p
<1>4. /\ page' \in [Device -> Page] /\ page'[d] = p
      /\ \A c \in Device : page'[c].save # "idle" => page'[c].saving \in Source
  BY <1>1, <1>3, PagesAreTyped
<1>5. /\ stray' \in [Device -> Source \cup {None}]
       /\ \/ stray' = stray
          \/ page[d].save = "sent" /\ stray'[d] = page[d].saving
  <2>1. page[d].saving \in Source
    BY <1>1, PageTypes
  <2> QED
    BY <1>1, <2>1 DEF CutOff, SyncInv, SyncTypes
<1>6. SyncTypes'
  BY <1>1, <1>4, <1>5 DEF SyncInv, SyncTypes
<1>7. NothingIsLater'
  BY <1>1 DEF SyncInv, NothingIsLater
<1>8. PagesStartClean(d)'
  BY <1>1, <1>2, <1>3, <1>4 DEF SyncInv, PagesStartClean, Open
<1>9. RemoteIsRow(d)'
  <2>1. page[d].save = "missed" => row = None
    BY DEF SyncInv, SavesAreChanges
  <2>2. page[d].save \in {"sent", "done", "missed"}
    BY <1>1, PageTypes
  <2> QED
    BY <1>1, <1>2, <1>3, <1>4, <2>1, <2>2 DEF SyncInv, RemoteIsRow, Open
<1>10. SavedIsStored(d)'
  BY <1>1, <1>3, <1>4 DEF SavedIsStored
<1>11. SavesAreChanges(d)'
  BY <1>1, <1>3, <1>4 DEF SyncInv, SavesAreChanges
<1>12. SettledIsStored(d)'
  BY <1>1, <1>3, <1>4 DEF SyncInv, SettledIsStored
<1>13. QuietIsAlone(d)'
  BY <1>1, <1>2, <1>3, <1>4, <1>5 DEF SyncInv, QuietIsAlone, Open
<1> QED
  BY <1>6, <1>7, <1>8, <1>9, <1>11, <1>12, <1>13, <1>10, OfOne

LEMMA DismissKeeps == ASSUME OneDevice, SyncInv, NEW d \in Device, Dismiss(d) PROVE SyncInv'
<1> DEFINE p == [page[d] EXCEPT !.saveState = "none"]
<1>1. /\ UNCHANGED <<now, row, local, stray, work, settled, unheard, late>> /\ Open(d)
      /\ page' = [page EXCEPT ![d] = p]
  BY DEF Dismiss, SyncInv, SyncTypes
<1>2. /\ p \in Page /\ p.state = "open" /\ p.sourceCode = page[d].sourceCode
      /\ p.due = page[d].due /\ p.quiet = page[d].quiet /\ p.remote = page[d].remote
      /\ p.save = page[d].save /\ p.saving = page[d].saving /\ p.saveState = "none"
  BY <1>1, PageTypes DEF Page, Open
<1> HIDE DEF p
<1>3. /\ page' \in [Device -> Page] /\ page'[d] = p
      /\ \A c \in Device : page'[c].save # "idle" => page'[c].saving \in Source
  BY <1>1, <1>2, PageTypes, PagesAreTyped
<1>4. SyncTypes'
  BY <1>1, <1>3 DEF SyncInv, SyncTypes
<1>5. NothingIsLater'
  BY <1>1 DEF SyncInv, NothingIsLater
<1>6. PagesStartClean(d)'
  BY <1>1, <1>2, <1>3 DEF SyncInv, PagesStartClean, Open
<1>7. RemoteIsRow(d)'
  BY <1>1, <1>2, <1>3 DEF SyncInv, RemoteIsRow, Open
<1>8. SavedIsStored(d)'
  BY <1>1, <1>2, <1>3 DEF SyncInv, SavedIsStored
<1>9. SavesAreChanges(d)'
  BY <1>1, <1>2, <1>3 DEF SyncInv, SavesAreChanges
<1>10. SettledIsStored(d)'
  BY <1>1, <1>2, <1>3 DEF SyncInv, SettledIsStored
<1>11. QuietIsAlone(d)'
  BY <1>1, <1>2, <1>3 DEF SyncInv, QuietIsAlone, Open
<1> QED
  BY <1>4, <1>5, <1>6, <1>7, <1>9, <1>10, <1>11, <1>8, OfOne

LEMMA LeaveKeeps == ASSUME OneDevice, SyncInv, NEW d \in Device, Leave(d) PROVE SyncInv'
<1>1. /\ UNCHANGED <<now, row, local, work, settled, unheard, late>>
      /\ page' = [page EXCEPT ![d] = Closed]
      /\ stray' = [stray EXCEPT ![d] = IF page[d].save = "sent" THEN page[d].saving ELSE stray[d]]
  BY DEF Leave, SyncInv, SyncTypes
<1>2. Closed \in Page /\ Closed.save = "idle" /\ Closed.state = "closed"
      /\ Closed.saveState = "none"
  BY Nones DEF Closed, Page
<1>3. /\ page' \in [Device -> Page] /\ page'[d] = Closed
      /\ \A c \in Device : page'[c].save # "idle" => page'[c].saving \in Source
  BY <1>1, <1>2, PagesAreTyped
<1>4. stray' \in [Device -> Source \cup {None}]
  BY <1>1, PageTypes DEF SyncInv, SyncTypes
<1>5. SyncTypes'
  BY <1>1, <1>3, <1>4 DEF SyncInv, SyncTypes
<1>6. NothingIsLater'
  BY <1>1 DEF SyncInv, NothingIsLater
<1>7. PagesStartClean(d)' /\ RemoteIsRow(d)' /\ SavesAreChanges(d)' /\ SavedIsStored(d)' /\ QuietIsAlone(d)'
  BY <1>2, <1>3 DEF PagesStartClean, RemoteIsRow, SavesAreChanges, SavedIsStored, QuietIsAlone, Open
<1>8. SettledIsStored(d)'
  BY <1>1, <1>2, <1>3 DEF SyncInv, SettledIsStored
<1> QED
  BY <1>5, <1>6, <1>7, <1>8, OfOne

LEMMA UpdateStrayKeeps ==
  ASSUME OneDevice, SyncInv, NEW d \in Device, UpdateStray(d)
  PROVE  SyncInv'
<1>1. /\ UNCHANGED <<now, local, page, work>>
      /\ stray[d] # None /\ stray' = [stray EXCEPT ![d] = None] /\ row' = Written(stray[d])
      /\ settled' = [settled EXCEPT ![d] = settled[d] /\ local[d].value = stray[d]]
      /\ unheard' = (page[d].state # "closed") /\ late' = [late EXCEPT ![d] = stray[d]]
  BY DEF UpdateStray, SyncInv, SyncTypes
<1>2. stray[d] \in Source
  BY <1>1 DEF SyncInv, SyncTypes
<1>3. /\ row' \in Row \cup {None} /\ (row' = None <=> row = None)
      /\ row' # None => row'.source = stray[d] /\ row'.last_modified = now
  BY <1>1, <1>2, WrittenRow
<1>4. settled' \in [Device -> BOOLEAN] /\ (settled'[d] => settled[d] /\ local[d].value = stray[d])
  BY <1>1 DEF SyncInv, SyncTypes
<1>5. late' \in [Device -> Source \cup {None}] /\ late'[d] = stray[d]
  BY <1>1, <1>2 DEF SyncInv, SyncTypes
<1>6. SyncTypes'
  BY <1>1, <1>3, <1>4, <1>5 DEF SyncInv, SyncTypes
<1>7. NothingIsLater'
  <2>1. now \in Nat
    BY Nones DEF SyncInv, SyncTypes
  <2> QED
    BY <1>1, <1>3, <2>1 DEF SyncInv, NothingIsLater
<1>8. PagesStartClean(d)' /\ RemoteIsRow(d)'
  BY <1>1 DEF SyncInv, PagesStartClean, RemoteIsRow, Open
<1>9. SavedIsStored(d)'
  BY <1>1, <1>3, <1>5 DEF SavedIsStored
<1>10. SavesAreChanges(d)'
  BY <1>1, <1>3 DEF SyncInv, SavesAreChanges
<1>11. SettledIsStored(d)'
  BY <1>1, <1>3, <1>4 DEF SyncInv, SettledIsStored
<1>12. QuietIsAlone(d)'
  BY <1>1, <1>3, <1>4 DEF SyncInv, QuietIsAlone, Open
<1> QED
  BY <1>6, <1>7, <1>8, <1>10, <1>11, <1>12, <1>9, OfOne

LEMMA NextSync == ASSUME OneDevice, SyncInv, [Next]_vars PROVE SyncInv'
<1>1. CASE UNCHANGED vars
  BY <1>1 DEF vars, SyncInv, SyncTypes, NothingIsLater, PagesStartClean, RemoteIsRow,
              SavesAreChanges, SavedIsStored, SettledIsStored, QuietIsAlone, Open
<1>2. CASE Next
  BY <1>2, TickKeeps, DeleteKeeps, FetchKeeps, MountKeeps, EditKeeps, DebounceKeeps, SaveKeeps,
     UpdateKeeps, CompleteKeeps, FailKeeps, DismissKeeps, LeaveKeeps, UpdateStrayKeeps DEF Next
<1> QED
  BY <1>1, <1>2

-------------------------------------------------------------------------------
(* The theorems                                                                 *)

LEMMA InvariantOfSync == ASSUME OneDevice PROVE Spec => []SyncInv
<1>1. SyncInv /\ [Next]_vars => SyncInv'
  BY NextSync
<1> QED
  BY <1>1, InitSync, PTL DEF Spec

\* A text that was left long enough to be stored, and that was not typed while a save
\* was on its way, is what the page opens with next time, whether the saves before and
\* after it arrived or not (ProgramIde.tsx:192-211).
THEOREM ReopeningShowsTheWork == ASSUME OneDevice PROVE Spec => []ReopenShowsTheWork
<1>1. SyncInv => ReopenShowsTheWork
  <2> SUFFICES ASSUME SyncInv, NEW d \in Device, work[d] # None, settled[d], row # None
               PROVE  WouldShow(d) = work[d]
    BY DEF ReopenShowsTheWork
  <2> QED
    BY DEF SyncInv, SettledIsStored, WouldShow, Chosen
<1> QED
  BY <1>1, InvariantOfSync, PTL

\* A page that says there is nothing to save is right, unless an answer was lost or the
\* program deleted (IdeControls.tsx:110-111).
THEOREM NothingToSaveIsTrue == ASSUME OneDevice PROVE Spec => []SaveButtonTellsTheTruth
<1>1. SyncInv => SaveButtonTellsTheTruth
  BY DEF SyncInv, RemoteIsRow, SaveButtonTellsTheTruth, Open, NoChanges
<1> QED
  BY <1>1, InvariantOfSync, PTL

\* While the page says "Solution saved", the row holds the text of that save, or that of
\* a save from before that came after it, as long as the program exists
\* (IdeControls.tsx:112-121, 187-201).
THEOREM SavesLastUntilOvertaken == ASSUME OneDevice PROVE Spec => []SavedUntilOvertaken
<1>1. SyncInv => SavedUntilOvertaken
  BY DEF SyncInv, SavedIsStored, SavedUntilOvertaken
<1> QED
  BY <1>1, InvariantOfSync, PTL
===============================================================================
