--------------------------- MODULE SolutionList_proofs ---------------------------
(* The table of user programs and the list a page keeps of it, for any number of *)
(* requests, users, program specs, names and sources.                            *)
EXTENDS SolutionList, TLAPS

\* The page's own create has the empty source.
Text == Source \cup {EmptySource}

Name == [base : {n.base : n \in FileName}, copies : Nat]
Row == [id : Request, user : User, spec : ProgramSpec, name : Name, source : Text]
Tasks == [op : {"none", "create", "update", "delete", "copy"}, user : User \cup {Nobody},
          id : Request \cup {"none"}, spec : ProgramSpec \cup {NoSpec},
          name : FileName \cup {Absent}, source : Text \cup {NoSource}]
Refusals == ErrorAnswer \cup {"None", "Unauthenticated", "ValidationErrors"}

\* Requests of the API, whoever sends them.
ApiNext == \E r \in Request :
  \/ \E op \in {"create", "update", "delete", "copy"} : Unauthenticated(r, op)
  \/ \E user \in User :
       \/ \E spec \in ProgramSpec \cup {NoSpec}, name \in FileName, source \in Text :
            Create(r, user, spec, name, source)
       \/ \E id \in Request :
            \/ \E name \in FileName \cup {Absent}, source \in Text \cup {NoSource} :
                 Update(r, user, id, name, source)
            \/ Delete(r, user, id)
            \/ CopyRead(r, user, id)
  \/ CopyInsert(r)

-------------------------------------------------------------------------------
(* The invariant of the table                                                   *)

TableTypeOK ==
  /\ rows \subseteq Row
  /\ answer \in [Request -> Refusals \cup {"none", "Ok"}]
  /\ task \in [Request -> Tasks]
  /\ original \in [Request -> Row \cup {NoRow}]

\* A row was inserted by the request of its id, which has been answered.
RowsAreInserted ==
  /\ \A row \in rows : answer[row.id] = "Ok" /\ task[row.id].op \in {"create", "copy"}
  /\ \A row, other \in rows : row.id = other.id => row = other

\* Between two steps only a copy is under way.
OnlyCopiesAreUnderWay ==
  \A r \in Request :
    /\ task[r].op = "none" => answer[r] = "none"
    /\ task[r].op # "none" /\ answer[r] = "none" => task[r].op = "copy"

Own(row) == \E r \in Request :
  task[r].user = row.user /\ task[r].source = row.source /\ answer[r] = "Ok"

\* What a copy has read was its user's own; it stays so when the row has changed.
OriginalsAreOwn ==
  \A r \in Request : task[r].op = "copy" /\ answer[r] = "none" =>
    original[r] \in Row /\ original[r].user = task[r].user /\ Own(original[r])

\* Only a row that was inserted has been updated.
UpdatesFindRows ==
  \A r \in Request : task[r].op = "update" /\ answer[r] = "Ok" =>
    task[r].id \in Request /\ answer[task[r].id] = "Ok"

Renamings(id) == {r \in OkUpdates(id) : task[r].name # Absent}
Savings(id) == {r \in OkUpdates(id) : task[r].source # NoSource}

Merged(row) ==
  task[row.id].op = "create" =>
    /\ Renamings(row.id) = {} => row.name = task[row.id].name
    /\ Savings(row.id) = {} => row.source = task[row.id].source
    /\ \A r \in Request : Renamings(row.id) = {r} => row.name = task[r].name
    /\ \A r \in Request : Savings(row.id) = {r} => row.source = task[r].source

TInv ==
  /\ TableTypeOK /\ RowsAreInserted /\ OnlyCopiesAreUnderWay
  /\ OriginalsAreOwn /\ UpdatesFindRows
  /\ \A row \in rows : Own(row) /\ Merged(row)

-------------------------------------------------------------------------------
(* What a request's step leaves alone                                           *)

LEMMA NameFacts ==
  /\ FileName \subseteq Name
  /\ \A name \in Name : CopyName(name) \in Name
<1>1. FileName \subseteq Name
  BY NameAssumption DEF Name
<1>2. \A name \in Name : CopyName(name) \in Name
  BY DEF Name, CopyName
<1> QED
  BY <1>1, <1>2

LEMMA Converted ==
  /\ Convert(CreateConverter, "UniqueViolation") = "AlreadyExists"
  /\ Convert(CreateConverter, "ForeignKeyViolation") = "NotFound"
  /\ Convert(UpdateConverter, "NoChangesToSave") = "NoUpdate"
  /\ Convert(UpdateConverter, "UniqueViolation") = "AlreadyExists"
  /\ Convert({}, "UniqueViolation") = "DatabaseError"
  /\ {"AlreadyExists", "NotFound", "NoUpdate", "DatabaseError"} \subseteq Refusals
  /\ "none" \notin Refusals /\ "Ok" \notin Refusals
<1>1. /\ Convert(CreateConverter, "UniqueViolation") = "AlreadyExists"
      /\ Convert(CreateConverter, "ForeignKeyViolation") = "NotFound"
      /\ Convert(UpdateConverter, "NoChangesToSave") = "NoUpdate"
      /\ Convert(UpdateConverter, "UniqueViolation") = "AlreadyExists"
      /\ Convert({}, "UniqueViolation") = "DatabaseError"
  BY DEF Convert, CreateConverter, UpdateConverter, FkToNotFound, UniqueToExists,
         NoChangesToUpdate
<1>2. /\ CreateConverter \in SUBSET {FkToNotFound, UniqueToExists, NoChangesToUpdate}
      /\ UpdateConverter \in SUBSET {FkToNotFound, UniqueToExists, NoChangesToUpdate}
      /\ {} \in SUBSET {FkToNotFound, UniqueToExists, NoChangesToUpdate}
      /\ {"UniqueViolation", "ForeignKeyViolation", "NoChangesToSave"} \subseteq Refusal
  BY DEF CreateConverter, UpdateConverter, Refusal
<1>3. {"AlreadyExists", "NotFound", "NoUpdate", "DatabaseError"} \subseteq ErrorAnswer
  BY <1>1, <1>2 DEF ErrorAnswer
<1>4. ErrorAnswer \subseteq {"AlreadyExists", "NotFound", "NoUpdate", "DatabaseError"}
  BY DEF ErrorAnswer, Convert
<1> QED
  BY <1>1, <1>3, <1>4 DEF Refusals

LEMMA AnswerEffect ==
  ASSUME TInv, NEW r \in Request, NEW t \in Tasks, NEW reply \in Refusals \cup {"Ok"},
         Answer(r, t, reply)
  PROVE  /\ answer' \in [Request -> Refusals \cup {"none", "Ok"}] /\ answer'[r] = reply
         /\ task' \in [Request -> Tasks] /\ task'[r] = t
         /\ \A q \in Request : q # r => answer'[q] = answer[q] /\ task'[q] = task[q]
BY DEF TInv, TableTypeOK, Answer

\* The tasks and answers of the others, those that are settled among them.
Others(r) == \A q \in Request : q # r => answer'[q] = answer[q] /\ task'[q] = task[q]

LEMMA OwnStays ==
  ASSUME NEW r \in Request, answer[r] = "none", Others(r), NEW row, Own(row)
  PROVE  Own(row)'
BY DEF Own, Others

\* The updates of an id are the same, but for the one that this step makes.
LEMMA UpdatesGrow ==
  ASSUME NEW r \in Request, answer[r] = "none", Others(r), NEW id
  PROVE  LET makes == task'[r].op = "update" /\ task'[r].id = id /\ answer'[r] = "Ok" IN
         /\ r \notin Renamings(id) /\ r \notin Savings(id)
         /\ ~ makes => Renamings(id)' = Renamings(id) /\ Savings(id)' = Savings(id)
         /\ makes =>
              /\ Renamings(id)' =
                   IF task'[r].name # Absent THEN Renamings(id) \cup {r} ELSE Renamings(id)
              /\ Savings(id)' =
                   IF task'[r].source # NoSource THEN Savings(id) \cup {r} ELSE Savings(id)
BY DEF Others, Renamings, Savings, OkUpdates

LEMMA MergedStays ==
  ASSUME NEW r \in Request, answer[r] = "none", Others(r), NEW row \in Row, row.id # r, Merged(row),
         ~ (task'[r].op = "update" /\ task'[r].id = row.id /\ answer'[r] = "Ok")
  PROVE  Merged(row)'
<1>1. /\ Renamings(row.id)' = Renamings(row.id) /\ Savings(row.id)' = Savings(row.id)
      /\ r \notin Renamings(row.id) /\ r \notin Savings(row.id)
  BY UpdatesGrow
<1>2. row.id \in Request /\ task'[row.id] = task[row.id]
  BY DEF Row, Others
<1>3. \A q \in Request : q # r => task'[q] = task[q]
  BY DEF Others
<1> QED
  BY <1>1, <1>2, <1>3 DEF Merged

\* The rows that were there, and the originals, after a step that answers r or
\* begins its copy, when no update of a row is made.
LEMMA Refused ==
  ASSUME TInv, NEW r \in Request, answer[r] = "none", NEW t \in Tasks, t.op # "none",
         NEW reply \in Refusals, Refuse(r, t, reply)
  PROVE  TInv'
<1>1. /\ answer' \in [Request -> Refusals \cup {"none", "Ok"}] /\ answer'[r] = reply
      /\ task' \in [Request -> Tasks] /\ task'[r] = t
      /\ Others(r)
  BY AnswerEffect DEF Refuse, Others
<1>2. rows' = rows /\ original' = original
  BY DEF Refuse
<1>3. reply # "none" /\ reply # "Ok"
  BY Converted
<1>4. TableTypeOK'
  BY <1>1, <1>2 DEF TInv, TableTypeOK
<1>5. \A row \in rows : row \in Row /\ row.id \in Request /\ answer[row.id] = "Ok" /\ row.id # r
  BY DEF TInv, TableTypeOK, RowsAreInserted, Row
<1>6. RowsAreInserted'
  BY <1>1, <1>2, <1>5 DEF TInv, RowsAreInserted, Others
<1>7. OnlyCopiesAreUnderWay'
  BY <1>1, <1>3 DEF TInv, OnlyCopiesAreUnderWay, Others
<1>8. \A row : Own(row) => Own(row)'
  BY <1>1, OwnStays
<1>9. OriginalsAreOwn'
  BY <1>1, <1>2, <1>3, <1>8 DEF TInv, OriginalsAreOwn, Others, Own
<1>10. UpdatesFindRows'
  BY <1>1, <1>3 DEF TInv, UpdatesFindRows, Others
<1>11. \A row \in rows : Own(row)' /\ Merged(row)'
  BY <1>1, <1>3, <1>5, <1>8, MergedStays DEF TInv
<1> QED
  BY <1>2, <1>4, <1>6, <1>7, <1>9, <1>10, <1>11 DEF TInv

\* A row that was inserted by r.
LEMMA Inserted ==
  ASSUME TInv, NEW r \in Request, answer[r] = "none", NEW t \in Tasks, t.op \in {"create", "copy"},
         NEW new \in Row, new.id = r, Own(new)',
         t.op = "create" => t.name = new.name /\ t.source = new.source,
         rows' = rows \cup {new}, Answer(r, t, "Ok"), UNCHANGED original
  PROVE  TInv'
<1>1. /\ answer' \in [Request -> Refusals \cup {"none", "Ok"}] /\ answer'[r] = "Ok"
      /\ task' \in [Request -> Tasks] /\ task'[r] = t
      /\ Others(r)
  BY AnswerEffect DEF Others
<1>2. TableTypeOK'
  BY <1>1 DEF TInv, TableTypeOK
<1>3. \A row \in rows : row \in Row /\ row.id \in Request /\ answer[row.id] = "Ok" /\ row.id # r
  BY DEF TInv, TableTypeOK, RowsAreInserted, Row
<1>4. RowsAreInserted'
  BY <1>1, <1>3 DEF TInv, RowsAreInserted, Others
<1>5. OnlyCopiesAreUnderWay'
  BY <1>1 DEF TInv, OnlyCopiesAreUnderWay, Others
<1>6. \A row : Own(row) => Own(row)'
  BY <1>1, OwnStays
<1>7. OriginalsAreOwn'
  BY <1>1, <1>6 DEF TInv, OriginalsAreOwn, Others, Own
<1>8. UpdatesFindRows'
  BY <1>1 DEF TInv, UpdatesFindRows, Others
<1>9. \A row \in rows : Own(row)' /\ Merged(row)'
  BY <1>1, <1>3, <1>6, MergedStays DEF TInv
<1>10. Merged(new)'
  <2>1. Renamings(r) = {} /\ Savings(r) = {}
    BY DEF TInv, UpdatesFindRows, Renamings, Savings, OkUpdates
  <2>2. Renamings(r)' = {} /\ Savings(r)' = {}
    BY <1>1, <2>1, UpdatesGrow
  <2>3. (Renamings(new.id)' = {} /\ Savings(new.id)' = {}) /\ task'[new.id] = t
    BY <1>1, <2>2
  <2> QED
    BY <2>3 DEF Merged
<1> QED
  BY <1>2, <1>4, <1>5, <1>7, <1>8, <1>9, <1>10 DEF TInv

LEMMA CreateTInv ==
  ASSUME TInv, NEW r \in Request, NEW user \in User, NEW spec \in ProgramSpec \cup {NoSpec},
         NEW name \in FileName, NEW source \in Text, Create(r, user, spec, name, source)
  PROVE  TInv'
<1> DEFINE t == Task("create", user, r, spec, name, source)
           new == [id |-> r, user |-> user, spec |-> spec, name |-> name, source |-> source]
<1>1. t \in Tasks /\ t.op = "create" /\ t.name = name /\ t.source = source /\ t.user = user
  BY DEF Task, Tasks
<1>2. answer[r] = "none"
  BY DEF Create, Idle
<1>3. CASE \E reply \in Refusals : Refuse(r, t, reply)
  BY <1>1, <1>2, <1>3, Refused
<1>4. CASE spec # NoSpec /\ rows' = rows \cup {new} /\ Answer(r, t, "Ok") /\ UNCHANGED original
  <2>1. new \in Row
    BY <1>4, NameFacts DEF Row
  <2>2. new.id = r /\ new.user = user /\ new.name = name /\ new.source = source
    OBVIOUS
  <2>3. answer'[r] = "Ok" /\ task'[r] = t
    BY <1>1, <1>4, AnswerEffect
  <2>4. Own(new)'
    BY <1>1, <2>2, <2>3 DEF Own
  <2> HIDE DEF t, new
  <2> QED
    BY <1>1, <1>2, <1>4, <2>1, <2>2, <2>4, Inserted
<1> QED
  BY <1>3, <1>4, Converted DEF Create, Refusals

LEMMA CopyReadTInv ==
  ASSUME TInv, NEW r \in Request, NEW user \in User, NEW id \in Request, CopyRead(r, user, id)
  PROVE  TInv'
<1> DEFINE t == Task("copy", user, id, NoSpec, Absent, NoSource)
<1>1. t \in Tasks /\ t.op = "copy" /\ t.user = user
  BY DEF Task, Tasks
<1>2. answer[r] = "none"
  BY DEF CopyRead, Idle
<1>3. CASE Refuse(r, t, "None")
  BY <1>1, <1>2, <1>3, Refused DEF Refusals
<1>4. ASSUME NEW row \in FindForUser(id, user), original' = [original EXCEPT ![r] = row],
             task' = [task EXCEPT ![r] = t], UNCHANGED <<rows, answer>>
      PROVE  TInv'
  <2>1. row \in rows /\ row \in Row /\ row.user = user /\ Own(row)
    BY <1>4 DEF FindForUser, TInv, TableTypeOK
  <2>2. /\ original' \in [Request -> Row \cup {NoRow}] /\ original'[r] = row
        /\ \A q \in Request : q # r => original'[q] = original[q]
    BY <1>4, <2>1 DEF TInv, TableTypeOK
  <2>3. task' \in [Request -> Tasks] /\ task'[r] = t /\ Others(r) /\ answer' = answer /\ rows' = rows
    BY <1>1, <1>4 DEF TInv, TableTypeOK, Others
  <2> HIDE DEF t
  <2>4. TableTypeOK'
    BY <2>2, <2>3 DEF TInv, TableTypeOK
  <2>5. \A s \in rows : s \in Row /\ s.id \in Request /\ answer[s.id] = "Ok" /\ s.id # r
    BY <1>2 DEF TInv, TableTypeOK, RowsAreInserted, Row
  <2>6. RowsAreInserted'
    BY <2>3, <2>5 DEF TInv, RowsAreInserted, Others
  <2>7. OnlyCopiesAreUnderWay'
    BY <1>1, <1>2, <2>3 DEF TInv, OnlyCopiesAreUnderWay, Others
  <2>8. \A s : Own(s) => Own(s)'
    BY <1>2, <2>3, OwnStays
  <2>9. OriginalsAreOwn'
    BY <1>1, <2>1, <2>2, <2>3, <2>8 DEF TInv, OriginalsAreOwn, Others, Own
  <2>10. UpdatesFindRows'
    BY <1>1, <2>3 DEF TInv, UpdatesFindRows, Others
  <2>11. \A s \in rows : Own(s)' /\ Merged(s)'
    BY <1>1, <1>2, <2>3, <2>5, <2>8, MergedStays DEF TInv
  <2> QED
    BY <2>3, <2>4, <2>6, <2>7, <2>9, <2>10, <2>11 DEF TInv
<1> QED
  BY <1>3, <1>4 DEF CopyRead

LEMMA CopyInsertTInv ==
  ASSUME TInv, NEW r \in Request, CopyInsert(r)
  PROVE  TInv'
<1> DEFINE copy == CopyOf(r)
<1>1. task[r].op = "copy" /\ answer[r] = "none" /\ task[r] \in Tasks
  BY DEF CopyInsert, TInv, TableTypeOK
<1>2. original[r] \in Row /\ original[r].user = task[r].user /\ Own(original[r])
  BY <1>1 DEF TInv, OriginalsAreOwn
<1>3. /\ copy \in Row /\ copy.id = r /\ copy.user = task[r].user
      /\ copy.source = original[r].source
  <2>1. task[r].user \in User /\ CopyName(original[r].name) \in Name
    BY <1>2, NameFacts DEF Row
  <2> QED
    BY <1>2, <2>1 DEF CopyOf, Row
<1>4. CASE Refuse(r, task[r], "DatabaseError")
  BY <1>1, <1>4, Converted, Refused
<1>5. CASE rows' = rows \cup {copy} /\ Answer(r, task[r], "Ok") /\ UNCHANGED original
  <2>1. PICK q \in Request : /\ task[q].user = original[r].user
                             /\ task[q].source = original[r].source /\ answer[q] = "Ok"
    BY <1>2 DEF Own
  <2>2. Others(r)
    BY <1>1, <1>5, AnswerEffect DEF Others
  <2>3. q # r /\ task'[q] = task[q] /\ answer'[q] = "Ok"
    BY <1>1, <2>1, <2>2 DEF Others
  <2>4. /\ task'[q].user = task[r].user /\ task'[q].source = original[r].source
        /\ answer'[q] = "Ok"
    BY <1>2, <2>1, <2>3
  <2>5. PICK new \in Row : new = copy
    BY <1>3
  <2>6. Own(new)'
    BY <1>3, <2>4, <2>5 DEF Own
  <2>7. PICK t \in Tasks : t = task[r]
    BY <1>1
  <2>8. /\ t.op = "copy" /\ new.id = r
        /\ rows' = rows \cup {new} /\ Answer(r, t, "Ok") /\ UNCHANGED original
    BY <1>1, <1>3, <1>5, <2>5, <2>7
  <2> QED
    BY <1>1, <2>6, <2>8, Inserted
<1> QED
  BY <1>4, <1>5, Converted DEF CopyInsert

\* Everything but the rows, after r was told Ok of an update or a deletion.
LEMMA Changing ==
  ASSUME TInv, NEW r \in Request, answer[r] = "none", NEW t \in Tasks,
         t.op \in {"update", "delete"}, t.op = "update" => t.id \in Request /\ answer[t.id] = "Ok",
         Answer(r, t, "Ok"), UNCHANGED original
  PROVE  /\ answer' \in [Request -> Refusals \cup {"none", "Ok"}] /\ answer'[r] = "Ok"
         /\ task' \in [Request -> Tasks] /\ task'[r] = t
         /\ Others(r)
         /\ \A row \in rows : /\ row \in Row /\ row.id \in Request /\ row.id # r /\ Own(row)'
                              /\ answer'[row.id] = "Ok" /\ task'[row.id] = task[row.id]
         /\ (OnlyCopiesAreUnderWay /\ OriginalsAreOwn /\ UpdatesFindRows)'
<1>1. /\ answer' \in [Request -> Refusals \cup {"none", "Ok"}] /\ answer'[r] = "Ok"
      /\ task' \in [Request -> Tasks] /\ task'[r] = t
      /\ Others(r)
  BY AnswerEffect DEF Others
<1>2. \A row \in rows : row \in Row /\ row.id \in Request /\ answer[row.id] = "Ok" /\ row.id # r
  BY DEF TInv, TableTypeOK, RowsAreInserted, Row
<1>3. \A row : Own(row) => Own(row)'
  BY <1>1, OwnStays
<1>4. \A row \in rows : Own(row)' /\ answer'[row.id] = "Ok" /\ task'[row.id] = task[row.id]
  BY <1>1, <1>2, <1>3 DEF TInv, Others
<1>5. OnlyCopiesAreUnderWay'
  BY <1>1 DEF TInv, OnlyCopiesAreUnderWay, Others
<1>6. OriginalsAreOwn'
  BY <1>1, <1>3 DEF TInv, OriginalsAreOwn, Others, Own
<1>7. UpdatesFindRows'
  BY <1>1 DEF TInv, UpdatesFindRows, Others
<1> QED
  BY <1>1, <1>2, <1>4, <1>5, <1>6, <1>7

LEMMA DeleteTInv ==
  ASSUME TInv, NEW r \in Request, NEW user \in User, NEW id \in Request, Delete(r, user, id)
  PROVE  TInv'
<1> DEFINE t == Task("delete", user, id, NoSpec, Absent, NoSource)
<1>1. t \in Tasks /\ t.op = "delete"
  BY DEF Task, Tasks
<1>2. answer[r] = "none"
  BY DEF Delete, Idle
<1>3. CASE Refuse(r, t, "None")
  BY <1>1, <1>2, <1>3, Refused DEF Refusals
<1>4. CASE rows' = rows \ FindForUser(id, user) /\ Answer(r, t, "Ok") /\ UNCHANGED original
  <2> HIDE DEF t
  <2>1. /\ answer' \in [Request -> Refusals \cup {"none", "Ok"}] /\ answer'[r] = "Ok"
        /\ task' \in [Request -> Tasks] /\ task'[r] = t
        /\ Others(r)
        /\ \A row \in rows : /\ row \in Row /\ row.id \in Request /\ row.id # r /\ Own(row)'
                             /\ answer'[row.id] = "Ok" /\ task'[row.id] = task[row.id]
        /\ (OnlyCopiesAreUnderWay /\ OriginalsAreOwn /\ UpdatesFindRows)'
    BY <1>1, <1>2, <1>4, Changing
  <2>2. rows' \subseteq rows
    BY <1>4
  <2>3. TableTypeOK'
    BY <1>4, <2>1, <2>2 DEF TInv, TableTypeOK
  <2>4. RowsAreInserted'
    BY <2>1, <2>2 DEF TInv, RowsAreInserted
  <2>5. \A row \in rows : Merged(row)'
    BY <1>1, <1>2, <2>1, MergedStays DEF TInv
  <2> QED
    BY <2>1, <2>2, <2>3, <2>4, <2>5 DEF TInv
<1> QED
  BY <1>3, <1>4 DEF Delete

\* An update of a row keeps all of it but the fields it gives.
LEMMA ChangedRow ==
  ASSUME NEW row \in Row, NEW name \in FileName \cup {Absent}, NEW source \in Text \cup {NoSource}
  PROVE  LET new == Changed(row, name, source) IN
         /\ new \in Row
         /\ new.id = row.id /\ new.user = row.user /\ new.spec = row.spec
         /\ new.name = IF name = Absent THEN row.name ELSE name
         /\ new.source = IF source = NoSource THEN row.source ELSE source
<1>1. name # Absent => name \in Name
  BY NameFacts
<1>2. source # NoSource => source \in Text
  OBVIOUS
<1> QED
  BY <1>1, <1>2 DEF Changed, Row

LEMMA UpdateTInv ==
  ASSUME TInv, NEW r \in Request, NEW user \in User, NEW id \in Request,
         NEW name \in FileName \cup {Absent}, NEW source \in Text \cup {NoSource},
         Update(r, user, id, name, source)
  PROVE  TInv'
<1> DEFINE t == Task("update", user, id, NoSpec, name, source)
           found == FindForUser(id, user)
<1>1. /\ t \in Tasks /\ t.op = "update" /\ t.id = id /\ t.user = user
      /\ t.name = name /\ t.source = source
  BY DEF Task, Tasks
<1>2. answer[r] = "none"
  BY DEF Update, Idle
<1>3. CASE \E reply \in Refusals : Refuse(r, t, reply)
  BY <1>1, <1>2, <1>3, Refused
<1>4. CASE /\ found # {}
           /\ rows' = (rows \ found) \cup {Changed(row, name, source) : row \in found}
           /\ Answer(r, t, "Ok") /\ UNCHANGED original
  <2>1. PICK row \in rows : row.id = id /\ row.user = user /\ row \in Row /\ found = {row}
    BY <1>4 DEF FindForUser, TInv, TableTypeOK, RowsAreInserted
  <2>2. PICK new \in Row : new = Changed(row, name, source)
    BY <2>1, ChangedRow
  <2>3. /\ new.id = id /\ new.user = user
        /\ new.name = IF name = Absent THEN row.name ELSE name
        /\ new.source = IF source = NoSource THEN row.source ELSE source
    BY <2>1, <2>2, ChangedRow
  <2>4. rows' = (rows \ {row}) \cup {new}
    BY <1>4, <2>1, <2>2
  <2>5. t.op = "update" => t.id \in Request /\ answer[t.id] = "Ok"
    BY <1>1, <2>1 DEF TInv, RowsAreInserted
  <2> HIDE DEF t, found
  <2>6. /\ answer' \in [Request -> Refusals \cup {"none", "Ok"}] /\ answer'[r] = "Ok"
        /\ task' \in [Request -> Tasks] /\ task'[r] = t
        /\ Others(r)
        /\ \A s \in rows : /\ s \in Row /\ s.id \in Request /\ s.id # r /\ Own(s)'
                           /\ answer'[s.id] = "Ok" /\ task'[s.id] = task[s.id]
        /\ (OnlyCopiesAreUnderWay /\ OriginalsAreOwn /\ UpdatesFindRows)'
    BY <1>1, <1>2, <1>4, <2>5, Changing
  <2>7. TableTypeOK'
    BY <1>4, <2>4, <2>6 DEF TInv, TableTypeOK
  <2>8. RowsAreInserted'
    BY <2>1, <2>3, <2>4, <2>6 DEF TInv, RowsAreInserted
  <2>9. \A s \in rows \ {row} : Merged(s)'
    <3>1. \A s \in rows \ {row} : s.id # id
      BY <2>1 DEF TInv, RowsAreInserted
    <3> QED
      BY <1>1, <1>2, <2>6, <3>1, MergedStays DEF TInv
  <2>10. Own(new)'
    <3>1. CASE source = NoSource
      BY <2>1, <2>3, <2>6, <3>1 DEF Own
    <3>2. CASE source # NoSource
      BY <1>1, <2>3, <2>6, <3>2 DEF Own
    <3> QED
      BY <3>1, <3>2
  <2>11. Merged(new)'
    <3>1. /\ r \notin Renamings(id) /\ r \notin Savings(id)
          /\ Renamings(id)' = IF name # Absent THEN Renamings(id) \cup {r} ELSE Renamings(id)
          /\ Savings(id)' = IF source # NoSource THEN Savings(id) \cup {r} ELSE Savings(id)
      BY <1>1, <1>2, <2>6, UpdatesGrow
    <3>2. task'[id] = task[id] /\ \A q \in Request : q # r => task'[q] = task[q]
      BY <2>1, <2>6 DEF Others
    <3>3. Merged(row)
      BY <2>1 DEF TInv
    <3> SUFFICES ASSUME task[id].op = "create"
                 PROVE  /\ Renamings(id)' = {} => new.name = task[id].name
                        /\ Savings(id)' = {} => new.source = task[id].source
                        /\ \A q \in Request : Renamings(id)' = {q} => new.name = task'[q].name
                        /\ \A q \in Request : Savings(id)' = {q} => new.source = task'[q].source
      BY <2>3, <3>2 DEF Merged
    <3>4. /\ Renamings(id) = {} => row.name = task[id].name
          /\ Savings(id) = {} => row.source = task[id].source
          /\ \A q \in Request : Renamings(id) = {q} => row.name = task[q].name
          /\ \A q \in Request : Savings(id) = {q} => row.source = task[q].source
      BY <2>1, <3>3 DEF Merged
    <3>5. /\ Renamings(id)' = {} => new.name = task[id].name
          /\ \A q \in Request : Renamings(id)' = {q} => new.name = task'[q].name
      BY <1>1, <2>3, <2>6, <3>1, <3>2, <3>4
    <3>6. /\ Savings(id)' = {} => new.source = task[id].source
          /\ \A q \in Request : Savings(id)' = {q} => new.source = task'[q].source
      BY <1>1, <2>3, <2>6, <3>1, <3>2, <3>4
    <3> QED
      BY <3>5, <3>6
  <2> QED
    BY <2>4, <2>6, <2>7, <2>8, <2>9, <2>10, <2>11 DEF TInv
<1> QED
  BY <1>3, <1>4, Converted DEF Update, Refusals

LEMMA UnauthenticatedTInv ==
  ASSUME TInv, NEW r \in Request, NEW op \in {"create", "update", "delete", "copy"},
         Unauthenticated(r, op)
  PROVE  TInv'
<1> DEFINE t == Task(op, Nobody, "none", NoSpec, Absent, NoSource)
<1>1. t \in Tasks /\ t.op # "none"
  BY DEF Task, Tasks
<1>2. answer[r] = "none" /\ Refuse(r, t, "Unauthenticated")
  BY DEF Unauthenticated, Idle
<1> QED
  BY <1>1, <1>2, Refused DEF Refusals

LEMMA NextTInv == ASSUME TInv, ApiNext \/ UNCHANGED vars PROVE TInv'
<1>1. CASE ApiNext
  BY <1>1, UnauthenticatedTInv, CreateTInv, UpdateTInv, DeleteTInv, CopyReadTInv, CopyInsertTInv
     DEF ApiNext
<1>2. CASE UNCHANGED vars
  BY <1>2 DEF vars, TInv, TableTypeOK, RowsAreInserted, OnlyCopiesAreUnderWay, OriginalsAreOwn,
              UpdatesFindRows, Own, Merged, Renamings, Savings, OkUpdates
<1> QED
  BY <1>1, <1>2

LEMMA InitTInv == Init => TInv
BY DEF Init, TInv, TableTypeOK, RowsAreInserted, OnlyCopiesAreUnderWay, OriginalsAreOwn,
       UpdatesFindRows, Own, Task, Tasks, Refusals

-------------------------------------------------------------------------------
(* What one step may do to the rows and tell of them                             *)

\* A row of the next state was there, or is inserted by a request without an answer.
LEMMA RowsOfAStep ==
  ASSUME TInv, ApiNext, NEW new \in rows'
  PROVE  \/ \E row \in rows : row.id = new.id /\ row.user = new.user /\ row.spec = new.spec
         \/ new.id \in Request /\ answer[new.id] = "none"
<1>1. ASSUME NEW r \in Request, NEW op, Unauthenticated(r, op) PROVE rows' = rows
  BY <1>1 DEF Unauthenticated, Refuse
<1>2. ASSUME NEW r \in Request, NEW user \in User, NEW spec, NEW name, NEW source,
             Create(r, user, spec, name, source)
      PROVE  \/ rows' = rows
             \/ /\ answer[r] = "none"
                /\ rows' = rows \cup {[id |-> r, user |-> user, spec |-> spec, name |-> name,
                                       source |-> source]}
  BY <1>2 DEF Create, Refuse, Idle
<1>3. ASSUME NEW r \in Request, NEW user \in User, NEW id \in Request,
             NEW name \in FileName \cup {Absent}, NEW source \in Text \cup {NoSource},
             Update(r, user, id, name, source)
      PROVE  \E row \in rows : row.id = new.id /\ row.user = new.user /\ row.spec = new.spec
  <2>1. CASE rows' = rows
    BY <2>1
  <2>2. CASE rows' = (rows \ FindForUser(id, user))
                       \cup {Changed(row, name, source) : row \in FindForUser(id, user)}
    <3>1. \A row \in rows : row \in Row
      BY DEF TInv, TableTypeOK
    <3>2. \A row \in FindForUser(id, user) :
            /\ row \in rows /\ Changed(row, name, source).id = row.id
            /\ Changed(row, name, source).user = row.user
            /\ Changed(row, name, source).spec = row.spec
      BY <1>3, <3>1, ChangedRow DEF FindForUser
    <3> QED
      BY <2>2, <3>2
  <2> QED
    BY <1>3, <2>1, <2>2 DEF Update, Refuse
<1>4. ASSUME NEW r \in Request, NEW user \in User, NEW id \in Request,
             Delete(r, user, id) \/ CopyRead(r, user, id)
      PROVE  rows' \subseteq rows
  BY <1>4 DEF Delete, CopyRead, Refuse
<1>5. ASSUME NEW r \in Request, CopyInsert(r)
      PROVE  /\ answer[r] = "none" /\ CopyOf(r).id = r
             /\ rows' = rows \/ rows' = rows \cup {CopyOf(r)}
  <2>1. original[r] \in Row
    BY <1>5 DEF CopyInsert, TInv, OriginalsAreOwn
  <2> QED
    BY <1>5, <2>1 DEF CopyInsert, Refuse, CopyOf, Row
<1> QED
  BY <1>1, <1>2, <1>3, <1>4, <1>5 DEF ApiNext

StaysDeleted(id) ==
  answer[id] = "Ok" /\ task[id].op \in {"create", "copy"} /\ FindById(id, Nobody) = {} =>
    \A row \in rows' : row.id # id

LEMMA NothingComesBack == ASSUME TInv, ApiNext PROVE \A id \in Request : StaysDeleted(id)
BY RowsOfAStep DEF StaysDeleted, FindById

Told(r) ==
  answer[r] = "none" /\ answer'[r] # "none" =>
    /\ answer'[r] = "Ok" /\ task'[r].op \in {"create", "copy"} =>
         \E row \in rows' : row.id = r /\ row.user = task'[r].user
    /\ answer'[r] = "None" => FindForUser(task'[r].id, task'[r].user) = {}
    /\ answer'[r] = "AlreadyExists" /\ task'[r].op = "create" =>
         Taken(r, task'[r].user, task'[r].spec, task'[r].name)
    /\ answer'[r] = "AlreadyExists" /\ task'[r].op = "update" =>
         \E row \in FindForUser(task'[r].id, task'[r].user) :
           Taken(row.id, row.user, row.spec, task'[r].name)
    /\ answer'[r] = "DatabaseError" => task'[r].op = "copy"
    /\ answer'[r] # "Ok" => rows' = rows

\* Only the request whose step it is gets an answer.
LEMMA OneIsTold ==
  ASSUME TInv, NEW r \in Request, NEW t, NEW reply, Answer(r, t, reply)
  PROVE  /\ answer'[r] = reply /\ task'[r] = t
         /\ \A q \in Request : q # r => answer'[q] = answer[q]
BY DEF Answer, TInv, TableTypeOK

LEMMA EachIsToldTheTruth == ASSUME TInv, ApiNext PROVE \A q \in Request : Told(q)
<1>1. ASSUME NEW r \in Request, NEW op, Unauthenticated(r, op) PROVE \A q \in Request : Told(q)
  <2>1. rows' = rows /\ Answer(r, Task(op, Nobody, "none", NoSpec, Absent, NoSource), "Unauthenticated")
    BY <1>1 DEF Unauthenticated, Refuse
  <2>2. answer'[r] = "Unauthenticated" /\ \A q \in Request : q # r => answer'[q] = answer[q]
    BY <2>1, OneIsTold
  <2> QED
    BY <2>1, <2>2 DEF Told
<1>2. ASSUME NEW r \in Request, NEW user \in User, NEW spec, NEW name, NEW source,
             Create(r, user, spec, name, source)
      PROVE  \A q \in Request : Told(q)
  <2> DEFINE t == Task("create", user, r, spec, name, source)
             new == [id |-> r, user |-> user, spec |-> spec, name |-> name, source |-> source]
  <2>1. t.op = "create" /\ t.user = user /\ t.spec = spec /\ t.name = name
    BY DEF Task
  <2>2. new.id = r /\ new.user = user
    OBVIOUS
  <2>3. \/ rows' = rows /\ Answer(r, t, "ValidationErrors")
        \/ rows' = rows /\ Answer(r, t, "AlreadyExists") /\ Taken(r, user, spec, name)
        \/ rows' = rows /\ Answer(r, t, "NotFound")
        \/ rows' = rows \cup {new} /\ Answer(r, t, "Ok")
    BY <1>2, Converted DEF Create, Refuse
  <2> HIDE DEF t, new
  <2>4. \A q \in Request : q # r => answer'[q] = answer[q]
    BY <2>3, OneIsTold
  <2>5. task'[r] = t
    BY <2>3, OneIsTold
  <2>6. \/ rows' = rows /\ answer'[r] = "ValidationErrors"
        \/ rows' = rows /\ answer'[r] = "AlreadyExists" /\ Taken(r, user, spec, name)
        \/ rows' = rows /\ answer'[r] = "NotFound"
        \/ rows' = rows \cup {new} /\ answer'[r] = "Ok"
    BY <2>3, OneIsTold
  <2>7. Told(r)
    BY <2>1, <2>2, <2>5, <2>6 DEF Told
  <2> QED
    BY <2>4, <2>7 DEF Told
<1>3. ASSUME NEW r \in Request, NEW user \in User, NEW id \in Request, NEW name, NEW source,
             Update(r, user, id, name, source)
      PROVE  \A q \in Request : Told(q)
  <2> DEFINE t == Task("update", user, id, NoSpec, name, source)
             conflict == \E row \in FindForUser(id, user) : Taken(row.id, row.user, row.spec, name)
  <2>1. t.op = "update" /\ t.user = user /\ t.id = id /\ t.name = name
    BY DEF Task
  <2>2. \/ rows' = rows /\ Answer(r, t, "ValidationErrors")
        \/ rows' = rows /\ Answer(r, t, "NoUpdate")
        \/ rows' = rows /\ Answer(r, t, "None") /\ FindForUser(id, user) = {}
        \/ rows' = rows /\ Answer(r, t, "AlreadyExists") /\ conflict
        \/ Answer(r, t, "Ok")
    BY <1>3, Converted DEF Update, Refuse, FindForUser
  <2> HIDE DEF t, conflict
  <2>3. \A q \in Request : q # r => answer'[q] = answer[q]
    BY <2>2, OneIsTold
  <2>4. task'[r] = t
    BY <2>2, OneIsTold
  <2>5. \/ rows' = rows /\ answer'[r] \in {"ValidationErrors", "NoUpdate"}
        \/ rows' = rows /\ answer'[r] = "AlreadyExists" /\ conflict
        \/ rows' = rows /\ answer'[r] = "None" /\ FindForUser(id, user) = {}
        \/ answer'[r] = "Ok"
    BY <2>2, OneIsTold
  <2>6. Told(r)
    BY <2>1, <2>4, <2>5 DEF Told, conflict
  <2> QED
    BY <2>3, <2>6 DEF Told
<1>4. ASSUME NEW r \in Request, NEW user \in User, NEW id \in Request, Delete(r, user, id)
      PROVE  \A q \in Request : Told(q)
  <2> DEFINE t == Task("delete", user, id, NoSpec, Absent, NoSource)
  <2>1. t.op = "delete" /\ t.user = user /\ t.id = id
    BY DEF Task
  <2>2. \/ rows' = rows /\ Answer(r, t, "None") /\ FindForUser(id, user) = {}
        \/ Answer(r, t, "Ok")
    BY <1>4 DEF Delete, Refuse
  <2> HIDE DEF t
  <2>3. task'[r] = t /\ \A q \in Request : q # r => answer'[q] = answer[q]
    BY <2>2, OneIsTold
  <2>4. \/ rows' = rows /\ answer'[r] = "None" /\ FindForUser(id, user) = {}
        \/ answer'[r] = "Ok"
    BY <2>2, OneIsTold
  <2>5. Told(r)
    BY <2>1, <2>3, <2>4 DEF Told
  <2> QED
    BY <2>3, <2>5 DEF Told
<1>5. ASSUME NEW r \in Request, NEW user \in User, NEW id \in Request, CopyRead(r, user, id)
      PROVE  \A q \in Request : Told(q)
  <2> DEFINE t == Task("copy", user, id, NoSpec, Absent, NoSource)
  <2>1. t.op = "copy" /\ t.user = user /\ t.id = id
    BY DEF Task
  <2>2. \/ rows' = rows /\ Answer(r, t, "None") /\ FindForUser(id, user) = {}
        \/ answer' = answer
    BY <1>5 DEF CopyRead, Refuse
  <2> HIDE DEF t
  <2>3. CASE answer' = answer
    BY <2>3 DEF Told
  <2>4. CASE rows' = rows /\ Answer(r, t, "None") /\ FindForUser(id, user) = {}
    <3>1. /\ answer'[r] = "None" /\ task'[r] = t
          /\ \A q \in Request : q # r => answer'[q] = answer[q]
      BY <2>4, OneIsTold
    <3>2. Told(r)
      BY <2>1, <2>4, <3>1 DEF Told
    <3> QED
      BY <3>1, <3>2 DEF Told
  <2> QED
    BY <2>2, <2>3, <2>4
<1>6. ASSUME NEW r \in Request, CopyInsert(r) PROVE \A q \in Request : Told(q)
  <2>1. task[r].op = "copy" /\ original[r] \in Row
    BY <1>6 DEF CopyInsert, TInv, OriginalsAreOwn
  <2>2. CopyOf(r).id = r /\ CopyOf(r).user = task[r].user
    BY <2>1 DEF CopyOf, Row
  <2>3. \/ rows' = rows /\ Answer(r, task[r], "DatabaseError")
        \/ rows' = rows \cup {CopyOf(r)} /\ Answer(r, task[r], "Ok")
    BY <1>6, Converted DEF CopyInsert, Refuse
  <2>4. /\ task'[r] = task[r]
        /\ \A q \in Request : q # r => answer'[q] = answer[q]
        /\ \/ rows' = rows /\ answer'[r] = "DatabaseError"
           \/ rows' = rows \cup {CopyOf(r)} /\ answer'[r] = "Ok"
    BY <2>3 DEF Answer, TInv, TableTypeOK
  <2>5. Told(r)
    BY <2>1, <2>2, <2>4 DEF Told
  <2> QED
    BY <2>4, <2>5 DEF Told
<1> QED
  BY <1>1, <1>2, <1>3, <1>4, <1>5, <1>6 DEF ApiNext

-------------------------------------------------------------------------------
(* The page                                                                     *)

Asked == [op : {"none", "create", "update", "delete", "copy"},
          id : Request \cup {"none"}, name : FileName \cup {Absent}]

PageTypeOK ==
  /\ sent \in [Request -> Asked]
  /\ pending \subseteq {r \in Request : sent[r] # NotSent /\ sent[r].op # "none"}
  /\ \A r \in Request :
       /\ sent[r].op \in {"create", "update"} => sent[r].name \in FileName
       /\ sent[r].op \in {"update", "delete", "copy"} => sent[r].id \in Request

\* What the API does of a request of the page is what the page asked for.
TasksAreAsked ==
  \A r \in pending : task[r].op # "none" /\ answer[r] # "Unauthenticated" =>
    /\ task[r].op = sent[r].op /\ task[r].user = Owner
    /\ sent[r].op = "update" => task[r].id = sent[r].id

PInv == TInv /\ PageTypeOK /\ TasksAreAsked

\* Done, and the page does not know it yet.
Unheard(r, op) == r \in pending /\ answer[r] = "Ok" /\ sent[r].op = op
Mine == {row \in rows : row.user = Owner /\ row.spec = Here}
AsksForARow(r) == r \in pending /\ sent[r].op \in {"update", "delete", "copy"}

\* The list has each row once, whose insertion it has heard of.
EdgesWereHeard ==
  /\ \A e \in list : /\ e = [id |-> e.id, name |-> e.name] /\ e.id \in Request
                     /\ answer[e.id] = "Ok" /\ e.id \notin pending
  /\ \A e, f \in list : e.id = f.id => e = f

\* A row is listed or will be; its name is the one that is listed or will be.
RowsAreListed ==
  \A row \in Mine :
    \/ row.id \in pending
    \/ \E e \in list :
         /\ e.id = row.id
         /\ \/ e.name = row.name
            \/ \E u \in Request : Unheard(u, "update") /\ sent[u].id = row.id
         /\ \A u \in Request : Unheard(u, "update") /\ sent[u].id = row.id =>
              row.name = task[u].name

\* What is listed is there, or its deletion will be heard of.
EdgesHaveRows ==
  \A e \in list :
    \/ \E row \in Mine : row.id = e.id
    \/ \E d \in Request : Unheard(d, "delete") /\ sent[d].id = e.id

\* An insertion the page has not heard of is as it was made.
InsertsAreFresh ==
  \A r \in Request : Unheard(r, "create") \/ Unheard(r, "copy") =>
    \E row \in Mine : row.id = r /\ row.name = Payload(r).name

\* A button works on a row of the card, whose insertion was heard of; each dialog
\* sends one mutation at a time.
AskedOfRows ==
  /\ \A r \in Request : AsksForARow(r) =>
       /\ answer[sent[r].id] = "Ok" /\ sent[r].id \notin pending
       /\ \A row \in rows : row.id = sent[r].id => row \in Mine
       /\ answer[r] = "Ok" /\ sent[r].op = "delete" => \A row \in rows : row.id # sent[r].id
  /\ \A r, q \in pending :
       sent[r].op \in {"update", "delete"} /\ sent[q].op = sent[r].op /\ sent[q].id = sent[r].id
       => r = q

OriginalsAreHere ==
  \A r \in pending : task[r].op = "copy" /\ answer[r] = "none" => original[r].spec = Here

ListInv ==
  /\ EdgesWereHeard /\ RowsAreListed /\ EdgesHaveRows
  /\ InsertsAreFresh /\ AskedOfRows /\ OriginalsAreHere

LInv == ~ blind => ListInv

-------------------------------------------------------------------------------
(* Steps of the API and of the page                                             *)

\* A step of the API is a step of one request, on which it leaves a mark.
LEMMA OneActs ==
  ASSUME TInv, ApiNext
  PROVE  \E r \in Request :
           /\ answer[r] = "none" /\ Others(r)
           /\ \A q \in Request : q # r => original'[q] = original[q]
           /\ task'[r] # task[r] \/ answer'[r] # answer[r]
<1>1. ASSUME NEW r \in Request, NEW t, NEW reply, reply # "none", answer[r] = "none",
             Answer(r, t, reply), UNCHANGED original
      PROVE  /\ answer[r] = "none" /\ Others(r)
             /\ \A q \in Request : q # r => original'[q] = original[q]
             /\ task'[r] # task[r] \/ answer'[r] # answer[r]
  BY <1>1 DEF Answer, TInv, TableTypeOK, Others
<1>2. ASSUME NEW r \in Request, NEW op, Unauthenticated(r, op)
      PROVE  \E t, reply : reply # "none" /\ answer[r] = "none" /\ Answer(r, t, reply)
                           /\ UNCHANGED original
  BY <1>2 DEF Unauthenticated, Refuse, Idle
<1>3. ASSUME NEW r \in Request, NEW user, NEW spec, NEW name, NEW source,
             Create(r, user, spec, name, source)
      PROVE  \E t, reply : reply # "none" /\ answer[r] = "none" /\ Answer(r, t, reply)
                           /\ UNCHANGED original
  BY <1>3, Converted DEF Create, Refuse, Idle
<1>4. ASSUME NEW r \in Request, NEW user, NEW id, NEW name, NEW source,
             Update(r, user, id, name, source)
      PROVE  \E t, reply : reply # "none" /\ answer[r] = "none" /\ Answer(r, t, reply)
                           /\ UNCHANGED original
  BY <1>4, Converted DEF Update, Refuse, Idle
<1>5. ASSUME NEW r \in Request, NEW user, NEW id, Delete(r, user, id)
      PROVE  \E t, reply : reply # "none" /\ answer[r] = "none" /\ Answer(r, t, reply)
                           /\ UNCHANGED original
  BY <1>5 DEF Delete, Refuse, Idle
<1>6. ASSUME NEW r \in Request, CopyInsert(r)
      PROVE  \E t, reply : reply # "none" /\ answer[r] = "none" /\ Answer(r, t, reply)
                           /\ UNCHANGED original
  BY <1>6, Converted DEF CopyInsert, Refuse
<1>7. ASSUME NEW r \in Request, NEW user, NEW id, CopyRead(r, user, id)
      PROVE  \/ \E t, reply : reply # "none" /\ answer[r] = "none" /\ Answer(r, t, reply)
                              /\ UNCHANGED original
             \/ /\ answer[r] = "none" /\ Others(r)
                /\ \A q \in Request : q # r => original'[q] = original[q]
                /\ task'[r] # task[r]
  <2>1. CASE Refuse(r, Task("copy", user, id, NoSpec, Absent, NoSource), "None")
    BY <1>7, <2>1 DEF CopyRead, Refuse, Idle
  <2>2. ASSUME NEW row, original' = [original EXCEPT ![r] = row],
               task' = [task EXCEPT ![r] = Task("copy", user, id, NoSpec, Absent, NoSource)],
               UNCHANGED answer
        PROVE  /\ answer[r] = "none" /\ Others(r)
               /\ \A q \in Request : q # r => original'[q] = original[q]
               /\ task'[r] # task[r]
    <3>1. answer[r] = "none" /\ task[r].op = "none"
      BY <1>7 DEF CopyRead, Idle
    <3>2. task'[r].op = "copy"
      BY <2>2 DEF Task, TInv, TableTypeOK
    <3> QED
      BY <2>2, <3>1, <3>2 DEF TInv, TableTypeOK, Others
  <2> QED
    BY <1>7, <2>1, <2>2 DEF CopyRead
<1> QED
  BY <1>1, <1>2, <1>3, <1>4, <1>5, <1>6, <1>7 DEF ApiNext

\* Which kinds of steps the card's mutations take in the API.
Failing(r) ==
  rows' = rows /\ original' = original /\ answer'[r] \in Refusals
Creating(r) ==
  /\ sent[r].op = "create" /\ task'[r].op = "create" /\ answer'[r] = "Ok"
  /\ original' = original
  /\ \E new : /\ new.id = r /\ new.user = Owner /\ new.spec = Here
              /\ new.name = task'[r].name /\ rows' = rows \cup {new}
Updating(r) ==
  /\ sent[r].op = "update" /\ task'[r].op = "update" /\ answer'[r] = "Ok"
  /\ original' = original
  /\ \E row, new :
       /\ row \in rows /\ row.id = sent[r].id /\ row.user = Owner
       /\ new.id = row.id /\ new.user = row.user /\ new.spec = row.spec
       /\ new.name = task'[r].name /\ rows' = (rows \ {row}) \cup {new}
Deleting(r) ==
  /\ sent[r].op = "delete" /\ task'[r].op = "delete" /\ answer'[r] = "Ok"
  /\ original' = original
  /\ rows' = rows \ FindForUser(sent[r].id, Owner)
Copying(r) ==
  /\ sent[r].op = "copy" /\ task'[r].op = "copy"
  /\ rows' = rows /\ answer' = answer
  /\ \E row \in rows : row.id = sent[r].id /\ row.user = Owner /\ original'[r] = row
Duplicating(r) ==
  /\ sent[r].op = "copy" /\ task[r].op = "copy" /\ task' = task /\ answer'[r] = "Ok"
  /\ original' = original
  /\ rows' = rows \cup {CopyOf(r)}

ServeKinds(r) ==
  /\ answer[r] = "none" /\ Others(r)
  /\ \A q \in Request : q # r => original'[q] = original[q]
  /\ task'[r].op # "none" /\ answer'[r] # "Unauthenticated" =>
       /\ task'[r].op = sent[r].op /\ task'[r].user = Owner
       /\ sent[r].op = "update" => task'[r].id = sent[r].id
  /\ Failing(r) \/ Creating(r) \/ Updating(r) \/ Deleting(r) \/ Copying(r) \/ Duplicating(r)

LEMMA ServeEffect ==
  ASSUME PInv, NEW r \in Request, Serve(r)
  PROVE  ServeKinds(r) /\ ApiNext
<1>1. r \in pending /\ sent[r] \in Asked /\ sent[r].op # "none" /\ TInv
  BY DEF Serve, PInv, PageTypeOK
<1>2. CASE Unauthenticated(r, sent[r].op)
  <2>1. sent[r].op \in {"create", "update", "delete", "copy"}
    BY <1>1 DEF Asked
  <2>2. ApiNext
    BY <1>2, <2>1 DEF ApiNext
  <2>3. Answer(r, Task(sent[r].op, Nobody, "none", NoSpec, Absent, NoSource), "Unauthenticated")
        /\ rows' = rows /\ original' = original /\ answer[r] = "none"
    BY <1>2 DEF Unauthenticated, Refuse, Idle
  <2>4. answer'[r] = "Unauthenticated" /\ Others(r)
    BY <1>1, <2>3 DEF Answer, Others, TInv, TableTypeOK
  <2> QED
    BY <2>2, <2>3, <2>4 DEF ServeKinds, Failing, Refusals
<1>3. CASE sent[r].op = "create" /\ Create(r, Owner, Here, sent[r].name, EmptySource)
  <2> DEFINE t == Task("create", Owner, r, Here, sent[r].name, EmptySource)
             new == [id |-> r, user |-> Owner, spec |-> Here, name |-> sent[r].name,
                     source |-> EmptySource]
  <2>1. ApiNext
    BY <1>3, SolutionAssumption DEF ApiNext, PInv, PageTypeOK, Text
  <2>2. t.op = "create" /\ t.user = Owner /\ t.name = sent[r].name
    BY DEF Task
  <2>3. new.id = r /\ new.user = Owner /\ new.spec = Here /\ new.name = sent[r].name
    OBVIOUS
  <2>4. /\ answer[r] = "none" /\ original' = original
        /\ \/ rows' = rows /\ \E reply \in Refusals : Answer(r, t, reply)
           \/ rows' = rows \cup {new} /\ Answer(r, t, "Ok")
    BY <1>3, Converted DEF Create, Refuse, Idle, Refusals
  <2> HIDE DEF t, new
  <2>5. /\ task'[r] = t /\ Others(r)
        /\ \/ rows' = rows /\ answer'[r] \in Refusals
           \/ rows' = rows \cup {new} /\ answer'[r] = "Ok"
    BY <1>1, <2>4 DEF Answer, Others, TInv, TableTypeOK
  <2>6. Failing(r) \/ Creating(r)
    BY <1>3, <2>2, <2>3, <2>4, <2>5 DEF Failing, Creating
  <2> QED
    BY <1>3, <2>1, <2>2, <2>4, <2>5, <2>6 DEF ServeKinds
<1>4. CASE sent[r].op = "update" /\ Update(r, Owner, sent[r].id, sent[r].name, NoSource)
  <2> DEFINE t == Task("update", Owner, sent[r].id, NoSpec, sent[r].name, NoSource)
             found == FindForUser(sent[r].id, Owner)
  <2>1. sent[r].id \in Request /\ sent[r].name \in FileName
    BY <1>1, <1>4 DEF PInv, PageTypeOK
  <2>2. ApiNext
    BY <1>4, <2>1, SolutionAssumption DEF ApiNext
  <2>3. t.op = "update" /\ t.user = Owner /\ t.id = sent[r].id /\ t.name = sent[r].name
    BY DEF Task
  <2>4. /\ answer[r] = "none" /\ original' = original
        /\ \/ rows' = rows /\ \E reply \in Refusals : Answer(r, t, reply)
           \/ /\ sent[r].name # Absent /\ found # {}
              /\ rows' = (rows \ found) \cup {Changed(row, sent[r].name, NoSource) : row \in found}
              /\ Answer(r, t, "Ok")
    BY <1>4, Converted DEF Update, Refuse, Idle, Refusals
  <2> HIDE DEF t
  <2>5. /\ task'[r] = t /\ Others(r)
        /\ \/ rows' = rows /\ answer'[r] \in Refusals
           \/ /\ sent[r].name # Absent /\ found # {}
              /\ rows' = (rows \ found) \cup {Changed(row, sent[r].name, NoSource) : row \in found}
              /\ answer'[r] = "Ok"
    BY <1>1, <2>4 DEF Answer, Others, TInv, TableTypeOK
  <2>6. ASSUME sent[r].name # Absent, found # {}, answer'[r] = "Ok",
               rows' = (rows \ found) \cup {Changed(row, sent[r].name, NoSource) : row \in found}
        PROVE  Updating(r)
    <3>1. PICK row \in rows : row.id = sent[r].id /\ row.user = Owner /\ row \in Row
                              /\ found = {row}
      BY <1>1, <2>6 DEF FindForUser, TInv, TableTypeOK, RowsAreInserted
    <3>2. PICK name \in FileName : name = sent[r].name
      BY <2>1
    <3>3. PICK new : new = Changed(row, name, NoSource)
      OBVIOUS
    <3>4. new.id = row.id /\ new.user = row.user /\ new.spec = row.spec /\ new.name = name
      BY <2>6, <3>1, <3>2, <3>3, ChangedRow
    <3>5. rows' = (rows \ {row}) \cup {new}
      BY <2>6, <3>1, <3>2, <3>3
    <3> QED
      BY <1>4, <2>3, <2>4, <2>5, <2>6, <3>1, <3>2, <3>4, <3>5 DEF Updating
  <2>7. Failing(r) \/ Updating(r)
    BY <2>4, <2>5, <2>6 DEF Failing
  <2> QED
    BY <1>4, <2>2, <2>3, <2>4, <2>5, <2>7 DEF ServeKinds
<1>5. CASE sent[r].op = "delete" /\ Delete(r, Owner, sent[r].id)
  <2> DEFINE t == Task("delete", Owner, sent[r].id, NoSpec, Absent, NoSource)
  <2>1. sent[r].id \in Request
    BY <1>1, <1>5 DEF PInv, PageTypeOK
  <2>2. ApiNext
    BY <1>5, <2>1, SolutionAssumption DEF ApiNext
  <2>3. t.op = "delete" /\ t.user = Owner
    BY DEF Task
  <2>4. /\ answer[r] = "none" /\ original' = original
        /\ \/ rows' = rows /\ \E reply \in Refusals : Answer(r, t, reply)
           \/ rows' = rows \ FindForUser(sent[r].id, Owner) /\ Answer(r, t, "Ok")
    BY <1>5 DEF Delete, Refuse, Idle, Refusals
  <2> HIDE DEF t
  <2>5. /\ task'[r] = t /\ Others(r)
        /\ \/ rows' = rows /\ answer'[r] \in Refusals
           \/ rows' = rows \ FindForUser(sent[r].id, Owner) /\ answer'[r] = "Ok"
    BY <1>1, <2>4 DEF Answer, Others, TInv, TableTypeOK
  <2>6. Failing(r) \/ Deleting(r)
    BY <1>5, <2>3, <2>4, <2>5 DEF Failing, Deleting
  <2> QED
    BY <1>5, <2>2, <2>3, <2>4, <2>5, <2>6 DEF ServeKinds
<1>6. CASE sent[r].op = "copy" /\ CopyRead(r, Owner, sent[r].id)
  <2> DEFINE t == Task("copy", Owner, sent[r].id, NoSpec, Absent, NoSource)
  <2>1. sent[r].id \in Request
    BY <1>1, <1>6 DEF PInv, PageTypeOK
  <2>2. ApiNext
    BY <1>6, <2>1, SolutionAssumption DEF ApiNext
  <2>3. t.op = "copy" /\ t.user = Owner
    BY DEF Task
  <2>4. /\ answer[r] = "none"
        /\ \/ rows' = rows /\ original' = original /\ Answer(r, t, "None")
           \/ \E row \in FindForUser(sent[r].id, Owner) :
                /\ original' = [original EXCEPT ![r] = row]
                /\ task' = [task EXCEPT ![r] = t]
                /\ rows' = rows /\ answer' = answer
    BY <1>6 DEF CopyRead, Refuse, Idle
  <2> HIDE DEF t
  <2>5. CASE rows' = rows /\ original' = original /\ Answer(r, t, "None")
    <3>1. task'[r] = t /\ Others(r) /\ answer'[r] = "None"
      BY <1>1, <2>5 DEF Answer, Others, TInv, TableTypeOK
    <3> QED
      BY <1>6, <2>2, <2>3, <2>4, <2>5, <3>1 DEF ServeKinds, Failing, Refusals
  <2>6. ASSUME NEW row \in FindForUser(sent[r].id, Owner),
               original' = [original EXCEPT ![r] = row], task' = [task EXCEPT ![r] = t],
               rows' = rows, answer' = answer
        PROVE  ServeKinds(r)
    <3>1. /\ task'[r] = t /\ Others(r) /\ original'[r] = row
          /\ \A q \in Request : q # r => original'[q] = original[q]
      BY <1>1, <2>6 DEF Others, TInv, TableTypeOK
    <3>2. row \in rows /\ row.id = sent[r].id /\ row.user = Owner
      BY <2>6 DEF FindForUser
    <3>3. Copying(r)
      BY <1>6, <2>3, <2>6, <3>1, <3>2 DEF Copying
    <3> QED
      BY <1>6, <2>3, <2>4, <3>1, <3>3 DEF ServeKinds
  <2> QED
    BY <2>2, <2>4, <2>5, <2>6
<1>7. CASE sent[r].op = "copy" /\ CopyInsert(r)
  <2>1. ApiNext
    BY <1>7 DEF ApiNext
  <2>2. /\ task[r].op = "copy" /\ answer[r] = "none" /\ original' = original
        /\ \/ rows' = rows /\ Answer(r, task[r], "DatabaseError")
           \/ rows' = rows \cup {CopyOf(r)} /\ Answer(r, task[r], "Ok")
    BY <1>7, Converted DEF CopyInsert, Refuse
  <2>3. /\ task' = task /\ Others(r)
        /\ \/ rows' = rows /\ answer'[r] = "DatabaseError"
           \/ rows' = rows \cup {CopyOf(r)} /\ answer'[r] = "Ok"
    BY <1>1, <2>2 DEF Answer, Others, TInv, TableTypeOK
  <2>4. task[r].op = sent[r].op /\ task[r].user = Owner
    BY <1>1, <2>2 DEF PInv, TasksAreAsked
  <2>5. Failing(r) \/ Duplicating(r)
    BY <1>7, <2>2, <2>3, Converted DEF Failing, Duplicating
  <2> QED
    BY <1>7, <2>1, <2>2, <2>3, <2>4, <2>5 DEF ServeKinds
<1> QED
  BY <1>2, <1>3, <1>4, <1>5, <1>6, <1>7 DEF Serve

-------------------------------------------------------------------------------
(* Every step keeps the page's invariants                                       *)

\* A button sends an unused request.
Clicks(r) ==
  \/ ClickCreate(r)
  \/ \E id \in Request : ClickRename(r, id) \/ ClickCopy(r, id) \/ ClickDelete(r, id)

LEMMA ClickEffect ==
  ASSUME PInv, NEW r \in Request, Clicks(r)
  PROVE  \E a \in Asked :
           /\ answer[r] = "none" /\ task[r].op = "none" /\ r \notin pending
           /\ sent' = [sent EXCEPT ![r] = a] /\ pending' = pending \cup {r}
           /\ UNCHANGED <<list, blind, vars>>
           /\ a # NotSent /\ a.op # "none"
           /\ a.op \in {"create", "update"} => a.name \in FileName
           /\ a.op \in {"update", "delete", "copy"} => a.id \in Request /\ InList(a.id)
           /\ a.op \in {"update", "delete"} => ~ Loading(a.op, a.id)
<1>1. r \notin pending \/ sent[r] # NotSent
  BY DEF PInv, PageTypeOK
<1>2. ASSUME NEW op \in {"create", "update", "delete", "copy"}, NEW id \in Request \cup {"none"},
             NEW name \in FileName \cup {Absent}, Send(r, op, id, name)
      PROVE  \E a \in Asked :
             /\ a.op = op /\ a.id = id /\ a.name = name /\ a # NotSent
             /\ answer[r] = "none" /\ task[r].op = "none" /\ r \notin pending
             /\ sent' = [sent EXCEPT ![r] = a] /\ pending' = pending \cup {r}
             /\ UNCHANGED <<list, blind, vars>>
  <2> DEFINE a == [op |-> op, id |-> id, name |-> name]
  <2>1. a \in Asked /\ a.op = op /\ a.id = id /\ a.name = name
    BY <1>2 DEF Asked
  <2>2. a # NotSent
    BY <1>2 DEF NotSent
  <2>3. /\ answer[r] = "none" /\ task[r].op = "none" /\ sent[r] = NotSent
        /\ sent' = [sent EXCEPT ![r] = a] /\ pending' = pending \cup {r}
        /\ UNCHANGED <<list, blind, vars>>
    BY <1>2 DEF Send, Idle
  <2> HIDE DEF a
  <2> QED
    BY <1>1, <2>1, <2>2, <2>3
<1>3. CASE ClickCreate(r)
  <2>1. PICK name \in FileName : Send(r, "create", "none", name)
    BY <1>3 DEF ClickCreate
  <2> QED
    BY <1>2, <2>1
<1>4. ASSUME NEW id \in Request, ClickRename(r, id)
      PROVE  /\ InList(id) /\ ~ Loading("update", id)
             /\ \E name \in FileName : Send(r, "update", id, name)
  BY <1>4 DEF ClickRename
<1>5. ASSUME NEW id \in Request, ClickRename(r, id)
      PROVE  \E a \in Asked :
           /\ answer[r] = "none" /\ task[r].op = "none" /\ r \notin pending
           /\ sent' = [sent EXCEPT ![r] = a] /\ pending' = pending \cup {r}
           /\ UNCHANGED <<list, blind, vars>>
           /\ a # NotSent /\ a.op # "none"
           /\ a.op \in {"create", "update"} => a.name \in FileName
           /\ a.op \in {"update", "delete", "copy"} => a.id \in Request /\ InList(a.id)
           /\ a.op \in {"update", "delete"} => ~ Loading(a.op, a.id)
  BY <1>2, <1>4, <1>5
<1>6. ASSUME NEW id \in Request, ClickCopy(r, id)
      PROVE  InList(id) /\ Send(r, "copy", id, Absent)
  BY <1>6 DEF ClickCopy
<1>7. ASSUME NEW id \in Request, ClickDelete(r, id)
      PROVE  InList(id) /\ ~ Loading("delete", id) /\ Send(r, "delete", id, Absent)
  BY <1>7 DEF ClickDelete
<1> QED
  BY <1>2, <1>3, <1>5, <1>6, <1>7 DEF Clicks

LEMMA TInvStays == ASSUME TInv, UNCHANGED vars PROVE TInv'
BY NextTInv

LEMMA ForeignIsOfTheApi ==
  ASSUME Next
  PROVE  ApiNext
BY DEF Next, ApiNext, Text

LEMMA NextPInv == ASSUME PInv, ListNext \/ UNCHANGED <<vars, pageVars>> PROVE PInv'
<1>1. ASSUME NEW r \in Request, Clicks(r) PROVE PInv'
  <2>1. PICK a \in Asked :
           /\ answer[r] = "none" /\ task[r].op = "none" /\ r \notin pending
           /\ sent' = [sent EXCEPT ![r] = a] /\ pending' = pending \cup {r}
           /\ UNCHANGED <<list, blind, vars>>
           /\ a # NotSent /\ a.op # "none"
           /\ a.op \in {"create", "update"} => a.name \in FileName
           /\ a.op \in {"update", "delete", "copy"} => a.id \in Request
    BY <1>1, ClickEffect
  <2>2. UNCHANGED vars /\ UNCHANGED <<task, answer>>
    BY <2>1 DEF vars
  <2>3. TInv'
    BY <2>2, TInvStays DEF PInv
  <2>4. PageTypeOK'
    BY <2>1 DEF PInv, PageTypeOK
  <2>5. TasksAreAsked'
    BY <2>1, <2>2 DEF PInv, PageTypeOK, TasksAreAsked
  <2> QED
    BY <2>3, <2>4, <2>5 DEF PInv
<1>2. ASSUME NEW r \in Request, Serve(r) PROVE PInv'
  <2>1. ServeKinds(r) /\ ApiNext
    BY <1>2, ServeEffect
  <2>2. UNCHANGED <<sent, pending>>
    BY <1>2 DEF Serve, pageVars
  <2>3. TInv'
    BY <2>1, NextTInv DEF PInv
  <2>4. PageTypeOK'
    BY <2>2 DEF PInv, PageTypeOK
  <2>5. TasksAreAsked'
    BY <2>1, <2>2 DEF PInv, PageTypeOK, TasksAreAsked, ServeKinds, Others
  <2> QED
    BY <2>3, <2>4, <2>5 DEF PInv
<1>3. CASE Foreign
  <2>1. ApiNext /\ UNCHANGED <<sent, pending>>
    BY <1>3, ForeignIsOfTheApi DEF Foreign
  <2>2. TInv'
    BY <2>1, NextTInv DEF PInv
  <2>3. PageTypeOK'
    BY <2>1 DEF PInv, PageTypeOK
  <2>4. \A r \in pending : task'[r] = task[r] /\ answer'[r] = answer[r]
    BY <1>3 DEF Foreign, PInv, PageTypeOK
  <2>5. TasksAreAsked'
    BY <2>1, <2>4 DEF PInv, TasksAreAsked
  <2> QED
    BY <2>2, <2>3, <2>5 DEF PInv
<1>4. ASSUME UNCHANGED <<sent, vars>>, pending' \subseteq pending PROVE PInv'
  <2>1. UNCHANGED vars /\ UNCHANGED <<task, answer>>
    BY <1>4 DEF vars
  <2>2. TInv'
    BY <2>1, TInvStays DEF PInv
  <2>3. PageTypeOK'
    BY <1>4 DEF PInv, PageTypeOK
  <2>4. TasksAreAsked'
    BY <1>4, <2>1 DEF PInv, TasksAreAsked
  <2> QED
    BY <2>2, <2>3, <2>4 DEF PInv
<1>5. ASSUME NEW r \in Request, Hear(r) \/ Lose(r) PROVE PInv'
  BY <1>4, <1>5 DEF Hear, Lose
<1>6. CASE Fetch
  BY <1>4, <1>6 DEF Fetch
<1>7. CASE UNCHANGED <<vars, pageVars>>
  BY <1>4, <1>7 DEF pageVars
<1> QED
  BY <1>1, <1>2, <1>3, <1>5, <1>6, <1>7 DEF ListNext, Clicks

\* A page's own steps leave the table alone; the others are requests to the API.
LEMMA ListStep ==
  ASSUME PInv, ListNext \/ UNCHANGED <<vars, pageVars>>
  PROVE  ApiNext \/ UNCHANGED vars
<1>1. ASSUME NEW r \in Request, Clicks(r) PROVE UNCHANGED vars
  BY <1>1, ClickEffect
<1>2. ASSUME NEW r \in Request, Serve(r) PROVE ApiNext
  BY <1>2, ServeEffect
<1>3. ASSUME NEW r \in Request, Hear(r) \/ Lose(r) PROVE UNCHANGED vars
  BY <1>3 DEF Hear, Lose
<1>4. CASE Fetch
  BY <1>4 DEF Fetch
<1>5. CASE Foreign
  BY <1>5, ForeignIsOfTheApi DEF Foreign
<1> QED
  BY <1>1, <1>2, <1>3, <1>4, <1>5 DEF ListNext, Clicks

-------------------------------------------------------------------------------
(* The list and the table, while the page is not blind                          *)

LEMMA IdsAreUnique ==
  ASSUME PInv
  PROVE  /\ \A row, other \in rows : row.id = other.id => row = other
         /\ \A row \in rows : row.id \in Request /\ answer[row.id] = "Ok"
         /\ pending \subseteq Request
BY DEF PInv, PageTypeOK, TInv, RowsAreInserted, TableTypeOK, Row

LEMMA ClickKeeps ==
  ASSUME PInv, ListInv, NEW r \in Request, Clicks(r)
  PROVE  ListInv'
<1>1. PICK a \in Asked :
         /\ answer[r] = "none" /\ task[r].op = "none" /\ r \notin pending
         /\ sent' = [sent EXCEPT ![r] = a] /\ pending' = pending \cup {r}
         /\ UNCHANGED <<list, blind, vars>>
         /\ a.op \in {"update", "delete", "copy"} => a.id \in Request /\ InList(a.id)
         /\ a.op \in {"update", "delete"} => ~ Loading(a.op, a.id)
  BY ClickEffect
<1>2. UNCHANGED <<list, rows, answer, task, original>>
  BY <1>1 DEF vars
<1>3. sent'[r] = a /\ \A q \in Request : q # r => sent'[q] = sent[q]
  BY <1>1 DEF PInv, PageTypeOK
<1>4. EdgesWereHeard'
  BY <1>1, <1>2 DEF ListInv, EdgesWereHeard
<1>5. \A u \in Request, op \in {"create", "update", "delete", "copy"} :
        /\ Unheard(u, op)' <=> Unheard(u, op)
        /\ Unheard(u, op) => sent'[u] = sent[u]
  BY <1>1, <1>2, <1>3 DEF Unheard
<1>6. RowsAreListed'
  BY <1>1, <1>2, <1>5 DEF ListInv, RowsAreListed, Mine
<1>7. EdgesHaveRows'
  BY <1>2, <1>5 DEF ListInv, EdgesHaveRows, Mine
<1>8. InsertsAreFresh'
  BY <1>2, <1>5 DEF ListInv, InsertsAreFresh, Mine, Payload, CopyOf
<1>9. a.op \in {"update", "delete", "copy"} =>
        /\ answer[a.id] = "Ok" /\ a.id \notin pending
        /\ \A row \in rows : row.id = a.id => row \in Mine
  <2>1. SUFFICES ASSUME NEW e \in list, e.id = a.id
                 PROVE  /\ answer[a.id] = "Ok" /\ a.id \notin pending
                        /\ \A row \in rows : row.id = a.id => row \in Mine
    BY <1>1 DEF InList
  <2>2. answer[a.id] = "Ok" /\ a.id \notin pending
    BY <2>1 DEF ListInv, EdgesWereHeard
  <2>3. CASE \E row \in Mine : row.id = a.id
    BY <2>2, <2>3, IdsAreUnique DEF Mine
  <2>4. CASE \E d \in Request : Unheard(d, "delete") /\ sent[d].id = a.id
    BY <2>2, <2>4 DEF ListInv, AskedOfRows, AsksForARow, Unheard
  <2> QED
    BY <2>1, <2>3, <2>4 DEF ListInv, EdgesHaveRows
<1>10. \A q \in Request : AsksForARow(q)' =>
         /\ answer'[sent'[q].id] = "Ok" /\ sent'[q].id \notin pending'
         /\ \A row \in rows' : row.id = sent'[q].id => row \in Mine'
         /\ answer'[q] = "Ok" /\ sent'[q].op = "delete" => \A row \in rows' : row.id # sent'[q].id
  <2>1. SUFFICES ASSUME NEW q \in Request, AsksForARow(q)'
                 PROVE  /\ answer[sent'[q].id] = "Ok" /\ sent'[q].id \notin pending \cup {r}
                        /\ \A row \in rows : row.id = sent'[q].id => row \in Mine
                        /\ answer[q] = "Ok" /\ sent'[q].op = "delete" =>
                             \A row \in rows : row.id # sent'[q].id
    BY <1>1, <1>2 DEF Mine
  <2>2. CASE q = r
    BY <1>1, <1>3, <1>9, <2>1, <2>2 DEF AsksForARow
  <2>3. CASE q # r
    BY <1>1, <1>3, <2>1, <2>3 DEF ListInv, AskedOfRows, AsksForARow
  <2> QED
    BY <2>2, <2>3
<1>11. \A p, q \in pending' :
         sent'[p].op \in {"update", "delete"} /\ sent'[q].op = sent'[p].op
         /\ sent'[q].id = sent'[p].id => p = q
  <2>1. \A q \in pending : ~ (sent[q].op = a.op /\ sent[q].id = a.id /\ a.op \in {"update", "delete"})
    BY <1>1 DEF Loading
  <2> QED
    BY <1>1, <1>3, <2>1, IdsAreUnique DEF ListInv, AskedOfRows
<1>12. AskedOfRows'
  BY <1>10, <1>11 DEF AskedOfRows
<1>13. OriginalsAreHere'
  BY <1>1, <1>2 DEF ListInv, OriginalsAreHere
<1> QED
  BY <1>4, <1>6, <1>7, <1>8, <1>12, <1>13 DEF ListInv

\* The page stops waiting for a request that has changed nothing.
LEMMA DropKeeps ==
  ASSUME PInv, ListInv, NEW r \in Request, answer[r] # "Ok", pending' = pending \ {r},
         UNCHANGED <<list, sent, vars>>
  PROVE  ListInv'
<1>1. UNCHANGED <<list, sent, rows, answer, task, original>>
  BY DEF vars
<1>2. \A u \in Request, op \in {"create", "update", "delete", "copy"} : Unheard(u, op)' <=> Unheard(u, op)
  BY <1>1 DEF Unheard
<1>3. EdgesWereHeard'
  BY <1>1 DEF ListInv, EdgesWereHeard
<1>4. RowsAreListed'
  BY <1>1, <1>2, IdsAreUnique DEF ListInv, RowsAreListed, Mine
<1>5. EdgesHaveRows'
  BY <1>1, <1>2 DEF ListInv, EdgesHaveRows, Mine
<1>6. InsertsAreFresh'
  BY <1>1, <1>2 DEF ListInv, InsertsAreFresh, Mine, Payload, CopyOf
<1>7. AskedOfRows'
  BY <1>1 DEF ListInv, AskedOfRows, AsksForARow, Mine
<1>8. OriginalsAreHere'
  BY <1>1 DEF ListInv, OriginalsAreHere
<1> QED
  BY <1>3, <1>4, <1>5, <1>6, <1>7, <1>8 DEF ListInv

LEMMA FetchKeeps ==
  ASSUME PInv, Fetch
  PROVE  ListInv'
<1>1. /\ UNCHANGED <<sent, pending, rows, answer, task, original>> /\ pending = {}
      /\ list' = {[id |-> row.id, name |-> row.name] : row \in Mine}
  BY DEF Fetch, vars, Mine
<1>2. \A e \in list' : \E row \in Mine : e = [id |-> row.id, name |-> row.name]
  BY <1>1
<1>3. EdgesWereHeard'
  BY <1>1, <1>2, IdsAreUnique DEF EdgesWereHeard, Mine
<1>4. RowsAreListed'
  <2>1. SUFFICES ASSUME NEW row \in Mine
                 PROVE  \E e \in list' : e.id = row.id /\ e.name = row.name
    BY <1>1 DEF RowsAreListed, Mine, Unheard
  <2>2. [id |-> row.id, name |-> row.name] \in list'
    BY <1>1
  <2> QED
    BY <2>2
<1>5. EdgesHaveRows'
  BY <1>1, <1>2 DEF EdgesHaveRows, Mine
<1> QED
  BY <1>1, <1>3, <1>4, <1>5 DEF ListInv, InsertsAreFresh, AskedOfRows, AsksForARow, OriginalsAreHere,
                                Unheard

\* An answer Ok is heard: the list does what the API has done.
LEMMA HearKeeps ==
  ASSUME PInv, ListInv, NEW r \in Request, Hear(r)
  PROVE  ListInv'
<1>1. /\ UNCHANGED <<sent, blind, vars>> /\ r \in pending /\ pending' = pending \ {r}
      /\ UNCHANGED <<rows, answer, task, original>>
  BY DEF Hear, vars
<1>2. CASE answer[r] # "Ok"
  BY <1>1, <1>2, DropKeeps DEF Hear
<1> SUFFICES ASSUME answer[r] = "Ok" PROVE ListInv'
  BY <1>2
<1>3. \A u \in Request, op \in {"create", "update", "delete", "copy"} :
        Unheard(u, op)' <=> u # r /\ Unheard(u, op)
  BY <1>1 DEF Unheard
<1>4. InsertsAreFresh' /\ OriginalsAreHere' /\ AskedOfRows'
  <2>1. InsertsAreFresh'
    BY <1>1, <1>3 DEF ListInv, InsertsAreFresh, Mine, Payload, CopyOf
  <2>2. OriginalsAreHere'
    BY <1>1 DEF ListInv, OriginalsAreHere
  <2>3. AskedOfRows'
    BY <1>1 DEF ListInv, AskedOfRows, AsksForARow, Mine
  <2> QED
    BY <2>1, <2>2, <2>3
<1>5. /\ task[r].op = sent[r].op /\ r \in Request
      /\ sent[r].op = "update" => task[r].id = sent[r].id
  <2>1. task[r].op # "none"
    BY DEF PInv, TInv, OnlyCopiesAreUnderWay
  <2> QED
    BY <1>1, <2>1 DEF PInv, TasksAreAsked
<1>6. sent[r].op \in {"create", "copy", "update", "delete"}
  BY <1>1 DEF PInv, PageTypeOK, Asked
<1>7. CASE sent[r].op \in {"create", "copy"}
  <2>1. list' = list \cup {Payload(r)}
    BY <1>7 DEF Hear, Added, HeardCopy
  <2>2. PICK new : new = Payload(r)
    OBVIOUS
  <2>3. new.id = r /\ new = [id |-> new.id, name |-> new.name]
    BY <1>5, <1>7, <2>2 DEF Payload
  <2>4. PICK row \in Mine : row.id = r /\ row.name = new.name
    BY <1>1, <1>7, <2>2 DEF ListInv, InsertsAreFresh, Unheard
  <2>5. EdgesWereHeard'
    BY <1>1, <1>5, <2>1, <2>2, <2>3 DEF ListInv, EdgesWereHeard
  <2>6. \A u \in Request : Unheard(u, "update")' <=> Unheard(u, "update")
    BY <1>3, <1>7 DEF Unheard
  <2>7. ASSUME NEW s \in Mine
        PROVE  \/ s.id \in pending'
               \/ \E e \in list' :
                    /\ e.id = s.id
                    /\ \/ e.name = s.name
                       \/ \E u \in Request : Unheard(u, "update") /\ sent[u].id = s.id
                    /\ \A u \in Request : Unheard(u, "update") /\ sent[u].id = s.id =>
                         s.name = task[u].name
    <3>1. CASE s.id = r
      <4>1. s = row
        BY <2>4, <3>1, IdsAreUnique DEF Mine
      <4>2. \A u \in Request : Unheard(u, "update") => sent[u].id # r
        BY <1>1 DEF ListInv, AskedOfRows, AsksForARow, Unheard
      <4> QED
        BY <2>1, <2>2, <2>3, <2>4, <3>1, <4>1, <4>2
    <3>2. CASE s.id # r
      BY <1>1, <2>1, <2>7, <3>2 DEF ListInv, RowsAreListed
    <3> QED
      BY <3>1, <3>2
  <2>8. RowsAreListed'
    BY <1>1, <2>6, <2>7 DEF RowsAreListed, Mine
  <2>9. \A d \in Request : Unheard(d, "delete")' <=> Unheard(d, "delete")
    BY <1>3, <1>7 DEF Unheard
  <2>10. EdgesHaveRows'
    BY <1>1, <2>1, <2>2, <2>3, <2>4, <2>9 DEF ListInv, EdgesHaveRows, Mine
  <2> QED
    BY <1>4, <2>5, <2>8, <2>10 DEF ListInv
<1>8. CASE sent[r].op = "update"
  <2>1. PICK new : new = Payload(r)
    OBVIOUS
  <2>2. new = [id |-> sent[r].id, name |-> task[r].name]
    BY <1>5, <1>8, <2>1 DEF Payload
  <2>3. new.id = sent[r].id /\ new.name = task[r].name /\ new = [id |-> new.id, name |-> new.name]
    BY <2>2
  <2>4. list' = {IF e.id = new.id THEN new ELSE e : e \in list}
    BY <1>8, <2>1 DEF Hear, Renamed
  <2>5. /\ \A f \in list' : \E e \in list : e.id = f.id /\ f = IF e.id = new.id THEN new ELSE e
        /\ \A e \in list : (IF e.id = new.id THEN new ELSE e) \in list'
    BY <2>4
  <2>6. EdgesWereHeard'
    <3>1. \A f \in list' : /\ f = [id |-> f.id, name |-> f.name] /\ f.id \in Request
                           /\ answer[f.id] = "Ok" /\ f.id \notin pending
      BY <2>3, <2>5 DEF ListInv, EdgesWereHeard
    <3>2. \A f, g \in list' : f.id = g.id => f = g
      BY <2>5 DEF ListInv, EdgesWereHeard
    <3> QED
      BY <1>1, <3>1, <3>2 DEF EdgesWereHeard
  <2>7. \A u \in Request : Unheard(u, "update") /\ sent[u].id = sent[r].id => u = r
    BY <1>1, <1>8 DEF ListInv, AskedOfRows, Unheard
  <2>8. ASSUME NEW s \in Mine
        PROVE  \/ s.id \in pending'
               \/ \E f \in list' :
                    /\ f.id = s.id
                    /\ \/ f.name = s.name
                       \/ \E u \in Request : Unheard(u, "update")' /\ sent[u].id = s.id
                    /\ \A u \in Request : Unheard(u, "update")' /\ sent[u].id = s.id =>
                         s.name = task[u].name
    <3>1. CASE s.id \in pending
      <4>1. s.id # r
        BY <1>5, <1>8 DEF PInv, TInv, RowsAreInserted, Mine
      <4> QED
        BY <1>1, <3>1, <4>1
    <3>2. CASE s.id \notin pending
      <4>1. PICK e \in list :
              /\ e.id = s.id
              /\ \/ e.name = s.name
                 \/ \E u \in Request : Unheard(u, "update") /\ sent[u].id = s.id
              /\ \A u \in Request : Unheard(u, "update") /\ sent[u].id = s.id =>
                   s.name = task[u].name
        BY <3>2 DEF ListInv, RowsAreListed
      <4>2. CASE s.id = new.id
        <5>1. s.name = new.name /\ new \in list'
          BY <1>1, <1>8, <2>3, <2>5, <4>1, <4>2 DEF Unheard
        <5>2. \A u \in Request : ~ (Unheard(u, "update")' /\ sent[u].id = s.id)
          BY <1>3, <2>3, <2>7, <4>2
        <5> QED
          BY <4>2, <5>1, <5>2
      <4>3. CASE s.id # new.id
        <5>1. e \in list'
          BY <2>5, <4>1, <4>3
        <5>2. \A u \in Request : sent[u].id = s.id =>
                (Unheard(u, "update")' <=> Unheard(u, "update"))
          BY <1>3, <2>3, <4>3
        <5> QED
          BY <4>1, <5>1, <5>2
      <4> QED
        BY <4>2, <4>3
    <3> QED
      BY <3>1, <3>2
  <2>9. RowsAreListed'
    BY <1>1, <2>8 DEF RowsAreListed, Mine
  <2>10. \A d \in Request : Unheard(d, "delete")' <=> Unheard(d, "delete")
    BY <1>3, <1>8 DEF Unheard
  <2>11. \A f \in list' : \E e \in list : e.id = f.id
    BY <2>5
  <2>12. EdgesHaveRows'
    BY <1>1, <2>10, <2>11 DEF ListInv, EdgesHaveRows, Mine
  <2> QED
    BY <1>4, <2>6, <2>9, <2>12 DEF ListInv
<1>9. CASE sent[r].op = "delete"
  <2>1. list' = {e \in list : e.id # sent[r].id}
    BY <1>9 DEF Hear, Without
  <2>2. EdgesWereHeard'
    BY <1>1, <2>1 DEF ListInv, EdgesWereHeard
  <2>3. \A row \in rows : row.id # sent[r].id /\ row.id # r
    <3>1. \A row \in rows : row.id # sent[r].id
      BY <1>1, <1>5, <1>9 DEF ListInv, AskedOfRows, AsksForARow
    <3>2. \A row \in rows : row.id # r
      BY <1>5, <1>9 DEF PInv, TInv, RowsAreInserted
    <3> QED
      BY <3>1, <3>2
  <2>4. \A u \in Request : Unheard(u, "update")' <=> Unheard(u, "update")
    BY <1>3, <1>9 DEF Unheard
  <2>5. RowsAreListed'
    BY <1>1, <2>1, <2>3, <2>4 DEF ListInv, RowsAreListed, Mine
  <2>6. EdgesHaveRows'
    BY <1>1, <1>3, <2>1 DEF ListInv, EdgesHaveRows, Mine
  <2> QED
    BY <1>4, <2>2, <2>5, <2>6 DEF ListInv
<1> QED
  BY <1>6, <1>7, <1>8, <1>9

\* What is done elsewhere, when none of it is of the page's user.
LEMMA ForeignKeeps ==
  ASSUME PInv, ListInv, Foreign, ~ blind'
  PROVE  ListInv'
<1>1. ApiNext /\ TInv /\ UNCHANGED <<list, sent, pending>>
  BY ForeignIsOfTheApi DEF Foreign, PInv
<1>2. \A q \in pending : task'[q] = task[q] /\ answer'[q] = answer[q]
  BY DEF Foreign, PInv, PageTypeOK
<1>3. {s \in rows' : s.user = Owner} = {s \in rows : s.user = Owner}
  BY DEF Foreign
<1>4. Mine' = Mine
  BY <1>3 DEF Mine
<1>5. PICK r \in Request : /\ answer[r] = "none" /\ Others(r)
                           /\ \A q \in Request : q # r => original'[q] = original[q]
                           /\ task'[r] # task[r] \/ answer'[r] # answer[r]
  BY <1>1, OneActs
<1>6. r \notin pending
  BY <1>2, <1>5
<1>7. \A q \in pending : original'[q] = original[q]
  BY <1>5, <1>6, IdsAreUnique
<1>8. \A q \in Request : answer[q] = "Ok" => answer'[q] = "Ok"
  BY <1>5 DEF Others
<1>9. \A u \in Request, op \in {"create", "update", "delete", "copy"} : Unheard(u, op)' <=> Unheard(u, op)
  BY <1>1, <1>2 DEF Unheard
<1>10. EdgesWereHeard'
  BY <1>1, <1>8 DEF ListInv, EdgesWereHeard
<1>11. RowsAreListed'
  BY <1>1, <1>2, <1>4, <1>9 DEF ListInv, RowsAreListed, Unheard
<1>12. EdgesHaveRows'
  BY <1>1, <1>4, <1>9 DEF ListInv, EdgesHaveRows
<1>13. InsertsAreFresh'
  <2>1. \A q \in pending : Payload(q)' = Payload(q)
    BY <1>2, <1>7 DEF Payload, CopyOf
  <2> QED
    BY <1>4, <1>9, <2>1 DEF ListInv, InsertsAreFresh, Unheard
<1>14. AskedOfRows'
  <2>1. SUFFICES ASSUME NEW q \in Request, AsksForARow(q)
                 PROVE  /\ answer'[sent[q].id] = "Ok" /\ sent[q].id \notin pending
                        /\ \A row \in rows' : row.id = sent[q].id => row \in Mine'
                        /\ answer'[q] = "Ok" /\ sent[q].op = "delete" =>
                             \A row \in rows' : row.id # sent[q].id
    BY <1>1 DEF ListInv, AskedOfRows, AsksForARow
  <2>2. /\ sent[q].id \in Request /\ answer[sent[q].id] = "Ok" /\ sent[q].id \notin pending
        /\ \A row \in rows : row.id = sent[q].id => row \in Mine
        /\ answer[q] = "Ok" /\ sent[q].op = "delete" => \A row \in rows : row.id # sent[q].id
    BY <2>1 DEF ListInv, AskedOfRows, AsksForARow, PInv, PageTypeOK
  <2>3. \A new \in rows' : new.id = sent[q].id =>
          \E row \in rows : row.id = new.id /\ row.user = new.user /\ row.spec = new.spec
    BY <1>1, <2>2, RowsOfAStep
  <2>4. \A row \in rows' : row.id = sent[q].id => row \in Mine'
    BY <2>2, <2>3 DEF Mine
  <2>5. answer'[q] = answer[q]
    BY <1>2, <2>1 DEF AsksForARow
  <2> QED
    BY <1>8, <2>2, <2>3, <2>4, <2>5
<1>15. OriginalsAreHere'
  BY <1>1, <1>2, <1>7 DEF ListInv, OriginalsAreHere
<1> QED
  BY <1>10, <1>11, <1>12, <1>13, <1>14, <1>15 DEF ListInv

\* A mutation of the page is served.
LEMMA ServeKeeps ==
  ASSUME PInv, ListInv, NEW r \in Request, r \in pending, ServeKinds(r),
         UNCHANGED <<list, sent, pending>>
  PROVE  ListInv'
<1> USE DEF ServeKinds
<1>1. \A q \in Request : q # r => answer'[q] = answer[q] /\ task'[q] = task[q]
                                  /\ original'[q] = original[q]
  BY DEF Others
<1>2. \A q \in Request : answer[q] = "Ok" => q # r /\ answer'[q] = "Ok"
  BY <1>1
<1>3. EdgesWereHeard'
  BY <1>2 DEF ListInv, EdgesWereHeard
<1>4. \A u \in Request, op \in {"create", "update", "delete", "copy"} :
        u # r => (Unheard(u, op)' <=> Unheard(u, op))
  BY <1>1 DEF Unheard
<1>5. \A u \in Request, op \in {"create", "update", "delete", "copy"} :
        Unheard(u, op) => u # r
  BY DEF Unheard
<1>6. \A q \in Request : q # r => Payload(q)' = Payload(q)
  BY <1>1 DEF Payload, CopyOf
<1>7. \A q \in Request : AsksForARow(q) =>
        /\ sent[q].id \in Request /\ answer[sent[q].id] = "Ok" /\ sent[q].id # r
        /\ sent[q].id \notin pending
        /\ \A row \in rows : row.id = sent[q].id => row \in Mine
  BY <1>2 DEF ListInv, AskedOfRows, AsksForARow, PInv, PageTypeOK
<1>8. (\A q \in Request : AsksForARow(q) =>
        /\ \A row \in rows' : row.id = sent[q].id => row \in Mine'
        /\ answer'[q] = "Ok" /\ sent[q].op = "delete" => \A row \in rows' : row.id # sent[q].id)
      => AskedOfRows'
  BY <1>2, <1>7 DEF ListInv, AskedOfRows, AsksForARow
<1>9. (task'[r].op = "copy" /\ answer'[r] = "none" => original'[r].spec = Here)
      => OriginalsAreHere'
  BY <1>1, IdsAreUnique DEF ListInv, OriginalsAreHere
<1>10. CASE Failing(r)
  <2>1. answer'[r] # "Ok" /\ answer'[r] # "none"
    BY <1>10, Converted DEF Failing
  <2>2. Mine' = Mine
    BY <1>10 DEF Failing, Mine
  <2>3. \A u \in Request, op \in {"create", "update", "delete", "copy"} :
          /\ Unheard(u, op)' <=> Unheard(u, op)
          /\ Unheard(u, op) => task'[u] = task[u] /\ Payload(u)' = Payload(u)
    BY <1>1, <1>4, <1>5, <1>6, <2>1 DEF Unheard
  <2>4. RowsAreListed'
    BY <2>2, <2>3 DEF ListInv, RowsAreListed
  <2>5. EdgesHaveRows'
    BY <2>2, <2>3 DEF ListInv, EdgesHaveRows
  <2>6. InsertsAreFresh'
    BY <2>2, <2>3 DEF ListInv, InsertsAreFresh
  <2>7. AskedOfRows'
    BY <1>1, <1>8, <1>10, <2>1, <2>2 DEF ListInv, AskedOfRows, AsksForARow, Failing
  <2>8. OriginalsAreHere'
    BY <1>9, <2>1
  <2> QED
    BY <1>3, <2>4, <2>5, <2>6, <2>7, <2>8 DEF ListInv
<1>11. ASSUME NEW new, new.id = r, new.user = Owner, new.spec = Here, rows' = rows \cup {new},
              sent[r].op \in {"create", "copy"}, new.name = Payload(r)'.name, answer'[r] = "Ok"
       PROVE  ListInv'
  <2>1. Mine' = Mine \cup {new}
    BY <1>11 DEF Mine
  <2>2. \A u \in Request :
          /\ Unheard(u, "update")' <=> Unheard(u, "update")
          /\ Unheard(u, "delete")' <=> Unheard(u, "delete")
          /\ Unheard(u, "update") => task'[u] = task[u]
    BY <1>1, <1>4, <1>5, <1>11 DEF Unheard
  <2>3. RowsAreListed'
    BY <1>11, <2>1, <2>2 DEF ListInv, RowsAreListed
  <2>4. EdgesHaveRows'
    BY <2>1, <2>2 DEF ListInv, EdgesHaveRows
  <2>5. InsertsAreFresh'
    BY <1>4, <1>6, <1>11, <2>1 DEF ListInv, InsertsAreFresh
  <2>6. AskedOfRows'
    BY <1>1, <1>7, <1>8, <1>11, <2>1 DEF ListInv, AskedOfRows, AsksForARow
  <2>7. OriginalsAreHere'
    BY <1>9, <1>11
  <2> QED
    BY <1>3, <2>3, <2>4, <2>5, <2>6, <2>7 DEF ListInv
<1>12. CASE Creating(r)
  <2>1. Payload(r)'.name = task'[r].name
    BY <1>12 DEF Creating, Payload
  <2> QED
    BY <1>11, <1>12, <2>1 DEF Creating
<1>13. CASE Duplicating(r)
  <2>1. task[r].user = Owner /\ original[r] \in Row /\ original[r].spec = Here
    BY <1>13 DEF Duplicating, ListInv, OriginalsAreHere, PInv, TInv, OriginalsAreOwn, TasksAreAsked
  <2>2. PICK new : new = CopyOf(r)
    OBVIOUS
  <2>3. new.id = r /\ new.user = Owner /\ new.spec = Here
    BY <2>1, <2>2 DEF CopyOf, Row
  <2>4. Payload(r)'.name = new.name
    BY <1>13, <2>2 DEF Duplicating, Payload, CopyOf
  <2> QED
    BY <1>11, <1>13, <2>2, <2>3, <2>4 DEF Duplicating
<1>14. CASE Updating(r)
  <2>1. PICK row, new :
          /\ row \in rows /\ row.id = sent[r].id /\ row.user = Owner
          /\ new.id = row.id /\ new.user = row.user /\ new.spec = row.spec
          /\ new.name = task'[r].name /\ rows' = (rows \ {row}) \cup {new}
    BY <1>14 DEF Updating
  <2>2. AsksForARow(r) /\ row \in Mine /\ row.id \notin pending
    BY <1>7, <1>14, <2>1 DEF Updating, AsksForARow
  <2>3. Mine' = (Mine \ {row}) \cup {new}
    BY <2>1, <2>2 DEF Mine
  <2>4. \A s \in rows : s # row => s.id # row.id
    BY <2>1, IdsAreUnique
  <2>5. /\ Unheard(r, "update")'
        /\ \A u \in pending : sent[u].op = "update" /\ sent[u].id = row.id => u = r
    BY <1>14, <2>1 DEF Updating, Unheard, ListInv, AskedOfRows
  <2>6. RowsAreListed'
    <3>1. SUFFICES ASSUME NEW s \in Mine'
                   PROVE  \/ s.id \in pending
                          \/ \E e \in list :
                               /\ e.id = s.id
                               /\ \/ e.name = s.name
                                  \/ \E u \in Request : Unheard(u, "update")' /\ sent[u].id = s.id
                               /\ \A u \in Request : Unheard(u, "update")' /\ sent[u].id = s.id =>
                                    s.name = task'[u].name
      BY DEF RowsAreListed
    <3>2. CASE s = new
      <4>1. PICK e \in list : e.id = row.id
        BY <2>2 DEF ListInv, RowsAreListed
      <4>2. \A u \in Request : Unheard(u, "update")' /\ sent[u].id = row.id => u = r
        BY <2>5 DEF Unheard
      <4> QED
        BY <2>1, <2>5, <3>2, <4>1, <4>2
    <3>3. CASE s # new
      <4>1. s \in Mine /\ s.id # sent[r].id
        BY <2>1, <2>3, <2>4, <3>1, <3>3 DEF Mine
      <4>2. \A u \in Request : sent[u].id = s.id =>
              /\ Unheard(u, "update")' <=> Unheard(u, "update")
              /\ task'[u] = task[u]
        BY <1>1, <1>4, <4>1
      <4> QED
        BY <4>1, <4>2 DEF ListInv, RowsAreListed
    <3> QED
      BY <3>2, <3>3
  <2>7. EdgesHaveRows'
    <3>1. \A d \in Request : Unheard(d, "delete")' <=> Unheard(d, "delete")
      BY <1>4, <1>14 DEF Unheard, Updating
    <3> QED
      BY <2>1, <2>3, <3>1 DEF ListInv, EdgesHaveRows
  <2>8. InsertsAreFresh'
    <3>1. \A u \in Request, op \in {"create", "copy"} : Unheard(u, op)' =>
            u # r /\ Unheard(u, op) /\ u # row.id
      BY <1>4, <1>14, <2>2 DEF Unheard, Updating
    <3> QED
      BY <1>6, <2>1, <2>3, <3>1 DEF ListInv, InsertsAreFresh
  <2>9. AskedOfRows'
    <3>1. \A q \in Request : answer'[q] = "Ok" /\ sent[q].op = "delete" => answer[q] = "Ok"
      BY <1>1, <1>14 DEF Updating
    <3>2. \A q \in Request : AsksForARow(q) /\ answer'[q] = "Ok" /\ sent[q].op = "delete" =>
            \A s \in rows' : s.id # sent[q].id
      BY <2>1, <3>1 DEF ListInv, AskedOfRows
    <3>3. \A q \in Request : AsksForARow(q) =>
            \A s \in rows' : s.id = sent[q].id => s \in Mine'
      BY <1>7, <2>1, <2>3
    <3> QED
      BY <1>8, <3>2, <3>3
  <2>10. OriginalsAreHere'
    BY <1>9, <1>14 DEF Updating
  <2> QED
    BY <1>3, <2>6, <2>7, <2>8, <2>9, <2>10 DEF ListInv
<1>15. CASE Deleting(r)
  <2>1. AsksForARow(r) /\ rows' \subseteq rows
        /\ \A row \in rows \ rows' : row.id = sent[r].id
    BY <1>15 DEF Deleting, AsksForARow, FindForUser
  <2>2. \A row \in rows' : row.id # sent[r].id
    BY <1>7, <1>15, <2>1 DEF Deleting, FindForUser, Mine
  <2>3. Mine' = {row \in Mine : row.id # sent[r].id}
    BY <2>1, <2>2 DEF Mine
  <2>4. \A u \in Request :
          /\ Unheard(u, "update")' <=> Unheard(u, "update")
          /\ Unheard(u, "update") => task'[u] = task[u]
    BY <1>1, <1>4, <1>5, <1>15 DEF Unheard, Deleting
  <2>5. RowsAreListed'
    BY <2>3, <2>4 DEF ListInv, RowsAreListed
  <2>6. EdgesHaveRows'
    <3>1. Unheard(r, "delete")'
      BY <1>15 DEF Unheard, Deleting
    <3>2. \A d \in Request : Unheard(d, "delete") => Unheard(d, "delete")'
      BY <1>4, <1>5
    <3> QED
      BY <2>3, <3>1, <3>2 DEF ListInv, EdgesHaveRows
  <2>7. InsertsAreFresh'
    <3>1. \A u \in Request, op \in {"create", "copy"} : Unheard(u, op)' =>
            u # r /\ Unheard(u, op) /\ u # sent[r].id
      BY <1>4, <1>7, <1>15, <2>1 DEF Unheard, Deleting
    <3> QED
      BY <1>6, <2>3, <3>1 DEF ListInv, InsertsAreFresh
  <2>8. AskedOfRows'
    <3>1. \A q \in Request : AsksForARow(q) /\ answer'[q] = "Ok" /\ sent[q].op = "delete" =>
            \A s \in rows' : s.id # sent[q].id
      BY <1>1, <2>1, <2>2 DEF ListInv, AskedOfRows
    <3>2. \A q \in Request : AsksForARow(q) =>
            \A s \in rows' : s.id = sent[q].id => s \in Mine'
      BY <1>7, <2>1, <2>2, <2>3
    <3> QED
      BY <1>8, <3>1, <3>2
  <2>9. OriginalsAreHere'
    BY <1>9, <1>15 DEF Deleting
  <2> QED
    BY <1>3, <2>5, <2>6, <2>7, <2>8, <2>9 DEF ListInv
<1>16. CASE Copying(r)
  <2>1. PICK row \in rows : row.id = sent[r].id /\ row.user = Owner /\ original'[r] = row
    BY <1>16 DEF Copying
  <2>2. row \in Mine
    BY <1>7, <1>16, <2>1 DEF Copying, AsksForARow
  <2>3. Mine' = Mine /\ answer' = answer /\ rows' = rows
    BY <1>16 DEF Copying, Mine
  <2>4. \A u \in Request, op \in {"create", "update", "delete", "copy"} :
          /\ Unheard(u, op)' <=> Unheard(u, op)
          /\ Unheard(u, op) => task'[u] = task[u] /\ Payload(u)' = Payload(u)
    BY <1>1, <1>5, <1>6, <2>3 DEF Unheard
  <2>5. RowsAreListed'
    BY <2>3, <2>4 DEF ListInv, RowsAreListed
  <2>6. EdgesHaveRows'
    BY <2>3, <2>4 DEF ListInv, EdgesHaveRows
  <2>7. InsertsAreFresh'
    BY <2>3, <2>4 DEF ListInv, InsertsAreFresh
  <2>8. AskedOfRows'
    BY <1>8, <2>3 DEF ListInv, AskedOfRows
  <2>9. OriginalsAreHere'
    BY <1>9, <2>1, <2>2 DEF Mine
  <2> QED
    BY <1>3, <2>5, <2>6, <2>7, <2>8, <2>9 DEF ListInv
<1> QED
  BY <1>10, <1>12, <1>13, <1>14, <1>15, <1>16

LEMMA NextLInv ==
  ASSUME PInv, LInv, ListNext \/ UNCHANGED <<vars, pageVars>>
  PROVE  LInv'
<1> SUFFICES ASSUME ~ blind' PROVE ListInv'
  BY DEF LInv
<1>1. ASSUME NEW r \in Request, Clicks(r) PROVE ListInv'
  <2>1. blind' = blind
    BY <1>1, ClickEffect
  <2> QED
    BY <1>1, <2>1, ClickKeeps DEF LInv
<1>2. ASSUME NEW r \in Request, Serve(r) PROVE ListInv'
  <2>1. ServeKinds(r) /\ r \in pending /\ UNCHANGED <<list, sent, pending, blind>>
    BY <1>2, ServeEffect DEF Serve, pageVars
  <2> QED
    BY <2>1, ServeKeeps DEF LInv
<1>3. ASSUME NEW r \in Request, Hear(r) PROVE ListInv'
  BY <1>3, HearKeeps DEF LInv, Hear
<1>4. ASSUME NEW r \in Request, Lose(r) PROVE ListInv'
  BY <1>4, DropKeeps DEF LInv, Lose
<1>5. CASE Fetch
  BY <1>5, FetchKeeps
<1>6. CASE Foreign
  <2>1. ~ blind
    BY <1>6 DEF Foreign
  <2> QED
    BY <1>6, <2>1, ForeignKeeps DEF LInv
<1>7. CASE UNCHANGED <<vars, pageVars>>
  <2>1. UNCHANGED <<rows, answer, task, original, list, sent, pending, blind>>
    BY <1>7 DEF vars, pageVars
  <2>2. EdgesWereHeard' = EdgesWereHeard /\ RowsAreListed' = RowsAreListed
        /\ EdgesHaveRows' = EdgesHaveRows /\ InsertsAreFresh' = InsertsAreFresh
    BY <2>1 DEF EdgesWereHeard, RowsAreListed, EdgesHaveRows, InsertsAreFresh, Mine, Unheard,
                Payload, CopyOf
  <2>3. AskedOfRows' = AskedOfRows /\ OriginalsAreHere' = OriginalsAreHere
    BY <2>1 DEF AskedOfRows, OriginalsAreHere, Mine, AsksForARow
  <2> QED
    BY <2>1, <2>2, <2>3 DEF LInv, ListInv
<1> QED
  BY <1>1, <1>2, <1>3, <1>4, <1>5, <1>6, <1>7 DEF ListNext, Clicks

LEMMA InitLInv == ListInit => PInv /\ LInv
<1> SUFFICES ASSUME ListInit PROVE PInv /\ LInv
  OBVIOUS
<1>1. TInv
  BY InitTInv DEF ListInit
<1>2. PageTypeOK /\ TasksAreAsked
  BY DEF ListInit, PageTypeOK, TasksAreAsked, NotSent, Asked
<1>3. ListInv
  BY DEF ListInit, Init, ListInv, EdgesWereHeard, RowsAreListed, EdgesHaveRows, InsertsAreFresh,
         AskedOfRows, AsksForARow, OriginalsAreHere, Mine, Unheard
<1> QED
  BY <1>1, <1>2, <1>3 DEF PInv, LInv

\* The invariant of the table, of the page, and of the one in the other.
LEMMA InvariantOfTheList == ListSpec => [](PInv /\ LInv)
<1>1. PInv /\ LInv /\ [ListNext]_<<vars, pageVars>> => (PInv /\ LInv)'
  BY NextPInv, NextLInv
<1> QED
  BY <1>1, InitLInv, PTL DEF ListSpec

LEMMA InvariantOfTheTable == Spec => []TInv
<1>1. TInv /\ [Next]_vars => TInv'
  BY NextTInv, ForeignIsOfTheApi
<1> QED
  BY <1>1, InitTInv, PTL DEF Spec

-------------------------------------------------------------------------------
(* The theorems                                                                 *)

\* Whatever requests are made of the API, from this page and from elsewhere, what a
\* user finds in a row is something that user sent (models/user_program.rs:43-53).
THEOREM SourcesStayOwn == (Spec => []SourcesAreOwn) /\ (ListSpec => []SourcesAreOwn)
<1>1. TInv => SourcesAreOwn
  BY DEF TInv, SourcesAreOwn, Own
<1>2. PInv => SourcesAreOwn
  BY <1>1 DEF PInv
<1>3. Spec => []SourcesAreOwn
  BY <1>1, InvariantOfTheTable, PTL
<1>4. ListSpec => []SourcesAreOwn
  BY <1>2, InvariantOfTheList, PTL
<1> QED
  BY <1>3, <1>4

\* Two updates of different fields both survive, in either order
\* (user_program.rs:63-80).
THEOREM UpdatesAreMerged == (Spec => []UpdatesMerge) /\ (ListSpec => []UpdatesMerge)
<1>1. TInv => UpdatesMerge
  BY DEF TInv, UpdatesMerge, Merged, Renamings, Savings
<1>2. PInv => UpdatesMerge
  BY <1>1 DEF PInv
<1>3. Spec => []UpdatesMerge
  BY <1>1, InvariantOfTheTable, PTL
<1>4. ListSpec => []UpdatesMerge
  BY <1>2, InvariantOfTheList, PTL
<1> QED
  BY <1>3, <1>4

LEMMA NothingComesBackEver ==
  ASSUME TInv, ApiNext \/ UNCHANGED vars
  PROVE  [\A id \in Request : StaysDeleted(id)]_vars
BY NothingComesBack

\* A row that was made and deleted does not come back, whatever saves and copies of
\* it are still on their way (user_program.rs:70-80, 131-151).
THEOREM DeletedIsForGood == (Spec => DeletedStaysDeleted) /\ (ListSpec => DeletedStaysDeleted)
<1>1. TInv /\ [Next]_vars => [\A id \in Request : StaysDeleted(id)]_vars
  BY NothingComesBackEver, ForeignIsOfTheApi
<1>2. PInv /\ [ListNext]_<<vars, pageVars>> => [\A id \in Request : StaysDeleted(id)]_vars
  BY ListStep, NothingComesBackEver DEF PInv
<1>3. Spec => DeletedStaysDeleted
  BY <1>1, InvariantOfTheTable, PTL DEF Spec, DeletedStaysDeleted, StaysDeleted
<1>4. ListSpec => DeletedStaysDeleted
  BY <1>2, InvariantOfTheList, PTL DEF ListSpec, DeletedStaysDeleted, StaysDeleted
<1> QED
  BY <1>3, <1>4

LEMMA EachIsToldTheTruthEver ==
  ASSUME TInv, ApiNext \/ UNCHANGED vars
  PROVE  [\A r \in Request : Told(r)]_vars
BY EachIsToldTheTruth

\* An answer tells what happened to the row, and a refusal that nothing was written
\* (user_program.rs:32-47, 70-90, 104-128, 141-151).
THEOREM AnswersTell == (Spec => AnswersTellWhatHappened) /\ (ListSpec => AnswersTellWhatHappened)
<1>1. TInv /\ [Next]_vars => [\A r \in Request : Told(r)]_vars
  BY EachIsToldTheTruthEver, ForeignIsOfTheApi
<1>2. PInv /\ [ListNext]_<<vars, pageVars>> => [\A r \in Request : Told(r)]_vars
  BY ListStep, EachIsToldTheTruthEver DEF PInv
<1>3. Spec => AnswersTellWhatHappened
  BY <1>1, InvariantOfTheTable, PTL DEF Spec, AnswersTellWhatHappened, Told
<1>4. ListSpec => AnswersTellWhatHappened
  BY <1>2, InvariantOfTheList, PTL DEF ListSpec, AnswersTellWhatHappened, Told
<1> QED
  BY <1>3, <1>4

\* When all answers are in, and none was lost, the card shows the user's programs
\* under their names, in whatever order its mutations ran and were answered
\* (CreateUserProgramButton.tsx:60-75, CopyUserProgramButton.tsx:45-57,
\* DeleteUserProgramButton.tsx:51-67).
THEOREM TheListIsTheTable == ListSpec => []ListShowsTheTable
<1>1. PInv /\ LInv => ListShowsTheTable
  <2> SUFFICES ASSUME PInv, ListInv, pending = {}
               PROVE  list = {[id |-> row.id, name |-> row.name] : row \in Mine}
    BY DEF ListShowsTheTable, LInv, Mine
  <2>1. \A u \in Request, op \in {"update", "delete"} : ~ Unheard(u, op)
    BY DEF Unheard
  <2>2. ASSUME NEW row \in Mine PROVE [id |-> row.id, name |-> row.name] \in list
    <3>1. PICK e \in list : e.id = row.id /\ e.name = row.name
      BY <2>1, <2>2 DEF ListInv, RowsAreListed
    <3> QED
      BY <3>1 DEF ListInv, EdgesWereHeard
  <2>3. ASSUME NEW e \in list PROVE \E row \in Mine : e = [id |-> row.id, name |-> row.name]
    <3>1. PICK row \in Mine : row.id = e.id
      BY <2>1, <2>3 DEF ListInv, EdgesHaveRows
    <3>2. [id |-> row.id, name |-> row.name] \in list
      BY <2>2
    <3> QED
      BY <3>1, <3>2 DEF ListInv, EdgesWereHeard
  <2> QED
    BY <2>2, <2>3
<1> QED
  BY <1>1, InvariantOfTheList, PTL
===============================================================================
