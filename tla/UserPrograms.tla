------------------------------ MODULE UserPrograms ------------------------------
(* The solutions users keep: the mutations of src/api/src/views/user_program.rs *)
(* over the table user_programs. Create, update and delete are one SQL          *)
(* statement each, hence one step; copy is a SELECT and an INSERT with no       *)
(* transaction around them, and any other request may run in between.           *)
(*                                                                              *)
(* A file name is a base and the number of times " copy" was appended to it.    *)
EXTENDS Naturals, ApiErrors

CONSTANTS
  Request,      \* requests; also the ids of the rows they insert
  User,
  ProgramSpec, NoSpec, \* ids of program specs, and an id that names none
  FileName,     \* the names users type
  Source        \* the sources users type

ASSUME NameAssumption == FileName \subseteq [base : STRING, copies : Nat]

VARIABLES
  rows,      \* committed rows: [id, user, spec, name, source]
  answer,    \* what each request was told
  task,      \* what each request asked for
  original   \* the row a copy has read, and is about to insert again

vars == <<rows, answer, task, original>>

EmptyName == [base |-> "", copies |-> 0]
Absent == [base |-> "absent", copies |-> 0]
NoSource == "absent"
EmptySource == ""
Nobody == "nobody"   \* not logged in, or no username yet
NoRow == [id |-> "none"]

CopyName(name) == [name EXCEPT !.copies = @ + 1]

Task(op, user, id, spec, name, source) ==
  [op |-> op, user |-> user, id |-> id, spec |-> spec, name |-> name, source |-> source]

\* Mutant: the owner is not asked for.
FindById(id, user) == {row \in rows : row.id = id}

\* UserProgram::find_for_user
FindForUser(id, user) == {row \in rows : row.id = id /\ row.user = user}

\* UNIQUE(user_id, program_spec_id, file_name), as a new or changed row meets it.
Taken(id, user, spec, name) ==
  \E row \in rows : row.id # id /\ row.user = user /\ row.spec = spec /\ row.name = name

Answer(r, t, reply) ==
  /\ answer' = [answer EXCEPT ![r] = reply]
  /\ task' = [task EXCEPT ![r] = t]

Refuse(r, t, reply) == Answer(r, t, reply) /\ UNCHANGED <<rows, original>>

Init ==
  /\ rows = {}
  /\ answer = [r \in Request |-> "none"]
  /\ task = [r \in Request |-> Task("none", Nobody, "none", NoSpec, Absent, NoSource)]
  /\ original = [r \in Request |-> NoRow]

\* The converters of the two views that have one.
CreateConverter == {FkToNotFound, UniqueToExists}
UpdateConverter == {UniqueToExists, NoChangesToUpdate}

Idle(r) == answer[r] = "none" /\ task[r].op = "none"

-------------------------------------------------------------------------------
\* context.user()? comes before every view: the user is whoever the cookie named
\* when the request's context was loaded.
Unauthenticated(r, op) ==
  /\ Idle(r)
  /\ Refuse(r, Task(op, Nobody, "none", NoSpec, Absent, NoSource), "Unauthenticated")

\* CreateUserProgramView::execute
Create(r, user, spec, name, source) ==
  LET t == Task("create", user, r, spec, name, source) IN
  /\ Idle(r)
  /\ \/ name = EmptyName /\ Refuse(r, t, "ValidationErrors")
     \/ /\ name # EmptyName /\ Taken(r, user, spec, name)
        /\ Refuse(r, t, Convert(CreateConverter, "UniqueViolation"))
     \/ /\ name # EmptyName /\ ~ Taken(r, user, spec, name) /\ spec = NoSpec
        /\ Refuse(r, t, Convert(CreateConverter, "ForeignKeyViolation"))
     \/ /\ name # EmptyName /\ ~ Taken(r, user, spec, name) /\ spec # NoSpec
        /\ rows' = rows \cup {[id |-> r, user |-> user, spec |-> spec, name |-> name,
                               source |-> source]}
        /\ Answer(r, t, "Ok")
        /\ UNCHANGED original

\* Mutant: a field that was not given is written as empty.
ChangedWhole(row, name, source) ==
  [row EXCEPT !.name = IF name = Absent THEN @ ELSE name, !.source = source]

\* The row with the fields that were given.
Changed(row, name, source) ==
  [row EXCEPT !.name = IF name = Absent THEN @ ELSE name,
              !.source = IF source = NoSource THEN @ ELSE source]

\* Mutant: a save brings its row back if it is gone.
UpdateOrInsert(r, user, id, name, source) ==
  LET found == FindForUser(id, user) IN
  /\ Idle(r) /\ name # EmptyName /\ found = {} /\ id # r /\ name # Absent
  /\ rows' = rows \cup {[id |-> id, user |-> user, spec |-> CHOOSE s \in ProgramSpec : TRUE,
                         name |-> name, source |-> source]}
  /\ Answer(r, Task("update", user, id, NoSpec, name, source), "Ok")
  /\ UNCHANGED original

\* UpdateUserProgramView::execute. An update that sets nothing is refused while
\* the query is built, whether the row is there or not.
Update(r, user, id, name, source) ==
  LET t == Task("update", user, id, NoSpec, name, source)
      found == FindForUser(id, user)
      conflict == name # Absent /\ \E row \in found : Taken(id, row.user, row.spec, name)
  IN
  /\ Idle(r)
  /\ \/ name = EmptyName /\ Refuse(r, t, "ValidationErrors")
     \/ /\ name = Absent /\ source = NoSource
        /\ Refuse(r, t, Convert(UpdateConverter, "NoChangesToSave"))
     \/ /\ name # EmptyName /\ <<name, source>> # <<Absent, NoSource>>
        /\ \/ found = {} /\ Refuse(r, t, "None")
           \/ conflict /\ Refuse(r, t, Convert(UpdateConverter, "UniqueViolation"))
           \/ /\ found # {} /\ ~ conflict
              /\ rows' = (rows \ found) \cup {Changed(row, name, source) : row \in found}
              /\ Answer(r, t, "Ok")
              /\ UNCHANGED original

\* DeleteUserProgramView::execute
Delete(r, user, id) ==
  LET t == Task("delete", user, id, NoSpec, Absent, NoSource)
      found == FindForUser(id, user)
  IN
  /\ Idle(r)
  /\ \/ found = {} /\ Refuse(r, t, "None")
     \/ /\ found # {}
        /\ rows' = rows \ found
        /\ Answer(r, t, "Ok")
        /\ UNCHANGED original

\* CopyUserProgramView::execute, its SELECT
CopyRead(r, user, id) ==
  LET t == Task("copy", user, id, NoSpec, Absent, NoSource) IN
  /\ Idle(r)
  /\ \/ FindForUser(id, user) = {} /\ Refuse(r, t, "None")
     \/ \E row \in FindForUser(id, user) :
          /\ original' = [original EXCEPT ![r] = row]
          /\ task' = [task EXCEPT ![r] = t]
          /\ UNCHANGED <<rows, answer>>

CopyOf(r) == [original[r] EXCEPT !.id = r, !.user = task[r].user, !.name = CopyName(@)]

\* Mutant: the conflict is swallowed, INSERT ... ON CONFLICT DO NOTHING.
CopyInsertQuietly(r) ==
  /\ task[r].op = "copy" /\ answer[r] = "none"
  /\ LET copy == CopyOf(r) IN
     /\ rows' = IF Taken(r, copy.user, copy.spec, copy.name) THEN rows ELSE rows \cup {copy}
     /\ Answer(r, task[r], "Ok")
     /\ UNCHANGED original

\* ... and its INSERT, of what was read, whatever has happened to the row since.
\* Its refusal goes through `?`: no converter.
CopyInsert(r) ==
  /\ task[r].op = "copy" /\ answer[r] = "none"
  /\ LET copy == CopyOf(r) IN
     \/ /\ Taken(r, copy.user, copy.spec, copy.name)
        /\ Refuse(r, task[r], Convert({}, "UniqueViolation"))
     \/ /\ ~ Taken(r, copy.user, copy.spec, copy.name)
        /\ rows' = rows \cup {copy}
        /\ Answer(r, task[r], "Ok")
        /\ UNCHANGED original

Next == \E r \in Request :
  \/ \E op \in {"create", "update", "delete", "copy"} : Unauthenticated(r, op)
  \/ \E user \in User :
       \/ \E spec \in ProgramSpec \cup {NoSpec}, name \in FileName, source \in Source :
            Create(r, user, spec, name, source)
       \/ \E id \in Request :
            \/ \E name \in FileName \cup {Absent}, source \in Source \cup {NoSource} :
                 Update(r, user, id, name, source)
            \/ Delete(r, user, id)
            \/ CopyRead(r, user, id)
  \/ CopyInsert(r)

Spec == Init /\ [][Next]_vars

-------------------------------------------------------------------------------
Sent(r) == task[r].op # "none"
OkUpdates(id) == {r \in Request : task[r].op = "update" /\ task[r].id = id /\ answer[r] = "Ok"}

TypeOK ==
  /\ rows \subseteq [id : Request, user : User, spec : ProgramSpec,
                     name : [base : {n.base : n \in FileName}, copies : Nat],
                     source : Source \cup {EmptySource}]
  /\ answer \in [Request -> ErrorAnswer \cup {"none", "Ok", "None", "Unauthenticated",
                                           "ValidationErrors"}]
  /\ \A r \in Request : original[r] = NoRow \/ original[r].id \in Request

\* What a user finds in a row is something that user typed, however many copies
\* of copies it went through: find_for_user stands before every read and write
\* (models/user_program.rs:43-53).
SourcesAreOwn ==
  \A row \in rows : \E r \in Request :
    task[r].user = row.user /\ task[r].source = row.source /\ answer[r] = "Ok"

\* Two updates of different fields both survive, in either order: a row has the
\* name of its only renaming, or the one it was made with, and likewise its source
\* (user_program.rs:63-80: absent fields are left out of the UPDATE).
UpdatesMerge ==
  \A row \in rows : task[row.id].op = "create" =>
    LET renamings == {r \in OkUpdates(row.id) : task[r].name # Absent}
        savings == {r \in OkUpdates(row.id) : task[r].source # NoSource}
    IN
    /\ renamings = {} => row.name = task[row.id].name
    /\ savings = {} => row.source = task[row.id].source
    /\ \A r \in Request : renamings = {r} => row.name = task[r].name
    /\ \A r \in Request : savings = {r} => row.source = task[r].source

\* A row that was made and deleted does not come back, whatever saves and copies
\* of it are still on their way (user_program.rs:70-80, 131-151).
DeletedStaysDeleted ==
  [][\A id \in Request :
       answer[id] = "Ok" /\ task[id].op \in {"create", "copy"} /\ FindById(id, Nobody) = {} =>
         \A row \in rows' : row.id # id]_vars

\* An answer tells what happened: Ok to a create or a copy, and its row is there;
\* None, and the user had no such row; AlreadyExists to a create or an update, and
\* another row of the user for the same spec had the name; any refusal, and nothing
\* was written; only a copy ends in a database error
\* (user_program.rs:32-47, 70-90, 104-128, 141-151).
AnswersTellWhatHappened ==
  [][\A r \in Request : answer[r] = "none" /\ answer'[r] # "none" =>
       /\ answer'[r] = "Ok" /\ task'[r].op \in {"create", "copy"} =>
            \E row \in rows' : row.id = r /\ row.user = task'[r].user
       /\ answer'[r] = "None" => FindForUser(task'[r].id, task'[r].user) = {}
       /\ answer'[r] = "AlreadyExists" /\ task'[r].op = "create" =>
            Taken(r, task'[r].user, task'[r].spec, task'[r].name)
       /\ answer'[r] = "AlreadyExists" /\ task'[r].op = "update" =>
            \E row \in FindForUser(task'[r].id, task'[r].user) :
              Taken(row.id, row.user, row.spec, task'[r].name)
       /\ answer'[r] = "DatabaseError" => task'[r].op = "copy"
       /\ answer'[r] # "Ok" => rows' = rows]_vars
================================================================================
